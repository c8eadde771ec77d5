SPECIFICATION FairEventSpec
CONSTANT Threads = {t1, t2, t3}
PROPERTIES WaitSeesSet Released
