SPECIFICATION FairSpec
CONSTANT Threads = {t1, t2, t3}
PROPERTY HandOver
CHECK_DEADLOCK FALSE
