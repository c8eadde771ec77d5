SPECIFICATION Spec
CONSTANT Threads = {t1, t2, t3, t4, t5}
SYMMETRY Symmetry
INVARIANTS TypeOK MutualExclusion
PROPERTY ContentionIsFinal
CHECK_DEADLOCK FALSE
