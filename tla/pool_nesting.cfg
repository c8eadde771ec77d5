SPECIFICATION Spec
CONSTANTS
  Pools = {p1, p2}
  Threads = {t1, t2}
  Ops = {o1, o2, o3}
  NoPool = NoPool
  NoOp = NoOp
  MaxDepth = 2
INVARIANT ContinuationsAtHome
CHECK_DEADLOCK FALSE
