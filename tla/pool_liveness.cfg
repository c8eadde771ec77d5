SPECIFICATION FairSpec
CONSTANTS
  Workers = {w1}
  Guests = {g1}
  Clients = {owner}
  Owner = owner
  Ops = {o1, o2, o3}
  CoroOps = {}
  NoThread = NoThread
  NoOp = NoOp
PROPERTIES Served ShutdownReturns WaitReturns WaitDrains
CHECK_DEADLOCK FALSE
