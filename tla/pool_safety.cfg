SPECIFICATION Spec
CONSTANTS
  Workers = {w1, w2}
  Guests = {}
  Clients = {owner, client}
  Owner = owner
  Ops = {o1, o2, o3, co}
  CoroOps = {co}
  NoThread = NoThread
  NoOp = NoOp
SYMMETRY Symmetry
INVARIANTS TypeOK WorkCountExact AssertionsHold NoStrandedWork ShutdownReachesSleepers NothingAfterDestroy
PROPERTY ImplementsLedger
CHECK_DEADLOCK FALSE
