SPECIFICATION HSpec
CONSTANTS
  Queues = {q1, q2, q3}
  Ops = {o1, o2, co}
  CoroOps = {co}
  Null = Null
SYMMETRY Symmetry
INVARIANTS TailsAreNull TakenAreDetached OwnedOnce EmptyAgrees
PROPERTY ImplementsFifo
