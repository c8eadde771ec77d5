SPECIFICATION FairSpec
CONSTANTS
  Ops = {s1, s2, d1, d2}
  Loop = Loop
  Null = Null
  Waiter = Waiter
  Helpers = {h1, h2}
  Detached = {d1, d2}
INVARIANTS TypeOK ListIntact ReturnsDrained ResultIsRight LateCallers
PROPERTIES LoopIsFifo CompletionReturns
CHECK_DEADLOCK FALSE
