SPECIFICATION Spec
CONSTANTS
  IllFormed = IllFormed
  Void = Void
  Eptr = Eptr
  T = T
  U = U
  Answer = T
  Types = {T, U, Eptr}
  MaxFns = 3
  Functions <- MCFunctions
  Bases <- MCBases
INVARIANTS SignaturesExact DeliveredIsDeclared
CHECK_DEADLOCK FALSE
