SPECIFICATION Spec
CONSTANTS
  Generators = {g1, g2, g3}
  Frames = {f1, f2}
  Loops = {l1, l2}
  Null = Null
  MaxYields = 2
INVARIANTS FramesOwned EachValueOnce
CHECK_DEADLOCK FALSE
