SPECIFICATION FairSpec
CONSTANTS
  Threads = {w, t1, t2}
  Waiter = w
  Coroutines = {m, a, b}
  Root = Root
  Main = m
  None = None
INVARIANTS TypeOK OneRunner FramesAlive ReturnsAlone
PROPERTIES ResultIsThere CompletionResumes
CHECK_DEADLOCK FALSE
