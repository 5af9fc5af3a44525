CONSTANTS
  Clients = {main, other}
  Tasks = {a, b}
  Workers = {1, 2}
  HardwareConcurrency = {0, 3}
  ExplicitThreads = {0}
  Nothing = Nothing
SPECIFICATION Spec
INVARIANTS TypeOK TasksInOnePlace GoneCleanly
PROPERTIES TasksTakeTheirCourse TasksStart DestroyReturns
CHECK_DEADLOCK FALSE
