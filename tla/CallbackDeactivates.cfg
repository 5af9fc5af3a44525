CONSTANTS
  Calls = {c1, c2}
  Signals = {1}
  Slots = {s1}
  None = None
  ThreadOps = {"add", "dispatch", "attach"}
  CallbackOps = {"setActive"}
  FireOnceArgs = {FALSE}
  ClientRules = {"attached", "quiet"}
SPECIFICATION Spec
PROPERTIES CallsReturn
CHECK_DEADLOCK FALSE
