CONSTANTS
  Calls = {c1, c2, c3}
  Signals = {1, 2}
  Slots = {s1, s2}
  None = None
  ThreadOps = {"add", "dispatch", "attach", "destroySlot"}
  CallbackOps = {"dispatch", "removeAll"}
  FireOnceArgs = {FALSE}
  ClientRules = {"attached", "quiet", "ordered"}
SPECIFICATION Spec
INVARIANTS Coherent NoDeadSlotTouched NoCircularWait NobodyElseHoldsUp
PROPERTIES ImplementsConnections CallsReturn
