CONSTANTS
  Calls = {c1, c2, c3}
  Signals = {1}
  Slots = {s1, s2}
  None = None
  ThreadOps = {"add", "remove", "removeAll", "dispatch", "query",
               "setActive", "attach", "destroySlot", "destroySignal"}
  CallbackOps = {"add", "remove", "removeAll", "dispatch", "query",
                 "setActive", "attach", "destroySlot"}
  FireOnceArgs = {FALSE}
  ClientRules = {"attached", "quiet"}
SPECIFICATION Spec
SYMMETRY Symmetry
INVARIANTS TypeOK LocksExact Coherent CallbackSafe NoDeadSlotTouched NoDeadSignalNamed
PROPERTIES ListStableForReaders UsesLock ImplementsConnections
CHECK_DEADLOCK FALSE
