CONSTANTS
  Calls = {c1, c2}
  Signals = {1}
  Slots = {s1}
  None = None
  ThreadOps = {"add", "remove", "removeAll", "dispatch", "query",
               "setActive", "attach", "destroySlot", "destroySignal"}
  CallbackOps = {"dispatch", "query", "removeAll"}
  FireOnceArgs = {FALSE}
  ClientRules = {"attached", "ordered"}
SPECIFICATION Spec
SYMMETRY Symmetry
INVARIANTS FunctionsExist
