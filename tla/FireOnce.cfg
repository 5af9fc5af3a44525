CONSTANTS
  Calls = {c1, c2}
  Signals = {1}
  Slots = {s1}
  None = None
  ThreadOps = {"add", "dispatch", "attach", "query"}
  CallbackOps = {"dispatch", "query", "removeAll"}
  FireOnceArgs = {TRUE}
  ClientRules = {"attached", "quiet", "ordered"}
SPECIFICATION Spec
PROPERTIES FiredOnceLeaves
