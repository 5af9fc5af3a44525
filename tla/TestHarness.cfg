CONSTANTS
  TestCases = {t1, t2, t3}
  Messages = {"", "failed"}
  MaxRuns = 2
SPECIFICATION Spec
INVARIANTS TypeOK TableIntact SkippedOnlyAfterFailure
PROPERTIES ReportsRight LoopEnds
CHECK_DEADLOCK FALSE
