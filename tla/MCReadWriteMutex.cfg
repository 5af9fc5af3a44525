CONSTANT Guards = {g1, g2, g3, g4}
SPECIFICATION Spec
INVARIANTS TypeOK Exclusion CountersExact NoLostWakeup
PROPERTIES WaitersServed ImplementsLock
