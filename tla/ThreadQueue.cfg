CONSTANTS
  Threads = {t1, t2, t3, t4}
  Values = {v1, v2}
  Nothing = Nothing
  MaxLength = 3
SPECIFICATION Spec
INVARIANTS TypeOK NoLostWakeup
PROPERTIES ImplementsFifo
