SPECIFICATION Spec
CONSTANTS
  Tasks = {t1, t2, t3}
  Nobody = Nobody
  BackpressureLimit = 2
  Fifo = FALSE
CHECK_DEADLOCK FALSE
PROPERTIES PoisonRefusesEntry
