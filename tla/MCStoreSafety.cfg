SPECIFICATION Spec
CONSTANTS
  t1 = t1  t2 = t2  i1 = i1  i2 = i2
  Threads = {t1, t2}
  Instances = {i1}
  InstOf <- OneInstance
  SyncTyped = {t1}  Plain = {}
  MayCallHost = {t2}  MayStall = {t2}  MayBeCancelled = {t1}
  MayBlockSync = {t1}  MayFail = {t2}  DropsFail = TRUE
  Quantum = 2
  Nobody = nobody  Drain = drain  Dtor = dtor
CHECK_DEADLOCK FALSE
INVARIANTS NoLostWakeup
PROPERTIES OwnAnswer SyncTrapSound
