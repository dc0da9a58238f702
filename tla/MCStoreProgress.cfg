SPECIFICATION FairSpec
CONSTANTS
  t1 = t1  t2 = t2  i1 = i1  i2 = i2
  Threads = {t1, t2}
  Instances = {i1}
  InstOf <- OneInstance
  SyncTyped = {t1}  Plain = {t2}
  MayCallHost = {t1, t2}  MayStall = {t1}  MayBeCancelled = {t1}
  MayBlockSync = {}  MayFail = {t2}  DropsFail = FALSE
  Quantum = 2
  Nobody = nobody  Drain = drain  Dtor = dtor
CHECK_DEADLOCK FALSE
PROPERTIES VerdictSound DeadlockReported NobodyStarves
