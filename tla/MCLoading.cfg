SPECIFICATION Spec
CONSTANTS
  Procs = {p1, p2}
  Backends = {"dir", "web", "none"}
  MaxFaults = 1
  MaxCrashes = 1
  Insts = {i1, i2, i3}
  Plans = {"p", "q"}
  Binaries = {"a", "b", "c", "d"}
  Damaged = {"c"}
  Misfit = {"d"}
  MaxRefused = 1
  Keys <- MCKeys
  MaxKeys = 3
  Callers = {c1, c2}
  MaxCalls = 2
  MaxTraps = 1
  Inputs <- MCInputs
  Signatures <- MCSignatures
  Texts <- MCTexts
  Guests <- MCGuests
  MaxFlatParams = 4
  MaxFlatAsyncParams = 2
  MaxFlatResults = 1
  MaxFutureHops = 3
  MaxChunk = 2
  MaxWrites = 2
  MaxTurns = 3
  Threads = {t1, t2}
  Homes = {"a", "b"}
  MaxImports = 4
  MaxNested = 2
  MaxTrips = 2
\* Every scene comes to its end.
CHECK_DEADLOCK FALSE
INVARIANTS HitIsWhole OwnModulesOnly OrderIsImmaterial SuspensionFits CallsSettled ValuesCross FutureSettles WriterAnswered HandlesTold Attributed
