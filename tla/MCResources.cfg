SPECIFICATION MCSpec
CONSTANTS
  impl = impl
  a = a
  b = b
  Inst <- ThreeInstances
  Impl = impl
  Index = {1}
  MaxReps = 1
  MaxCalls = 3
  MaxWrappers = 3
  HostLeaves = FALSE
SYMMETRY OtherInstances
CHECK_DEADLOCK FALSE
INVARIANTS SoleOwner BorrowsSound
