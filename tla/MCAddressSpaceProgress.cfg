SPECIFICATION FairSpec
CONSTANTS
  Cpu = {0, 1}
  Spaces = 1
  Frame = {f1}
  NoEntry = NoEntry
  ActivateMasked = TRUE
  KernelRanges = {FALSE}
  Mutators = {0, 1}
  Readers = {0}
  Operations = {"map", "unmap", "free", "protect"}
  Fails = FALSE
  MaxToken = 1
  MaxIdentity = 2
PROPERTIES OperationEnds
CHECK_DEADLOCK FALSE
