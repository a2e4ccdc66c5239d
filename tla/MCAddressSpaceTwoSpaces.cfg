SPECIFICATION Spec
CONSTANTS
  Cpu = {0, 1}
  Spaces = 2
  Frame = {f1}
  NoEntry = NoEntry
  ActivateMasked = TRUE
  KernelRanges = {}
  Mutators = {0}
  Readers = {}
  Operations = {"map", "free"}
  Fails = FALSE
  MaxToken = 2
  MaxIdentity = 2
INVARIANT NoStaleFrame
CHECK_DEADLOCK FALSE
