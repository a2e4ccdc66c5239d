SPECIFICATION Spec
CONSTANTS
  Cpu = {0, 1, 2}
  Spaces = 1
  Frame = {f1}
  NoEntry = NoEntry
  ActivateMasked = TRUE
  KernelRanges = {}
  Mutators = {0}
  Readers = {1}
  Operations = {"map", "free"}
  Fails = TRUE
  MaxToken = 2
  MaxIdentity = 1
  
PROPERTIES MutationsExact
CHECK_DEADLOCK FALSE
