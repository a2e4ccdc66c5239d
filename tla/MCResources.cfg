SPECIFICATION Spec
CONSTANTS
  CPU = {c1, c2, c3}
  l1 = l1
  l2 = l2
  l3 = l3
  l4 = l4
  Lock = {l1, l2, l3, l4}
  Class <- MCClass
  MaxClass = 2
  StackMax = 2
  NoOwner = NoOwner
  p1 = p1  p2 = p2  t1 = t1  t2 = t2
  Process = {p1, p2}
  Thread = {t1, t2}
  Owner <- MCOwner
  TableSize = 2
  Objects <- MCObjects
  Pages = 1
  Frames = 1
  MaxTotal = 1
  MailCapacity = 1
  MaxHandles = 1
  MappingMax = 1
  UnmapMayFail = TRUE
  Histories <- MCHistories
  Creations <- MCCreations
  Allocations = 2
  Restarts <- MCRestarts
  Images <- MCImages
  Bases = {4, 12, 36, 48}
  WordBits = 6
  Ptr = 4
  Rel = 2
  PageSize = 4
  MaxSections = 3
  MaxImports = 1
  EntrySize = 2
  ManifestSize = 4
  DependencySize = 2
  BlockSize = 2
  ArenaPages = 12
  GuardPages = 1
  VaSlots = 3
  VaOwner = {"disk", "net"}
  MaxVaGen = 2
  MmioPages = 4
  MmioSlots = 2
  MmioCaller = {"thread", "irq"}
  Window <- MCWindow
  MaxMmioGen = 3
  DmaOwner = {"disk"}
  AllocSlots = 2
  AllocPages = 2
  AtomicSlots = 1
  AllocBudget = 3
  DmaPages = 2
  BufferSlots = 2
  MappingSlots = 1
  OwnerBudget = 2
  GlobalBudget = 2
  MaxSources = 2
  Requests <- MCRequests
  Direction = {"to", "from"}
  MaxAllocGen = 2
  MaxDmaGen = 1
INVARIANTS
  NoSpinCycle LockDiscipline HandlesSound  ImageConfined DmaExact
PROPERTIES ArenaExact
CHECK_DEADLOCK FALSE
