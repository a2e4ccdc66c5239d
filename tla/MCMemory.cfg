SPECIFICATION Spec
CONSTANTS
    Parts = {"pmm", "heap", "loader", "image", "copy"}
    PmmTotal = 7
    PmmPage = 2
    PmmWrap = 32
    PmmLow = 2
    PmmRanges <- MCPmmRanges
    PmmCounts = {0, 1, 2, 3}
    PmmMaxHeld = 4
    HeapHeader = 2
    HeapAlign = 2
    HeapPage = 8
    HeapBinLimits <- MCHeapBinLimits
    HeapGrowPages = 1
    HeapPages = 3
    HeapMachine = 4
    HeapSizes = {0, 1, 4, 9}
    HeapWord = 256
    Fan = 7
    RetireChunk = 2
    KernelRoot = 200
    Records = {r1, r2}
    ExecSlots = {0, 1}
    CodeRoom = 2
    HeapRoom = 1
    RegionMax = 5
    Images <- MCImages
    Pool <- MCPool
    Hoards = {0, 1, 2, 3, 5, 7}
    HeapBreaks = {0, 1}
    ArenaSizes = {3}
    ArenaPages <- MCArenaPages
    LeafAcks = {TRUE}
    MaxLaunches = 2
    MaxSide = 2
    ImgWrap = 32
    ImgPage = 4
    ImgSize = 3
    ImgRoom = 12
    Headers <- MCHeaders
    Entries = {8}
    MaxHeaders = 2
    ArgMax = 2
    MaxLine = 7
    UcPage = 2
    UcLimit = 7
    UcWrap = 8
    UcRequests <- MCUcRequests
    UcBytes = {0, 4}
    UcVersion = 1
    UcDest = 4
    UcMin = 2
    UcSteps = 2
    Utf8Lead = {127, 128, 191, 192, 193, 194, 223, 224, 237, 239, 240, 244, 245}
    Utf8Next = {127, 128, 143, 144, 159, 160, 191, 192, 194}
    Utf8Max = 4
SYMMETRY AnyRecord
INVARIANTS PmmExact HeapExact  CopySound
CHECK_DEADLOCK FALSE
