SPECIFICATION FairSpec
CHECK_DEADLOCK FALSE
CONSTANTS
    PAGE_SIZE = 4096
    MIN_SLOT_PER_CHUNK = 16
    SMALL_MAX = 2048
    Requests <- BoundarySizes
    WORD = 65536
    MMAP_THRESHOLD = 128
    BASE = 64
    LIMIT = 240
    KernelSizes = {0, 1, 8, 9, 120, 121, 2049, 65519, 65520, 65529, 65535}
    MaxKernelCalls = 3
    Bytes = {1, 2, 3}
    NewSizes = {0, 1, 2, 4}
    Handlers = {"releases", "installs", "uninstalls", "nothing"}
    StringNames = {"s", "t"}
    Literals <- SomeLiterals
    Chars = {1, 2}
    MaxString = 3
    VectorNames = {"u", "v"}
    Values = {1, 2}
    MaxVector = 3
    Keys = {1, 2, 3}
    MaxInput = 7
    SMALL = 2
INVARIANTS
    ChunksShaped
    RoomAnswered
    ContainersSound
PROPERTIES
    ContainersImplement
    MemoryEnds
