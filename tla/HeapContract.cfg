SPECIFICATION FairSpec
CONSTANTS
    PAGE_SIZE = 160
    MIN_SLOT_PER_CHUNK = 2
    BITMAP_BITS = 2
    SMALL_MAX = 32
    Region = {r1, r2}
    NULL = NULL
    MMAP_MARK = MMAP_MARK
    Sizes = {0, 16, 32, 40}
    SIZE_MOD = 256
    Data = {d1}
    UNWRITTEN = UNWRITTEN
    MaxBlocks = 6
PROPERTIES
    AbstractSpec
    CallReturns
