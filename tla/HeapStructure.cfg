SPECIFICATION Spec
CONSTANTS
    PAGE_SIZE = 160
    MIN_SLOT_PER_CHUNK = 2
    BITMAP_BITS = 3
    SMALL_MAX = 32
    Region = {r1, r2, r3}
    NULL = NULL
    MMAP_MARK = MMAP_MARK
    Sizes = {0, 16, 32, 40}
    SIZE_MOD = 256
    Data = {}
    UNWRITTEN = UNWRITTEN
    MaxBlocks = 5
SYMMETRY RegionSymmetry
CONSTRAINT FewBlocks
INVARIANTS
    TypeOK
    WellFormed
    NothingLeaks
