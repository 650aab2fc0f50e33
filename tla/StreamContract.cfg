SPECIFICATION Spec
CONSTANTS
    BUFSIZE = 2
    UNGET_MAX = 2
    Byte = {10, 200}
    NEWLINE = 10
    LINE_BUFFERED = TRUE
    START_LIMIT = 0
    RECYCLED = FALSE
    ReadFails = TRUE
    WriteFails = FALSE
    ShortReads = TRUE
    ShortWrites = FALSE
    Counts = {1, 2, 3}
    Offsets = {0, 1}
    MaxFile = 3
INVARIANTS
    TypeOK
    BufferMirrorsFile
    CompleteLinesOut
PROPERTIES
    AbstractSpec
    PositionsAgree
