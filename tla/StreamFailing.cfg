SPECIFICATION FairSpec
CONSTANTS
    BUFSIZE = 2
    UNGET_MAX = 1
    Byte = {10, 200}
    NEWLINE = 10
    LINE_BUFFERED = FALSE
    START_LIMIT = 0
    RECYCLED = FALSE
    ReadFails = FALSE
    WriteFails = TRUE
    ShortReads = FALSE
    ShortWrites = FALSE
    Counts = {1, 2, 3}
    Offsets = {0, 1}
    MaxFile = 4
PROPERTIES
    AbstractSpec
    EndOnlyAtEnd
    CallsEnd
