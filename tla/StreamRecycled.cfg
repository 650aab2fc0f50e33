SPECIFICATION Spec
CONSTANTS
    BUFSIZE = 2
    UNGET_MAX = 1
    Byte = {10, 200}
    NEWLINE = 10
    LINE_BUFFERED = FALSE
    START_LIMIT = 0
    RECYCLED = TRUE
    ReadFails = FALSE
    WriteFails = FALSE
    ShortReads = FALSE
    ShortWrites = FALSE
    Counts = {1, 2}
    Offsets = {0, 1}
    MaxFile = 3
PROPERTIES
    FreadReadsTheFile
