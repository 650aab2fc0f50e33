SPECIFICATION FairSpec
CHECK_DEADLOCK FALSE
CONSTANTS
    Windows = {1, 2, 3}
    MaxEvents = 2
    MaxQueue = 2
    MaxCalls = 2
    Screens <- Displays
    Width = 3
    Height = 2
    CodePoints = {65, 44032}
    Wide = {44032}
    Texts <- Written
    CellSizes <- Fonts
    Places <- Corners
    Shades = {0, 255}
    Covered = {1, 128, 255}
    MaxFonts = 2
    Files <- FontFiles
    Chance = {0, 2}
    Strays <- StraySubtables
    Codes = {0, 2, 3, 4, 5, 6, 7, 9, 10}
    EM = 4
    fontXMin <- BelowZero
    fontYMin <- BelowZero
    BEZIER_STEPS = 3
    Outlines <- Shapes
    Cells <- CellShapes
INVARIANTS
    WindowsKnown
    DrawnInside
    GlyphsFound
    OutlinesFilled
PROPERTY
    DesktopProceeds
