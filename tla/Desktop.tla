-------------------------------- MODULE Desktop -------------------------------
(***************************************************************************)
(* The screen: Window, WinDraw, FontFile and Glyph side by side.  They     *)
(* share no state, so a behaviour runs one of them, `part`, and the others *)
(* keep one of their initial states: the states add up, and do not         *)
(* multiply.                                                               *)
(***************************************************************************)
EXTENDS Integers, Sequences

CONSTANTS
    Windows, MaxEvents, MaxQueue, MaxCalls,                    \* Window
    Screens, Width, Height, CodePoints, Wide, Texts, CellSizes, Places, Shades, Covered, MaxFonts,   \* WinDraw
    Files, Codes, Chance, Strays,                              \* FontFile
    EM, fontXMin, fontYMin, BEZIER_STEPS, Outlines, Cells      \* Glyph

VARIABLES
    part,
    phase, id, gbuf, ginfo, at, who, toServer, inbox, shown, refused, destroyed, count,  \* Window
    screen, bytes, font, cell, cache, live, job, rest, pen, left, last,                  \* WinDraw
    file, pc, i, record, fields, segments, answer,                                       \* FontFile
    outline, stage, c, j, cur, cs, cg, gs, lines, row, gd                                \* Glyph

window == <<phase, id, gbuf, ginfo, at, who, toServer, inbox, shown, refused, destroyed, count>>
windraw == <<screen, bytes, font, cell, cache, live, job, rest, pen, left, last>>
fontfile == <<file, pc, i, record, fields, segments, answer>>
glyph == <<outline, stage, c, j, cur, cs, cg, gs, lines, row, gd>>
vars == <<part, window, windraw, fontfile, glyph>>

Shown == INSTANCE Window
Drawing == INSTANCE WinDraw
Loading == INSTANCE FontFile WITH at <- record
Filling == INSTANCE Glyph WITH pc <- stage

ASSUME DesktopAssumption ==
    /\ Shown!WindowAssumption /\ Drawing!WinDrawAssumption
    /\ Loading!FontFileAssumption /\ Filling!GlyphAssumption

(* What a part that does not run has.                                      *)
AScreen == CHOOSE s \in Screens : TRUE
AFile == CHOOSE f \in Files : TRUE
AnOutline == CHOOSE o \in Outlines : TRUE

Init ==
    /\ part \in {"window", "windraw", "fontfile", "glyph"}
    /\ Shown!Init
    /\ Drawing!Init /\ (part # "windraw" => screen = AScreen /\ bytes = -1)
    /\ Loading!Init /\ (part # "fontfile" => file = AFile /\ pc = "header")
    /\ Filling!Init /\ (part # "glyph" => outline = AnOutline)

ConstructorStep == part = "window" /\ Shown!Constructor /\ UNCHANGED <<part, windraw, fontfile, glyph>>
ServerStep == part = "window" /\ Shown!Server /\ UNCHANGED <<part, windraw, fontfile, glyph>>
WindowStep == part = "window" /\ Shown!Next /\ UNCHANGED <<part, windraw, fontfile, glyph>>
DrawStep == part = "windraw" /\ Drawing!Next /\ UNCHANGED <<part, window, fontfile, glyph>>
LoadStep == part = "fontfile" /\ Loading!Load /\ UNCHANGED <<part, window, windraw, glyph>>
LookupStep ==
    /\ part = "fontfile" /\ \E unicode \in Codes : Loading!Lookup(unicode)
    /\ UNCHANGED <<part, window, windraw, glyph>>
GlyphStep == part = "glyph" /\ Filling!Next /\ UNCHANGED <<part, window, windraw, fontfile>>

Next == WindowStep \/ DrawStep \/ LoadStep \/ LookupStep \/ GlyphStep

Spec == Init /\ [][Next]_vars

(* The program runs on, and the server serves.                             *)
FairSpec ==
    Spec /\ WF_vars(ConstructorStep) /\ WF_vars(ServerStep) /\ WF_vars(LoadStep) /\ WF_vars(GlyphStep)

-----------------------------------------------------------------------------
(* Properties.  Each is the conjunction of properties stated, and          *)
(* explained, in the module of the component that runs.                    *)

(* Windows: for every event a constructor took for its answer, an answer   *)
(* is owed to nobody, so many windows and no more may return unmade, and   *)
(* the server is asked to draw an unknown window only after destroy.       *)
WindowsKnown ==
    part = "window" => Shown!TypeOK /\ Shown!AnswersOwed /\ Shown!LateWindows /\ Shown!OneEventEach /\ Shown!FramesKnown

(* Drawing: no text or glyph paints outside of the target, whatever hangs  *)
(* over its edges, ink goes where it is meant, and cached glyphs fit the   *)
(* font they are drawn with and are deleted once.                          *)
DrawnInside ==
    part = "windraw" =>
        /\ Drawing!PaintsInCell /\ Drawing!InkTowards /\ Drawing!OwnGlyphsFit /\ Drawing!CacheOwns
        /\ Drawing!FourBytePixels

(* Font files: in whatever order the tables come, and wherever the file is *)
(* cut off, each is found, and a code leads to the glyph the file names    *)
(* and to the data its index gives.                                        *)
GlyphsFound ==
    part = "fontfile" =>
        Loading!TablesFound /\ Loading!FirstFormatFour /\ Loading!GlyphAsNamed /\ Loading!GlyphDataFound

(* Glyphs: every contour becomes a closed chain, every pixel inside of it  *)
(* is filled, and neighbouring cells meet without a gap.                   *)
OutlinesFilled ==
    part = "glyph" => Filling!ChainsClosed /\ Filling!LinesBegin /\ Filling!FilledWhereWound /\ Filling!BoxesTile

(* Progress: constructors return, fonts are loaded, glyphs are drawn.      *)
Busy ==
    CASE part = "window" -> Shown!Busy [] part = "fontfile" -> Loading!Busy [] part = "glyph" -> Filling!Busy
      [] OTHER -> FALSE
DesktopProceeds == Busy ~> ~ Busy
==============================================================================
