-------------------------------- MODULE WinDraw --------------------------------
(***************************************************************************)
(* Drawing text: Font::draw into any buffer (src/src/myos.cpp:595-627),    *)
(* and WinDraw, which draws glyphs from its cache into a window            *)
(* (629-674, 702-708, src/include/myos:243).  One turn of the loop over    *)
(* the text is one step; a text is a sequence of code points here (Utf8    *)
(* has their decoding).  What a glyph looks like is left open.             *)
(***************************************************************************)
EXTENDS Integers, Sequences, FiniteSetsExt

CONSTANTS
    Screens,      \* what get_ginfo may answer: [width, height, format]
    Width, Height,\* the window, in pixels
    CodePoints, Wide,   \* the code points of texts; those two cells wide
    Texts,        \* the texts drawn, sequences of code points; 10 is '\n'
    CellSizes,    \* the cells given to setFont and Font::draw: <<width, height>>
    Places,       \* where a text or a pixel is put: <<x, y>>
    Shades,       \* of a channel of the text's colour and of the target
    Covered,      \* how much of a pixel a glyph covers; with 0 nothing is painted
    MaxFonts      \* bound: the calls of setFont

(* The sizes are unsigned and the places signed (include/myos:243-246).    *)
WinDrawAssumption ==
    /\ Screens \subseteq [width : Nat, height : Nat, format : 0 .. 3]
    /\ Width \in Nat \ {0} /\ Height \in Nat \ {0}
    /\ IsFiniteSet(CodePoints) /\ Wide \subseteq CodePoints
    /\ Texts \subseteq Seq(CodePoints \cup {10})
    /\ CellSizes \subseteq Nat \X Nat /\ Places \subseteq Int \X Int
    /\ Shades \subseteq 0 .. 255 /\ Covered \subseteq 1 .. 255
    /\ MaxFonts \in Nat

VARIABLES
    screen,   \* what get_ginfo answered
    bytes,    \* the size of the window's gbuf, Null if there is none
    font,     \* the number of the font in use, 0 before setFont
    cell,     \* cellW and cellH
    cache,    \* of each code point: its coverage [size, font], or NoGlyph
    live,     \* the coverage arrays allocated and not deleted
    job,      \* the drawing call in progress: [W, H, cw, ch, own], or Idle
    rest, pen, left,  \* the text left, the pen, and where a line begins
    last      \* the last glyph or pixel: [pixels, at, w, h, read, size, font, paper, to, ink, a]

vars == <<screen, bytes, font, cell, cache, live, job, rest, pen, left, last>>

Null == -1
Idle == [W |-> 0, H |-> 0, cw |-> 0, ch |-> 0, own |-> FALSE]
NoGlyph == [size |-> 0, font |-> 0]
Untouched == [pixels |-> {}, at |-> <<0, 0>>, read |-> -1, size |-> 0, font |-> 0, w |-> 0, h |-> 0,
              paper |-> 0, to |-> 0, ink |-> 0, a |-> 255]

(* myos.cpp:242-247: for a bit mask the highest bit of the screen's width  *)
(* and height decides; both are below 2^31 here.                           *)
Highest(a, b) == LET bit(v, i) == (v \div 2^i) % 2
               IN  Max({0} \cup {i \in 0 .. 30 : bit(a, i) = 1 \/ bit(b, i) = 1})

(* myos.cpp:235-252 *)
bytesPerPixel(s) ==
    CASE s.format \in {0, 1} -> 4
      [] s.format = 2 -> (Highest(s.width, s.height) + 8) \div 8
      [] OTHER -> 0

-----------------------------------------------------------------------------
(* Glyphs. *)

(* myos.cpp:637, 657 *)
CellsWide(cp, w) == IF cp \in Wide THEN 2 * w ELSE w

\* error: what lies left of the target is not left out
ClippedRight(at, cw, ch, W, H) ==
    {y * W + x : x \in {v \in at[1] .. at[1] + cw - 1 : v < W},
                 y \in {v \in at[2] .. at[2] + ch - 1 : v >= 0 /\ v < H}}

(* myos.cpp:608-613, 661-665: the pixels of the target a cell covers.      *)
Clipped(at, cw, ch, W, H) ==
    {y * W + x : x \in {v \in at[1] .. at[1] + cw - 1 : v >= 0 /\ v < W},
                 y \in {v \in at[2] .. at[2] + ch - 1 : v >= 0 /\ v < H}}

(* myos.cpp:616-619, 667-669: one channel, a being the coverage.           *)
Blend(ink, paper, a) == (ink * a + paper * (255 - a)) \div 255

(* myos.cpp:633-647 *)
getGlyph(cp) ==
    IF cache[cp] # NoGlyph THEN [size |-> cache[cp].size, font |-> cache[cp].font, new |-> 0]
    ELSE [size |-> CellsWide(cp, cell[1]) * cell[2], font |-> font, new |-> 1]

(* myos.cpp:630-632 *)
Destroy ==
    /\ cache' = [cp \in CodePoints |-> NoGlyph]
    /\ live' = live - Cardinality({cp \in CodePoints : cache[cp] # NoGlyph})

-----------------------------------------------------------------------------
(* The calls. *)

(* include/myos:243 *)
setFont(c) ==
    /\ job = Idle /\ font < MaxFonts
    /\ font' = font + 1 /\ cell' = c
    /\ UNCHANGED <<screen, bytes, cache, live, job, rest, pen, left, last>>

Begin(call, text, at) ==
    /\ job' = call /\ rest' = text
    /\ pen' = at /\ left' = at[1] /\ last' = Untouched
    /\ UNCHANGED <<screen, bytes, font, cell, cache, live>>

(* myos.cpp:648-653 *)
drawText(text, at) ==
    /\ job = Idle /\ font # 0 /\ bytes # Null
    /\ Begin([W |-> Width, H |-> Height, cw |-> cell[1], ch |-> cell[2], own |-> FALSE], text, at)

(* myos.cpp:595-602: px = 0 stands for the height of the buffer, and       *)
(* advance = 0 for px.                                                     *)
draw(text, at, c) ==
    LET px == IF c[2] = 0 THEN Height ELSE c[2]
    IN  /\ job = Idle
        /\ Begin([W |-> Width, H |-> Height, cw |-> IF c[1] = 0 THEN px ELSE c[1], ch |-> px, own |-> TRUE], text, at)

Drawing(newline) == job # Idle /\ rest # <<>> /\ (Head(rest) = 10) = newline

(* myos.cpp:604, 655 *)
Newline ==
    /\ Drawing(TRUE)
    /\ pen' = <<left, pen[2] + job.ch>> /\ rest' = Tail(rest)
    /\ UNCHANGED <<screen, bytes, font, cell, cache, live, job, left, last>>

Paint(cw, size, of, paper, ink, a) ==
    LET pixels == Clipped(pen, cw, job.ch, job.W, job.H)
        rows == {y \in 0 .. job.ch - 1 : pen[2] + y >= 0 /\ pen[2] + y < job.H}
        columns == {x \in 0 .. cw - 1 : pen[1] + x >= 0 /\ pen[1] + x < job.W}
    IN  /\ last' = [pixels |-> pixels, at |-> pen, size |-> size, font |-> of, w |-> cw, h |-> job.ch,
                    read |-> IF rows = {} \/ columns = {} THEN -1 ELSE Max(rows) * cw + Max(columns),
                    paper |-> paper, ink |-> ink, a |-> a, to |-> Blend(ink, paper, a)]
        /\ pen' = <<pen[1] + cw, pen[2]>>
        /\ rest' = Tail(rest)

(* myos.cpp:605-625: one cell for every character, the font's own.         *)
DrawGlyph(paper, ink, a) ==
    /\ Drawing(FALSE) /\ job.own
    /\ Paint(job.cw, job.cw * job.ch, 0, paper, ink, a)
    /\ UNCHANGED <<screen, bytes, font, cell, cache, live, job, left>>

(* myos.cpp:656-672: with a cell of no size there is no glyph.             *)
TextGlyph(paper, ink, a) ==
    /\ Drawing(FALSE) /\ ~ job.own
    /\ LET cp == Head(rest)
           glyph == getGlyph(cp)
       IN  IF cell[1] = 0 \/ cell[2] = 0
           THEN /\ rest' = Tail(rest) /\ pen' = <<pen[1] + CellsWide(cp, job.cw), pen[2]>>
                /\ UNCHANGED <<cache, live, last>>
           ELSE /\ Paint(CellsWide(cp, job.cw), glyph.size, glyph.font, paper, ink, a)
                /\ cache' = [cache EXCEPT ![cp] = [size |-> glyph.size, font |-> glyph.font]]
                /\ live' = live + glyph.new
    /\ UNCHANGED <<screen, bytes, font, cell, job, left>>

Finish ==
    /\ job # Idle /\ rest = <<>>
    /\ job' = Idle
    /\ UNCHANGED <<screen, bytes, font, cell, cache, live, rest, pen, left, last>>

(* myos.cpp:702-708 *)
drawPixel(at) ==
    /\ job = Idle /\ bytes # Null
    /\ last' = [Untouched EXCEPT !.pixels = Clipped(at, 1, 1, Width, Height), !.at = at, !.w = 1, !.h = 1]
    /\ UNCHANGED <<screen, bytes, font, cell, cache, live, job, rest, pen, left>>

(* A WinDraw ends, and another one begins on the same window (629).        *)
Renew ==
    /\ job = Idle /\ font # 0
    /\ Destroy
    /\ font' = 0 /\ cell' = <<Width, Height>> /\ last' = Untouched
    /\ UNCHANGED <<screen, bytes, job, rest, pen, left>>

Init ==
    /\ screen \in Screens
    /\ bytes \in {Null, Width * Height * bytesPerPixel(screen)}
    /\ font = 0 /\ cell = <<Width, Height>>
    /\ cache = [cp \in CodePoints |-> NoGlyph] /\ live = 0
    /\ job = Idle /\ rest = <<>> /\ pen = <<0, 0>> /\ left = 0 /\ last = Untouched

Step ==
    \/ Newline
    \/ \E paper, ink \in Shades, a \in Covered : DrawGlyph(paper, ink, a) \/ TextGlyph(paper, ink, a)
    \/ Finish

Next ==
    \/ \E c \in CellSizes : setFont(c)
    \/ \E text \in Texts, at \in Places : drawText(text, at)
    \/ \E text \in Texts, at \in Places, c \in CellSizes : draw(text, at, c)
    \/ \E at \in Places : drawPixel(at)
    \/ Step
    \/ Renew

Spec == Init /\ [][Next]_vars

-----------------------------------------------------------------------------
(* Properties. *)

(* Every pixel painted is one of the target, in a row and a column of the  *)
(* cell it belongs to: a cell that hangs over an edge paints nothing in    *)
(* the rows beside it (myos.cpp:609-612, 662-664, 706).                    *)
PaintsInCell ==
    \A i \in last.pixels :
        /\ i \in 0 .. Width * Height - 1
        /\ i % Width \in last.at[1] .. last.at[1] + last.w - 1
        /\ i \div Width \in last.at[2] .. last.at[2] + last.h - 1

(* A painted channel lies between the paper and the ink, and is the ink    *)
(* where the glyph covers the pixel (myos.cpp:616-618, 667-669).           *)
InkTowards ==
    /\ last.to \in last.paper .. last.ink \/ last.to \in last.ink .. last.paper
    /\ last.a = 255 => last.to = last.ink

(* A glyph of the font in use is read inside its coverage array, one or    *)
(* two cells wide (myos.cpp:637-643, 657-665); only one cached for an      *)
(* earlier font may be too small.                                          *)
OwnGlyphsFit == last.font = font => last.read < last.size \/ last.size = 0

(* The cache owns every array allocated for it: none is allocated twice,   *)
(* and the destructor leaves none (myos.cpp:630-632, 635-646).             *)
CacheOwns == live = Cardinality({cp \in CodePoints : cache[cp] # NoGlyph})

(* Painting writes four bytes for each pixel; it leaves the window's       *)
(* buffer only on a screen of format 2 or 3, whose pixels have two bytes   *)
(* or none there (myos.cpp:242-251, 255).                                  *)
FourBytePixels ==
    bytes # Null /\ (job = Idle \/ ~ job.own)
        => (\A i \in last.pixels : 4 * (i + 1) <= bytes) \/ screen.format \in {2, 3}
===============================================================================
