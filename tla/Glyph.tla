--------------------------------- MODULE Glyph -------------------------------
(***************************************************************************)
(* Drawing a glyph (src/src/myos.cpp:470-555): its contours, given here by *)
(* their points, become segments, the segments lines, the rows between the *)
(* lines are filled, and the grid is averaged down to the cell.  A turn of *)
(* the loop over the points, and a row, is a step.                         *)
(***************************************************************************)
EXTENDS Integers, Sequences, SequencesExt, FiniteSetsExt, TLC

CONSTANTS
    EM,                  \* unitsPerEm
    fontXMin, fontYMin,
    BEZIER_STEPS,
    Outlines,            \* sequences of contours, sequences of points [x, y, onCurve]
    Cells                \* sizes <<bw, bh>> of the cell

GlyphAssumption ==
    /\ EM \in Nat \ {0} /\ BEZIER_STEPS \in Nat \ {0}
    /\ \A o \in Outlines : \A c \in DOMAIN o : o[c] # <<>>

VARIABLES
    outline, pc,
    c, j, cur, cs, cg,   \* the loop over the points of contour c
    gs, lines,           \* the segments of the contours before it, and then their lines
    row, gd              \* the next row, and the pixels filled

vars == <<outline, pc, c, j, cur, cs, cg, gs, lines, row, gd>>

Tdiv(a, b) == IF (a < 0) = (b < 0) THEN a \div b ELSE -((-a) \div b)   \* toward 0
Mid(p, q) == [x |-> Tdiv(p.x + q.x, 2), y |-> Tdiv(p.y + q.y, 2), onCurve |-> TRUE]
Points == outline[c]

Init ==
    /\ outline \in Outlines /\ pc = "start"
    /\ c = 1 /\ j = 1 /\ cur = Points[1] /\ cs = cur /\ cg = <<>> /\ gs = <<>> /\ lines = <<>>
    /\ row = 0 /\ gd = {}

-----------------------------------------------------------------------------
(* Contours to segments. *)

(* myos.cpp:521-524 *)
Start ==
    /\ pc = "start"
    /\ LET first == Points[1]
           last == Points[Len(Points)]
       IN  /\ cur' = IF first.onCurve THEN first ELSE IF last.onCurve THEN last ELSE Mid(first, last)
           /\ j' = IF first.onCurve THEN 2 ELSE 1
    /\ cs' = cur' /\ cg' = <<>> /\ pc' = "walk"
    /\ UNCHANGED <<outline, c, gs, lines, row, gd>>

(* myos.cpp:525: a line to a point of the outline, or a curve to the next  *)
(* one, to the middle of two controls, or back to the start.               *)
Walk ==
    /\ pc = "walk" /\ j <= Len(Points)
    /\ LET p == Points[j]
           more == j + 1 <= Len(Points)
           to == IF p.onCurve THEN p
                 ELSE IF ~ more THEN cs ELSE IF Points[j + 1].onCurve THEN Points[j + 1] ELSE Mid(p, Points[j + 1])
       IN  /\ cg' = Append(cg, [p1 |-> cur, p2 |-> p, p3 |-> to])
           /\ cur' = to
           /\ j' = IF ~ p.onCurve /\ more /\ to = Points[j + 1] /\ Points[j + 1].onCurve THEN j + 2 ELSE j + 1
    /\ UNCHANGED <<outline, pc, c, cs, gs, lines, row, gd>>

Same(p, q) == p.x = q.x /\ p.y = q.y

(* myos.cpp:516, 526-527 *)
Close ==
    /\ pc = "walk" /\ j > Len(Points)
    /\ gs' = Append(gs, IF Same(cur, cs) THEN cg ELSE Append(cg, [p1 |-> cur, p2 |-> cs, p3 |-> cs]))
    /\ IF c < Len(outline) THEN c' = c + 1 /\ pc' = "start" ELSE pc' = "lines" /\ UNCHANGED c
    /\ UNCHANGED <<outline, j, cur, cs, cg, lines, row, gd>>

-----------------------------------------------------------------------------
(* Segments to lines, lines to rows. *)

(* myos.cpp:534, one coordinate.                                           *)
Bezier(p1, p2, p3, t) ==
    LET m == BEZIER_STEPS - t
        w == BEZIER_STEPS * BEZIER_STEPS
    IN  Tdiv(m * m * p1 + 2 * m * t * p2 + t * t * p3 + w \div 2, w)

(* myos.cpp:531-536 *)
LinesOf(s) ==
    IF Same(s.p2, s.p3) THEN <<[x |-> s.p1.x, y |-> s.p1.y]>>
    ELSE [t \in 1 .. BEZIER_STEPS |-> [x |-> Bezier(s.p1.x, s.p2.x, s.p3.x, t - 1), y |-> Bezier(s.p1.y, s.p2.y, s.p3.y, t - 1)]]
Flatten ==
    /\ pc = "lines" /\ pc' = "rows"
    /\ lines' = [k \in DOMAIN gs |-> FlattenSeq([s \in DOMAIN gs[k] |-> LinesOf(gs[k][s])])]
    /\ UNCHANGED <<outline, c, j, cur, cs, cg, gs, row, gd>>

(* myos.cpp:544 *)
Crosses(sy2, y0, y1) == y0 # y1 /\ Min({y0, y1}) <= sy2 /\ sy2 < Max({y0, y1})

(* myos.cpp:541-545 *)
CrossingOf(a, b, r) ==
    LET y0 == (a.y - fontYMin) * 2
        y1 == (b.y - fontYMin) * 2
        sy2 == 2 * r + 1
    IN  IF ~ Crosses(sy2, y0, y1) THEN <<>>
        ELSE <<[x |-> (a.x - fontXMin) + Tdiv((sy2 - y0) * (b.x - a.x), y1 - y0), w |-> IF y1 > y0 THEN 1 ELSE -1]>>
Crossings(r) ==
    FlattenSeq([k \in DOMAIN lines |->
        IF Len(lines[k]) < 2 THEN <<>>
        ELSE FlattenSeq([i \in DOMAIN lines[k] |-> CrossingOf(lines[k][i], lines[k][(i % Len(lines[k])) + 1], r)])])

(* myos.cpp:547: the crossings at which the sum of windings leaves 0.      *)
Winding(cr, k) == FoldLeft(LAMBDA w, x : w + x.w, 0, SubSeq(cr, 1, k))
Opening(cr) == {k \in DOMAIN cr : Winding(cr, k - 1) = 0 /\ Winding(cr, k) # 0}

\* error: a span closes at the next crossing
ClosingNext(cr, k) == {m \in k + 1 .. Len(cr) : m = k + 1}
Closing(cr, k) == {m \in k + 1 .. Len(cr) : Winding(cr, m) = 0}

(* myos.cpp:540-548; sort leaves crossings at the same place in any order, *)
(* of which two are taken.                                                 *)
Row ==
    /\ pc = "rows" /\ row < EM
    /\ \E found \in {Crossings(row), Reverse(Crossings(row))} :
         LET cr == SortSeq(found, LAMBDA a, b : a.x < b.x)
         IN  gd' = gd \cup UNION {{<<row, x>> : x \in Max({0, cr[k].x}) .. Min({EM, cr[Min(Closing(cr, k))].x}) - 1} :
                                    k \in {o \in Opening(cr) : Closing(cr, o) # {}}}
    /\ row' = row + 1 /\ pc' = IF row + 1 = EM THEN "done" ELSE "rows"
    /\ UNCHANGED <<outline, c, j, cur, cs, cg, gs, lines>>

-----------------------------------------------------------------------------
(* The grid to the cell. *)

(* myos.cpp:473, 475: the rows, or columns, averaged for one of the cell.  *)
Box(d, from, to) == ((d * from) \div to) .. Max({(d * from) \div to, ((d + 1) * from) \div to - 1})

(* myos.cpp:470-481, 552-553: what becomes of a pixel of the cell, 255     *)
(* where it is black; the top row comes last.                              *)
Gray(srcW, bw, bh, x, y) ==
    LET box == Box(bh - 1 - y, EM, bh) \X Box(x, srcW, bw)
    IN  (Cardinality(box \cap gd) * 255) \div Cardinality(box)

(* myos.cpp:549-551 *)
AdvanceWidth(advance, bw, bh) == Min({EM, Max({1, IF advance # 0 THEN advance ELSE (bw * EM) \div bh})})

Next == Start \/ Walk \/ Close \/ Flatten \/ Row \/ (pc = "done" /\ UNCHANGED vars)

Spec == Init /\ [][Next]_vars /\ WF_vars(Next)

-----------------------------------------------------------------------------
(* Properties. *)

Whole == pc \in {"rows", "done"}
Ends(segments) == {segments[k].p3 : k \in DOMAIN segments}

(* The segments of a contour are a closed chain through its points on the  *)
(* curve in their order, and each other point controls one (myos.cpp:521,  *)
(* 525-526).                                                               *)
ChainsClosed ==
    Whole => \A k \in DOMAIN gs :
        /\ \A s \in DOMAIN gs[k] : Same(gs[k][s].p3, gs[k][(s % Len(gs[k])) + 1].p1)
        /\ SelectSeq([s \in DOMAIN gs[k] |-> gs[k][s].p2], LAMBDA p : ~ p.onCurve)
             = SelectSeq(outline[k], LAMBDA p : ~ p.onCurve)
        /\ \A p \in ToSet(outline[k]) : p.onCurve /\ Len(outline[k]) > 1 => \E s \in DOMAIN gs[k] : Same(gs[k][s].p3, p) \/ Same(gs[k][s].p1, p)

(* A line begins where its segment does, exactly for a coordinate from 0   *)
(* on; below, a curve begins one nearer to 0, since the division that      *)
(* should round rounds toward 0 (myos.cpp:534).                            *)
LinesBegin ==
    pc = "rows" => \A k \in DOMAIN gs : \A s \in ToSet(gs[k]) :
        LET l == LinesOf(s)[1]
        IN  /\ l.x \in {s.p1.x, s.p1.x + IF s.p1.x < 0 THEN 1 ELSE 0}
            /\ l.y \in {s.p1.y, s.p1.y + IF s.p1.y < 0 THEN 1 ELSE 0}

(* A pixel is filled when the lines left of it wind around it, whichever   *)
(* way the contours run and however the crossings were sorted; the         *)
(* windings of a whole row come to 0, so no span is left open.             *)
FilledWhereWound ==
    row > 0 =>
        LET found == Crossings(row - 1)
            wound(x) == FoldLeft(LAMBDA w, p : w + IF p.x <= x THEN p.w ELSE 0, 0, found)
        IN  /\ {x \in 0 .. EM - 1 : <<row - 1, x>> \in gd} = {x \in 0 .. EM - 1 : wound(x) # 0}
            /\ Winding(found, Len(found)) = 0

(* The boxes averaged for the cell stay in the grid, leave no row and no   *)
(* column out when the cell is smaller, and take all of a black glyph      *)
(* (myos.cpp:473-477).                                                     *)
BoxesTile ==
    pc = "done" => \A cell \in Cells, advance \in 0 .. EM :
        LET srcW == AdvanceWidth(advance, cell[1], cell[2])
            columns == UNION {Box(x, srcW, cell[1]) : x \in 0 .. cell[1] - 1}
        IN  /\ columns \subseteq 0 .. srcW - 1 /\ (cell[1] <= srcW => columns = 0 .. srcW - 1)
            /\ UNION {Box(y, EM, cell[2]) : y \in 0 .. cell[2] - 1} \subseteq 0 .. EM - 1
            /\ gd = (0 .. EM - 1) \X (0 .. EM - 1) => \A x \in 0 .. cell[1] - 1, y \in 0 .. cell[2] - 1 : Gray(srcW, cell[1], cell[2], x, y) = 255

(* Progress is that Busy ends: the loop over the points, and that over the *)
(* rows (myos.cpp:525-528).                                                *)
Busy == pc # "done"
===============================================================================
