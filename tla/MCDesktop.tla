------------------------------- MODULE MCDesktop -----------------------------
(***************************************************************************)
(* Values for Desktop: the texts, the files of fonts and the outlines TLC  *)
(* takes.                                                                  *)
(***************************************************************************)
EXTENDS Desktop

(* Every format of the screen; texts of one and two cells a character, put *)
(* over every edge, and a line's end in front of another.                  *)
Displays == {[width |-> 1024, height |-> 768, format |-> f] : f \in 0 .. 3}
Written == {<<65>>, <<65, 44032>>, <<44032, 10, 65>>}

(* Files of fonts: the tables in several orders, whole, cut off behind     *)
(* some of them, and without some; a subtable of another format in front.  *)
Nowhere == [ends |-> <<>>, starts |-> <<>>, deltas |-> <<>>, ranges |-> <<>>, ids |-> <<>>]
Three == [ends |-> <<3, 5, 9>>, starts |-> <<2, 5, 6>>, deltas |-> <<-1, 1, 0>>, ranges |-> <<0, 4, 4>>, ids |-> <<1, 0, 2, 3>>]
One == [Nowhere EXCEPT !.ends = <<9>>, !.starts = <<0>>, !.deltas = <<0>>, !.ranges = <<0>>]
Other == [format |-> 12, segments |-> Nowhere]
Four(s) == [format |-> 4, segments |-> s]
Body(cmap, format) ==
    [o \in 1 .. 6 |->
        CASE o = 1 -> cmap [] o = 2 -> [unitsPerEm |-> 8, locFormat |-> format] [] o = 3 -> <<0, 3, 3, 5, 9, 9>>
          [] o = 4 -> 5 [] o = 5 -> <<4, 6>> [] o = 6 -> 2]
R(tag, o) == [tag |-> tag, offset |-> o]
Orders == {<<R("cmap", 1), R("maxp", 4), R("head", 2), R("hhea", 6), R("hmtx", 5), R("loca", 3), R("glyf", 7)>>,
           <<R("maxp", 4), R("hhea", 6), R("loca", 3), R("post", 8), R("hmtx", 5), R("cmap", 1), R("head", 2)>>}
Cmaps == {<<Other, Four(Three), Four(One)>>, <<Four(One)>>, <<Other>>, <<>>}
Zeros == [Nowhere EXCEPT !.ends = <<0, 0>>, !.starts = <<0, 0>>, !.deltas = <<0, 0>>, !.ranges = <<0, 0>>]
StraySubtables == {Other, Four(Zeros), Four(One)}
FontFiles ==
    {[count |-> m, dir |-> SubSeq(d, 1, n), body |-> [o \in 1 .. k |-> Body(s, f)[o]]] :
        d \in Orders, m \in {0, 7}, n \in {3, 7}, k \in {0, 4, 6}, s \in Cmaps, f \in 0 .. 2}

(* Every triangle of points on a small grid, on and off the curve, left of *)
(* the origin too; and a square in a square, wound either way.             *)
P(x, y, on) == [x |-> x, y |-> y, onCurve |-> on]
Triangles == [1 .. 3 -> [x : {-1, 3}, y : {-1, 2}, onCurve : BOOLEAN]]
Square(a, b) == <<P(a, a, TRUE), P(b, a, TRUE), P(b, b, TRUE), P(a, b, TRUE)>>
Backward(s) == [k \in 1 .. 4 |-> s[5 - k]]
Shapes ==
    {<<t>> : t \in Triangles} \cup {<<<<p>>>> : p \in [x : {-1, 2}, y : {0}, onCurve : BOOLEAN]}
    \cup {<<Square(-1, 3), Square(0, 2)>>, <<Square(-1, 3), Backward(Square(0, 2))>>,
          <<Square(0, 2), [k \in 1 .. 4 |-> [Square(-1, 3)[k] EXCEPT !.onCurve = FALSE]]>>}

BelowZero == -1
CellShapes == {<<1, 1>>, <<2, 3>>, <<3, 2>>, <<5, 5>>}
Fonts == {<<0, 0>>, <<1, 1>>, <<2, 2>>}
Corners == {<<-1, 0>>, <<2, -1>>}
==============================================================================
