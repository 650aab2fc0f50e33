------------------------------- MODULE FontFile -------------------------------
(***************************************************************************)
(* Reading a TrueType file (src/src/myos.cpp:370-469): the constructor of  *)
(* Font, one turn of each of its loops a step, and the three lookups.      *)
(* A file is its directory and what lies at each offset: a table whole, or *)
(* nothing, behind the file's end.  What is read at offset 0, behind a     *)
(* table, or into memory that was never set is left to chance.             *)
(***************************************************************************)
EXTENDS Integers, Sequences, FiniteSetsExt

CONSTANTS
    Files,    \* [count, dir: Seq([tag, offset]), body: offset -> table]
    Codes,    \* the characters looked up
    Chance,   \* what a number may be that no table holds
    Strays    \* what a subtable may be that the file does not hold

VARIABLES
    file, pc,
    i, at,       \* the loop's turn, and the record of the file it reads
    fields,      \* what the constructor stored, f too, and its local offsets
    segments,    \* the format 4 subtable it loaded
    answer       \* the last lookup

vars == <<file, pc, i, at, fields, segments, answer>>

Nothing == [tag |-> "", offset |-> 0]
Empty == [ends |-> <<>>, starts |-> <<>>, deltas |-> <<>>, ranges |-> <<>>, ids |-> <<>>]
Missing == -1      \* 0xFFFFFFFF

(* What the tables hold.  Offset 0 is the header's (myos.cpp:375-378), and *)
(* the arrays of a format 4 subtable have one entry for each segment.      *)
Segments ==
    {s \in [ends : Seq(Nat), starts : Seq(Nat), deltas : Seq(Int), ranges : Seq(Nat), ids : Seq(Nat)] :
        Len(s.starts) = Len(s.ends) /\ Len(s.deltas) = Len(s.ends) /\ Len(s.ranges) = Len(s.ends)}
TableOf(tag) ==
    CASE tag = "cmap" -> Seq([format : Nat, segments : Segments])
      [] tag = "head" -> [unitsPerEm : Nat, locFormat : Nat]
      [] tag \in {"loca", "hmtx"} -> Seq(Nat)
      [] tag \in {"maxp", "hhea"} -> Nat
FontFileAssumption ==
    /\ Codes \subseteq Nat /\ Chance \subseteq Nat /\ Chance # {}
    /\ Strays \subseteq [format : Nat, segments : Segments] /\ Strays # {}
    /\ \A f \in Files :
        /\ f.count \in Nat /\ f.dir \in Seq([tag : STRING, offset : Nat]) /\ 0 \notin DOMAIN f.body
        /\ \A tag \in {"cmap", "head", "loca", "hmtx", "maxp", "hhea"} : \A k \in DOMAIN f.dir :
              f.dir[k].tag = tag /\ f.dir[k].offset \in DOMAIN f.body => f.body[f.dir[k].offset] \in TableOf(tag)

Has(offset) == offset \in DOMAIN file.body
NULL == 0          \* the f of a Font whose fopen failed

-----------------------------------------------------------------------------
(* The constructor. *)

(* myos.cpp:374-378: a header that cannot be read is all 0. *)
Header ==
    /\ pc = "header"
    /\ pc' = "tables" /\ i' = 1 /\ at' = 1
    /\ UNCHANGED <<file, fields, segments, answer>>

(* myos.cpp:379-401: maxp and hhea are read where they lie, and the        *)
(* directory is gone on with where it was left.                            *)
Table ==
    /\ pc = "tables" /\ i <= file.count
    /\ LET r == IF at \in DOMAIN file.dir THEN file.dir[at] ELSE Nothing
       IN  CASE r.tag \in {"cmap", "head", "loca", "glyf", "hmtx"} ->
                  fields' = [fields EXCEPT ![r.tag] = r.offset]
             [] r.tag \in {"maxp", "hhea"} ->
                  \E v \in IF Has(r.offset) THEN {file.body[r.offset]} ELSE IF r.tag = "maxp" THEN Chance ELSE {0} :
                      fields' = [fields EXCEPT ![r.tag] = v]
             [] OTHER -> UNCHANGED fields
    /\ i' = i + 1 /\ at' = at + 1
    /\ UNCHANGED <<file, pc, segments, answer>>

(* myos.cpp:402 *)
HeadTable ==
    /\ pc = "tables" /\ i > file.count
    /\ \E h \in IF Has(fields.head) THEN {file.body[fields.head]} ELSE [unitsPerEm : Chance, locFormat : Chance] :
          fields' = [fields EXCEPT !.unitsPerEm = h.unitsPerEm, !.locFormat = h.locFormat]
    /\ pc' = "cmap"
    /\ UNCHANGED <<file, i, at, segments, answer>>

(* myos.cpp:403-404 *)
CmapTable ==
    /\ pc = "cmap"
    /\ \E n \in IF Has(fields.cmap) THEN {Len(file.body[fields.cmap])} ELSE Chance :
          fields' = [fields EXCEPT !.subCount = n]
    /\ pc' = "subtables" /\ i' = 1
    /\ UNCHANGED <<file, at, segments, answer>>

(* myos.cpp:406-415: the locals a record and a subtable are read into are  *)
(* not initialised, and keep what they hold when the file ends first.      *)
SubtableAt(k) ==
    IF Has(fields.cmap) /\ k \in DOMAIN file.body[fields.cmap] THEN {file.body[fields.cmap][k]} ELSE Strays

(* myos.cpp:405-424: a subtable of another format is left for the next     *)
(* record, one of format 4 ends the loop.                                  *)
Subtable ==
    /\ pc = "subtables" /\ i <= fields.subCount
    /\ \E t \in SubtableAt(i) :
         IF t.format = 4
         THEN segments' = t.segments /\ pc' = "ready" /\ UNCHANGED i
         ELSE i' = i + 1 /\ UNCHANGED <<segments, pc>>
    /\ UNCHANGED <<file, at, fields, answer>>

Subtables ==
    /\ pc = "subtables" /\ i > fields.subCount
    /\ pc' = "ready"
    /\ UNCHANGED <<file, i, at, fields, segments, answer>>

-----------------------------------------------------------------------------
(* The lookups. *)

Word(v) == v % 65536

\* error: the segment's own offset is taken for the first
IndexFromFirst(s, unicode, k) == s.ranges[k] \div 2 + (unicode - s.starts[k]) - Len(s.ends)

(* myos.cpp:434: k counts from 1 here, and from 0 there. *)
IdIndex(s, unicode, k) == s.ranges[k] \div 2 + (unicode - s.starts[k]) - (Len(s.ends) - (k - 1))

(* myos.cpp:429-437 *)
getGlyphIndex(s, unicode) ==
    LET after == {k \in DOMAIN s.ends : s.ends[k] >= unicode}
        k == Min(after)
        id == IdIndex(s, unicode, k) + 1
    IN  IF after = {} \/ s.starts[k] > unicode THEN 0
        ELSE IF s.ranges[k] = 0 THEN Word(unicode + s.deltas[k])
        ELSE IF id \in DOMAIN s.ids /\ s.ids[id] # 0 THEN Word(s.ids[id] + s.deltas[k])
        ELSE 0

(* myos.cpp:438-445: behind the table another one lies, or the end.        *)
getAdvance(gi) ==
    LET idx == IF gi < fields.hhea THEN gi ELSE fields.hhea - 1
    IN  IF fields.f = NULL \/ fields.hmtx = 0 \/ fields.hhea = 0 \/ ~ Has(fields.hmtx) THEN {0}
        ELSE IF idx + 1 \in DOMAIN file.body[fields.hmtx] THEN {file.body[fields.hmtx][idx + 1]}
        ELSE {0} \cup Chance

(* A glyph index table of format 0 holds the halves of the offsets         *)
(* (myos.cpp:453, 464).                                                    *)
Scaled(format, v) == IF format = 0 THEN 2 * v ELSE v

(* myos.cpp:446-469: two entries that are equal enclose a blank glyph.     *)
(* Whether there is such a table is not asked: without one the file is     *)
(* read from its first byte on.                                            *)
getGlyphOffset(gi) ==
    IF fields.f = NULL \/ fields.locFormat \notin {0, 1} THEN {Missing}
    ELSE IF ~ Has(fields.loca) /\ fields.loca # 0 THEN {Missing}
    ELSE IF Has(fields.loca) /\ gi + 2 \in DOMAIN file.body[fields.loca]
    THEN LET entry == file.body[fields.loca]
         IN  {IF entry[gi + 1] = entry[gi + 2] THEN Missing ELSE Scaled(fields.locFormat, entry[gi + 1])}
    ELSE {Missing} \cup {Scaled(fields.locFormat, v) : v \in Chance}

Lookup(unicode) ==
    /\ pc = "ready"
    /\ LET gi == getGlyphIndex(segments, unicode)
       IN  \E offset \in getGlyphOffset(gi), advance \in getAdvance(gi) :
             answer' = [asked |-> TRUE, code |-> unicode, glyph |-> gi, offset |-> offset, advance |-> advance]
    /\ UNCHANGED <<file, pc, i, at, fields, segments>>

(* When fopen fails (myos.cpp:374) the constructor returns at once.        *)
Init ==
    /\ file \in Files
    /\ pc \in {"header", "ready"} /\ i = 1 /\ at = 1
    /\ fields = [cmap |-> 0, head |-> 0, loca |-> 0, maxp |-> 0, glyf |-> 0, hmtx |-> 0, hhea |-> 0, subCount |-> 0,
                 unitsPerEm |-> 0, locFormat |-> 0, f |-> IF pc = "ready" THEN NULL ELSE 1]
    /\ segments = Empty
    /\ answer = [asked |-> FALSE, code |-> 0, glyph |-> 0, offset |-> Missing, advance |-> 0]

Load == Header \/ Table \/ HeadTable \/ CmapTable \/ Subtable \/ Subtables
Next == Load \/ \E unicode \in Codes : Lookup(unicode)
Spec == Init /\ [][Next]_vars /\ WF_vars(Load)

-----------------------------------------------------------------------------
(* Properties. *)

\* the last record of the tag, should there be more
Tagged(tag) ==
    {file.dir[k] : k \in {m \in DOMAIN file.dir :
        file.dir[m].tag = tag /\ \A l \in DOMAIN file.dir : l > m => file.dir[l].tag # tag}}

(* However the directory is ordered, every table in it is found: reading   *)
(* maxp and hhea on the way loses none (myos.cpp:383-401).                 *)
TablesFound ==
    pc \in {"cmap", "subtables", "ready"} /\ fields.f # NULL /\ file.count = Len(file.dir) =>
        /\ \A tag \in {"cmap", "loca", "glyf", "hmtx"} : \A r \in Tagged(tag) : fields[tag] = r.offset
        /\ \A tag \in {"maxp", "hhea"} : \A r \in Tagged(tag) : Has(r.offset) => fields[tag] = file.body[r.offset]
        /\ \A r \in Tagged("head") : Has(r.offset) =>
              [unitsPerEm |-> fields.unitsPerEm, locFormat |-> fields.locFormat] = file.body[r.offset]

(* The first subtable of format 4 is the one loaded, none if there is      *)
(* none: subtables of other formats in front of it do not hide it          *)
(* (myos.cpp:412-416).                                                     *)
FirstFormatFour ==
    pc = "ready" /\ Has(fields.cmap) =>
        LET four == {k \in DOMAIN file.body[fields.cmap] : file.body[fields.cmap][k].format = 4}
        IN  segments = IF four = {} THEN Empty ELSE file.body[fields.cmap][Min(four)].segments

(* A character's glyph is the one the format names: idRangeOffset counts   *)
(* bytes from its own place, over the offsets that follow it and into the  *)
(* glyph ids (myos.cpp:434-435).                                           *)
GlyphAsNamed ==
    pc = "ready" /\ answer.glyph # 0 =>
        \E k \in DOMAIN segments.ends :
            /\ answer.code \in segments.starts[k] .. segments.ends[k]
            /\ LET words == segments.ranges \o segments.ids
                   named == words[k + segments.ranges[k] \div 2 + (answer.code - segments.starts[k])]
               IN  answer.glyph = Word(segments.deltas[k] + IF segments.ranges[k] = 0 THEN answer.code ELSE named)

(* A glyph's data is found where the file's index table says, in the       *)
(* format that its head names, and said to be missing exactly when it is   *)
(* empty; where the file ends before the index nothing is found.  Of       *)
(* glyphs beyond the table, and of files without one, nothing is claimed   *)
(* (myos.cpp:448-467).                                                     *)
GlyphDataFound ==
    answer.asked /\ fields.f # NULL /\ file.count = Len(file.dir) =>
        \A l \in Tagged("loca"), h \in Tagged("head") :
            Has(h.offset) /\ file.body[h.offset].locFormat \in {0, 1} =>
                /\ Has(l.offset) /\ answer.glyph + 2 \in DOMAIN file.body[l.offset] =>
                      LET entry == file.body[l.offset]
                      IN  answer.offset = IF entry[answer.glyph + 1] = entry[answer.glyph + 2] THEN Missing
                                          ELSE Scaled(file.body[h.offset].locFormat, entry[answer.glyph + 1])
                /\ ~ Has(l.offset) /\ l.offset # 0 => answer.offset = Missing

(* Progress is that Busy ends: the constructor, whatever the file lacks.   *)
Busy == pc # "ready"
===============================================================================
