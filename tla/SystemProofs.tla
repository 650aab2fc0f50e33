------------------------------ MODULE SystemProofs ----------------------------
(***************************************************************************)
(* The four parts of System: the end of a process for any handlers and any *)
(* depth of exit in exit, directory streams for a pool of any size and any *)
(* directories, the network for any devices and addresses, and processes   *)
(* with a pipe for any programs and any number of descriptors.             *)
(***************************************************************************)
EXTENDS System, FiniteSetTheorems, SequenceTheorems, WellFoundedInduction, TLAPS

-----------------------------------------------------------------------------
(* The end of a process.  The invariant says for each call of exit which   *)
(* handlers it has behind it.                                              *)

(* The loop of call e over the entries s has reached h.                    *)
Beyond(s, e, h) == \E j \in 1 .. Len(s) : s[j] = h /\ (j > e.i \/ (j = e.i /\ e.inside))

(* Call e of exit will not run h any more.                                 *)
Passed(e, h) ==
    \/ e.loop \notin {"cxa", "atexit"}
    \/ e.loop = "cxa" /\ Beyond(cxa_handlers, e, h)
    \/ e.loop = "atexit" /\ (h \in Exiting!Range(cxa_handlers) \/ Beyond(atexit_handlers, e, h))

(* No handler is registered twice.                                         *)
Distinct ==
    /\ \A i, j \in 1 .. Len(cxa_handlers) : cxa_handlers[i] = cxa_handlers[j] => i = j
    /\ \A i, j \in 1 .. Len(atexit_handlers) : atexit_handlers[i] = atexit_handlers[j] => i = j
    /\ \A i \in 1 .. Len(cxa_handlers), j \in 1 .. Len(atexit_handlers) : cxa_handlers[i] # atexit_handlers[j]

(* A loop stays within its list, and only a loop runs handlers.            *)
Level(e) ==
    /\ e \in Exiting!ExitCall
    /\ e.loop = "cxa" => e.i <= Len(cxa_handlers)
    /\ e.loop = "atexit" => e.i <= Len(atexit_handlers)
    /\ e.inside => e.loop \in {"cxa", "atexit"} /\ e.i > 0
Levels == \A k \in 1 .. Len(exits) : Level(exits[k])

(* What was due and is passed has run.                                     *)
DueRan ==
    /\ due \subseteq Exiting!Registered
    /\ \A k \in 1 .. Len(exits), h \in due : Passed(exits[k], h) => h \in Exiting!Range(ran)

(* A handler has run at most once for each call that has passed it.        *)
RunsOf(h) == {i \in 1 .. Len(ran) : ran[i] = h}
PassesOf(h) == {k \in 1 .. Len(exits) : Passed(exits[k], h)}
Bounded == \A h \in Handler : Cardinality(RunsOf(h)) <= Cardinality(PassesOf(h))

(* The order in which x and y are to run.                                  *)
Earlier(x, y) ==
    \/ Exiting!Before(cxa_handlers, y, x)
    \/ Exiting!Before(atexit_handlers, y, x)
    \/ x \in Exiting!Range(cxa_handlers) /\ y \in Exiting!Range(atexit_handlers)

(* Before a handler calls exit, the handlers that have run are passed, and *)
(* ran in order.                                                           *)
InOrder ==
    /\ exits = <<>> => ran = <<>>
    /\ Len(exits) = 1 => \A a \in 1 .. Len(ran) : Passed(exits[1], ran[a])
    /\ Len(exits) <= 1 => \A a, b \in 1 .. Len(ran) : a < b => Earlier(ran[a], ran[b])

(* A stream that is closed holds nothing.                                  *)
Output ==
    exits # <<>> =>
        /\ Exiting!Top.loop \in {"stderr", "_exit"} => printed = 0 /\ "stdout" \notin standard
        /\ Exiting!Top.loop = "_exit" => "stderr" \notin standard

ExitInv == Exiting!TypeOK /\ Distinct /\ Levels /\ DueRan /\ Bounded /\ InOrder /\ Output

LEMMA LevelTypes ==
    ASSUME ExitInv, NEW k \in 1 .. Len(exits)
    PROVE  /\ exits[k] \in Exiting!ExitCall /\ exits[k].i \in Nat /\ exits[k].inside \in BOOLEAN
           /\ exits[k].loop \in {"cxa", "atexit", "stdout", "stderr", "_exit"}
<1>1. exits \in Seq(Exiting!ExitCall)
  BY DEF ExitInv, Exiting!TypeOK
<1>2. exits[k] \in Exiting!ExitCall
  BY <1>1
<1> QED
  BY <1>2 DEF Exiting!ExitCall

(* Exit counts as this module does.                                        *)
LEMMA SameCount == \A S : Exiting!Cardinality(S) = Cardinality(S)
  BY DEF Exiting!Cardinality, Cardinality

LEMMA CountTo ==
    ASSUME NEW n \in Nat
    PROVE  IsFiniteSet(1 .. n) /\ Cardinality(1 .. n) = n
<1>1. IsFiniteSet(1 .. n) /\ Cardinality(1 .. n) = IF 1 > n THEN 0 ELSE n - 1 + 1
  BY FS_Interval
<1> QED
  BY <1>1

(* A set of indexes that grows counts no less.                             *)
LEMMA Grows ==
    ASSUME NEW n \in Nat, NEW S, NEW T, S \subseteq T, T \subseteq 1 .. n
    PROVE  /\ IsFiniteSet(S) /\ IsFiniteSet(T)
           /\ Cardinality(S) \in Nat /\ Cardinality(T) \in Nat
           /\ Cardinality(S) <= Cardinality(T) /\ Cardinality(T) <= n
<1>1. IsFiniteSet(1 .. n) /\ Cardinality(1 .. n) = n
  BY FS_Interval
<1>2. IsFiniteSet(T) /\ Cardinality(T) <= n
  BY <1>1, FS_Subset
<1>3. IsFiniteSet(S) /\ Cardinality(S) <= Cardinality(T)
  BY <1>2, FS_Subset
<1>4. Cardinality(S) \in Nat /\ Cardinality(T) \in Nat
  BY <1>2, <1>3, FS_CardinalityType
<1> QED
  BY <1>2, <1>3, <1>4

(* A step that runs and registers nothing: what is passed stays passed,    *)
(* and of the registered handlers no more are.                             *)
LEMMA Quietly ==
    ASSUME ExitInv, UNCHANGED <<cxa_handlers, atexit_handlers, ran, due>>,
           exits' \in Seq(Exiting!ExitCall), Len(exits') = Len(exits),
           \A k \in 1 .. Len(exits) :
               /\ Level(exits'[k])
               /\ \A h : Passed(exits[k], h) => Passed(exits'[k], h)
               /\ \A h \in Exiting!Registered : Passed(exits'[k], h) => Passed(exits[k], h)
    PROVE  Distinct' /\ Levels' /\ DueRan' /\ Bounded' /\ InOrder'
<1>1. \A h, k : /\ Passed(exits[k], h)' <=> Passed(exits'[k], h)
                /\ Level(exits[k])' <=> Level(exits'[k])
  BY DEF Passed, Level, Beyond, Exiting!Range
<1>2. Distinct'
  BY DEF ExitInv, Distinct
<1>3. Levels'
  BY <1>1 DEF Levels
<1>4. DueRan'
  <2>1. due \subseteq Exiting!Registered /\ \A k \in 1 .. Len(exits), h \in due : Passed(exits[k], h) => h \in Exiting!Range(ran)
    BY DEF ExitInv, DueRan
  <2>2. Exiting!Registered' = Exiting!Registered /\ Exiting!Range(ran)' = Exiting!Range(ran)
    BY DEF Exiting!Registered, Exiting!Range
  <2> QED
    BY <1>1, <2>1, <2>2 DEF DueRan
<1>5. Bounded'
  <2> SUFFICES ASSUME NEW h \in Handler
              PROVE  Cardinality(RunsOf(h)') <= Cardinality(PassesOf(h)')
    BY DEF Bounded
  <2>1. RunsOf(h)' = RunsOf(h)
    BY DEF RunsOf
  <2>2. PassesOf(h) \subseteq PassesOf(h)' /\ PassesOf(h)' \subseteq 1 .. Len(exits)
    BY <1>1 DEF PassesOf
  <2>3. Len(exits) \in Nat /\ RunsOf(h) \subseteq 1 .. Len(ran) /\ Len(ran) \in Nat
    BY DEF ExitInv, Exiting!TypeOK, RunsOf
  <2>4. Cardinality(RunsOf(h)) <= Cardinality(PassesOf(h))
    BY DEF ExitInv, Bounded
  <2> HIDE DEF RunsOf, PassesOf
  <2> QED
    BY <2>1, <2>2, <2>3, <2>4, Grows
<1>6. InOrder'
  <2>1. \A x, y : Earlier(x, y) => Earlier(x, y)'
    BY DEF Earlier, Exiting!Before, Exiting!Range
  <2>2. exits' = <<>> => exits = <<>>
    BY DEF ExitInv, Exiting!TypeOK
  <2>3. Len(exits) = 1 => 1 \in 1 .. Len(exits)
    OBVIOUS
  <2> QED
    BY <1>1, <2>1, <2>2, <2>3 DEF ExitInv, InOrder
<1> QED
  BY <1>2, <1>3, <1>4, <1>5, <1>6

LEMMA TopSet ==
    ASSUME ExitInv, exits # <<>>, NEW e \in Exiting!ExitCall, Exiting!SetTop(e)
    PROVE  /\ exits' \in Seq(Exiting!ExitCall) /\ Len(exits') = Len(exits) /\ exits' # <<>>
           /\ Len(exits) \in 1 .. Len(exits)
           /\ Exiting!Top = exits[Len(exits)] /\ Exiting!Top' = e
           /\ \A k \in 1 .. Len(exits) : exits'[k] = IF k = Len(exits) THEN e ELSE exits[k]
<1>1. exits \in Seq(Exiting!ExitCall)
  BY DEF ExitInv, Exiting!TypeOK
<1> QED
  BY <1>1 DEF Exiting!SetTop, Exiting!Top

(* The innermost call goes on, and runs nothing.                           *)
LEMMA TopMoves ==
    ASSUME ExitInv, exits # <<>>, NEW e \in Exiting!ExitCall, Exiting!SetTop(e), Level(e),
           UNCHANGED <<cxa_handlers, atexit_handlers, ran, due>>,
           \A h : Passed(Exiting!Top, h) => Passed(e, h),
           \A h \in Exiting!Registered : Passed(e, h) => Passed(Exiting!Top, h)
    PROVE  Distinct' /\ Levels' /\ DueRan' /\ Bounded' /\ InOrder'
<1>1. \A k \in 1 .. Len(exits) : Level(exits[k])
  BY DEF ExitInv, Levels
<1>2. \A k \in 1 .. Len(exits) :
          /\ Level(exits'[k])
          /\ \A h : Passed(exits[k], h) => Passed(exits'[k], h)
          /\ \A h \in Exiting!Registered : Passed(exits'[k], h) => Passed(exits[k], h)
  BY <1>1, TopSet
<1> QED
  BY <1>2, TopSet, Quietly

LEMMA TopTypes ==
    ASSUME ExitInv, exits # <<>>
    PROVE  /\ Exiting!Top \in Exiting!ExitCall /\ Exiting!Top.i \in Nat /\ Exiting!Top.inside \in BOOLEAN
           /\ Exiting!Top.loop \in {"cxa", "atexit", "stdout", "stderr", "_exit"}
           /\ Level(Exiting!Top)
           /\ Exiting!Top = [loop |-> Exiting!Top.loop, i |-> Exiting!Top.i, inside |-> Exiting!Top.inside]
<1>1. Len(exits) \in 1 .. Len(exits)
  BY DEF ExitInv, Exiting!TypeOK
<1>2. Level(Exiting!Top) /\ Exiting!Top \in Exiting!ExitCall
  BY <1>1, LevelTypes DEF ExitInv, Levels, Exiting!Top
<1> QED
  BY <1>2 DEF Exiting!ExitCall

LEMMA CallReturns ==
    ASSUME NEW t \in Exiting!ExitCall, t.i > 0
    PROVE  LET e == [t EXCEPT !.inside = FALSE, !.i = @ - 1]
           IN  e \in Exiting!ExitCall /\ e.loop = t.loop /\ e.i = t.i - 1 /\ e.inside = FALSE
<1>1. t.i - 1 \in Nat /\ DOMAIN t = {"loop", "i", "inside"} /\ t.loop \in {"cxa", "atexit", "stdout", "stderr", "_exit"}
  BY DEF Exiting!ExitCall
<1> DEFINE i == t.i - 1
<1>2. i \in Nat /\ i = t.i - 1
  BY <1>1
<1> HIDE DEF i
<1>3. LET e == [t EXCEPT !.inside = FALSE, !.i = i]
      IN  e \in Exiting!ExitCall /\ e.loop = t.loop /\ e.i = i /\ e.inside = FALSE
  BY <1>1, <1>2 DEF Exiting!ExitCall
<1> QED
  BY <1>2, <1>3

LEMMA CallRuns ==
    ASSUME NEW t \in Exiting!ExitCall
    PROVE  LET e == [t EXCEPT !.inside = TRUE]
           IN  e \in Exiting!ExitCall /\ e.loop = t.loop /\ e.i = t.i /\ e.inside = TRUE
  BY DEF Exiting!ExitCall

LEMMA ReturnsStep == ExitInv /\ Exiting!HandlerReturns => ExitInv'
<1> SUFFICES ASSUME ExitInv, Exiting!HandlerReturns PROVE ExitInv'
  OBVIOUS
<1> DEFINE t == Exiting!Top
           e == [t EXCEPT !.inside = FALSE, !.i = @ - 1]
<1>1. exits # <<>> /\ t.inside /\ Exiting!SetTop(e)
      /\ UNCHANGED <<cxa_handlers, atexit_handlers, standard, printed, written, due, ran>>
  BY DEF Exiting!HandlerReturns
<1>2. /\ t = [loop |-> t.loop, i |-> t.i, inside |-> t.inside] /\ t.i \in Nat
      /\ t.loop \in {"cxa", "atexit"} /\ t.i > 0 /\ Level(t)
  BY <1>1, TopTypes DEF Level
<1>3. e \in Exiting!ExitCall /\ e.loop = t.loop /\ e.i = t.i - 1 /\ e.inside = FALSE
  BY <1>1, <1>2, TopTypes, CallReturns
<1>4. \A s, h : Beyond(s, e, h) <=> Beyond(s, t, h)
  BY <1>1, <1>2, <1>3 DEF Beyond
<1>5. \A h : Passed(e, h) <=> Passed(t, h)
  BY <1>3, <1>4 DEF Passed
<1>6. Level(e)
  <2>1. Len(cxa_handlers) \in Nat /\ Len(atexit_handlers) \in Nat
    BY DEF ExitInv, Exiting!TypeOK
  <2> QED
    BY <1>2, <1>3, <2>1 DEF Level
<1>7. Distinct' /\ Levels' /\ DueRan' /\ Bounded' /\ InOrder'
  BY <1>1, <1>3, <1>5, <1>6, TopMoves
<1>8. Exiting!TypeOK'
  BY <1>1, <1>3, TopSet DEF ExitInv, Exiting!TypeOK
<1>9. Output'
  BY <1>1, <1>2, <1>3, TopSet DEF Output
<1> QED
  BY <1>7, <1>8, <1>9 DEF ExitInv

LEMMA SecondLoopStep == ExitInv /\ Exiting!SecondLoop => ExitInv'
<1> SUFFICES ASSUME ExitInv, Exiting!SecondLoop PROVE ExitInv'
  OBVIOUS
<1> DEFINE t == Exiting!Top
           e == [t EXCEPT !.loop = "atexit", !.i = Len(atexit_handlers)]
<1>1. exits # <<>> /\ t.loop = "cxa" /\ ~ t.inside /\ t.i = 0 /\ Exiting!SetTop(e)
      /\ UNCHANGED <<cxa_handlers, atexit_handlers, standard, printed, written, due, ran>>
  BY DEF Exiting!SecondLoop, Exiting!Looping
<1>2. /\ t = [loop |-> t.loop, i |-> t.i, inside |-> t.inside] /\ t.i \in Nat /\ t.inside = FALSE
      /\ Len(cxa_handlers) \in Nat /\ Len(atexit_handlers) \in Nat
  BY <1>1, TopTypes DEF ExitInv, Exiting!TypeOK
<1>3. e \in Exiting!ExitCall /\ e.loop = "atexit" /\ e.i = Len(atexit_handlers) /\ e.inside = FALSE
  BY <1>2 DEF Exiting!ExitCall
<1>4. \A h : Beyond(cxa_handlers, t, h) <=> h \in Exiting!Range(cxa_handlers)
  BY <1>1, <1>2 DEF Beyond, Exiting!Range
<1>5. \A h : ~ Beyond(atexit_handlers, e, h)
  BY <1>2, <1>3 DEF Beyond
<1>6. \A h : Passed(e, h) <=> Passed(t, h)
  BY <1>1, <1>3, <1>4, <1>5 DEF Passed
<1>7. Level(e)
  BY <1>2, <1>3 DEF Level
<1>8. Distinct' /\ Levels' /\ DueRan' /\ Bounded' /\ InOrder'
  BY <1>1, <1>3, <1>6, <1>7, TopMoves
<1>9. Exiting!TypeOK'
  BY <1>1, <1>3, TopSet DEF ExitInv, Exiting!TypeOK
<1>10. Output'
  BY <1>1, <1>3, TopSet DEF Output
<1> QED
  BY <1>8, <1>9, <1>10 DEF ExitInv

LEMMA LoopsDoneStep == ExitInv /\ Exiting!LoopsDone => ExitInv'
<1> SUFFICES ASSUME ExitInv, Exiting!LoopsDone PROVE ExitInv'
  OBVIOUS
<1> DEFINE t == Exiting!Top
           e == [t EXCEPT !.loop = "stdout"]
<1>1. exits # <<>> /\ t.loop = "atexit" /\ ~ t.inside /\ t.i = 0 /\ Exiting!SetTop(e)
      /\ UNCHANGED <<cxa_handlers, atexit_handlers, standard, printed, written, due, ran>>
  BY DEF Exiting!LoopsDone, Exiting!Looping
<1>2. /\ t = [loop |-> t.loop, i |-> t.i, inside |-> t.inside] /\ t.i \in Nat /\ t.inside = FALSE
      /\ Len(atexit_handlers) \in Nat
  BY <1>1, TopTypes DEF ExitInv, Exiting!TypeOK
<1>3. e \in Exiting!ExitCall /\ e.loop = "stdout" /\ e.inside = FALSE
  BY <1>2 DEF Exiting!ExitCall
<1>4. \A h : Beyond(atexit_handlers, t, h) <=> h \in Exiting!Range(atexit_handlers)
  BY <1>1, <1>2 DEF Beyond, Exiting!Range
<1>5. \A h \in Exiting!Registered : Passed(t, h)
  BY <1>1, <1>4 DEF Passed, Exiting!Registered
<1>6. \A h : Passed(e, h)
  BY <1>3 DEF Passed
<1>7. Level(e)
  BY <1>3 DEF Level
<1>8. Distinct' /\ Levels' /\ DueRan' /\ Bounded' /\ InOrder'
  BY <1>1, <1>3, <1>5, <1>6, <1>7, TopMoves
<1>9. Exiting!TypeOK'
  BY <1>1, <1>3, TopSet DEF ExitInv, Exiting!TypeOK
<1>10. Output'
  BY <1>1, <1>3, TopSet DEF Output
<1> QED
  BY <1>8, <1>9, <1>10 DEF ExitInv

LEMMA CloseStdoutStep == ExitInv /\ Exiting!CloseStdout => ExitInv'
<1> SUFFICES ASSUME ExitInv, Exiting!CloseStdout PROVE ExitInv'
  OBVIOUS
<1> DEFINE t == Exiting!Top
           e == [t EXCEPT !.loop = "stderr"]
<1>1. exits # <<>> /\ t.loop = "stdout" /\ ~ t.inside /\ Exiting!SetTop(e)
      /\ UNCHANGED <<cxa_handlers, atexit_handlers, due, ran>>
  BY DEF Exiting!CloseStdout, Exiting!Looping
<1>2. standard' = standard \ {"stdout"} /\ written' = written + printed /\ printed' = 0
  BY DEF Exiting!CloseStdout
<1>3. t = [loop |-> t.loop, i |-> t.i, inside |-> t.inside] /\ t.i \in Nat /\ t.inside = FALSE
  BY <1>1, TopTypes
<1>4. e \in Exiting!ExitCall /\ e.loop = "stderr" /\ e.inside = FALSE
  BY <1>3 DEF Exiting!ExitCall
<1>5. \A h : Passed(e, h) /\ Passed(t, h)
  BY <1>1, <1>4 DEF Passed
<1>6. Level(e)
  BY <1>4 DEF Level
<1>7. Distinct' /\ Levels' /\ DueRan' /\ Bounded' /\ InOrder'
  BY <1>1, <1>4, <1>5, <1>6, TopMoves
<1>8. Exiting!TypeOK'
  BY <1>1, <1>2, <1>4, TopSet DEF ExitInv, Exiting!TypeOK
<1>9. Output'
  BY <1>1, <1>2, <1>4, TopSet DEF Output
<1> QED
  BY <1>7, <1>8, <1>9 DEF ExitInv

LEMMA CloseStderrStep == ExitInv /\ Exiting!CloseStderr => ExitInv'
<1> SUFFICES ASSUME ExitInv, Exiting!CloseStderr PROVE ExitInv'
  OBVIOUS
<1> DEFINE t == Exiting!Top
           e == [t EXCEPT !.loop = "_exit"]
<1>1. exits # <<>> /\ t.loop = "stderr" /\ ~ t.inside /\ Exiting!SetTop(e)
      /\ UNCHANGED <<cxa_handlers, atexit_handlers, printed, written, due, ran>>
  BY DEF Exiting!CloseStderr, Exiting!Looping
<1>2. standard' = standard \ {"stderr"}
  BY DEF Exiting!CloseStderr
<1>3. t = [loop |-> t.loop, i |-> t.i, inside |-> t.inside] /\ t.i \in Nat /\ t.inside = FALSE
  BY <1>1, TopTypes
<1>4. e \in Exiting!ExitCall /\ e.loop = "_exit" /\ e.inside = FALSE
  BY <1>3 DEF Exiting!ExitCall
<1>5. \A h : Passed(e, h) /\ Passed(t, h)
  BY <1>1, <1>4 DEF Passed
<1>6. Level(e)
  BY <1>4 DEF Level
<1>7. Distinct' /\ Levels' /\ DueRan' /\ Bounded' /\ InOrder'
  BY <1>1, <1>4, <1>5, <1>6, TopMoves
<1>8. Exiting!TypeOK'
  BY <1>1, <1>2, <1>4, TopSet DEF ExitInv, Exiting!TypeOK
<1>9. Output'
  BY <1>1, <1>2, <1>4, TopSet DEF ExitInv, Output
<1> QED
  BY <1>7, <1>8, <1>9 DEF ExitInv

LEMMA PrintfStep == ExitInv /\ Exiting!printf => ExitInv'
<1> SUFFICES ASSUME ExitInv, Exiting!printf PROVE ExitInv'
  OBVIOUS
<1>1. /\ exits # <<>> => Exiting!Top.inside
      /\ printed' = printed + 1
      /\ UNCHANGED <<cxa_handlers, atexit_handlers, exits, standard, written, due, ran>>
  BY DEF Exiting!printf, Exiting!Program
<1>2. exits \in Seq(Exiting!ExitCall) /\ \A k \in 1 .. Len(exits) : Level(exits[k])
  BY DEF ExitInv, Exiting!TypeOK, Levels
<1>3. Distinct' /\ Levels' /\ DueRan' /\ Bounded' /\ InOrder'
  BY <1>1, <1>2, Quietly
<1>4. Exiting!TypeOK'
  BY <1>1 DEF ExitInv, Exiting!TypeOK
<1>5. exits # <<>> => Exiting!Top.loop \in {"cxa", "atexit"}
  BY <1>1, TopTypes DEF Level
<1>6. exits' = exits /\ Exiting!Top' = Exiting!Top
  BY <1>1 DEF Exiting!Top
<1>7. Output'
  BY <1>5, <1>6 DEF Output
<1> QED
  BY <1>3, <1>4, <1>7 DEF ExitInv

(* The innermost call runs h, which it has not passed yet.                 *)
LEMMA TopRuns ==
    ASSUME ExitInv, exits # <<>>, NEW e \in Exiting!ExitCall, Exiting!SetTop(e), Level(e),
           NEW h \in Handler, ran' = Append(ran, h), UNCHANGED <<cxa_handlers, atexit_handlers, due>>,
           ~ Passed(Exiting!Top, h),
           \A x : Passed(e, x) <=> Passed(Exiting!Top, x) \/ x = h,
           \A x : Passed(Exiting!Top, x) => Earlier(x, h)
    PROVE  Distinct' /\ Levels' /\ DueRan' /\ Bounded' /\ InOrder'
<1> DEFINE n == Len(exits)
           m == Len(ran)
<1>1. /\ n \in 1 .. n /\ n \in Nat /\ Len(exits') = n /\ Exiting!Top = exits[n]
      /\ \A k \in 1 .. n : exits'[k] = IF k = n THEN e ELSE exits[k]
  BY TopSet DEF ExitInv, Exiting!TypeOK
<1>2. /\ ran \in Seq(Handler) /\ m \in Nat /\ Len(ran') = m + 1
      /\ ran'[m + 1] = h /\ \A a \in 1 .. m : ran'[a] = ran[a]
  BY DEF ExitInv, Exiting!TypeOK
<1> HIDE DEF n, m
<1>3. \A x, k : /\ Passed(exits[k], x)' <=> Passed(exits'[k], x)
                /\ Level(exits[k])' <=> Level(exits'[k])
  BY DEF Passed, Level, Beyond, Exiting!Range
<1>4. \A x : \A k \in 1 .. n : Passed(exits'[k], x) <=> Passed(exits[k], x) \/ (k = n /\ x = h)
  BY <1>1
<1>5. Exiting!Range(ran)' = Exiting!Range(ran) \cup {h}
  <2>1. Exiting!Range(ran)' = {ran'[a] : a \in 1 .. m + 1} /\ Exiting!Range(ran) = {ran[a] : a \in 1 .. m}
    BY <1>2 DEF Exiting!Range, m
  <2>2. 1 .. m + 1 = (1 .. m) \cup {m + 1}
    BY <1>2
  <2> QED
    BY <1>2, <2>1, <2>2
<1>6. Distinct'
  BY DEF ExitInv, Distinct
<1>7. Levels'
  BY <1>1, <1>3 DEF ExitInv, Levels, n
<1>8. DueRan'
  <2>1. due \subseteq Exiting!Registered /\ \A k \in 1 .. n, x \in due : Passed(exits[k], x) => x \in Exiting!Range(ran)
    BY DEF ExitInv, DueRan, n
  <2>2. Exiting!Registered' = Exiting!Registered
    BY DEF Exiting!Registered, Exiting!Range
  <2> QED
    BY <1>1, <1>3, <1>4, <1>5, <2>1, <2>2 DEF DueRan
<1>9. Bounded'
  <2> SUFFICES ASSUME NEW x \in Handler
              PROVE  Cardinality(RunsOf(x)') <= Cardinality(PassesOf(x)')
    BY DEF Bounded
  <2>1. Cardinality(RunsOf(x)) <= Cardinality(PassesOf(x))
    BY DEF ExitInv, Bounded
  <2>2. RunsOf(x) \subseteq 1 .. m /\ PassesOf(x) \subseteq 1 .. n
    BY DEF RunsOf, PassesOf, m, n
  <2>3. PassesOf(x) \subseteq PassesOf(x)' /\ PassesOf(x)' \subseteq 1 .. n
    BY <1>1, <1>3, <1>4 DEF PassesOf, n
  <2>4. RunsOf(x)' = IF x = h THEN RunsOf(x) \cup {m + 1} ELSE RunsOf(x)
    <3>1. RunsOf(x)' = {a \in 1 .. m + 1 : ran'[a] = x} /\ RunsOf(x) = {a \in 1 .. m : ran[a] = x}
      BY <1>2 DEF RunsOf, m
    <3>2. 1 .. m + 1 = (1 .. m) \cup {m + 1}
      BY <1>2
    <3> QED
      BY <1>2, <3>1, <3>2
  <2>5. CASE x # h
    <3> HIDE DEF RunsOf, PassesOf
    <3> QED
      BY <1>1, <1>2, <2>1, <2>2, <2>3, <2>4, <2>5, Grows
  <2>6. CASE x = h
    <3>1. PassesOf(h)' = PassesOf(h) \cup {n} /\ n \notin PassesOf(h)
      <4>1. PassesOf(h)' = {k \in 1 .. n : Passed(exits[k], h) \/ k = n}
        BY <1>1, <1>3, <1>4 DEF PassesOf
      <4>2. PassesOf(h) = {k \in 1 .. n : Passed(exits[k], h)}
        BY DEF PassesOf, n
      <4> QED
        BY <1>1, <4>1, <4>2
    <3>2. m + 1 \notin RunsOf(h)
      BY <1>2, <2>2, <2>6
    <3> HIDE DEF RunsOf, PassesOf
    <3>3. /\ IsFiniteSet(RunsOf(h)) /\ Cardinality(RunsOf(h)) \in Nat
          /\ IsFiniteSet(PassesOf(h)) /\ Cardinality(PassesOf(h)) \in Nat
      BY <1>1, <1>2, <2>2, <2>6, Grows
    <3>4. /\ Cardinality(RunsOf(h) \cup {m + 1}) = Cardinality(RunsOf(h)) + 1
          /\ Cardinality(PassesOf(h) \cup {n}) = Cardinality(PassesOf(h)) + 1
      BY <3>1, <3>2, <3>3, FS_AddElement
    <3> QED
      BY <2>1, <2>4, <2>6, <3>1, <3>3, <3>4
  <2> QED
    BY <2>5, <2>6
<1>10. InOrder'
  <2>1. \A x, y : Earlier(x, y)' <=> Earlier(x, y)
    BY DEF Earlier, Exiting!Before, Exiting!Range
  <2>2. exits' # <<>>
    BY TopSet
  <2>3. n = 1 => \A a \in 1 .. Len(ran') : Passed(exits'[1], ran'[a])
    <3> SUFFICES ASSUME n = 1, NEW a \in 1 .. m + 1 PROVE Passed(exits'[1], ran'[a])
      BY <1>2
    <3>1. CASE a = m + 1
      BY <1>1, <1>2, <1>4, <3>1
    <3>2. CASE a \in 1 .. m
      <4>1. Passed(exits[1], ran[a])
        BY <3>2 DEF ExitInv, InOrder, n, m
      <4> QED
        BY <1>1, <1>2, <1>4, <3>2, <4>1
    <3> QED
      BY <1>2, <3>1, <3>2
  <2>4. n <= 1 => \A a, b \in 1 .. Len(ran') : a < b => Earlier(ran'[a], ran'[b])
    <3> SUFFICES ASSUME n <= 1, NEW a \in 1 .. m + 1, NEW b \in 1 .. m + 1, a < b
                PROVE  Earlier(ran'[a], ran'[b])
      BY <1>2
    <3>1. n = 1 /\ a \in 1 .. m
      BY <1>1, <1>2
    <3>2. CASE b = m + 1
      <4>1. Passed(exits[1], ran[a])
        BY <3>1 DEF ExitInv, InOrder, n, m
      <4> QED
        BY <1>1, <1>2, <3>1, <3>2, <4>1
    <3>3. CASE b \in 1 .. m
      <4>1. Earlier(ran[a], ran[b])
        BY <3>1, <3>3 DEF ExitInv, InOrder, n, m
      <4> QED
        BY <1>2, <3>1, <3>3, <4>1
    <3> QED
      BY <1>2, <3>2, <3>3
  <2> QED
    BY <1>1, <1>3, <2>1, <2>2, <2>3, <2>4 DEF InOrder
<1> QED
  BY <1>6, <1>7, <1>8, <1>9, <1>10

(* A loop reaches its next entry.                                          *)
LEMMA EntryReached ==
    ASSUME NEW s \in Seq(Handler), NEW t, NEW e, t.i \in 1 .. Len(s), ~ t.inside, e.i = t.i, e.inside,
           \A i, j \in 1 .. Len(s) : s[i] = s[j] => i = j
    PROVE  /\ s[t.i] \in Handler /\ ~ Beyond(s, t, s[t.i])
           /\ \A x : Beyond(s, e, x) <=> Beyond(s, t, x) \/ x = s[t.i]
           /\ \A x : Beyond(s, t, x) => Exiting!Before(s, s[t.i], x)
<1>1. s[t.i] \in Handler
  OBVIOUS
<1>2. ~ Beyond(s, t, s[t.i])
  BY DEF Beyond
<1>3. \A x : Beyond(s, e, x) <=> Beyond(s, t, x) \/ x = s[t.i]
  BY DEF Beyond
<1>4. \A x : Beyond(s, t, x) => Exiting!Before(s, s[t.i], x)
  BY DEF Beyond, Exiting!Before
<1> QED
  BY <1>1, <1>2, <1>3, <1>4

LEMMA RunStep == \A loop \in {"cxa", "atexit"} : ExitInv /\ Exiting!RunHandler(loop) => ExitInv'
<1> SUFFICES ASSUME NEW loop \in {"cxa", "atexit"}, ExitInv, Exiting!RunHandler(loop) PROVE ExitInv'
  OBVIOUS
<1> DEFINE t == Exiting!Top
           e == [t EXCEPT !.inside = TRUE]
           h == Exiting!EntriesOf(loop)[t.i]
<1>1. exits # <<>> /\ t.loop = loop /\ ~ t.inside /\ t.i > 0 /\ Exiting!SetTop(e)
      /\ ran' = Append(ran, h)
      /\ UNCHANGED <<cxa_handlers, atexit_handlers, standard, printed, written, due>>
  BY DEF Exiting!RunHandler, Exiting!Looping
<1>2. t = [loop |-> t.loop, i |-> t.i, inside |-> t.inside] /\ t.i \in Nat /\ Level(t)
  BY <1>1, TopTypes
<1>3. e \in Exiting!ExitCall /\ e.loop = loop /\ e.i = t.i /\ e.inside = TRUE
  BY <1>1, TopTypes, CallRuns
<1>4. cxa_handlers \in Seq(Handler) /\ atexit_handlers \in Seq(Handler)
  BY DEF ExitInv, Exiting!TypeOK
<1>5. Level(e)
  <2> HIDE DEF e, t
  <2> QED
    BY <1>1, <1>2, <1>3 DEF Level
<1>6. /\ h \in Handler /\ ~ Passed(t, h)
      /\ \A x : Passed(e, x) <=> Passed(t, x) \/ x = h
      /\ \A x : Passed(t, x) => Earlier(x, h)
  <2> HIDE DEF e, t
  <2>1. CASE loop = "cxa"
    <3>1. h = cxa_handlers[t.i] /\ t.i \in 1 .. Len(cxa_handlers)
      BY <1>1, <1>2, <1>4, <2>1 DEF Exiting!EntriesOf, Level
    <3>2. /\ cxa_handlers[t.i] \in Handler /\ ~ Beyond(cxa_handlers, t, cxa_handlers[t.i])
          /\ \A x : Beyond(cxa_handlers, e, x) <=> Beyond(cxa_handlers, t, x) \/ x = cxa_handlers[t.i]
          /\ \A x : Beyond(cxa_handlers, t, x) => Exiting!Before(cxa_handlers, cxa_handlers[t.i], x)
      BY <1>1, <1>3, <1>4, <3>1, EntryReached DEF ExitInv, Distinct
    <3> HIDE DEF h
    <3> QED
      BY <1>1, <1>3, <2>1, <3>1, <3>2 DEF Passed, Earlier
  <2>2. CASE loop = "atexit"
    <3>1. h = atexit_handlers[t.i] /\ t.i \in 1 .. Len(atexit_handlers)
      BY <1>1, <1>2, <1>4, <2>2 DEF Exiting!EntriesOf, Level
    <3>2. /\ atexit_handlers[t.i] \in Handler /\ ~ Beyond(atexit_handlers, t, atexit_handlers[t.i])
          /\ \A x : Beyond(atexit_handlers, e, x) <=> Beyond(atexit_handlers, t, x) \/ x = atexit_handlers[t.i]
          /\ \A x : Beyond(atexit_handlers, t, x) => Exiting!Before(atexit_handlers, atexit_handlers[t.i], x)
      BY <1>1, <1>3, <1>4, <3>1, EntryReached DEF ExitInv, Distinct
    <3>3. h \notin Exiting!Range(cxa_handlers) /\ h \in Exiting!Range(atexit_handlers)
      BY <3>1 DEF ExitInv, Distinct, Exiting!Range
    <3> HIDE DEF h
    <3> QED
      BY <1>1, <1>3, <2>2, <3>1, <3>2, <3>3 DEF Passed, Earlier
  <2> QED
    BY <2>1, <2>2
<1>7. Distinct' /\ Levels' /\ DueRan' /\ Bounded' /\ InOrder'
  <2> HIDE DEF e, h
  <2> QED
    BY <1>1, <1>3, <1>5, <1>6, TopRuns
<1>8. Exiting!TypeOK'
  <2> HIDE DEF e, h
  <2> QED
    BY <1>1, <1>3, <1>6, TopSet DEF ExitInv, Exiting!TypeOK
<1>9. Output'
  <2> HIDE DEF e
  <2> QED
    BY <1>1, <1>3, TopSet DEF Output
<1> QED
  BY <1>7, <1>8, <1>9 DEF ExitInv

(* A handler is added to the end of a list: what was passed is passed, and *)
(* the order of two entries stays.                                         *)
LEMMA Appended ==
    ASSUME NEW s \in Seq(Handler), NEW h \in Handler
    PROVE  /\ Append(s, h) \in Seq(Handler) /\ Len(Append(s, h)) = Len(s) + 1 /\ Len(s) \in Nat
           /\ \A i \in 1 .. Len(s) : Append(s, h)[i] = s[i]
           /\ Append(s, h)[Len(s) + 1] = h
           /\ Exiting!Range(Append(s, h)) = Exiting!Range(s) \cup {h}
           /\ \A e, x : Beyond(s, e, x) => Beyond(Append(s, h), e, x)
           /\ \A e, x : Beyond(Append(s, h), e, x) => Beyond(s, e, x) \/ x = h
           /\ \A x, y : Exiting!Before(s, x, y) => Exiting!Before(Append(s, h), x, y)
<1> DEFINE r == Append(s, h)
           n == Len(s)
<1>1. r \in Seq(Handler) /\ Len(r) = n + 1 /\ n \in Nat /\ (\A i \in 1 .. n : r[i] = s[i]) /\ r[n + 1] = h
  OBVIOUS
<1> HIDE DEF r
<1>2. 1 .. n + 1 = (1 .. n) \cup {n + 1}
  BY <1>1
<1>3. Exiting!Range(r) = Exiting!Range(s) \cup {h}
  BY <1>1, <1>2 DEF Exiting!Range
<1>4. \A e, x : Beyond(s, e, x) => Beyond(r, e, x)
  BY <1>1 DEF Beyond
<1>5. \A e, x : Beyond(r, e, x) => Beyond(s, e, x) \/ x = h
  BY <1>1, <1>2 DEF Beyond
<1>6. \A x, y : Exiting!Before(s, x, y) => Exiting!Before(r, x, y)
  BY <1>1 DEF Exiting!Before
<1> QED
  BY <1>1, <1>3, <1>4, <1>5, <1>6 DEF r

(* A new entry in one of the lists.                                        *)
LEMMA Registers ==
    ASSUME ExitInv, Exiting!Program, NEW h \in Handler, h \notin Exiting!Registered,
           UNCHANGED <<exits, standard, printed, written, due, ran>>,
           \/ cxa_handlers' = Append(cxa_handlers, h) /\ atexit_handlers' = atexit_handlers
           \/ atexit_handlers' = Append(atexit_handlers, h) /\ cxa_handlers' = cxa_handlers
    PROVE  ExitInv'
<1> DEFINE C == cxa_handlers
           A == atexit_handlers
<1>1. C \in Seq(Handler) /\ A \in Seq(Handler) /\ exits \in Seq(Exiting!ExitCall)
  BY DEF ExitInv, Exiting!TypeOK
<1>2. /\ Exiting!Registered = Exiting!Range(C) \cup Exiting!Range(A)
      /\ (Exiting!Registered)' = Exiting!Range(C') \cup Exiting!Range(A')
      /\ Exiting!Range(ran)' = Exiting!Range(ran)
  BY DEF Exiting!Registered, Exiting!Range
<1>3. /\ \A i \in 1 .. Len(C) : C[i] # h
      /\ \A i \in 1 .. Len(A) : A[i] # h
  BY <1>2 DEF Exiting!Range
<1>4. /\ C' \in Seq(Handler) /\ A' \in Seq(Handler)
      /\ Len(C) \in Nat /\ Len(A) \in Nat /\ Len(C) <= Len(C') /\ Len(A) <= Len(A')
      /\ Exiting!Range(C) \subseteq Exiting!Range(C') /\ Exiting!Range(A) \subseteq Exiting!Range(A')
      /\ Exiting!Range(C') \subseteq Exiting!Range(C) \cup {h} /\ Exiting!Range(A') \subseteq Exiting!Range(A) \cup {h}
      /\ \A e, x : Beyond(C, e, x) => Beyond(C', e, x)
      /\ \A e, x : Beyond(A, e, x) => Beyond(A', e, x)
      /\ \A e, x : Beyond(C', e, x) => Beyond(C, e, x) \/ x = h
      /\ \A e, x : Beyond(A', e, x) => Beyond(A, e, x) \/ x = h
      /\ \A x, y : Exiting!Before(C, x, y) => Exiting!Before(C', x, y)
      /\ \A x, y : Exiting!Before(A, x, y) => Exiting!Before(A', x, y)
  <2>1. CASE C' = Append(C, h) /\ A' = A
    <3>1. C' \in Seq(Handler) /\ Len(C') = Len(C) + 1 /\ Len(C) \in Nat /\ Exiting!Range(C') = Exiting!Range(C) \cup {h}
      BY <1>1, <2>1, Appended
    <3>2. /\ \A e, x : Beyond(C, e, x) => Beyond(C', e, x)
          /\ \A e, x : Beyond(C', e, x) => Beyond(C, e, x) \/ x = h
          /\ \A x, y : Exiting!Before(C, x, y) => Exiting!Before(C', x, y)
      BY <1>1, <2>1, Appended
    <3> QED
      BY <1>1, <2>1, <3>1, <3>2
  <2>2. CASE A' = Append(A, h) /\ C' = C
    <3>1. A' \in Seq(Handler) /\ Len(A') = Len(A) + 1 /\ Len(A) \in Nat /\ Exiting!Range(A') = Exiting!Range(A) \cup {h}
      BY <1>1, <2>2, Appended
    <3>2. /\ \A e, x : Beyond(A, e, x) => Beyond(A', e, x)
          /\ \A e, x : Beyond(A', e, x) => Beyond(A, e, x) \/ x = h
          /\ \A x, y : Exiting!Before(A, x, y) => Exiting!Before(A', x, y)
      BY <1>1, <2>2, Appended
    <3> QED
      BY <1>1, <2>2, <3>1, <3>2
  <2> QED
    BY <2>1, <2>2
<1>5. Distinct'
  <2>1. CASE C' = Append(C, h) /\ A' = A
    BY <1>1, <1>3, <2>1, Appended DEF ExitInv, Distinct
  <2>2. CASE A' = Append(A, h) /\ C' = C
    BY SMTT(30), <1>1, <1>3, <2>2, Appended DEF ExitInv, Distinct
  <2> QED
    BY <2>1, <2>2
<1>6. /\ \A k, x : Passed(exits[k], x) => Passed(exits[k], x)'
      /\ \A k, x : Passed(exits[k], x)' => Passed(exits[k], x) \/ x = h
      /\ \A x, y : Earlier(x, y) => Earlier(x, y)'
  <2>1. \A s, x : (Exiting!Range(s)' = Exiting!Range(s')) /\ \A k : Beyond(s, exits[k], x)' <=> Beyond(s', exits[k], x)
    BY DEF Exiting!Range, Beyond
  <2>2. \A x, y : /\ Exiting!Before(C, y, x)' <=> Exiting!Before(C', y, x)
                  /\ Exiting!Before(A, y, x)' <=> Exiting!Before(A', y, x)
    BY DEF Exiting!Before
  <2>3. \A k, x : Beyond(C, exits[k], x)' <=> Beyond(C', exits[k], x)
    BY DEF Beyond
  <2>4. \A k, x : Beyond(A, exits[k], x)' <=> Beyond(A', exits[k], x)
    BY DEF Beyond
  <2>5. Exiting!Range(C)' = Exiting!Range(C') /\ Exiting!Range(A)' = Exiting!Range(A')
    BY DEF Exiting!Range
  <2>6. \A k, x : Passed(exits[k], x) => Passed(exits[k], x)'
    BY <1>4, <2>3, <2>4, <2>5 DEF Passed
  <2>7. \A k, x : Passed(exits[k], x)' => Passed(exits[k], x) \/ x = h
    BY <1>4, <2>3, <2>4, <2>5 DEF Passed
  <2>8. \A x, y : Earlier(x, y) => Earlier(x, y)'
    BY <1>4, <2>2, <2>5 DEF Earlier
  <2> QED
    BY <2>6, <2>7, <2>8
<1>7. Levels'
  <2> SUFFICES ASSUME NEW k \in 1 .. Len(exits) PROVE Level(exits[k])'
    BY DEF Levels
  <2>1. Level(exits[k]) /\ exits[k].i \in Nat
    BY LevelTypes DEF ExitInv, Levels
  <2> QED
    BY <1>4, <2>1 DEF Level
<1>8. DueRan'
  BY <1>2, <1>4, <1>6 DEF ExitInv, DueRan
<1>9. Bounded'
  <2> SUFFICES ASSUME NEW x \in Handler
              PROVE  Cardinality(RunsOf(x)') <= Cardinality(PassesOf(x)')
    BY DEF Bounded
  <2>1. RunsOf(x)' = RunsOf(x)
    BY DEF RunsOf
  <2>2. PassesOf(x) \subseteq PassesOf(x)' /\ PassesOf(x)' \subseteq 1 .. Len(exits)
    BY <1>6 DEF PassesOf
  <2>3. Len(exits) \in Nat /\ RunsOf(x) \subseteq 1 .. Len(ran) /\ Len(ran) \in Nat
    BY DEF ExitInv, Exiting!TypeOK, RunsOf
  <2>4. Cardinality(RunsOf(x)) <= Cardinality(PassesOf(x))
    BY DEF ExitInv, Bounded
  <2> HIDE DEF RunsOf, PassesOf
  <2> QED
    BY <2>1, <2>2, <2>3, <2>4, Grows
<1>10. InOrder'
  BY <1>6 DEF ExitInv, InOrder
<1>11. Exiting!TypeOK'
  BY <1>4 DEF ExitInv, Exiting!TypeOK
<1>12. Output'
  <2>1. exits' = exits /\ Exiting!Top' = Exiting!Top
    BY DEF Exiting!Top
  <2> QED
    BY <2>1 DEF ExitInv, Output
<1> QED
  BY <1>5, <1>7, <1>8, <1>9, <1>10, <1>11, <1>12 DEF ExitInv

LEMMA RegisterStep == \A h \in Handler : ExitInv /\ (Exiting!atexit(h) \/ Exiting!__cxa_atexit(h)) => ExitInv'
  BY Registers DEF Exiting!atexit, Exiting!__cxa_atexit

(* A call of exit begins.                                                  *)
LEMMA Enters ==
    ASSUME ExitInv, exits' = Append(exits, Exiting!Entered), Exiting!Program,
           due' = IF exits = <<>> THEN Exiting!Registered ELSE due,
           standard' \subseteq standard, UNCHANGED <<cxa_handlers, atexit_handlers, printed, written, ran>>
    PROVE  ExitInv'
<1> DEFINE n == Len(exits)
           e == Exiting!Entered
<1>1. /\ exits \in Seq(Exiting!ExitCall) /\ n \in Nat
      /\ Len(cxa_handlers) \in Nat /\ Len(atexit_handlers) \in Nat /\ Len(ran) \in Nat
  BY DEF ExitInv, Exiting!TypeOK
<1>2. e \in Exiting!ExitCall /\ e.loop = "cxa" /\ e.i = Len(cxa_handlers) /\ e.inside = FALSE
  BY <1>1 DEF Exiting!Entered, Exiting!ExitCall
<1> HIDE DEF e
<1>3. /\ exits' \in Seq(Exiting!ExitCall) /\ Len(exits') = n + 1 /\ exits' # <<>>
      /\ exits'[n + 1] = e /\ \A k \in 1 .. n : exits'[k] = exits[k]
  BY <1>1, <1>2 DEF e
<1>4. Exiting!Top' = e
  BY <1>3 DEF Exiting!Top
<1> HIDE DEF n
<1>5. \A x, k : /\ Passed(exits[k], x)' <=> Passed(exits'[k], x)
                /\ Level(exits[k])' <=> Level(exits'[k])
  BY DEF Passed, Level, Beyond, Exiting!Range
<1>6. \A x : ~ Passed(e, x)
  BY <1>1, <1>2 DEF Passed, Beyond
<1>7. Level(e)
  BY <1>1, <1>2 DEF Level
<1>8. Exiting!Registered' = Exiting!Registered /\ Exiting!Range(ran)' = Exiting!Range(ran)
  BY DEF Exiting!Registered, Exiting!Range
<1>9. Distinct'
  BY DEF ExitInv, Distinct
<1>10. Levels'
  <2>1. \A k \in 1 .. n : Level(exits[k])
    BY DEF ExitInv, Levels, n
  <2>2. \A k \in 1 .. n + 1 : k = n + 1 \/ k \in 1 .. n
    BY <1>1
  <2>3. \A k \in 1 .. n + 1 : Level(exits'[k])
    BY <1>3, <1>7, <2>1, <2>2
  <2> QED
    BY <1>3, <1>5, <2>3 DEF Levels
<1>11. DueRan'
  <2>1. due \subseteq Exiting!Registered /\ \A k \in 1 .. n, x \in due : Passed(exits[k], x) => x \in Exiting!Range(ran)
    BY DEF ExitInv, DueRan, n
  <2>2. exits = <<>> => n = 0
    BY DEF n
  <2>3. \A k \in 1 .. Len(exits') : k = n + 1 \/ (k \in 1 .. n /\ exits # <<>>)
    BY <1>1, <1>3, <2>2
  <2>4. \A k \in 1 .. Len(exits'), x \in due' : Passed(exits'[k], x) => x \in Exiting!Range(ran)
    BY <1>3, <1>6, <2>1, <2>3
  <2> QED
    BY <1>5, <1>8, <2>1, <2>4 DEF DueRan
<1>12. Bounded'
  <2> SUFFICES ASSUME NEW x \in Handler
              PROVE  Cardinality(RunsOf(x)') <= Cardinality(PassesOf(x)')
    BY DEF Bounded
  <2>1. RunsOf(x)' = RunsOf(x)
    BY DEF RunsOf
  <2>2. PassesOf(x) \subseteq PassesOf(x)' /\ PassesOf(x)' \subseteq 1 .. n + 1
    <3>1. PassesOf(x) = {k \in 1 .. n : Passed(exits[k], x)} /\ 1 .. n \subseteq 1 .. n + 1
      BY <1>1 DEF PassesOf, n
    <3>2. PassesOf(x)' = {k \in 1 .. n + 1 : Passed(exits'[k], x)}
      BY <1>3, <1>5 DEF PassesOf
    <3> QED
      BY <1>3, <3>1, <3>2
  <2>3. n + 1 \in Nat /\ RunsOf(x) \subseteq 1 .. Len(ran)
    BY <1>1 DEF RunsOf
  <2>4. Cardinality(RunsOf(x)) <= Cardinality(PassesOf(x))
    BY DEF ExitInv, Bounded
  <2> HIDE DEF RunsOf, PassesOf
  <2> QED
    BY SMTT(30), <1>1, <2>1, <2>2, <2>3, <2>4, Grows
<1>13. InOrder'
  <2>1. Len(exits') = 1 => ran = <<>>
    BY <1>1, <1>3 DEF ExitInv, InOrder, n
  <2>2. ran = <<>> => 1 .. Len(ran) = {}
    OBVIOUS
  <2>3. Len(exits') <= 1 => Len(exits') = 1
    BY <1>1, <1>3
  <2> QED
    BY <1>3, <2>1, <2>2, <2>3 DEF InOrder
<1>14. Exiting!TypeOK'
  <2>1. Exiting!Registered \subseteq Handler
    BY DEF ExitInv, Exiting!TypeOK, Exiting!Registered, Exiting!Range
  <2>2. due' \subseteq Handler
    BY <2>1 DEF ExitInv, Exiting!TypeOK
  <2> QED
    BY <1>3, <2>2 DEF ExitInv, Exiting!TypeOK
<1>15. Output'
  BY <1>2, <1>4 DEF Output
<1> QED
  BY <1>9, <1>10, <1>11, <1>12, <1>13, <1>14, <1>15 DEF ExitInv

LEMMA EnterStep == ExitInv /\ (Exiting!exit \/ Exiting!_after_main) => ExitInv'
<1>1. ASSUME ExitInv, Exiting!exit PROVE ExitInv'
  BY <1>1, Enters DEF Exiting!exit
<1>2. ASSUME ExitInv, Exiting!_after_main PROVE ExitInv'
  <2>1. exits' = Append(exits, Exiting!Entered) /\ Exiting!Program
    BY <1>2 DEF Exiting!_after_main, Exiting!Program
  <2> QED
    BY <1>2, <2>1, Enters DEF Exiting!_after_main
<1> QED
  BY <1>1, <1>2

LEMMA ExitStarts == Exiting!Init => ExitInv
<1> SUFFICES ASSUME Exiting!Init PROVE ExitInv
  OBVIOUS
<1>1. /\ cxa_handlers = <<>> /\ atexit_handlers = <<>> /\ exits = <<>> /\ ran = <<>> /\ due = {}
      /\ standard = {"stdin", "stdout", "stderr"} /\ printed = 0 /\ written = 0
  BY DEF Exiting!Init
<1>2. Exiting!TypeOK
  BY <1>1 DEF Exiting!TypeOK
<1>3. Distinct /\ Levels /\ DueRan /\ InOrder /\ Output
  BY <1>1 DEF Distinct, Levels, DueRan, InOrder, Output
<1>4. \A h : RunsOf(h) = {} /\ PassesOf(h) = {}
  BY <1>1 DEF RunsOf, PassesOf
<1>5. Cardinality({}) = 0
  BY FS_EmptySet
<1>6. Bounded
  BY <1>4, <1>5 DEF Bounded
<1> QED
  BY <1>2, <1>3, <1>6 DEF ExitInv

LEMMA ExitStands ==
    ASSUME ExitInv, UNCHANGED <<cxa_handlers, atexit_handlers, exits, standard, printed, written, due, ran>>
    PROVE  ExitInv'
<1>1. exits \in Seq(Exiting!ExitCall) /\ \A k \in 1 .. Len(exits) : Level(exits[k])
  BY DEF ExitInv, Exiting!TypeOK, Levels
<1>2. Distinct' /\ Levels' /\ DueRan' /\ Bounded' /\ InOrder'
  BY <1>1, Quietly
<1>3. Exiting!TypeOK'
  BY DEF ExitInv, Exiting!TypeOK
<1>4. Exiting!Top' = Exiting!Top
  BY DEF Exiting!Top
<1>5. Output'
  BY <1>4 DEF ExitInv, Output
<1> QED
  BY <1>2, <1>3, <1>5 DEF ExitInv

LEMMA ExitGoesOn == ExitInv /\ Exiting!Next => ExitInv'
<1> SUFFICES ASSUME ExitInv, Exiting!Next PROVE ExitInv'
  OBVIOUS
<1>1. CASE \E h \in Handler : Exiting!atexit(h) \/ Exiting!__cxa_atexit(h)
  BY <1>1, RegisterStep
<1>2. CASE Exiting!printf
  BY <1>2, PrintfStep
<1>3. CASE Exiting!exit \/ Exiting!_after_main
  BY <1>3, EnterStep
<1>4. CASE Exiting!RunHandler("cxa") \/ Exiting!RunHandler("atexit")
  BY <1>4, RunStep
<1>5. CASE Exiting!HandlerReturns
  BY <1>5, ReturnsStep
<1>6. CASE Exiting!SecondLoop
  BY <1>6, SecondLoopStep
<1>7. CASE Exiting!LoopsDone
  BY <1>7, LoopsDoneStep
<1>8. CASE Exiting!CloseStdout
  BY <1>8, CloseStdoutStep
<1>9. CASE Exiting!CloseStderr
  BY <1>9, CloseStderrStep
<1>10. CASE Exiting!Terminated
  <2>1. UNCHANGED <<cxa_handlers, atexit_handlers, exits, standard, printed, written, due, ran>>
    BY <1>10 DEF Exiting!Terminated, Exiting!vars
  <2> QED
    BY <2>1, ExitStands
<1> QED
  BY <1>1, <1>2, <1>3, <1>4, <1>5, <1>6, <1>7, <1>8, <1>9, <1>10 DEF Exiting!Next, Exiting!Ending

(* What the invariant says of the end of the process.                      *)
LEMMA EndOfExit ==
    ASSUME ExitInv
    PROVE  /\ Exiting!TypeOK /\ Exiting!DueHandlersRan /\ Exiting!OncePerCall
           /\ Exiting!ReverseOrder /\ Exiting!NothingUnwritten
<1>1. /\ ran \in Seq(Handler) /\ Len(ran) \in Nat /\ DOMAIN ran = 1 .. Len(ran)
      /\ exits \in Seq(Exiting!ExitCall) /\ Len(exits) \in Nat
      /\ exits # <<>> => Len(exits) \in 1 .. Len(exits)
  BY DEF ExitInv, Exiting!TypeOK
<1>2. Exiting!Gone => due \subseteq Exiting!Range(ran)
  <2> SUFFICES ASSUME Exiting!Gone, NEW h \in due PROVE h \in Exiting!Range(ran)
    OBVIOUS
  <2>1. Len(exits) \in 1 .. Len(exits) /\ exits[Len(exits)].loop = "_exit"
    BY <1>1 DEF Exiting!Gone, Exiting!Top
  <2>2. Passed(exits[Len(exits)], h)
    BY <2>1 DEF Passed
  <2> QED
    BY <2>1, <2>2 DEF ExitInv, DueRan
<1>3. Exiting!Once => \A a, b \in 1 .. Len(ran) : ran[a] = ran[b] => a = b
  <2> SUFFICES ASSUME Exiting!Once, NEW a \in 1 .. Len(ran), NEW b \in 1 .. Len(ran), a < b, ran[a] = ran[b]
              PROVE  FALSE
    BY <1>1
  <2>1. Earlier(ran[a], ran[a])
    BY DEF ExitInv, InOrder, Exiting!Once
  <2> QED
    BY <2>1 DEF ExitInv, Distinct, Earlier, Exiting!Before, Exiting!Range
<1>4. Exiting!Once => Cardinality(Exiting!Range(ran)) = Len(ran)
  <2> SUFFICES ASSUME Exiting!Once PROVE Cardinality(Exiting!Range(ran)) = Len(ran)
    OBVIOUS
  <2>1. ran \in Surjection(1 .. Len(ran), Exiting!Range(ran)) /\ ran \in Injection(1 .. Len(ran), Exiting!Range(ran))
    BY <1>1, <1>3 DEF Surjection, Injection, IsInjective, Exiting!Range
  <2>2. IsFiniteSet(1 .. Len(ran)) /\ Cardinality(1 .. Len(ran)) = Len(ran)
    BY <1>1, CountTo
  <2> QED
    BY <2>1, <2>2, FS_Surjection
<1>5. Exiting!DueHandlersRan
  BY <1>2, <1>4, SameCount DEF Exiting!DueHandlersRan
<1>6. Exiting!OncePerCall
  <2> SUFFICES ASSUME NEW h \in Handler PROVE Cardinality({i \in DOMAIN ran : ran[i] = h}) <= Len(exits)
    BY SameCount DEF Exiting!OncePerCall
  <2>1. RunsOf(h) = {i \in DOMAIN ran : ran[i] = h}
    BY <1>1 DEF RunsOf
  <2>2. Cardinality(RunsOf(h)) <= Cardinality(PassesOf(h))
    BY DEF ExitInv, Bounded
  <2>3. RunsOf(h) \subseteq 1 .. Len(ran) /\ PassesOf(h) \subseteq 1 .. Len(exits)
    BY DEF RunsOf, PassesOf
  <2>4. Cardinality(RunsOf(h)) \in Nat /\ Cardinality(PassesOf(h)) \in Nat /\ Cardinality(PassesOf(h)) <= Len(exits)
    BY <1>1, <2>3, Grows
  <2> HIDE DEF RunsOf, PassesOf
  <2> QED
    BY <1>1, <2>1, <2>2, <2>4
<1>7. Exiting!ReverseOrder
  <2> SUFFICES ASSUME Exiting!Once, NEW g \in due, NEW h \in due, Exiting!Before(ran, g, h)
              PROVE  Earlier(g, h)
    BY DEF Exiting!ReverseOrder, Earlier
  <2> QED
    BY DEF ExitInv, InOrder, Exiting!Once, Exiting!Before
<1>8. Exiting!NothingUnwritten
  BY DEF ExitInv, Exiting!TypeOK, Output, Exiting!NothingUnwritten, Exiting!Gone
<1> QED
  BY <1>5, <1>6, <1>7, <1>8 DEF ExitInv

LEMMA ExitElsewhere == ExitInv /\ UNCHANGED exiting => ExitInv'
  BY ExitStands DEF exiting

(* HandlersRun (stdlib.cpp:245-274): when the process ends, however many   *)
(* handlers it registered, and however deep handlers called exit, all that *)
(* were due have run, none oftener than exit was called, in the reverse    *)
(* order, and nothing printed is unwritten.                                *)
THEOREM Handlers == Spec => []HandlersRun
<1>1. Init => ExitInv
  BY ExitStarts DEF Init
<1>2. ExitInv /\ [Next]_vars => ExitInv'
  <2> SUFFICES ASSUME ExitInv, [Next]_vars PROVE ExitInv'
    OBVIOUS
  <2>1. CASE ExitStep
    BY <2>1, ExitGoesOn DEF ExitStep
  <2>2. CASE ProcessStep \/ (\E p \in {1, 2} : PipelineStep(p)) \/ DirectoryStep \/ NetworkStep \/ UNCHANGED vars
    <3>1. UNCHANGED exiting
      BY <2>2 DEF ProcessStep, PipelineStep, DirectoryStep, NetworkStep, vars
    <3> QED
      BY <3>1, ExitElsewhere
  <2> QED
    BY <2>1, <2>2 DEF Next
<1>3. ExitInv => HandlersRun
  BY EndOfExit DEF HandlersRun
<1> QED
  BY <1>1, <1>2, <1>3, PTL DEF Spec

-----------------------------------------------------------------------------
(* Directories.  An open file of the kernel, as readdir leaves it.         *)

Answers == [record : Nat, name : Nat]
File ==
    [listing : Listings, next : Nat, inside : BOOLEAN, calls : Nat, got : Seq(Answers),
     ended : BOOLEAN, failed : BOOLEAN]

(* No read failed, and no record is too long to be read.                   *)
Fits(f) == ~ f.failed /\ \A k \in 1 .. Len(f.listing) : f.listing[k].rest <= 300

(* Between two records, with all the records before it answered.           *)
InStep(f) ==
    /\ ~ f.inside /\ f.next = Len(f.got) + 1 /\ f.next <= Len(f.listing) + 1
    /\ \A k \in 1 .. Len(f.got) : f.got[k].record = k
    /\ f.ended => Len(f.got) = Len(f.listing)

CutName(f, entry) ==
    /\ entry.name <= 255
    /\ entry.record # 0 => entry.name = Listing!Min({255, f.listing[entry.record].name})

Reads(f) ==
    /\ f \in File /\ 1 <= f.next
    /\ Fits(f) => InStep(f)
    /\ \A k \in 1 .. Len(f.got) : CutName(f, f.got[k])

(* What fits of an entry depends on the listing alone.                     *)
LEMMA SameCut ==
    ASSUME NEW f, NEW g, NEW entry, f.listing = g.listing, CutName(f, entry)
    PROVE  CutName(g, entry)
  BY DEF CutName

PoolTypes ==
    /\ dir_pool \in [1 .. MAX_DIRS -> [fd : Nat, in_use : BOOLEAN]]
    /\ handle \in [Handles -> 0 .. MAX_DIRS]
    /\ open \subseteq Handles /\ misused \in BOOLEAN
    /\ DOMAIN files \subseteq Nat /\ files = [fd \in DOMAIN files |-> files[fd]]

(* Until a stream is closed twice, an open variable is the only one that   *)
(* holds its stream.                                                       *)
Held ==
    ~ misused =>
        /\ \A h \in open : Listing!Usable(h)
        /\ \A g, h \in open : handle[g] = handle[h] => g = h

DirectoryInv ==
    /\ PoolTypes
    /\ Listing!PoolOwnsFiles
    /\ Held
    /\ \A fd \in DOMAIN files : Reads(files[fd])

LEMMA PoolAndListings == MAX_DIRS \in Nat \ {0} /\ Listings \subseteq Seq(Listing!Records) /\ Stale \subseteq Nat
  BY SystemAssumption DEF Listing!DirectoryAssumption

(* The least of some natural numbers.                                      *)
LEMMA Least ==
    ASSUME NEW S, S \subseteq Nat, S # {}
    PROVE  Listing!Min(S) \in S /\ \A y \in S : Listing!Min(S) <= y
<1> DEFINE R == OpToRel(<, Nat)
<1>1. IsWellFoundedOn(R, Nat)
  BY NatLessThanWellFounded
<1>2. \A x, y \in Nat : <<y, x>> \in R <=> y < x
  BY DEF OpToRel
<1> HIDE DEF R
<1>3. PICK x \in S : \A y \in S : ~ (<<y, x>> \in R)
  BY <1>1, WFMin
<1>4. ASSUME NEW y \in S PROVE x <= y
  <2>1. x \in Nat /\ y \in Nat
    OBVIOUS
  <2>2. ~ (y < x)
    BY <1>2, <1>3, <2>1
  <2> QED
    BY <2>1, <2>2
<1> QED
  BY <1>3, <1>4 DEF Listing!Min

(* The kernel finds a descriptor: fewer directories are open than the pool *)
(* has entries, and one more descriptor there is.                          *)
LEMMA FreshDescriptor ==
    ASSUME DirectoryInv
    PROVE  Listing!Freshest(DOMAIN files) \in Nat \ DOMAIN files
<1> DEFINE D == 3 .. 3 + MAX_DIRS
           E == 1 .. MAX_DIRS
<1>1. D \ DOMAIN files # {}
  <2> SUFFICES ASSUME D \subseteq DOMAIN files PROVE FALSE
    OBVIOUS
  <2>1. DOMAIN files = {dir_pool[i].fd : i \in Listing!Used} /\ Listing!Used \subseteq E
    BY DEF DirectoryInv, Listing!PoolOwnsFiles, Listing!Used, Listing!Entries
  <2> DEFINE g == [x \in D |-> CHOOSE i \in Listing!Used : dir_pool[i].fd = x]
  <2>2. \A x \in D : g[x] \in Listing!Used /\ dir_pool[g[x]].fd = x
    BY <2>1
  <2>3. g \in [D -> E]
    BY <2>1, <2>2
  <2>4. IsFiniteSet(E) /\ Cardinality(E) = MAX_DIRS
    BY PoolAndListings, CountTo
  <2>5. IsFiniteSet(D) /\ Cardinality(D) = MAX_DIRS + 1
    <3>1. IsFiniteSet(D) /\ Cardinality(D) = IF 3 > 3 + MAX_DIRS THEN 0 ELSE (3 + MAX_DIRS) - 3 + 1
      BY PoolAndListings, FS_Interval
    <3> HIDE DEF D
    <3> QED
      BY <3>1, PoolAndListings
  <2> HIDE DEF g, D, E
  <2>6. Cardinality(E) < Cardinality(D)
    BY <2>4, <2>5, PoolAndListings
  <2>7. PICK x \in D, y \in D : x # y /\ g[x] = g[y]
    BY <2>3, <2>4, <2>5, <2>6, FS_PigeonHole
  <2> QED
    BY <2>2, <2>7
<1>2. D \ DOMAIN files \subseteq Nat
  BY PoolAndListings
<1> HIDE DEF D
<1>3. Listing!Min(D \ DOMAIN files) \in D \ DOMAIN files
  BY <1>1, <1>2, Least
<1> QED
  BY <1>2, <1>3 DEF Listing!Freshest, D

LEMMA OpenedReads ==
    ASSUME NEW listing \in Listings
    PROVE  Reads(Listing!Opened(listing))
<1> DEFINE f == Listing!Opened(listing)
<1>1. /\ f \in File /\ f.listing = listing /\ f.next = 1 /\ ~ f.inside /\ f.got = <<>> /\ ~ f.ended
  BY DEF Listing!Opened, File
<1>2. Len(f.listing) \in Nat
  BY <1>1, PoolAndListings
<1> HIDE DEF f
<1>3. InStep(f)
  BY <1>1, <1>2 DEF InStep
<1> QED
  BY <1>1, <1>3 DEF Reads, f

(* What readdir leaves of a file f when it answers entry.                  *)
Answered(f, entry) == [f EXCEPT !.calls = @ + 1, !.got = @ \o entry, !.ended = @ \/ entry = <<>>]

LEMMA AnsweredFields ==
    ASSUME NEW f \in File, NEW entry \in Seq(Answers)
    PROVE  /\ Answered(f, entry) \in File
           /\ Answered(f, entry).listing = f.listing /\ Answered(f, entry).next = f.next
           /\ Answered(f, entry).inside = f.inside /\ Answered(f, entry).failed = f.failed
           /\ Answered(f, entry).got = f.got \o entry
           /\ Answered(f, entry).ended <=> f.ended \/ entry = <<>>
<1> DEFINE calls == f.calls + 1
           got == f.got \o entry
           ended == f.ended \/ entry = <<>>
           a == [f EXCEPT !.calls = calls, !.got = got, !.ended = ended]
<1>1. calls \in Nat /\ got \in Seq(Answers) /\ ended \in BOOLEAN
  BY DEF File
<1>2. Answered(f, entry) = a
  BY DEF Answered
<1> HIDE DEF calls, got, ended
<1>3. a \in File
  BY <1>1 DEF File
<1>4. /\ a.listing = f.listing /\ a.next = f.next /\ a.inside = f.inside /\ a.failed = f.failed
      /\ a.got = got /\ a.ended = ended
  BY DEF File
<1> HIDE DEF a
<1> QED
  BY <1>2, <1>3, <1>4 DEF got, ended

LEMMA FileTypes ==
    ASSUME NEW f \in File
    PROVE  /\ f.listing \in Seq(Listing!Records) /\ f.next \in Nat /\ f.inside \in BOOLEAN
           /\ Len(f.listing) \in Nat /\ f.got \in Seq(Answers) /\ Len(f.got) \in Nat
           /\ f.ended \in BOOLEAN /\ f.failed \in BOOLEAN
<1>1. /\ f.listing \in Listings /\ f.next \in Nat /\ f.inside \in BOOLEAN /\ f.got \in Seq(Answers)
      /\ f.ended \in BOOLEAN /\ f.failed \in BOOLEAN
  BY DEF File
<1> QED
  BY <1>1, PoolAndListings

(* A name that is copied is the least of its length and 255.               *)
LEMMA NameFits ==
    ASSUME NEW length \in Nat
    PROVE  Listing!Name(length) \in Nat /\ Listing!Name(length) <= 255 /\ Listing!Name(length) = Listing!Min({255, length})
<1> DEFINE least == IF length <= 255 THEN length ELSE 255
           S == {length, 255}
           e == Listing!Name(length)
<1>1. S \subseteq Nat /\ S # {} /\ S = {255, length} /\ least \in S /\ \A n \in S : least <= n
  OBVIOUS
<1>2. e = Listing!Min(S)
  BY DEF Listing!Name, Listing!NAME
<1> HIDE DEF S, e
<1>3. e \in S /\ \A n \in S : e <= n
  BY <1>1, <1>2, Least
<1>4. e \in Nat /\ e <= 255
  BY <1>3 DEF S
<1>5. e = Listing!Min({255, length})
  BY <1>1, <1>2
<1> QED
  BY <1>4, <1>5 DEF e

(* readdir answers null: at the end, or because a read failed.             *)
LEMMA ReadsNothing ==
    ASSUME NEW f \in File, Reads(f), f.next > Len(f.listing)
    PROVE  Reads(Answered(f, <<>>))
<1> DEFINE a == Answered(f, <<>>)
<1>1. <<>> \in Seq(Answers)
  OBVIOUS
<1>2. /\ a \in File /\ a.listing = f.listing /\ a.next = f.next /\ a.inside = f.inside /\ a.failed = f.failed
      /\ a.got = f.got \o <<>> /\ a.ended
  BY <1>1, AnsweredFields
<1>3. a.got = f.got
  BY <1>2, FileTypes
<1> HIDE DEF a
<1>4. Fits(f) => InStep(f)
  BY DEF Reads
<1>5. Fits(a) <=> Fits(f)
  BY <1>2 DEF Fits
<1>6. Fits(a) => InStep(a)
  BY <1>2, <1>3, <1>4, <1>5, FileTypes DEF InStep
<1>7. ASSUME NEW k \in 1 .. Len(a.got) PROVE CutName(a, a.got[k])
  <2>1. CutName(f, a.got[k])
    BY <1>3 DEF Reads
  <2> QED
    BY ONLY <2>1, <1>2, SameCut
<1> QED
  BY <1>2, <1>3, <1>6, <1>7 DEF Reads, a

Behind(f) == [f EXCEPT !.next = @ + 1]

LEMMA BehindFields ==
    ASSUME NEW f \in File
    PROVE  /\ Behind(f) \in File /\ Behind(f).next = f.next + 1
           /\ Behind(f).listing = f.listing /\ Behind(f).inside = f.inside /\ Behind(f).failed = f.failed
           /\ Behind(f).got = f.got /\ Behind(f).ended = f.ended
<1> DEFINE next == f.next + 1
           b == [f EXCEPT !.next = next]
<1>1. next \in Nat
  BY DEF File
<1>2. Behind(f) = b
  BY DEF Behind
<1> HIDE DEF next
<1>3. b \in File
  BY <1>1 DEF File
<1>4. /\ b.next = next /\ b.listing = f.listing /\ b.inside = f.inside /\ b.failed = f.failed
      /\ b.got = f.got /\ b.ended = f.ended
  BY DEF File
<1> HIDE DEF b
<1> QED
  BY <1>2, <1>3, <1>4 DEF next

(* A file that a read left at k, within a record or not, and that failed   *)
(* or is over-long: of its records nothing is claimed any more.            *)
Left(f, k, within, failed) == [f EXCEPT !.next = k, !.inside = within, !.failed = failed]

LEMMA LeftFields ==
    ASSUME NEW f \in File, NEW k \in Nat, NEW within \in BOOLEAN, NEW failed \in BOOLEAN
    PROVE  /\ Left(f, k, within, failed) \in File /\ Left(f, k, within, failed).next = k
           /\ Left(f, k, within, failed).listing = f.listing /\ Left(f, k, within, failed).failed = failed
           /\ Left(f, k, within, failed).got = f.got
  BY DEF File, Left

\* nothing, or an entry that is no record's
Junk(entry) == entry = <<>> \/ \E length \in Nat : entry = Listing!Entry(0, length)

LEMMA ReadsJunk ==
    ASSUME NEW f \in File, Reads(f), NEW k \in Nat, k >= 1, NEW within \in BOOLEAN, NEW failed \in BOOLEAN,
           ~ Fits(Left(f, k, within, failed)), NEW entry, Junk(entry)
    PROVE  Reads(Answered(Left(f, k, within, failed), entry))
<1> DEFINE b == Left(f, k, within, failed)
           a == Answered(b, entry)
<1>1. /\ entry \in Seq(Answers) /\ Len(entry) \in {0, 1}
      /\ Len(entry) = 1 => entry[1].record = 0 /\ entry[1].name <= 255
  <2>1. CASE entry = <<>>
    BY <2>1
  <2>2. ASSUME NEW length \in Nat, entry = Listing!Entry(0, length)
        PROVE  /\ entry \in Seq(Answers) /\ Len(entry) = 1
               /\ entry[1].record = 0 /\ entry[1].name <= 255
    <3> DEFINE e == [record |-> 0, name |-> Listing!Name(length)]
    <3>1. Listing!Name(length) \in Nat /\ Listing!Name(length) <= 255
      BY <2>2, NameFits
    <3>2. e \in Answers /\ e.record = 0 /\ e.name <= 255
      BY <3>1 DEF Answers
    <3>3. entry = <<e>>
      BY <2>2 DEF Listing!Entry
    <3> HIDE DEF e
    <3> QED
      BY <3>2, <3>3
  <2> QED
    BY <2>1, <2>2 DEF Junk
<1>2. /\ b \in File /\ b.next = k /\ b.listing = f.listing /\ b.failed = failed /\ b.got = f.got
  BY LeftFields
<1>3. ~ Fits(b)
  OBVIOUS
<1> HIDE DEF b
<1>4. /\ a \in File /\ a.listing = b.listing /\ a.next = b.next /\ a.failed = b.failed /\ a.got = b.got \o entry
  BY <1>1, <1>2, AnsweredFields
<1> HIDE DEF a
<1>5. ~ Fits(a)
  BY <1>3, <1>4 DEF Fits
<1>6. f.got \in Seq(Answers) /\ Len(f.got) \in Nat
  BY FileTypes
<1>7. \A l \in 1 .. Len(a.got) : \/ l \in 1 .. Len(f.got) /\ a.got[l] = f.got[l]
                                 \/ Len(entry) = 1 /\ a.got[l] = entry[1]
  BY <1>1, <1>2, <1>4, <1>6
<1>8. \A l \in 1 .. Len(f.got) : CutName(f, f.got[l])
  BY DEF Reads
<1>9. ASSUME NEW l \in 1 .. Len(a.got) PROVE CutName(a, a.got[l])
  <2>1. CASE l \in 1 .. Len(f.got) /\ a.got[l] = f.got[l]
    <3>1. CutName(f, a.got[l]) /\ f.listing = a.listing
      BY <1>2, <1>4, <1>8, <2>1
    <3> QED
      BY ONLY <3>1, SameCut
  <2>2. CASE Len(entry) = 1 /\ a.got[l] = entry[1]
    BY <1>1, <2>2 DEF CutName
  <2> QED
    BY <1>7, <2>1, <2>2
<1> QED
  BY <1>2, <1>4, <1>5, <1>9 DEF Reads, a, b

(* A whole record is answered.                                             *)
LEMMA ReadsRecord ==
    ASSUME NEW f \in File, Reads(f), f.next \in 1 .. Len(f.listing), ~ f.inside
    PROVE  Reads(Answered(Behind(f), Listing!Entry(f.next, f.listing[f.next].name)))
<1> DEFINE entry == [record |-> f.next, name |-> Listing!Name(f.listing[f.next].name)]
           b == Behind(f)
           a == Answered(b, <<entry>>)
<1>1. entry \in Answers /\ entry.record = f.next /\ CutName(f, entry)
  <2> DEFINE n == f.listing[f.next].name
  <2>1. n \in Nat /\ f.next \in Nat
    <3>1. f.listing[f.next] \in Listing!Records
      BY FileTypes
    <3>2. f.listing[f.next].name \in Nat
      BY <3>1 DEF Listing!Records
    <3> QED
      BY <3>2, FileTypes
  <2> HIDE DEF n
  <2>2. Listing!Name(n) \in Nat /\ Listing!Name(n) <= 255 /\ Listing!Name(n) = Listing!Min({255, n})
    BY <2>1, NameFits
  <2>3. entry.record = f.next /\ entry.name = Listing!Name(n)
    BY DEF n
  <2>4. entry \in Answers
    BY <2>1, <2>2 DEF Answers, n
  <2> QED
    BY <2>2, <2>3, <2>4 DEF CutName, n
<1>e. Listing!Entry(f.next, f.listing[f.next].name) = <<entry>>
  BY DEF Listing!Entry
<1> HIDE DEF entry
<1>2. <<entry>> \in Seq(Answers)
  BY <1>1
<1>3. /\ b \in File /\ b.next = f.next + 1 /\ b.listing = f.listing /\ b.inside = f.inside
      /\ b.failed = f.failed /\ b.got = f.got /\ b.ended = f.ended
  BY BehindFields
<1> HIDE DEF b
<1>4. /\ a \in File /\ a.listing = f.listing /\ a.next = f.next + 1 /\ a.inside = f.inside
      /\ a.failed = f.failed /\ a.got = f.got \o <<entry>> /\ (a.ended <=> f.ended)
  <2>1. /\ a \in File /\ a.listing = b.listing /\ a.next = b.next /\ a.inside = b.inside
        /\ a.failed = b.failed /\ a.got = b.got \o <<entry>>
    BY <1>2, <1>3, AnsweredFields
  <2>2. a.ended <=> b.ended \/ <<entry>> = <<>>
    BY <1>2, <1>3, AnsweredFields
  <2>3. <<entry>> # <<>>
    OBVIOUS
  <2> HIDE DEF a
  <2>4. a.ended <=> f.ended
    BY <1>3, <2>2, <2>3
  <2> QED
    BY <1>3, <2>1, <2>4
<1> HIDE DEF a
<1> DEFINE n == Len(f.got)
<1>5. /\ n \in Nat /\ Len(a.got) = n + 1 /\ a.got[n + 1] = entry
      /\ \A k \in 1 .. n : a.got[k] = f.got[k]
      /\ \A k \in 1 .. n + 1 : k \in 1 .. n \/ k = n + 1
  <2>1. f.got \in Seq(Answers) /\ n \in Nat
    BY FileTypes
  <2>2. Len(f.got \o <<entry>>) = n + 1 /\ (f.got \o <<entry>>)[n + 1] = entry
    BY <1>1, <2>1
  <2>3. \A k \in 1 .. n : (f.got \o <<entry>>)[k] = f.got[k]
    BY <1>1, <2>1
  <2> QED
    BY <1>4, <2>1, <2>2, <2>3
<1>6. Fits(a) => InStep(f)
  BY <1>4 DEF Fits, Reads
<1>7. ASSUME InStep(f) PROVE InStep(a)
  <2>1. /\ ~ f.inside /\ f.next = n + 1 /\ \A k \in 1 .. n : f.got[k].record = k
        /\ f.ended => n = Len(f.listing)
    BY <1>7 DEF InStep
  <2>2. ~ f.ended
    BY <1>5, <2>1, FileTypes
  <2> HIDE DEF n
  <2>3. \A k \in 1 .. n + 1 : a.got[k].record = k
    BY <1>1, <1>5, <2>1
  <2>4. ~ a.inside /\ a.next = Len(a.got) + 1 /\ a.next <= Len(a.listing) + 1
    <3>1. Len(f.listing) \in Nat /\ f.next \in Nat /\ n \in Nat
      BY FileTypes DEF n
    <3>2. Len(a.got) + 1 = f.next + 1
      BY <1>5, <2>1, <3>1
    <3>3. f.next + 1 <= Len(f.listing) + 1
      BY <3>1
    <3> QED
      BY <1>4, <2>1, <3>2, <3>3
  <2> QED
    BY <1>4, <1>5, <2>2, <2>3, <2>4 DEF InStep
<1>8. ASSUME NEW k \in 1 .. Len(a.got) PROVE CutName(a, a.got[k])
  <2>1. CutName(f, a.got[k])
    <3>1. \A l \in 1 .. n : CutName(f, f.got[l])
      BY DEF Reads
    <3>2. (k \in 1 .. n /\ a.got[k] = f.got[k]) \/ a.got[k] = entry
      BY <1>5
    <3> QED
      BY <1>1, <3>1, <3>2
  <2>2. f.listing = a.listing
    BY <1>4
  <2> QED
    BY ONLY <2>1, <2>2, SameCut
<1>9. 1 <= f.next + 1
  BY FileTypes
<1>10. Reads(a)
  BY <1>4, <1>6, <1>7, <1>8, <1>9 DEF Reads
<1> QED
  BY <1>e, <1>10 DEF a, b

(* A usable variable holds an entry in use, and that a directory.          *)
LEMMA UsableHolds ==
    ASSUME DirectoryInv, NEW h \in Handles, Listing!Usable(h)
    PROVE  /\ handle[h] \in 1 .. MAX_DIRS /\ handle[h] \in Listing!Used
           /\ dir_pool[handle[h]].in_use /\ dir_pool[handle[h]].fd \in DOMAIN files
<1>1. handle[h] \in 0 .. MAX_DIRS /\ handle[h] # 0 /\ dir_pool[handle[h]].in_use
  BY DEF DirectoryInv, PoolTypes, Listing!Usable, Listing!NULL
<1>2. handle[h] \in 1 .. MAX_DIRS
  BY <1>1, PoolAndListings
<1>3. handle[h] \in Listing!Used
  BY <1>1, <1>2 DEF Listing!Used, Listing!Entries
<1> QED
  BY <1>1, <1>2, <1>3 DEF DirectoryInv, Listing!PoolOwnsFiles

LEMMA AnswerStep ==
    ASSUME DirectoryInv, NEW h \in Handles, Listing!Usable(h), NEW a, Reads(a),
           files' = [files EXCEPT ![dir_pool[handle[h]].fd] = a],
           UNCHANGED <<dir_pool, handle, open, misused>>
    PROVE  DirectoryInv'
<1>1. dir_pool[handle[h]].fd \in DOMAIN files
  BY UsableHolds
<1>2. /\ DOMAIN files' = DOMAIN files /\ files' = [fd \in DOMAIN files' |-> files'[fd]]
      /\ \A fd \in DOMAIN files : files'[fd] = a \/ files'[fd] = files[fd]
  BY <1>1
<1>3. PoolTypes'
  BY <1>2 DEF DirectoryInv, PoolTypes
<1>4. Listing!PoolOwnsFiles'
  BY <1>2 DEF DirectoryInv, Listing!PoolOwnsFiles, Listing!Used
<1>5. Held'
  BY DEF DirectoryInv, Held, Listing!Usable
<1>6. \A fd \in DOMAIN files' : Reads(files'[fd])
  BY <1>2 DEF DirectoryInv
<1> QED
  BY <1>3, <1>4, <1>5, <1>6 DEF DirectoryInv

LEMMA ReaddirStep ==
    ASSUME DirectoryInv, NEW h \in Handles, Listing!readdir(h)
    PROVE  DirectoryInv'
<1> DEFINE fd == dir_pool[handle[h]].fd
           f == files[fd]
           Answer(a) == files' = [files EXCEPT ![fd] = a] /\ UNCHANGED <<dir_pool, handle, open, misused>>
<1>1. Listing!Usable(h)
  BY DEF Listing!readdir
<1>2. f \in File /\ Reads(f)
  BY <1>1, UsableHolds DEF DirectoryInv, Reads
<1>3. f.next \in Nat /\ Len(f.listing) \in Nat /\ 1 <= f.next /\ f.inside \in BOOLEAN /\ f.failed \in BOOLEAN
  BY <1>2, FileTypes DEF Reads
<1>4. \A x, entry : Listing!Answer(h, x, entry) => Answer(Answered(x, entry))
  BY DEF Listing!Answer, Answered
<1>5. \/ Listing!Answer(h, [f EXCEPT !.failed = TRUE], <<>>)
      \/ f.next > Len(f.listing) /\ Listing!Answer(h, f, <<>>)
      \/ /\ f.next <= Len(f.listing) /\ ~ f.inside /\ Listing!TooLong(f.listing[f.next])
         /\ Listing!Answer(h, [f EXCEPT !.inside = TRUE], <<>>)
      \/ /\ f.next <= Len(f.listing) /\ ~ f.inside
         /\ Listing!Answer(h, Behind(f), Listing!Entry(f.next, f.listing[f.next].name))
      \/ Listing!Misread(h, f)
  BY Zenon DEF Listing!readdir, Behind
<1> HIDE DEF f, fd, Answer
<1>6. ASSUME NEW a, Answer(a), Reads(a) PROVE DirectoryInv'
  BY <1>1, <1>6, AnswerStep DEF Answer, fd
<1>7. Junk(<<>>) /\ \A k \in Nat, within \in BOOLEAN : ~ Fits(Left(f, k, within, TRUE))
  BY <1>2, LeftFields DEF Junk, Fits
<1>8. CASE Listing!Answer(h, [f EXCEPT !.failed = TRUE], <<>>)
  <2>1. [f EXCEPT !.failed = TRUE] = Left(f, f.next, f.inside, TRUE)
    BY <1>2 DEF File, Left
  <2>2. Reads(Answered(Left(f, f.next, f.inside, TRUE), <<>>))
    BY <1>2, <1>3, <1>7, ReadsJunk
  <2> QED
    BY <1>4, <1>6, <1>8, <2>1, <2>2
<1>9. CASE f.next > Len(f.listing) /\ Listing!Answer(h, f, <<>>)
  BY <1>2, <1>4, <1>6, <1>9, ReadsNothing
<1>10. CASE /\ f.next <= Len(f.listing) /\ ~ f.inside /\ Listing!TooLong(f.listing[f.next])
            /\ Listing!Answer(h, [f EXCEPT !.inside = TRUE], <<>>)
  <2>1. [f EXCEPT !.inside = TRUE] = Left(f, f.next, TRUE, f.failed)
    BY <1>2 DEF File, Left
  <2>2. ~ Fits(Left(f, f.next, TRUE, f.failed))
    <3>1. f.listing[f.next] \in Listing!Records /\ f.next \in 1 .. Len(f.listing)
      BY <1>2, <1>3, <1>10, FileTypes
    <3>2. f.listing[f.next].rest > 300 /\ f.listing[f.next].rest \in Nat
      BY <1>10, <3>1 DEF Listing!TooLong, Listing!REST, Listing!Records
    <3>3. Left(f, f.next, TRUE, f.failed).listing = f.listing
      BY <1>2 DEF File, Left
    <3>4. ~ (f.listing[f.next].rest <= 300)
      BY <3>2
    <3> QED
      BY <3>1, <3>3, <3>4 DEF Fits
  <2>3. Reads(Answered(Left(f, f.next, TRUE, f.failed), <<>>))
    BY <1>2, <1>3, <1>7, <2>2, ReadsJunk
  <2> QED
    BY <1>4, <1>6, <1>10, <2>1, <2>3
<1>11. CASE /\ f.next <= Len(f.listing) /\ ~ f.inside
            /\ Listing!Answer(h, Behind(f), Listing!Entry(f.next, f.listing[f.next].name))
  <2>1. f.next \in 1 .. Len(f.listing)
    BY <1>3, <1>11
  <2>2. Reads(Answered(Behind(f), Listing!Entry(f.next, f.listing[f.next].name)))
    BY <1>2, <1>11, <2>1, ReadsRecord
  <2> QED
    BY <1>4, <1>6, <1>11, <2>2
<1>12. CASE Listing!Misread(h, f)
  <2>1. PICK k \in f.next .. Len(f.listing) + 1, within \in BOOLEAN :
            \/ Listing!Answer(h, [f EXCEPT !.next = k, !.inside = within, !.failed = TRUE], <<>>)
            \/ \E length \in Stale :
                  Listing!Answer(h, [f EXCEPT !.next = k, !.inside = within, !.failed = TRUE], Listing!Entry(0, length))
    BY <1>12, Zenon DEF Listing!Misread
  <2>2. PICK entry : Junk(entry) /\ Listing!Answer(h, Left(f, k, within, TRUE), entry)
    <3>1. \A length \in Stale : Junk(Listing!Entry(0, length))
      BY PoolAndListings DEF Junk
    <3> QED
      BY <1>7, <2>1, <3>1, Zenon DEF Left
  <2>3. k \in Nat /\ k >= 1
    BY <1>3
  <2>4. Reads(Answered(Left(f, k, within, TRUE), entry))
    BY <1>2, <1>7, <2>2, <2>3, ReadsJunk
  <2> QED
    BY <1>4, <1>6, <2>2, <2>4
<1> QED
  BY <1>5, <1>8, <1>9, <1>10, <1>11, <1>12

LEMMA ClosedirStep ==
    ASSUME DirectoryInv, NEW h \in Handles, Listing!closedir(h)
    PROVE  DirectoryInv'
<1> DEFINE i == handle[h]
           fd == dir_pool[i].fd
<1>1. /\ Listing!Usable(h) /\ dir_pool' = [dir_pool EXCEPT ![i].in_use = FALSE]
      /\ open' = open \ {h} /\ misused' = (misused \/ h \notin open) /\ handle' = handle
      /\ files' = [x \in DOMAIN files \ {fd} |-> files[x]]
  BY DEF Listing!closedir, Listing!Without
<1>2. i \in 1 .. MAX_DIRS /\ i \in Listing!Used /\ dir_pool[i].in_use /\ fd \in DOMAIN files
  BY <1>1, UsableHolds
<1>3. dir_pool \in [1 .. MAX_DIRS -> [fd : Nat, in_use : BOOLEAN]]
  BY DEF DirectoryInv, PoolTypes
<1> HIDE DEF i
<1>4. /\ dir_pool' \in [1 .. MAX_DIRS -> [fd : Nat, in_use : BOOLEAN]]
      /\ \A j \in 1 .. MAX_DIRS : dir_pool'[j].fd = dir_pool[j].fd
      /\ \A j \in 1 .. MAX_DIRS : j # i => dir_pool'[j].in_use = dir_pool[j].in_use
      /\ dir_pool'[i].in_use = FALSE
  BY <1>1, <1>2, <1>3
<1>5. DOMAIN files' = DOMAIN files \ {fd} /\ \A x \in DOMAIN files' : files'[x] = files[x]
  BY <1>1
<1>6. PoolTypes'
  <2>1. open \subseteq Handles /\ misused \in BOOLEAN /\ DOMAIN files \subseteq Nat /\ handle \in [Handles -> 0 .. MAX_DIRS]
    BY DEF DirectoryInv, PoolTypes
  <2>2. misused' \in BOOLEAN
    BY <1>1
  <2>3. files' = [x \in DOMAIN files' |-> files'[x]]
    BY <1>1
  <2> QED
    BY <1>1, <1>4, <1>5, <2>1, <2>2, <2>3 DEF PoolTypes
<1>7. Listing!Used' = Listing!Used \ {i}
  BY <1>2, <1>4 DEF Listing!Used, Listing!Entries
<1>8. Listing!PoolOwnsFiles'
  <2>1. /\ DOMAIN files = {dir_pool[j].fd : j \in Listing!Used}
        /\ \A j, k \in Listing!Used : dir_pool[j].fd = dir_pool[k].fd => j = k
        /\ Listing!Used \subseteq 1 .. MAX_DIRS
    BY DEF DirectoryInv, Listing!PoolOwnsFiles, Listing!Used, Listing!Entries
  <2>2. \A j \in Listing!Used \ {i} : dir_pool[j].fd \in DOMAIN files \ {fd}
    BY <1>2, <2>1
  <2>3. \A x \in DOMAIN files \ {fd} : \E j \in Listing!Used \ {i} : x = dir_pool[j].fd
    BY <2>1
  <2>4. DOMAIN files' = {dir_pool'[j].fd : j \in Listing!Used'}
    BY <1>4, <1>5, <1>7, <2>1, <2>2, <2>3
  <2>5. \A j, k \in Listing!Used \ {i} : dir_pool'[j].fd = dir_pool'[k].fd => j = k
    BY <1>4, <2>1
  <2> QED
    BY <1>7, <2>4, <2>5 DEF Listing!PoolOwnsFiles
<1>9. Held'
  <2> SUFFICES ASSUME ~ misused' PROVE (\A g \in open' : Listing!Usable(g)') /\ \A g, k \in open' : handle'[g] = handle'[k] => g = k
    BY DEF Held
  <2>1. ~ misused /\ h \in open
    BY <1>1
  <2>2. (\A g \in open : Listing!Usable(g)) /\ \A g, k \in open : handle[g] = handle[k] => g = k
    BY <2>1 DEF DirectoryInv, Held
  <2>3. ASSUME NEW g \in open' PROVE Listing!Usable(g)'
    <3>1. g \in open /\ g # h /\ g \in Handles
      BY <1>1, <2>3 DEF DirectoryInv, PoolTypes
    <3>2. handle[g] # i /\ Listing!Usable(g)
      BY <2>1, <2>2, <3>1 DEF i
    <3>3. handle[g] \in 1 .. MAX_DIRS
      BY <3>1, <3>2, UsableHolds
    <3>4. handle[g] # 0 /\ dir_pool[handle[g]].in_use
      BY <3>2 DEF Listing!Usable, Listing!NULL
    <3> QED
      BY <1>1, <1>4, <3>2, <3>3, <3>4 DEF Listing!Usable, Listing!NULL
  <2> QED
    BY <1>1, <2>2, <2>3
<1>10. \A x \in DOMAIN files' : Reads(files'[x])
  BY <1>5 DEF DirectoryInv
<1> QED
  BY <1>6, <1>8, <1>9, <1>10 DEF DirectoryInv

(* A free entry i and a new descriptor fd for the variable h.              *)
LEMMA OpenStep ==
    ASSUME DirectoryInv, NEW h \in Handles, NEW listing \in Listings,
           NEW i \in Listing!Free, NEW fd \in Nat \ DOMAIN files,
           dir_pool' = [dir_pool EXCEPT ![i] = [fd |-> fd, in_use |-> TRUE]],
           files' = [x \in DOMAIN files \cup {fd} |-> IF x = fd THEN Listing!Opened(listing) ELSE files[x]],
           handle' = [handle EXCEPT ![h] = i], open' = open \cup {h}, misused' = misused
    PROVE  DirectoryInv'
<1>1. /\ dir_pool \in [1 .. MAX_DIRS -> [fd : Nat, in_use : BOOLEAN]]
      /\ handle \in [Handles -> 0 .. MAX_DIRS] /\ open \subseteq Handles
      /\ misused \in BOOLEAN /\ DOMAIN files \subseteq Nat
  BY DEF DirectoryInv, PoolTypes
<1>2. i \in 1 .. MAX_DIRS /\ ~ dir_pool[i].in_use /\ i \in 0 .. MAX_DIRS /\ i # 0
  BY PoolAndListings DEF Listing!Free, Listing!Entries
<1>3. /\ dir_pool' \in [1 .. MAX_DIRS -> [fd : Nat, in_use : BOOLEAN]]
      /\ dir_pool'[i].fd = fd /\ dir_pool'[i].in_use
      /\ \A j \in 1 .. MAX_DIRS : j # i => dir_pool'[j] = dir_pool[j]
  BY <1>1, <1>2
<1>4. /\ handle' \in [Handles -> 0 .. MAX_DIRS] /\ handle'[h] = i
      /\ \A g \in Handles : g # h => handle'[g] = handle[g]
  BY <1>1, <1>2
<1>5. /\ DOMAIN files' = DOMAIN files \cup {fd} /\ files'[fd] = Listing!Opened(listing)
      /\ \A x \in DOMAIN files : files'[x] = files[x]
  OBVIOUS
<1>6. PoolTypes'
  <2>1. files' = [x \in DOMAIN files' |-> files'[x]]
    OBVIOUS
  <2>2. open' \subseteq Handles /\ misused' \in BOOLEAN /\ DOMAIN files' \subseteq Nat
    BY <1>1, <1>5
  <2> QED
    BY <1>3, <1>4, <2>1, <2>2 DEF PoolTypes
<1>7. /\ Listing!Used' = Listing!Used \cup {i} /\ i \notin Listing!Used /\ Listing!Used \subseteq 1 .. MAX_DIRS
      /\ \A j \in Listing!Used : dir_pool'[j] = dir_pool[j]
  BY <1>2, <1>3 DEF Listing!Used, Listing!Entries
<1>8. Listing!PoolOwnsFiles'
  <2>1. /\ DOMAIN files = {dir_pool[j].fd : j \in Listing!Used}
        /\ \A j, k \in Listing!Used : dir_pool[j].fd = dir_pool[k].fd => j = k
    BY DEF DirectoryInv, Listing!PoolOwnsFiles
  <2>2. DOMAIN files' = {dir_pool'[j].fd : j \in Listing!Used \cup {i}}
    BY <1>3, <1>5, <1>7, <2>1
  <2>3. \A j \in Listing!Used : dir_pool'[j].fd \in DOMAIN files
    BY <1>7, <2>1
  <2>4. \A j, k \in Listing!Used \cup {i} : dir_pool'[j].fd = dir_pool'[k].fd => j = k
    BY <1>3, <1>7, <2>1, <2>3
  <2> QED
    BY <1>7, <2>2, <2>4 DEF Listing!PoolOwnsFiles
<1>9. Held'
  <2> SUFFICES ASSUME ~ misused
              PROVE  (\A g \in open' : Listing!Usable(g)') /\ \A g, k \in open' : handle'[g] = handle'[k] => g = k
    BY DEF Held
  <2>1. (\A g \in open : Listing!Usable(g)) /\ \A g, k \in open : handle[g] = handle[k] => g = k
    BY DEF DirectoryInv, Held
  <2>2. Listing!Usable(h)'
    BY <1>2, <1>3, <1>4 DEF Listing!Usable, Listing!NULL
  <2>3. ASSUME NEW g \in open, g # h PROVE Listing!Usable(g)' /\ handle'[g] = handle[g] /\ handle[g] # i
    <3>1. g \in Handles /\ Listing!Usable(g)
      BY <1>1, <2>1
    <3>2. handle[g] \in 1 .. MAX_DIRS /\ dir_pool[handle[g]].in_use
      BY <3>1, UsableHolds
    <3>3. handle[g] # i /\ handle'[g] = handle[g] /\ handle[g] # 0
      BY <1>2, <1>4, <2>3, <3>1, <3>2
    <3> QED
      BY <1>3, <3>2, <3>3 DEF Listing!Usable, Listing!NULL
  <2> QED
    BY <1>4, <2>1, <2>2, <2>3
<1>10. \A x \in DOMAIN files' : Reads(files'[x])
  BY <1>5, OpenedReads DEF DirectoryInv
<1> QED
  BY <1>6, <1>8, <1>9, <1>10 DEF DirectoryInv

LEMMA OpendirStep ==
    ASSUME DirectoryInv, NEW h \in Handles, NEW listing \in Listings, NEW ok \in BOOLEAN, Listing!opendir(h, listing, ok)
    PROVE  DirectoryInv'
<1>1. CASE ok /\ Listing!Free # {}
  <2>1. Listing!Min(Listing!Free) \in Listing!Free
    <3>1. Listing!Free \subseteq Nat
      BY DEF Listing!Free, Listing!Entries
    <3> QED
      BY <1>1, <3>1, Least
  <2>2. Listing!Freshest(DOMAIN files) \in Nat \ DOMAIN files
    BY FreshDescriptor
  <2> QED
    BY <1>1, <2>1, <2>2, OpenStep DEF Listing!opendir
<1>2. CASE ~ (ok /\ Listing!Free # {})
  <2>1. handle' = [handle EXCEPT ![h] = 0] /\ open' = open \ {h} /\ UNCHANGED <<misused, dir_pool, files>>
    BY <1>2 DEF Listing!opendir, Listing!NULL
  <2>2. PoolTypes'
    BY <2>1, PoolAndListings DEF DirectoryInv, PoolTypes
  <2>3. Listing!PoolOwnsFiles'
    BY <2>1 DEF DirectoryInv, Listing!PoolOwnsFiles, Listing!Used
  <2>4. Held'
    <3>1. \A g \in open' : g \in open /\ handle'[g] = handle[g]
      BY <2>1 DEF DirectoryInv, PoolTypes
    <3> QED
      BY <2>1, <3>1 DEF DirectoryInv, Held, Listing!Usable
  <2>5. \A x \in DOMAIN files' : Reads(files'[x])
    BY <2>1 DEF DirectoryInv
  <2> QED
    BY <2>2, <2>3, <2>4, <2>5 DEF DirectoryInv
<1> QED
  BY <1>1, <1>2

LEMMA DirectoryStands == DirectoryInv /\ UNCHANGED directory => DirectoryInv'
<1> SUFFICES ASSUME DirectoryInv, UNCHANGED directory PROVE DirectoryInv'
  OBVIOUS
<1>1. UNCHANGED <<dir_pool, files, handle, open, misused>>
  BY DEF directory
<1>2. PoolTypes' /\ Listing!PoolOwnsFiles' /\ Held'
  BY <1>1 DEF DirectoryInv, PoolTypes, Listing!PoolOwnsFiles, Listing!Used, Held, Listing!Usable
<1>3. \A x \in DOMAIN files' : Reads(files'[x])
  BY <1>1 DEF DirectoryInv
<1> QED
  BY <1>2, <1>3 DEF DirectoryInv

LEMMA DirectoryStarts == Listing!Init => DirectoryInv
<1> SUFFICES ASSUME Listing!Init PROVE DirectoryInv
  OBVIOUS
<1>1. /\ dir_pool = [i \in 1 .. MAX_DIRS |-> [fd |-> 0, in_use |-> FALSE]]
      /\ files = <<>> /\ handle = [h \in Handles |-> 0] /\ open = {} /\ misused = FALSE
  BY DEF Listing!Init, Listing!Entries, Listing!NULL
<1>2. DOMAIN files = {} /\ files = [fd \in DOMAIN files |-> files[fd]]
  BY <1>1
<1>3. PoolTypes
  <2>1. dir_pool \in [1 .. MAX_DIRS -> [fd : Nat, in_use : BOOLEAN]]
    BY <1>1
  <2>2. handle \in [Handles -> 0 .. MAX_DIRS]
    BY <1>1, PoolAndListings
  <2> QED
    BY <1>1, <1>2, <2>1, <2>2 DEF PoolTypes
<1>4. Listing!Used = {}
  BY <1>1 DEF Listing!Used, Listing!Entries
<1> QED
  BY <1>1, <1>2, <1>3, <1>4 DEF DirectoryInv, Listing!PoolOwnsFiles, Held

LEMMA DirectoryGoesOn == DirectoryInv /\ Listing!Next => DirectoryInv'
<1> SUFFICES ASSUME DirectoryInv, Listing!Next PROVE DirectoryInv'
  OBVIOUS
<1>1. PICK h \in Handles :
          \/ \E listing \in Listings, ok \in BOOLEAN : Listing!opendir(h, listing, ok)
          \/ Listing!readdir(h)
          \/ Listing!closedir(h)
          \/ Listing!Refused(h)
  BY DEF Listing!Next
<1>2. CASE \E listing \in Listings, ok \in BOOLEAN : Listing!opendir(h, listing, ok)
  BY <1>2, OpendirStep
<1>3. CASE Listing!readdir(h)
  BY <1>3, ReaddirStep
<1>4. CASE Listing!closedir(h)
  BY <1>4, ClosedirStep
<1>5. CASE Listing!Refused(h)
  <2>1. UNCHANGED directory
    BY <1>5 DEF Listing!Refused, Listing!vars, directory
  <2> QED
    BY <2>1, DirectoryStands
<1> QED
  BY <1>1, <1>2, <1>3, <1>4, <1>5

LEMMA DirectoriesSound ==
    ASSUME DirectoryInv
    PROVE  Listing!PoolOwnsFiles /\ Listing!HandlesApart /\ Listing!RecordsInOrder /\ Listing!NamesFit
<1>1. Listing!HandlesApart
  BY DEF DirectoryInv, Held, Listing!HandlesApart
<1>2. ASSUME NEW fd \in DOMAIN files
      PROVE  LET f == files[fd]
             IN  /\ ~ f.failed /\ (\A k \in DOMAIN f.listing : f.listing[k].rest <= 300) =>
                        /\ [k \in DOMAIN f.got |-> f.got[k].record] = [k \in 1 .. Len(f.got) |-> k]
                        /\ f.ended => Len(f.got) = Len(f.listing)
                 /\ \A entry \in Listing!ToSet(f.got) :
                        /\ entry.name <= 255
                        /\ entry.record # 0 => entry.name = Listing!Min({255, f.listing[entry.record].name})
  <2> DEFINE f == files[fd]
  <2>1. f \in File /\ Reads(f)
    BY DEF DirectoryInv, Reads
  <2> HIDE DEF f
  <2>2. DOMAIN f.listing = 1 .. Len(f.listing) /\ DOMAIN f.got = 1 .. Len(f.got)
    BY <2>1, FileTypes
  <2>3. Fits(f) => /\ [k \in DOMAIN f.got |-> f.got[k].record] = [k \in 1 .. Len(f.got) |-> k]
                   /\ f.ended => Len(f.got) = Len(f.listing)
    BY <2>1, <2>2 DEF Reads, InStep
  <2>4. \A entry \in Listing!ToSet(f.got) : CutName(f, entry)
    BY <2>1, <2>2 DEF Reads, Listing!ToSet
  <2>5. \A entry \in Listing!ToSet(f.got) :
            /\ entry.name <= 255
            /\ entry.record # 0 => entry.name = Listing!Min({255, f.listing[entry.record].name})
    BY ONLY <2>4, Zenon DEF CutName
  <2>6. ~ f.failed /\ (\A k \in DOMAIN f.listing : f.listing[k].rest <= 300) =>
            /\ [k \in DOMAIN f.got |-> f.got[k].record] = [k \in 1 .. Len(f.got) |-> k]
            /\ f.ended => Len(f.got) = Len(f.listing)
    BY ONLY <2>2, <2>3 DEF Fits
  <2> QED
    BY ONLY <2>5, <2>6, Zenon DEF f
<1>3. Listing!RecordsInOrder
  BY <1>2 DEF Listing!RecordsInOrder
<1>4. Listing!NamesFit
  BY <1>2 DEF Listing!NamesFit
<1> QED
  BY <1>1, <1>3, <1>4 DEF DirectoryInv

(* DirectoriesRead (dirent.cpp:16-55): however a program opens, reads and  *)
(* closes directories, the pool and the kernel agree, a stream is shared   *)
(* only after one was closed twice, names fit whatever the reads gave, and *)
(* where every read is whole the records come in order to the end.         *)
THEOREM Directories == Spec => []DirectoriesRead
<1>1. Init => DirectoryInv
  BY DirectoryStarts DEF Init
<1>2. DirectoryInv /\ [Next]_vars => DirectoryInv'
  <2> SUFFICES ASSUME DirectoryInv, [Next]_vars PROVE DirectoryInv'
    OBVIOUS
  <2>1. CASE DirectoryStep
    BY <2>1, DirectoryGoesOn DEF DirectoryStep
  <2>2. CASE ExitStep \/ ProcessStep \/ (\E p \in {1, 2} : PipelineStep(p)) \/ NetworkStep \/ UNCHANGED vars
    <3>1. UNCHANGED directory
      BY <2>2 DEF ExitStep, ProcessStep, PipelineStep, NetworkStep, vars
    <3> QED
      BY <3>1, DirectoryStands
  <2> QED
    BY <2>1, <2>2 DEF Next
<1>3. DirectoryInv => DirectoriesRead
  BY DirectoriesSound DEF DirectoriesRead
<1> QED
  BY <1>1, <1>2, <1>3, PTL DEF Spec

-----------------------------------------------------------------------------
(* The network.  First numbers: two bytes exchanged, and bits of a byte.   *)

LEMMA Bytes ==
    ASSUME NEW h \in Int, NEW l \in Int, 0 <= h, h <= 255, 0 <= l, l <= 255
    PROVE  /\ (256 * h + l) % 256 = l /\ (256 * h + l) \div 256 = h
           /\ ((256 * h + l) * 256) % 65536 = 256 * l
<1>1. (256 * h + l) * 256 = 65536 * h + 256 * l
  OBVIOUS
<1>2. 256 * l >= 0 /\ 256 * l < 65536
  OBVIOUS
<1>3. ((256 * h + l) * 256) % 65536 = 256 * l
  BY <1>1, <1>2
<1> QED
  BY <1>3

LEMMA Swap ==
    ASSUME NEW h \in Int, NEW l \in Int, 0 <= h, h <= 255, 0 <= l, l <= 255
    PROVE  Net!htons(256 * h + l) = 256 * l + h
  BY Bytes DEF Net!htons

LEMMA Swapped ==
    ASSUME NEW h \in Int, NEW l \in Int, 0 <= h, h <= 255, 0 <= l, l <= 255,
           NEW n \in Int, n = 256 * h + l
    PROVE  /\ Net!htons(n) % 256 = h /\ Net!htons(n) \div 256 = l
           /\ Net!htons(Net!htons(n)) = n
<1>1. Net!htons(n) = 256 * l + h
  BY Swap
<1>2. Net!htons(Net!htons(n)) = n
  BY <1>1, Swap
<1> QED
  BY <1>1, <1>2, Bytes

LEMMA SwapsBytes ==
    ASSUME NEW n \in Int, 0 <= n, n <= 65535
    PROVE  /\ Net!htons(n) % 256 = n \div 256 /\ Net!htons(n) \div 256 = n % 256
           /\ Net!htons(Net!htons(n)) = n
<1>1. n \div 256 \in Int /\ n % 256 \in Int /\ n = 256 * (n \div 256) + (n % 256)
  OBVIOUS
<1>2. n % 256 >= 0 /\ n % 256 <= 255 /\ n \div 256 >= 0 /\ n \div 256 <= 255
  OBVIOUS
<1> QED
  BY <1>1, <1>2, Swapped

LEMMA TurnsAddress ==
    ASSUME NEW ip \in [1 .. 4 -> 0 .. 255]
    PROVE  Net!Stored(Net!htonl(ip)) = ip /\ Net!htonl(Net!htonl(ip)) = ip
<1>1. <<ip[1], ip[2], ip[3], ip[4]>> = ip
  OBVIOUS
<1> QED
  BY <1>1 DEF Net!Stored, Net!htonl

LEMMA Powers ==
    /\ 2 ^ 0 = 1 /\ 2 ^ 1 = 2 /\ 2 ^ 2 = 4 /\ 2 ^ 3 = 8 /\ 2 ^ 4 = 16
    /\ 2 ^ 5 = 32 /\ 2 ^ 6 = 64 /\ 2 ^ 7 = 128 /\ 2 ^ 8 = 256
  OBVIOUS

(* The byte whose n highest bits are set.                                  *)
LEMMA ByteOfOnes ==
    ASSUME NEW n \in 0 .. 8, NEW q \in 0 .. 7
    PROVE  ((256 - 2 ^ (8 - n)) \div 2 ^ (7 - q)) % 2 = IF q < n THEN 1 ELSE 0
<1> DEFINE Byte(m, p) == (256 - m) \div p
<1>1. \A m \in 0 .. 8 : 8 - n = m => 2 ^ (8 - n) = 2 ^ m
  OBVIOUS
<1>2. \A m \in 0 .. 7 : 7 - q = m => 2 ^ (7 - q) = 2 ^ m
  OBVIOUS
<1>3. 2 ^ (8 - n) = CASE n = 0 -> 256 [] n = 1 -> 128 [] n = 2 -> 64 [] n = 3 -> 32 [] n = 4 -> 16
                      [] n = 5 -> 8 [] n = 6 -> 4 [] n = 7 -> 2 [] n = 8 -> 1
  BY <1>1, Powers
<1>4. 2 ^ (7 - q) = CASE q = 7 -> 1 [] q = 6 -> 2 [] q = 5 -> 4 [] q = 4 -> 8 [] q = 3 -> 16
                      [] q = 2 -> 32 [] q = 1 -> 64 [] q = 0 -> 128
  BY <1>2, Powers
<1> QED
  BY <1>3, <1>4

(* A number between 0 and 8.                                               *)
LEMMA Clamped ==
    ASSUME NEW x \in Int
    PROVE  LET n == Net!Max({0, Net!Min({8, x})})
           IN  n \in 0 .. 8 /\ (\A q \in 0 .. 7 : q < n <=> q < x)
<1>1. Net!Min({8, x}) = IF x < 8 THEN x ELSE 8
  BY DEF Net!Min
<1> DEFINE m == IF x < 8 THEN x ELSE 8
<1>2. Net!Max({0, m}) = IF m < 0 THEN 0 ELSE m
  BY DEF Net!Max
<1> QED
  BY <1>1, <1>2

LEMMA PrefixMask ==
    ASSUME NEW prefix \in Int
    PROVE  Net!Bits(Net!netmask(prefix)) = [k \in 1 .. 32 |-> IF k <= prefix THEN 1 ELSE 0]
<1> DEFINE mask == Net!netmask(prefix)
           bit(k) == (mask[((k - 1) \div 8) + 1] \div 2 ^ (7 - ((k - 1) % 8))) % 2
<1>1. ASSUME NEW k \in 1 .. 32
      PROVE  bit(k) = IF k <= prefix THEN 1 ELSE 0
  <2> DEFINE j == (k - 1) \div 8
             q == (k - 1) % 8
             x == prefix - 8 * j
             n == Net!Max({0, Net!Min({8, x})})
  <2>1. j \in 0 .. 3 /\ q \in 0 .. 7 /\ k = 8 * j + (q + 1) /\ j + 1 \in 1 .. 4 /\ (j + 1) - 1 = j
    OBVIOUS
  <2>2. mask[j + 1] = 256 - 2 ^ (8 - Net!Max({0, Net!Min({8, prefix - 8 * ((j + 1) - 1)})}))
    <3> HIDE DEF j
    <3> QED
      BY <2>1 DEF Net!netmask
  <2>3. mask[j + 1] = 256 - 2 ^ (8 - n)
    BY <2>1, <2>2
  <2> HIDE DEF j, q, mask
  <2>4. x \in Int /\ (q < x <=> k <= prefix)
    BY <2>1
  <2> HIDE DEF x
  <2>5. n \in 0 .. 8 /\ (q < n <=> q < x)
    BY <2>1, <2>4, Clamped
  <2> HIDE DEF n
  <2>6. (mask[j + 1] \div 2 ^ (7 - q)) % 2 = IF q < n THEN 1 ELSE 0
    <3>1. ((256 - 2 ^ (8 - n)) \div 2 ^ (7 - q)) % 2 = IF q < n THEN 1 ELSE 0
      BY <2>1, <2>5, ByteOfOnes
    <3> QED
      BY <2>3, <3>1, Zenon
  <2>7. bit(k) = (mask[j + 1] \div 2 ^ (7 - q)) % 2
    BY DEF j, q
  <2> HIDE DEF bit
  <2> QED
    BY <2>4, <2>5, <2>6, <2>7
<1> HIDE DEF mask
<1> QED
  BY <1>1 DEF Net!Bits, mask

-----------------------------------------------------------------------------
(* What the network's state keeps: the settings are what was last set,     *)
(* every route has the mask of the prefix that was meant, handles are      *)
(* sockets or -1, and the last answer is as it should be.                  *)

Endpoint == [queue : Seq(Sizes), blocking : BOOLEAN]
Told == Net!NetworkOrder /\ Net!ReadsBack /\ Net!SizesTold
Masked == \A r \in routes : r.prefix \in Int /\ r.mask = Net!netmask(r.prefix)
SocketsHeld == sockets \in Seq(Endpoint) /\ handles \subseteq (1 .. Len(sockets)) \cup {-1}
NetworkInv == addr = intended /\ DOMAIN addr = 0 .. Devices - 1 /\ Masked /\ SocketsHeld /\ Told

(* What the module assumes of sizes and addresses.                         *)
LEMMA SizesAndIps ==
    /\ Ips \subseteq [1 .. 4 -> 0 .. 255]
    /\ \A n \in Sizes : n \in Int /\ 0 <= n /\ n <= 65535
<1>0. Net!NetworkAssumption
  BY SystemAssumption
<1> QED
  BY <1>0 DEF Net!NetworkAssumption

LEMMA CutBelow ==
    ASSUME NEW r \in Int, -65536 <= r, r < 0
    PROVE  Net!Cut(r) = r + 65536
  BY DEF Net!Cut

LEMMA OptionSet ==
    ASSUME NEW e \in Endpoint, NEW b \in BOOLEAN
    PROVE  [e EXCEPT !.blocking = b] \in Endpoint
  BY DEF Endpoint

LEMMA EndpointFields ==
    ASSUME NEW e \in Endpoint, NEW size \in Sizes
    PROVE  /\ [e EXCEPT !.queue = Append(e.queue, size)] \in Endpoint
           /\ e.queue # <<>> => [e EXCEPT !.queue = Tail(e.queue)] \in Endpoint
<1>1. e.queue \in Seq(Sizes) /\ e.blocking \in BOOLEAN
  BY DEF Endpoint
<1>2. ASSUME NEW q \in Seq(Sizes) PROVE [e EXCEPT !.queue = q] \in Endpoint
  BY <1>1 DEF Endpoint
<1>3. Append(e.queue, size) \in Seq(Sizes) /\ (e.queue # <<>> => Tail(e.queue) \in Seq(Sizes))
  BY <1>1
<1> QED
  BY <1>2, <1>3

(* A socket is changed, and none is lost.                                  *)
LEMMA SocketsStay ==
    ASSUME SocketsHeld, NEW s \in 1 .. Len(sockets), NEW e \in Endpoint,
           sockets' = [sockets EXCEPT ![s] = e], UNCHANGED handles
    PROVE  SocketsHeld'
<1>1. sockets \in Seq(Endpoint) /\ Len(sockets) \in Nat
  BY DEF SocketsHeld
<1>2. sockets' \in Seq(Endpoint) /\ Len(sockets') = Len(sockets)
  BY <1>1
<1> QED
  BY <1>2 DEF SocketsHeld

LEMMA NetworkStarts ==
    ASSUME Net!Init PROVE NetworkInv
<1>1. answer.call = "none"
  BY DEF Net!Init
<1>2. Told
  BY <1>1 DEF Told, Net!NetworkOrder, Net!ReadsBack, Net!SizesTold
<1> QED
  BY <1>2 DEF Net!Init, NetworkInv, Masked, SocketsHeld

LEMMA NetworkStands ==
    ASSUME NetworkInv, UNCHANGED network PROVE NetworkInv'
  BY DEF network, NetworkInv, Masked, SocketsHeld, Told, Net!NetworkOrder, Net!ReadsBack, Net!SizesTold

(* What an answer other than these four says is nothing they are about.    *)
LEMMA Elsewhere ==
    ASSUME answer'.call \notin {"htonl", "htons", "get", "recv"}
    PROVE  Told'
  BY DEF Told, Net!NetworkOrder, Net!ReadsBack, Net!SizesTold

LEMMA OrderStep ==
    ASSUME NetworkInv, Net!order PROVE NetworkInv'
<1>1. UNCHANGED <<addr, routes, sockets, handles, intended>>
  BY DEF Net!order, Net!Kernel, Net!Program
<1>2. Told'
  <2>1. CASE \E ip \in Ips : answer' = [call |-> "htonl", dev |-> 0, of |-> ip, result |-> Net!htonl(ip)]
    <3>1. PICK ip \in Ips : answer' = [call |-> "htonl", dev |-> 0, of |-> ip, result |-> Net!htonl(ip)]
      BY <2>1
    <3>2. ip \in [1 .. 4 -> 0 .. 255]
      BY SizesAndIps
    <3>3. answer'.call = "htonl" /\ answer'.of = ip /\ answer'.result = Net!htonl(ip)
      BY <3>1
    <3> QED
      BY <3>2, <3>3, TurnsAddress DEF Told, Net!NetworkOrder, Net!ReadsBack, Net!SizesTold
  <2>2. CASE \E n \in Sizes : answer' = [call |-> "htons", dev |-> 0, of |-> n, result |-> Net!htons(n)]
    <3>1. PICK n \in Sizes : answer' = [call |-> "htons", dev |-> 0, of |-> n, result |-> Net!htons(n)]
      BY <2>2
    <3>2. n \in Int /\ 0 <= n /\ n <= 65535
      BY SizesAndIps
    <3>3. answer'.call = "htons" /\ answer'.of = n /\ answer'.result = Net!htons(n)
      BY <3>1
    <3>4. /\ Net!htons(n) % 256 = n \div 256 /\ Net!htons(n) \div 256 = n % 256
          /\ Net!htons(Net!htons(n)) = n
      BY <3>2, SwapsBytes
    <3>5. Net!NetworkOrder'
      BY <3>3, <3>4, Zenon DEF Net!NetworkOrder
    <3> QED
      BY <3>3, <3>5 DEF Told, Net!ReadsBack, Net!SizesTold
  <2> QED
    BY <2>1, <2>2 DEF Net!order
<1> QED
  BY <1>1, <1>2 DEF NetworkInv, Masked, SocketsHeld

LEMMA SettingsStep ==
    ASSUME NetworkInv, NEW dev \in -1 .. Devices, Net!Settings(dev) PROVE NetworkInv'
<1>1. CASE Net!get(dev)
  <2>1. UNCHANGED <<addr, routes, sockets, handles, intended>>
    BY <1>1 DEF Net!get, Net!Kernel, Net!Program
  <2>2. /\ answer'.call = "get" /\ answer'.dev = dev
        /\ answer'.result = IF Net!IsDevice(dev) THEN addr[dev] ELSE <<255, 255, 255, 255>>
    BY <1>1 DEF Net!get
  <2>3. Told'
    BY <2>1, <2>2 DEF NetworkInv, Told, Net!NetworkOrder, Net!ReadsBack, Net!SizesTold
  <2> QED
    BY <2>1, <2>3 DEF NetworkInv, Masked, SocketsHeld
<1>2. CASE Net!mac(dev)
  <2>1. UNCHANGED <<addr, routes, sockets, handles, intended>> /\ answer'.call = "mac"
    BY <1>2 DEF Net!mac, Net!Kernel, Net!Program
  <2> QED
    BY <2>1, Elsewhere DEF NetworkInv, Masked, SocketsHeld
<1>3. CASE Net!del(dev)
  <2>1. UNCHANGED <<addr, sockets, handles, intended>> /\ routes' \subseteq routes /\ answer'.call = "del"
    BY <1>3 DEF Net!del
  <2> QED
    BY <2>1, Elsewhere DEF NetworkInv, Masked, SocketsHeld
<1>4. ASSUME NEW ip \in Ips, Net!set(dev, ip)
      PROVE  NetworkInv'
  <2>1. PICK ret \in IF Net!IsDevice(dev) THEN {0, Net!FAILED} ELSE {Net!FAILED} :
            /\ addr' = IF ret = Net!FAILED THEN addr ELSE [addr EXCEPT ![dev] = ip]
            /\ intended' = IF Net!IsDevice(dev) /\ Net!Success(ret) THEN [intended EXCEPT ![dev] = ip] ELSE intended
            /\ answer' = [call |-> "set", dev |-> dev, result |-> Net!Success(ret)]
            /\ UNCHANGED <<routes, sockets, handles>>
    BY <1>4, Zenon DEF Net!set
  <2>2. (ret = 0 /\ Net!IsDevice(dev) /\ Net!Success(ret)) \/ (ret = Net!FAILED /\ ~ Net!Success(ret))
    BY <2>1 DEF Net!FAILED, Net!Success
  <2>3. ret # 0 => ret = Net!FAILED
    BY <2>2
  <2>4. 0 # Net!FAILED
    BY DEF Net!FAILED
  <2>5. addr' = intended' /\ DOMAIN addr' = DOMAIN addr
    BY <2>1, <2>2, <2>4 DEF NetworkInv
  <2>6. Told'
    <3>1. answer'.call = "set"
      BY <2>1
    <3> QED
      BY <3>1, Elsewhere
  <2> QED
    BY <2>1, <2>5, <2>6 DEF NetworkInv, Masked, SocketsHeld
<1>5. ASSUME NEW ip \in Ips, NEW prefix \in {-1, 0, 1, 12, 31, 32, 33}, Net!add(ip, prefix, dev)
      PROVE  NetworkInv'
  <2> DEFINE r == [dest |-> ip, mask |-> Net!netmask(prefix), prefix |-> prefix, dev |-> dev]
  <2>1. UNCHANGED <<addr, sockets, handles, intended>> /\ routes' \subseteq routes \cup {r} /\ answer'.call = "add"
    BY <1>5 DEF Net!add
  <2>2. r.prefix \in Int /\ r.mask = Net!netmask(r.prefix)
    OBVIOUS
  <2> HIDE DEF r
  <2>3. Masked'
    BY <2>1, <2>2 DEF Masked, NetworkInv
  <2> QED
    BY <2>1, <2>3, Elsewhere DEF NetworkInv, SocketsHeld
<1> QED
  BY <1>1, <1>2, <1>3, <1>4, <1>5 DEF Net!Settings

LEMMA SocketsStep ==
    ASSUME NetworkInv, Net!Sockets PROVE NetworkInv'
<1>0. sockets \in Seq(Endpoint) /\ handles \subseteq (1 .. Len(sockets)) \cup {-1} /\ Len(sockets) \in Nat
  BY DEF NetworkInv, SocketsHeld
<1>1. ASSUME SocketsHeld', UNCHANGED <<addr, routes, intended>>, Told'
      PROVE  NetworkInv'
  BY <1>1 DEF NetworkInv, Masked
<1>2. CASE Net!Socket_
  <2>1. [queue |-> <<>>, blocking |-> FALSE] \in Endpoint
    BY DEF Endpoint
  <2> DEFINE new == [queue |-> <<>>, blocking |-> FALSE]
  <2>2. \/ sockets' = Append(sockets, new) /\ handles' = handles \cup {Len(sockets) + 1}
        \/ handles' = handles \cup {-1} /\ UNCHANGED sockets
    BY <1>2 DEF Net!Socket_, Net!FAILED
  <2>3. UNCHANGED <<addr, routes, intended>> /\ answer'.call = "Socket"
    BY <1>2 DEF Net!Socket_
  <2> HIDE DEF new
  <2>4. SocketsHeld'
    <3>1. new \in Endpoint
      BY <2>1 DEF new
    <3>2. CASE handles' = handles \cup {-1} /\ UNCHANGED sockets
      BY <1>0, <3>2 DEF SocketsHeld
    <3>3. CASE sockets' = Append(sockets, new) /\ handles' = handles \cup {Len(sockets) + 1}
      <4>1. sockets' \in Seq(Endpoint) /\ Len(sockets') = Len(sockets) + 1
        BY <1>0, <3>1, <3>3
      <4>2. handles' \subseteq (1 .. Len(sockets')) \cup {-1}
        <5> HIDE DEF new
        <5>1. 1 .. Len(sockets) \subseteq 1 .. Len(sockets') /\ Len(sockets) + 1 \in 1 .. Len(sockets')
          BY <1>0, <4>1
        <5> QED
          BY <1>0, <3>3, <5>1, Zenon
      <4> QED
        BY <4>1, <4>2 DEF SocketsHeld
    <3> QED
      BY <2>2, <3>2, <3>3
  <2> QED
    BY <1>1, <2>3, <2>4, Elsewhere
<1>3. ASSUME NEW s \in handles, Net!Destroyed(s)
      PROVE  NetworkInv'
  <2>1. handles' \subseteq handles /\ UNCHANGED <<addr, routes, sockets, intended>> /\ answer'.call = "~Socket"
    BY <1>3 DEF Net!Destroyed, Net!Kernel
  <2> QED
    BY <1>0, <1>1, <2>1, Elsewhere DEF SocketsHeld
<1>4. ASSUME NEW s \in handles, NEW b \in BOOLEAN, Net!set_option(s, b)
      PROVE  NetworkInv'
  <2>1. s \in 1 .. Len(sockets) /\ sockets' = [sockets EXCEPT ![s] = [sockets[s] EXCEPT !.blocking = b]]
        /\ UNCHANGED <<addr, routes, handles, intended>> /\ answer'.call = "set_option"
    BY <1>0, <1>4 DEF Net!set_option, Net!Program, Net!FAILED
  <2>2. [sockets[s] EXCEPT !.blocking = b] \in Endpoint
    <3>1. sockets[s] \in Endpoint
      BY <1>0, <2>1
    <3> QED
      BY <3>1, OptionSet
  <2>3. SocketsHeld'
    <3>1. SocketsHeld
      BY DEF NetworkInv
    <3> DEFINE e == [sockets[s] EXCEPT !.blocking = b]
    <3>2. e \in Endpoint
      BY <2>2
    <3>3. sockets' = [sockets EXCEPT ![s] = e]
      BY <2>1
    <3> HIDE DEF e
    <3> QED
      BY <2>1, <3>1, <3>2, <3>3, SocketsStay
  <2> QED
    BY <1>1, <2>1, <2>3, Elsewhere
<1>5. ASSUME NEW s \in handles, NEW size \in Sizes, Net!send(s, size)
      PROVE  NetworkInv'
  <2>1. s \in 1 .. Len(sockets)
        /\ sockets' \in {sockets, [sockets EXCEPT ![s] = [sockets[s] EXCEPT !.queue = Append(sockets[s].queue, size)]]}
        /\ UNCHANGED <<addr, routes, handles, intended>> /\ answer'.call = "send"
    BY <1>0, <1>5 DEF Net!send, Net!Program, Net!FAILED
  <2>2. [sockets[s] EXCEPT !.queue = Append(sockets[s].queue, size)] \in Endpoint
    <3>1. sockets[s] \in Endpoint
      BY <1>0, <2>1
    <3> QED
      BY <3>1, EndpointFields
  <2>3. SocketsHeld'
    <3>1. SocketsHeld
      BY DEF NetworkInv
    <3> DEFINE e == [sockets[s] EXCEPT !.queue = Append(sockets[s].queue, size)]
    <3>2. e \in Endpoint
      BY <2>2
    <3>3. sockets' = [sockets EXCEPT ![s] = e] \/ sockets' = sockets
      BY <2>1
    <3> HIDE DEF e
    <3> QED
      BY <2>1, <3>1, <3>2, <3>3, SocketsStay DEF SocketsHeld
  <2> QED
    BY <1>1, <2>1, <2>3, Elsewhere
<1>6. ASSUME NEW s \in handles, NEW capacity \in Sizes, Net!recv(s, capacity)
      PROVE  NetworkInv'
  <2> DEFINE queue == IF s = Net!FAILED THEN <<>> ELSE sockets[s].queue
             result == IF queue = <<>> THEN Net!FAILED ELSE Net!Min({Head(queue), capacity})
  <2>1. /\ sockets' = IF queue = <<>> THEN sockets ELSE [sockets EXCEPT ![s] = [sockets[s] EXCEPT !.queue = Tail(sockets[s].queue)]]
        /\ UNCHANGED <<addr, routes, handles, intended>>
    BY <1>6 DEF Net!recv, Net!Program
  <2>2. /\ answer'.call = "recv" /\ answer'.result = Net!Cut(result)
        /\ answer'.kernel = result /\ answer'.capacity = capacity
    BY <1>6 DEF Net!recv
  <2>3. queue # <<>> => s \in 1 .. Len(sockets) /\ queue = sockets[s].queue /\ sockets[s] \in Endpoint
    BY <1>0 DEF Net!FAILED
  <2>4. queue # <<>> => queue \in Seq(Sizes) /\ Head(queue) \in Sizes
    BY <2>3 DEF Endpoint
  <2>5. ASSUME queue # <<>> PROVE [sockets[s] EXCEPT !.queue = Tail(sockets[s].queue)] \in Endpoint
    <3>1. sockets[s] \in Endpoint /\ sockets[s].queue # <<>>
      BY <2>3, <2>5
    <3> QED
      BY <3>1, EndpointFields
  <2>6. \A n \in Sizes : n \in Int /\ 0 <= n /\ n <= 65535
    BY SizesAndIps
  <2>7. queue # <<>> => result \in Int /\ 0 <= result /\ result <= 65535 /\ result <= capacity
    <3> DEFINE head == Head(queue)
    <3>1. ASSUME queue # <<>> PROVE head \in Int /\ capacity \in Int /\ 0 <= head /\ head <= 65535 /\ 0 <= capacity /\ capacity <= 65535
      BY <2>4, <2>6, <3>1
    <3>2. ASSUME queue # <<>> PROVE result = Net!Min({head, capacity})
      BY <3>2
    <3> HIDE DEF queue, result, head
    <3>3. ASSUME queue # <<>> PROVE Net!Min({head, capacity}) = IF head < capacity THEN head ELSE capacity
      BY <3>1, <3>3 DEF Net!Min
    <3> QED
      BY <3>1, <3>2, <3>3
  <2>8. queue = <<>> => result = -1
    BY DEF Net!FAILED
  <2> HIDE DEF queue, result
  <2>9. Told'
    <3>1. Net!SizesTold'
      <4>1. CASE queue = <<>>
        <5>1. Net!Cut(result) = 65535
          BY <2>8, <4>1, CutBelow
        <5>2. 65535 \notin Net!Shorter /\ result = Net!FAILED
          BY <2>8, <4>1 DEF Net!Shorter, Net!FAILED
        <5>3. answer'.kernel = Net!FAILED /\ answer'.result \notin Net!Shorter
          BY <2>2, <5>1, <5>2
        <5> QED
          BY ONLY <5>3, Zenon DEF Net!SizesTold
      <4>2. CASE queue # <<>>
        <5>1. Net!Cut(result) = result
          BY <2>7, <4>2 DEF Net!Cut
        <5>2. result # Net!FAILED /\ result <= capacity
          BY <2>7, <4>2 DEF Net!FAILED
        <5>3. answer'.kernel # Net!FAILED /\ answer'.result = answer'.kernel /\ answer'.result <= answer'.capacity
          BY <2>2, <5>1, <5>2
        <5> QED
          BY ONLY <5>3, Zenon DEF Net!SizesTold
      <4> QED
        BY <4>1, <4>2
    <3> QED
      BY <2>2, <3>1 DEF Told, Net!NetworkOrder, Net!ReadsBack
  <2>10. SocketsHeld'
    <3>1. SocketsHeld
      BY DEF NetworkInv
    <3>2. CASE queue = <<>>
      BY <2>1, <3>1, <3>2 DEF SocketsHeld
    <3>3. CASE queue # <<>>
      BY <2>1, <2>3, <2>5, <3>1, <3>3, SocketsStay
    <3> QED
      BY <3>2, <3>3
  <2> QED
    BY <1>1, <2>1, <2>9, <2>10
<1> QED
  BY <1>2, <1>3, <1>4, <1>5, <1>6 DEF Net!Sockets

(* NetworkMeant (myos.cpp:756-781, net.cpp:28-86, include/net:14-16):       *)
(* however a program sets addresses and routes and sends and receives,     *)
(* bytes are in network order, masks are their prefixes, settings read     *)
(* back, and what recv answers is a size or the mark of failure.           *)
THEOREM Networks == Spec => []NetworkMeant
<1>1. Init => NetworkInv
  BY NetworkStarts DEF Init
<1>2. NetworkInv /\ [Next]_vars => NetworkInv'
  <2> SUFFICES ASSUME NetworkInv, [Next]_vars PROVE NetworkInv'
    OBVIOUS
  <2>1. CASE NetworkStep
    <3>1. CASE Net!count
      <4>1. UNCHANGED <<addr, routes, sockets, handles, intended>> /\ answer'.call = "count"
        BY <3>1 DEF Net!count, Net!Kernel, Net!Program
      <4> QED
        BY <4>1, Elsewhere DEF NetworkInv, Masked, SocketsHeld
    <3> QED
      BY <2>1, <3>1, OrderStep, SocketsStep, SettingsStep DEF NetworkStep, Net!Next
  <2>2. CASE ExitStep \/ ProcessStep \/ (\E p \in {1, 2} : PipelineStep(p)) \/ DirectoryStep \/ UNCHANGED vars
    <3>1. UNCHANGED network
      BY <2>2 DEF ExitStep, ProcessStep, PipelineStep, DirectoryStep, vars
    <3> QED
      BY <3>1, NetworkStands
  <2> QED
    BY <2>1, <2>2 DEF Next
<1>3. NetworkInv => NetworkMeant
  <2> SUFFICES ASSUME NetworkInv PROVE Net!MasksArePrefixes /\ Told
    BY DEF NetworkMeant, Told
  <2>1. ASSUME NEW r \in routes
        PROVE  Net!Bits(r.mask) = [k \in 1 .. 32 |-> IF k <= r.prefix THEN 1 ELSE 0]
    <3>1. r.prefix \in Int /\ r.mask = Net!netmask(r.prefix)
      BY DEF NetworkInv, Masked
    <3> DEFINE prefix == r.prefix
               mask == r.mask
    <3>2. prefix \in Int /\ mask = Net!netmask(prefix)
      BY <3>1
    <3> HIDE DEF prefix, mask
    <3>3. Net!Bits(mask) = [k \in 1 .. 32 |-> IF k <= prefix THEN 1 ELSE 0]
      BY <3>2, PrefixMask
    <3> QED
      BY <3>3 DEF prefix, mask
  <2> QED
    BY <2>1 DEF NetworkInv, Net!MasksArePrefixes
<1> QED
  BY <1>1, <1>2, <1>3, PTL DEF Spec

-----------------------------------------------------------------------------
(* Processes.  First counting: how often a text lies in a sequence.        *)

Places(text, s) == {i \in 1 .. Len(s) : s[i] = text}
Often(text, s) == Cardinality(Places(text, s))

LEMMA FinitePlaces ==
    ASSUME NEW text, NEW s \in Seq(Nat)
    PROVE  IsFiniteSet(Places(text, s)) /\ Often(text, s) \in Nat
<1>1. Len(s) \in Nat /\ Places(text, s) \subseteq 1 .. Len(s)
  BY DEF Places
<1>2. IsFiniteSet(1 .. Len(s))
  BY <1>1, CountTo
<1> QED
  BY <1>1, <1>2, FS_Subset, FS_CardinalityType DEF Often

LEMMA NowhereInNothing == \A text : Often(text, <<>>) = 0
<1> SUFFICES ASSUME NEW text PROVE Often(text, <<>>) = 0
  OBVIOUS
<1>1. Places(text, <<>>) = {}
  BY DEF Places
<1> QED
  BY <1>1, FS_EmptySet DEF Often

(* A text lies in a sequence where it is found.                            *)
LEMMA FoundOften ==
    ASSUME NEW s \in Seq(Nat), NEW i \in 1 .. Len(s)
    PROVE  Often(s[i], s) >= 1
<1>1. IsFiniteSet(Places(s[i], s)) /\ Often(s[i], s) \in Nat
  BY FinitePlaces
<1>2. Places(s[i], s) # {}
  BY DEF Places
<1>3. Often(s[i], s) # 0
  BY <1>1, <1>2, FS_EmptySet DEF Often
<1> QED
  BY <1>1, <1>3

LEMMA OftenFound ==
    ASSUME NEW text, NEW s \in Seq(Nat), Often(text, s) # 0
    PROVE  \E i \in 1 .. Len(s) : s[i] = text
<1>1. Places(text, s) # {}
  BY FS_EmptySet DEF Often
<1> QED
  BY <1>1 DEF Places

(* In what is put together it lies as often as in the parts.               *)
LEMMA OftenInBoth ==
    ASSUME NEW text, NEW s \in Seq(Nat), NEW t \in Seq(Nat)
    PROVE  Often(text, s \o t) = Often(text, s) + Often(text, t)
<1> DEFINE A == Places(text, s)
           B == Places(text, t)
           C == {i \in 1 .. Len(s) + Len(t) : i > Len(s) /\ (s \o t)[i] = text}
           f == [i \in B |-> i + Len(s)]
<1>1. Len(s) \in Nat /\ Len(t) \in Nat /\ Len(s \o t) = Len(s) + Len(t)
  OBVIOUS
<1>2. /\ \A i \in 1 .. Len(s) : (s \o t)[i] = s[i]
      /\ \A i \in 1 .. Len(t) : (s \o t)[i + Len(s)] = t[i]
  OBVIOUS
<1>3. Places(text, s \o t) = A \cup C
  <2>1. ASSUME NEW i \in 1 .. Len(s \o t), (s \o t)[i] = text PROVE i \in A \cup C
    BY <1>1, <1>2, <2>1 DEF Places
  <2>2. ASSUME NEW i \in A PROVE i \in Places(text, s \o t)
    BY <1>1, <1>2, <2>2 DEF Places
  <2>3. ASSUME NEW i \in C PROVE i \in Places(text, s \o t)
    BY <1>1, <2>3 DEF Places
  <2>4. \A i \in Places(text, s \o t) : i \in 1 .. Len(s \o t) /\ (s \o t)[i] = text
    BY DEF Places
  <2> QED
    BY <2>1, <2>2, <2>3, <2>4
<1>4. A \cap C = {}
  BY <1>1 DEF Places
<1>5. f \in Bijection(B, C)
  <2>1. \A i \in B : i \in 1 .. Len(t) /\ t[i] = text
    BY DEF Places
  <2>2. \A i \in B : f[i] \in C /\ f[i] = i + Len(s)
    BY <1>1, <1>2, <2>1
  <2>3. f \in [B -> C]
    BY <2>2
  <2>4. \A i, j \in B : f[i] = f[j] => i = j
    BY <1>1, <2>1, <2>2
  <2>5. ASSUME NEW j \in C PROVE \E i \in B : f[i] = j
    <3>1. j - Len(s) \in 1 .. Len(t) /\ (j - Len(s)) + Len(s) = j /\ (s \o t)[j] = text
      BY <1>1
    <3>2. t[j - Len(s)] = text
      BY <1>2, <3>1
    <3>3. j - Len(s) \in B
      BY <3>1, <3>2 DEF Places
    <3> QED
      BY <2>2, <3>1, <3>3
  <2> HIDE DEF f, B, C
  <2> QED
    BY <2>3, <2>4, <2>5 DEF Bijection, Injection, Surjection, IsInjective
<1>6. IsFiniteSet(A) /\ IsFiniteSet(B) /\ Cardinality(A) \in Nat /\ Cardinality(B) \in Nat
  BY FinitePlaces DEF Often
<1> HIDE DEF f, A, B, C
<1>7. IsFiniteSet(C) /\ Cardinality(C) = Cardinality(B)
  BY <1>5, <1>6, FS_Bijection DEF ExistsBijection
<1>8. Cardinality(A \cup C) = Cardinality(A) + Cardinality(C) - Cardinality(A \cap C)
  BY <1>6, <1>7, FS_Union
<1>9. Cardinality(A \cap C) = 0
  BY <1>4, FS_EmptySet
<1>10. Cardinality(A \cup C) = Cardinality(A) + Cardinality(B)
  BY <1>6, <1>7, <1>8, <1>9
<1> QED
  BY <1>3, <1>10 DEF Often, A, B

LEMMA OftenWithLast ==
    ASSUME NEW text \in Nat, NEW s \in Seq(Nat), NEW last \in Nat
    PROVE  Often(text, Append(s, last)) = IF text = last THEN Often(text, s) + 1 ELSE Often(text, s)
<1>1. Append(s, last) = s \o <<last>> /\ <<last>> \in Seq(Nat)
  OBVIOUS
<1>2. Often(text, s) \in Nat
  BY FinitePlaces
<1>3. CASE text = last
  <2>1. Places(text, <<last>>) = {1}
    BY <1>3 DEF Places
  <2>2. Often(text, <<last>>) = 1
    BY <2>1, FS_Singleton DEF Often
  <2> QED
    BY <1>1, <1>2, <1>3, <2>2, OftenInBoth
<1>4. CASE text # last
  <2>1. Places(text, <<last>>) = {}
    BY <1>4 DEF Places
  <2>2. Often(text, <<last>>) = 0
    BY <2>1, FS_EmptySet DEF Often
  <2>3. Often(text, Append(s, last)) = Often(text, s) + 0
    BY <1>1, <2>2, OftenInBoth
  <2> QED
    BY <1>2, <1>4, <2>3
<1> QED
  BY <1>3, <1>4

(* Read leaves what it does not take.                                      *)
LEMMA CutInTwo ==
    ASSUME NEW s \in Seq(Nat), NEW n \in 1 .. Len(s)
    PROVE  /\ SubSeq(s, 1, n) \in Seq(Nat) /\ SubSeq(s, n + 1, Len(s)) \in Seq(Nat)
           /\ SubSeq(s, 1, n) \o SubSeq(s, n + 1, Len(s)) = s
<1>1. n \in Nat /\ Len(s) \in Nat /\ n <= Len(s) /\ n >= 1
  OBVIOUS
<1>2. SubSeq(s, 1, n) \in Seq(Nat) /\ SubSeq(s, n + 1, Len(s)) \in Seq(Nat)
  BY <1>1, SubSeqProperties
<1>3. SubSeq(s, 1, n) \o SubSeq(s, n + 1, Len(s)) = SubSeq(s, 1, Len(s))
  BY <1>1, ConcatAdjacentSubSeq
<1> QED
  BY <1>2, <1>3, SubSeqFull

-----------------------------------------------------------------------------
(* What a process is, and what it keeps.                                   *)

Kinds == {"tty", "file"} \cup Running!Ends
Tables == UNION {[D -> Kinds] : D \in SUBSET Nat}
Pairs == [read_fd : Int, write_fd : Int]
Processes ==
    [status : {"none", "running", "ended"}, table : Tables, pipe : Pairs, buffer : Seq(Nat),
     script : Seq(Running!Calls), careless : BOOLEAN, foreign : BOOLEAN]

(* A careful process has its standard descriptors, and its object holds    *)
(* two ends of the pipe, which are others.                                 *)
Careful(r) ==
    /\ {0, 1, 2} \subseteq DOMAIN r.table
    /\ \/ r.pipe = Running!None
       \/ \A fd \in {r.pipe.read_fd, r.pipe.write_fd} : fd >= 3 /\ fd \in DOMAIN r.table /\ r.table[fd] \in Running!Ends
Own(r) ==
    /\ r \in Processes
    /\ r.foreign => r.careless
    /\ r.status = "running" /\ ~ r.careless => Careful(r)

(* The calls that only change descriptors leave r as q.                    *)
Rewired(r, q) == Own(q) /\ q.status = r.status /\ q.buffer = r.buffer /\ q.script = r.script

LEMMA TableType ==
    ASSUME NEW table
    PROVE  table \in Tables <=> (DOMAIN table \subseteq Nat /\ table \in [DOMAIN table -> Kinds])
  BY DEF Tables

LEMMA Widened ==
    ASSUME NEW table \in Tables, NEW fd \in Nat, NEW x \in Kinds
    PROVE  /\ Running!With(table, fd, x) \in Tables
           /\ DOMAIN Running!With(table, fd, x) = DOMAIN table \cup {fd}
           /\ Running!With(table, fd, x)[fd] = x
           /\ \A f \in DOMAIN table \ {fd} : Running!With(table, fd, x)[f] = table[f]
<1>1. DOMAIN table \subseteq Nat /\ \A f \in DOMAIN table : table[f] \in Kinds
  BY TableType
<1> DEFINE wide == Running!With(table, fd, x)
<1>2. wide = [f \in DOMAIN table \cup {fd} |-> IF f = fd THEN x ELSE table[f]]
  BY DEF Running!With
<1>3. DOMAIN wide = DOMAIN table \cup {fd} /\ wide[fd] = x /\ \A f \in DOMAIN table \ {fd} : wide[f] = table[f]
  BY <1>2
<1>4. wide \in [DOMAIN table \cup {fd} -> Kinds]
  BY <1>1, <1>2
<1> HIDE DEF wide
<1>5. wide \in Tables
  BY <1>1, <1>3, <1>4, TableType
<1> QED
  BY <1>3, <1>5 DEF wide

LEMMA Narrowed ==
    ASSUME NEW table \in Tables, NEW fd
    PROVE  /\ [f \in DOMAIN table \ {fd} |-> table[f]] \in Tables
           /\ DOMAIN [f \in DOMAIN table \ {fd} |-> table[f]] = DOMAIN table \ {fd}
           /\ \A f \in DOMAIN table \ {fd} : [g \in DOMAIN table \ {fd} |-> table[g]][f] = table[f]
<1>1. DOMAIN table \subseteq Nat /\ \A f \in DOMAIN table : table[f] \in Kinds
  BY TableType
<1> DEFINE narrow == [f \in DOMAIN table \ {fd} |-> table[f]]
<1>2. DOMAIN narrow = DOMAIN table \ {fd} /\ narrow \in [DOMAIN table \ {fd} -> Kinds]
  BY <1>1
<1>3. narrow \in Tables
  BY <1>1, <1>2, TableType
<1> QED
  BY <1>2, <1>3

LEMMA ProcessFields ==
    ASSUME NEW r \in Processes
    PROVE  /\ r.status \in {"none", "running", "ended"} /\ r.table \in Tables /\ r.pipe \in Pairs
           /\ r.buffer \in Seq(Nat) /\ r.script \in Seq(Running!Calls)
           /\ r.careless \in BOOLEAN /\ r.foreign \in BOOLEAN
           /\ r.pipe.read_fd \in Int /\ r.pipe.write_fd \in Int
  BY DEF Processes, Pairs

(* A process with other descriptors, and perhaps another object.           *)
Changed(r, table, pipe, careless, foreign) ==
    [status |-> r.status, table |-> table, pipe |-> pipe, buffer |-> r.buffer, script |-> r.script,
     careless |-> careless, foreign |-> foreign]

LEMMA ChangedFields ==
    ASSUME NEW r \in Processes, NEW table \in Tables, NEW pipe \in Pairs, NEW careless \in BOOLEAN, NEW foreign \in BOOLEAN
    PROVE  /\ Changed(r, table, pipe, careless, foreign) \in Processes
           /\ Changed(r, table, pipe, careless, foreign).status = r.status
           /\ Changed(r, table, pipe, careless, foreign).table = table
           /\ Changed(r, table, pipe, careless, foreign).pipe = pipe
           /\ Changed(r, table, pipe, careless, foreign).buffer = r.buffer
           /\ Changed(r, table, pipe, careless, foreign).script = r.script
           /\ Changed(r, table, pipe, careless, foreign).careless = careless
           /\ Changed(r, table, pipe, careless, foreign).foreign = foreign
  BY DEF Changed, Processes

LEMMA ChangedOnce ==
    ASSUME NEW r, r = Changed(r, r.table, r.pipe, r.careless, r.foreign), NEW table, NEW pipe, NEW careless, NEW foreign
    PROVE  /\ [r EXCEPT !.table = table] = Changed(r, table, r.pipe, r.careless, r.foreign)
           /\ [r EXCEPT !.pipe = pipe] = Changed(r, r.table, pipe, r.careless, r.foreign)
           /\ [r EXCEPT !.careless = careless] = Changed(r, r.table, r.pipe, careless, r.foreign)
           /\ [r EXCEPT !.foreign = foreign] = Changed(r, r.table, r.pipe, r.careless, foreign)
<1> r \in [status : {r.status}, table : {r.table}, pipe : {r.pipe}, buffer : {r.buffer}, script : {r.script},
          careless : {r.careless}, foreign : {r.foreign}]
  BY DEF Changed
<1>1. [r EXCEPT !.table = table] = Changed(r, table, r.pipe, r.careless, r.foreign)
  BY DEF Changed
<1>2. [r EXCEPT !.pipe = pipe] = Changed(r, r.table, pipe, r.careless, r.foreign)
  BY DEF Changed
<1>3. [r EXCEPT !.careless = careless] = Changed(r, r.table, r.pipe, careless, r.foreign)
  BY DEF Changed
<1>4. [r EXCEPT !.foreign = foreign] = Changed(r, r.table, r.pipe, r.careless, foreign)
  BY DEF Changed
<1> QED
  BY <1>1, <1>2, <1>3, <1>4

LEMMA ChangedProcess ==
    ASSUME NEW r \in Processes
    PROVE  /\ \A table : [r EXCEPT !.table = table] = Changed(r, table, r.pipe, r.careless, r.foreign)
           /\ \A pipe : [r EXCEPT !.pipe = pipe] = Changed(r, r.table, pipe, r.careless, r.foreign)
           /\ \A careless : [r EXCEPT !.careless = careless] = Changed(r, r.table, r.pipe, careless, r.foreign)
           /\ \A foreign : [r EXCEPT !.foreign = foreign] = Changed(r, r.table, r.pipe, r.careless, foreign)
<1>1. r = Changed(r, r.table, r.pipe, r.careless, r.foreign)
  BY DEF Processes, Changed
<1> QED
  BY <1>1, ChangedOnce

LEMMA ClosedFields ==
    ASSUME NEW r \in Processes, NEW fd
    PROVE  LET q == Running!Closed(r, fd) IN
           /\ q \in Processes /\ q.status = r.status /\ q.buffer = r.buffer /\ q.script = r.script
           /\ q.pipe = r.pipe /\ q.careless = r.careless
           /\ DOMAIN q.table = DOMAIN r.table \ {fd} /\ \A f \in DOMAIN q.table : q.table[f] = r.table[f]
           /\ q.foreign <=> r.foreign \/ (fd \in DOMAIN r.table /\ r.table[fd] \notin Running!Ends)
<1> DEFINE less == [f \in DOMAIN r.table \ {fd} |-> r.table[f]]
           hit == r.foreign \/ IF fd \in DOMAIN r.table THEN r.table[fd] \notin Running!Ends ELSE FALSE
<1>1. /\ r.table \in Tables /\ r.pipe \in Pairs /\ r.careless \in BOOLEAN /\ r.foreign \in BOOLEAN
  BY ProcessFields
<1>2. less \in Tables /\ DOMAIN less = DOMAIN r.table \ {fd} /\ \A f \in DOMAIN less : less[f] = r.table[f]
  BY <1>1, Narrowed
<1>3. hit \in BOOLEAN /\ (hit <=> r.foreign \/ (fd \in DOMAIN r.table /\ r.table[fd] \notin Running!Ends))
  BY <1>1
<1>4. Running!Closed(r, fd) = [r EXCEPT !.table = less, !.foreign = hit]
  BY DEF Running!Closed
<1> HIDE DEF less, hit
<1>5. Running!Closed(r, fd) = Changed(r, less, r.pipe, r.careless, hit)
  <2> DEFINE t == [r EXCEPT !.table = less]
  <2>1. Running!Closed(r, fd) = [t EXCEPT !.foreign = hit]
    BY <1>4
  <2>2. /\ t \in Processes /\ t.status = r.status /\ t.buffer = r.buffer /\ t.script = r.script
        /\ t.table = less /\ t.pipe = r.pipe /\ t.careless = r.careless
    <3>1. t = Changed(r, less, r.pipe, r.careless, r.foreign)
      BY ChangedProcess
    <3> HIDE DEF t
    <3> QED
      BY <1>1, <1>2, <3>1, ChangedFields
  <2> HIDE DEF t
  <2>3. [t EXCEPT !.foreign = hit] = Changed(t, t.table, t.pipe, t.careless, hit)
    BY <2>2, ChangedProcess
  <2>4. Changed(t, t.table, t.pipe, t.careless, hit) = Changed(r, less, r.pipe, r.careless, hit)
    BY <2>2 DEF Changed
  <2> QED
    BY <2>1, <2>3, <2>4
<1> QED
  BY SMTT(30), <1>1, <1>2, <1>3, <1>5, ChangedFields

(* An end closed by hand makes the program careless.                       *)
LEMMA EndClosed ==
    ASSUME NEW r, Own(r), NEW fd
    PROVE  Rewired(r, [Running!Closed(r, fd) EXCEPT !.careless = TRUE])
<1> DEFINE q == Running!Closed(r, fd)
<1>1. q \in Processes /\ q.status = r.status /\ q.buffer = r.buffer /\ q.script = r.script
  BY ClosedFields DEF Own
<1> HIDE DEF q
<1>2. q.table \in Tables /\ q.pipe \in Pairs /\ q.foreign \in BOOLEAN
  BY <1>1, ProcessFields
<1>3. [q EXCEPT !.careless = TRUE] = Changed(q, q.table, q.pipe, TRUE, q.foreign)
  BY <1>1, ChangedProcess
<1> QED
  <2> DEFINE end == [q EXCEPT !.careless = TRUE]
  <2>1. /\ end \in Processes /\ end.status = r.status /\ end.buffer = r.buffer /\ end.script = r.script
        /\ end.careless = TRUE
    <3>1. /\ Changed(q, q.table, q.pipe, TRUE, q.foreign) \in Processes
          /\ Changed(q, q.table, q.pipe, TRUE, q.foreign).status = q.status
          /\ Changed(q, q.table, q.pipe, TRUE, q.foreign).buffer = q.buffer
          /\ Changed(q, q.table, q.pipe, TRUE, q.foreign).script = q.script
          /\ Changed(q, q.table, q.pipe, TRUE, q.foreign).careless = TRUE
      BY <1>1, <1>2, ProcessFields DEF Changed, Processes
    <3> QED
      BY <1>1, <1>3, <3>1
  <2> HIDE DEF end
  <2>2. Rewired(r, end)
    BY <2>1 DEF Rewired, Own
  <2> QED
    BY <2>2 DEF end, q

(* The destructor of a careful program closes the ends of the pipe.        *)
LEMMA Destroys ==
    ASSUME NEW r, Own(r), r.status = "running"
    PROVE  Rewired(r, Running!Destroyed(r))
<1> DEFINE q == Running!Closed(r, r.pipe.write_fd)
           s == Running!Closed(q, r.pipe.read_fd)
           end == [s EXCEPT !.pipe = Running!None]
<1>1. /\ q \in Processes /\ q.status = r.status /\ q.buffer = r.buffer /\ q.script = r.script
      /\ q.pipe = r.pipe /\ q.careless = r.careless
      /\ DOMAIN q.table = DOMAIN r.table \ {r.pipe.write_fd} /\ \A f \in DOMAIN q.table : q.table[f] = r.table[f]
      /\ q.foreign <=> r.foreign \/ (r.pipe.write_fd \in DOMAIN r.table /\ r.table[r.pipe.write_fd] \notin Running!Ends)
  BY ClosedFields DEF Own
<1> HIDE DEF q
<1>2. /\ s \in Processes /\ s.status = q.status /\ s.buffer = q.buffer /\ s.script = q.script
      /\ s.careless = q.careless
      /\ DOMAIN s.table = DOMAIN q.table \ {r.pipe.read_fd} /\ \A f \in DOMAIN s.table : s.table[f] = q.table[f]
      /\ s.foreign <=> q.foreign \/ (r.pipe.read_fd \in DOMAIN q.table /\ q.table[r.pipe.read_fd] \notin Running!Ends)
  BY <1>1, ClosedFields
<1> HIDE DEF s
<1>3. s.table \in Tables /\ s.careless \in BOOLEAN /\ s.foreign \in BOOLEAN /\ r.table \in Tables /\ Running!None \in Pairs
  BY <1>2, ProcessFields DEF Own, Running!None, Pairs
<1>4. end = Changed(s, s.table, Running!None, s.careless, s.foreign)
  BY <1>2, ChangedProcess
<1>5. /\ end \in Processes /\ end.status = r.status /\ end.buffer = r.buffer /\ end.script = r.script
      /\ end.pipe = Running!None /\ end.table = s.table /\ end.careless = r.careless /\ end.foreign = s.foreign
  BY <1>1, <1>2, <1>3, <1>4, ChangedFields
<1>6. Running!Destroyed(r) = end
  BY <1>1 DEF Running!Destroyed, Running!close_read, Running!close_write, q, s
<1> HIDE DEF end
<1>7. ASSUME ~ r.careless PROVE ~ s.foreign /\ Careful(end)
  <2>1. Careful(r) /\ ~ r.foreign
    BY <1>7 DEF Own
  <2>2. DOMAIN r.table \subseteq Nat
    BY <1>3, TableType
  <2>3. CASE r.pipe = Running!None
    <3>1. r.pipe.read_fd = -1 /\ r.pipe.write_fd = -1
      BY <2>3 DEF Running!None
    <3> QED
      BY <1>1, <1>2, <1>5, <2>1, <2>2, <3>1 DEF Careful
  <2>4. CASE \A fd \in {r.pipe.read_fd, r.pipe.write_fd} : fd >= 3 /\ fd \in DOMAIN r.table /\ r.table[fd] \in Running!Ends
    <3>1. /\ r.pipe.write_fd \in Nat /\ r.pipe.read_fd \in Nat /\ r.pipe.write_fd >= 3 /\ r.pipe.read_fd >= 3
          /\ r.table[r.pipe.write_fd] \in Running!Ends /\ r.table[r.pipe.read_fd] \in Running!Ends
      BY <2>2, <2>4
    <3>2. ~ q.foreign
      BY <1>1, <2>1, <3>1
    <3>3. ~ s.foreign
      BY <1>1, <1>2, <3>1, <3>2
    <3>4. {0, 1, 2} \subseteq DOMAIN s.table
      BY <1>1, <1>2, <2>1, <3>1 DEF Careful
    <3> QED
      BY <1>5, <3>3, <3>4 DEF Careful
  <2> QED
    BY <2>1, <2>3, <2>4 DEF Careful
<1> QED
  BY <1>5, <1>6, <1>7 DEF Rewired, Own

(* Where a table of descriptors gets an entry, below 3 or a new one.       *)
LEMMA TableGrows ==
    ASSUME NEW r, Own(r), NEW fd \in Nat, fd < 3 \/ fd \notin DOMAIN r.table, NEW x \in Kinds
    PROVE  Rewired(r, [r EXCEPT !.table = Running!With(r.table, fd, x)])
<1> DEFINE wide == Running!With(r.table, fd, x)
           q == [r EXCEPT !.table = wide]
<1>1. r.table \in Tables /\ r.pipe \in Pairs /\ r.careless \in BOOLEAN /\ r.foreign \in BOOLEAN
  BY ProcessFields DEF Own
<1>2. /\ wide \in Tables /\ DOMAIN wide = DOMAIN r.table \cup {fd}
      /\ \A f \in DOMAIN r.table \ {fd} : wide[f] = r.table[f]
  <2> DEFINE table == r.table
  <2>1. table \in Tables
    BY <1>1
  <2> HIDE DEF table
  <2>2. /\ Running!With(table, fd, x) \in Tables
        /\ DOMAIN Running!With(table, fd, x) = DOMAIN table \cup {fd}
        /\ \A f \in DOMAIN table \ {fd} : Running!With(table, fd, x)[f] = table[f]
    BY <2>1, Widened
  <2> QED
    BY <2>2 DEF table
<1> HIDE DEF wide
<1>3. q = Changed(r, wide, r.pipe, r.careless, r.foreign)
  BY ChangedProcess DEF Own
<1> HIDE DEF q
<1>4. /\ q \in Processes /\ q.status = r.status /\ q.buffer = r.buffer /\ q.script = r.script
      /\ q.pipe = r.pipe /\ q.table = wide /\ q.careless = r.careless /\ q.foreign = r.foreign
  BY <1>1, <1>2, <1>3, ChangedFields DEF Own
<1>5. Careful(r) => Careful(q)
  <2> SUFFICES ASSUME Careful(r) PROVE Careful(q)
    OBVIOUS
  <2>1. {0, 1, 2} \subseteq DOMAIN q.table
    BY <1>2, <1>4 DEF Careful
  <2>2. ASSUME r.pipe # Running!None, NEW f \in {r.pipe.read_fd, r.pipe.write_fd}
        PROVE  f >= 3 /\ f \in DOMAIN wide /\ wide[f] \in Running!Ends
    <3>1. f >= 3 /\ f \in DOMAIN r.table /\ r.table[f] \in Running!Ends
      BY <2>2 DEF Careful
    <3>2. f # fd
      BY <3>1
    <3> QED
      BY <1>2, <3>1, <3>2
  <2> QED
    BY <1>4, <2>1, <2>2 DEF Careful
<1> QED
  BY <1>4, <1>5 DEF Rewired, Own, q, wide

LEMMA Duplicates ==
    ASSUME NEW r, Own(r), NEW oldfd, NEW newfd \in 0 .. 2
    PROVE  Rewired(r, [r EXCEPT !.table = Running!dup2(r.table, oldfd, newfd)])
<1>1. r \in Processes /\ r.table \in Tables
  BY ProcessFields DEF Own
<1>2. CASE oldfd \in DOMAIN r.table
  <2>1. r.table[oldfd] \in Kinds
    BY <1>1, <1>2, TableType
  <2> QED
    BY <1>2, <2>1, TableGrows DEF Running!dup2
<1>3. CASE oldfd \notin DOMAIN r.table
  <2>1. [r EXCEPT !.table = r.table] = r
    BY <1>1 DEF Processes
  <2> QED
    BY <1>3, <2>1 DEF Running!dup2, Rewired
<1> QED
  BY <1>2, <1>3

(* Two new descriptors, the ends of a pipe.                                *)
LEMMA PipeOpens ==
    ASSUME NEW r, Own(r), NEW rd \in Nat, rd \notin DOMAIN r.table,
           NEW wr \in Nat, wr \notin DOMAIN Running!With(r.table, rd, "r")
    PROVE  Rewired(r, [r EXCEPT !.table = Running!With(Running!With(r.table, rd, "r"), wr, "w"),
                                !.pipe = [read_fd |-> rd, write_fd |-> wr]])
<1> DEFINE table == r.table
           one == Running!With(table, rd, "r")
           two == Running!With(one, wr, "w")
           pipe == [read_fd |-> rd, write_fd |-> wr]
           t == [r EXCEPT !.table = two]
           q == [t EXCEPT !.pipe = pipe]
<1>1. r \in Processes /\ table \in Tables /\ r.pipe \in Pairs /\ r.careless \in BOOLEAN /\ r.foreign \in BOOLEAN
  BY ProcessFields DEF Own
<1>2. "r" \in Kinds /\ "w" \in Kinds /\ "r" \in Running!Ends /\ "w" \in Running!Ends
  BY DEF Kinds, Running!Ends
<1>3. rd \notin DOMAIN table /\ wr \notin DOMAIN one
  OBVIOUS
<1>4. pipe \in Pairs /\ pipe.read_fd = rd /\ pipe.write_fd = wr
  BY DEF Pairs
<1>5. [r EXCEPT !.table = two, !.pipe = pipe] = q
  BY <1>1 DEF Processes
<1>6. t = Changed(r, two, r.pipe, r.careless, r.foreign)
  BY <1>1, ChangedProcess
<1> HIDE DEF table, t, pipe
<1>7. /\ one \in Tables /\ DOMAIN one = DOMAIN table \cup {rd} /\ one[rd] = "r"
  BY <1>1, <1>2, Widened
<1> HIDE DEF one
<1>8. /\ two \in Tables /\ DOMAIN two = DOMAIN one \cup {wr} /\ two[wr] = "w"
      /\ \A f \in DOMAIN one \ {wr} : two[f] = one[f]
  <2>1. wr \in Nat /\ one \in Tables /\ "w" \in Kinds
    BY <1>2, <1>7
  <2>2. two \in Tables /\ DOMAIN two = DOMAIN one \cup {wr} /\ two[wr] = "w"
    BY ONLY <2>1, Widened
  <2>3. ASSUME NEW f \in DOMAIN one \ {wr} PROVE two[f] = one[f]
    BY DEF Running!With
  <2> QED
    BY <2>2, <2>3
<1> HIDE DEF two
<1>9. /\ t \in Processes /\ t.status = r.status /\ t.buffer = r.buffer /\ t.script = r.script
      /\ t.table = two /\ t.careless = r.careless /\ t.foreign = r.foreign
  BY <1>1, <1>6, <1>8, ChangedFields
<1>10. q = Changed(t, two, pipe, t.careless, t.foreign)
  BY <1>9, ChangedProcess
<1> HIDE DEF q
<1>11. /\ q \in Processes /\ q.status = r.status /\ q.buffer = r.buffer /\ q.script = r.script
       /\ q.table = two /\ q.pipe = pipe /\ q.careless = r.careless /\ q.foreign = r.foreign
  BY SMTT(30), <1>1, <1>4, <1>8, <1>9, <1>10, ChangedFields
<1>12. ASSUME Careful(r) PROVE Careful(q)
  <2>1. {0, 1, 2} \subseteq DOMAIN table
    BY <1>12 DEF Careful, table
  <2>2. rd >= 3 /\ wr >= 3 /\ wr # rd
    BY <1>3, <1>7, <2>1
  <2>3. two[rd] = "r" /\ two[wr] = "w" /\ {0, 1, 2, rd, wr} \subseteq DOMAIN two
    BY <1>7, <1>8, <2>1, <2>2
  <2> QED
    BY <1>2, <1>4, <1>11, <2>2, <2>3 DEF Careful
<1>13. Rewired(r, q)
  BY <1>11, <1>12 DEF Rewired, Own
<1> QED
  BY <1>5, <1>13 DEF q, t, two, one, table, pipe

(* A call of pipe that fails leaves whatever was in fds.                   *)
LEMMA PipeFails ==
    ASSUME NEW r, Own(r), NEW a \in Int, NEW b \in Int
    PROVE  Rewired(r, [r EXCEPT !.pipe = [read_fd |-> a, write_fd |-> b], !.careless = TRUE])
<1> DEFINE pipe == [read_fd |-> a, write_fd |-> b]
           t == [r EXCEPT !.pipe = pipe]
           q == [t EXCEPT !.careless = TRUE]
<1>1. /\ r \in Processes /\ r.table \in Tables /\ r.careless \in BOOLEAN /\ r.foreign \in BOOLEAN
      /\ pipe \in Pairs
  BY ProcessFields DEF Own, Pairs
<1>2. [r EXCEPT !.pipe = pipe, !.careless = TRUE] = q
  BY <1>1 DEF Processes
<1>3. t = Changed(r, r.table, pipe, r.careless, r.foreign)
  BY <1>1, ChangedProcess
<1> HIDE DEF t, pipe
<1>4. /\ t \in Processes /\ t.status = r.status /\ t.buffer = r.buffer /\ t.script = r.script
      /\ t.table = r.table /\ t.pipe = pipe /\ t.foreign = r.foreign
  BY <1>1, <1>3, ChangedFields
<1>5. q = Changed(t, t.table, t.pipe, TRUE, t.foreign)
  BY <1>4, ChangedProcess
<1> HIDE DEF q
<1>6. q \in Processes /\ q.status = r.status /\ q.buffer = r.buffer /\ q.script = r.script /\ q.careless = TRUE
  BY <1>1, <1>4, <1>5, ProcessFields DEF Changed, Processes
<1>7. Rewired(r, q)
  BY <1>6 DEF Rewired, Own
<1> QED
  BY <1>2, <1>7 DEF q, t, pipe

-----------------------------------------------------------------------------
(* What a call does to the texts: nothing, or it prints one, writes or     *)
(* loses those of the buffer, reads some from the pipe, or doubles them.   *)

Alone(p) == \A o \in {1, 2} \ {p} : proc'[o] = proc[o]
Quiet(p) == Alone(p) /\ proc'[p].buffer = proc[p].buffer /\ UNCHANGED <<device, received, said, lost, twins>>
Prints(p) ==
    /\ Alone(p) /\ proc[p].script # <<>> /\ Head(proc[p].script) = "print"
    /\ said' = said + 1 /\ proc'[p].buffer = Append(proc[p].buffer, said + 1)
    /\ UNCHANGED <<device, received, lost, twins>>
Writes(p) ==
    /\ Alone(p) /\ proc'[p].buffer = <<>>
    /\ \E d \in {"tty", "file", "pipe"} : device' = [device EXCEPT ![d] = @ \o proc[p].buffer]
    /\ UNCHANGED <<received, said, lost, twins>>
Loses(p) ==
    /\ Alone(p) /\ proc'[p].buffer = <<>> /\ lost' = lost \cup Running!ToSet(proc[p].buffer)
    /\ UNCHANGED <<device, received, said, twins>>
Fetches(p) ==
    /\ UNCHANGED <<proc, said, lost, twins>>
    /\ \E n \in 1 .. Len(device["pipe"]) :
        /\ received' = received \o SubSeq(device["pipe"], 1, n)
        /\ device' = [device EXCEPT !["pipe"] = SubSeq(@, n + 1, Len(@))]
Doubles(p) ==
    /\ p = 1 /\ proc[2].status = "none" /\ proc'[2].status = "running"
    /\ proc'[1].buffer = proc[1].buffer /\ proc'[2].buffer = proc[1].buffer
    /\ twins' = twins \cup Running!ToSet(proc[1].buffer)
    /\ UNCHANGED <<device, received, said, lost>>

Processed == proc \in [{1, 2} -> Processes] /\ \A p \in {1, 2} : Own(proc[p])
Effect(p) ==
    /\ proc[p].status = "running" /\ proc'[p].status # "none"
    /\ proc'[p].status = "running" \/ proc'[p].buffer = <<>>
    /\ Processed'
    /\ \A o \in {1, 2} : \/ proc'[o].script = proc[o].script
                         \/ proc[o].script # <<>> /\ proc'[o].script = Tail(proc[o].script)
    /\ Quiet(p) \/ Prints(p) \/ Writes(p) \/ Loses(p) \/ Fetches(p) \/ Doubles(p)

LEMMA ScriptGoesOn ==
    ASSUME NEW r, Own(r), r.script # <<>>
    PROVE  /\ Own([r EXCEPT !.script = Tail(@)])
           /\ [r EXCEPT !.script = Tail(@)].status = r.status
           /\ [r EXCEPT !.script = Tail(@)].buffer = r.buffer
           /\ [r EXCEPT !.script = Tail(@)].script = Tail(r.script)
<1> DEFINE q == [r EXCEPT !.script = Tail(@)]
<1>1. r \in Processes /\ Tail(r.script) \in Seq(Running!Calls)
  BY ProcessFields DEF Own
<1>2. q \in Processes
  BY <1>1 DEF Processes
<1>3. /\ q.status = r.status /\ q.buffer = r.buffer /\ q.script = Tail(r.script) /\ q.table = r.table
      /\ q.pipe = r.pipe /\ q.careless = r.careless /\ q.foreign = r.foreign
  BY <1>1 DEF Processes
<1> HIDE DEF q
<1>4. Own(q)
  BY <1>2, <1>3 DEF Own, Careful
<1> QED
  BY <1>3, <1>4 DEF q

(* A call leaves its process as r, with the rest of the script.            *)
LEMMA Becoming ==
    ASSUME Processed, NEW p \in {1, 2}, NEW r, Own(r), r.script = proc[p].script, r.script # <<>>, Running!Becomes(p, r)
    PROVE  /\ Processed' /\ Alone(p)
           /\ proc'[p].status = r.status /\ proc'[p].buffer = r.buffer
           /\ \A o \in {1, 2} : \/ proc'[o].script = proc[o].script
                                \/ proc[o].script # <<>> /\ proc'[o].script = Tail(proc[o].script)
<1> DEFINE q == [r EXCEPT !.script = Tail(@)]
<1>1. Own(q) /\ q.status = r.status /\ q.buffer = r.buffer /\ q.script = Tail(r.script)
  BY ScriptGoesOn
<1>2. proc' = [proc EXCEPT ![p] = q]
  BY DEF Running!Becomes
<1> HIDE DEF q
<1>3. proc'[p] = q /\ Alone(p) /\ proc' \in [{1, 2} -> Processes]
  BY <1>1, <1>2 DEF Alone, Processed, Own
<1>4. Processed'
  BY <1>1, <1>3 DEF Processed, Alone
<1> QED
  BY <1>1, <1>3, <1>4 DEF Alone

(* A call that only changes descriptors.                                   *)
LEMMA QuietCall ==
    ASSUME Processed, NEW p \in {1, 2}, NEW r, Rewired(proc[p], r), proc[p].status = "running", proc[p].script # <<>>,
           Running!Becomes(p, r), Running!NoText
    PROVE  Effect(p)
<1>1. Own(r) /\ r.script = proc[p].script /\ r.script # <<>> /\ r.status = "running" /\ r.buffer = proc[p].buffer
  BY DEF Rewired
<1>2. /\ Processed' /\ Alone(p) /\ proc'[p].status = r.status /\ proc'[p].buffer = r.buffer
      /\ \A o \in {1, 2} : \/ proc'[o].script = proc[o].script
                           \/ proc[o].script # <<>> /\ proc'[o].script = Tail(proc[o].script)
  BY <1>1, Becoming
<1>3. Quiet(p)
  BY <1>1, <1>2 DEF Quiet, Running!NoText
<1> QED
  BY <1>1, <1>2, <1>3 DEF Effect

LEMMA Unwired ==
    ASSUME Processed, NEW p \in {1, 2}
    PROVE  Rewired(proc[p], proc[p]) /\ proc[p] \in Processes /\ Own(proc[p])
  BY DEF Processed, Rewired, Own

LEMMA CloseEndStep ==
    ASSUME Processed, NEW p \in {1, 2}, Running!CloseEnd(p)
    PROVE  Effect(p)
<1>1. /\ proc[p].status = "running" /\ proc[p].script # <<>> /\ Running!NoText
      /\ \E fd : Running!Becomes(p, [Running!Closed(proc[p], fd) EXCEPT !.careless = TRUE])
  BY DEF Running!CloseEnd, Running!At, Running!close_read, Running!close_write
<1>2. PICK fd : Running!Becomes(p, [Running!Closed(proc[p], fd) EXCEPT !.careless = TRUE])
  BY <1>1
<1>3. Rewired(proc[p], [Running!Closed(proc[p], fd) EXCEPT !.careless = TRUE])
  BY EndClosed DEF Processed
<1> QED
  BY <1>1, <1>2, <1>3, QuietCall

LEMMA DestructorStep ==
    ASSUME Processed, NEW p \in {1, 2}, Running!Destructor(p)
    PROVE  Effect(p)
<1>1. /\ proc[p].status = "running" /\ proc[p].script # <<>> /\ Running!NoText
      /\ Running!Becomes(p, Running!Destroyed(proc[p]))
  BY DEF Running!Destructor, Running!At
<1>2. Rewired(proc[p], Running!Destroyed(proc[p]))
  BY <1>1, Destroys DEF Processed
<1> QED
  BY <1>1, <1>2, QuietCall

LEMMA RedirectStep ==
    ASSUME Processed, NEW p \in {1, 2}, Running!Redirect(p)
    PROVE  Effect(p)
<1>1. proc[p].status = "running" /\ proc[p].script # <<>> /\ Running!NoText
  BY DEF Running!Redirect, Running!At
<1>2. \A oldfd, newfd : newfd \in 0 .. 2 => Rewired(proc[p], [proc[p] EXCEPT !.table = Running!dup2(proc[p].table, oldfd, newfd)])
  BY Unwired, Duplicates
<1>3. CASE Running!Becomes(p, [proc[p] EXCEPT !.table = Running!dup2(@, proc[p].pipe.read_fd, 0)])
  <2>1. Rewired(proc[p], [proc[p] EXCEPT !.table = Running!dup2(proc[p].table, proc[p].pipe.read_fd, 0)])
    BY <1>2
  <2> QED
    BY <1>1, <1>3, <2>1, QuietCall
<1>4. CASE Running!Becomes(p, [proc[p] EXCEPT !.table = Running!dup2(@, proc[p].pipe.write_fd, 1)])
  <2>1. Rewired(proc[p], [proc[p] EXCEPT !.table = Running!dup2(proc[p].table, proc[p].pipe.write_fd, 1)])
    BY <1>2
  <2> QED
    BY <1>1, <1>4, <2>1, QuietCall
<1> QED
  BY <1>3, <1>4 DEF Running!Redirect

LEMMA IdleStep ==
    ASSUME Processed, NEW p \in {1, 2}, Running!wait(p) \/ Running!sched_yield(p)
    PROVE  Effect(p)
<1>1. proc[p].status = "running" /\ proc[p].script # <<>> /\ Running!NoText /\ Running!Becomes(p, proc[p])
  BY DEF Running!wait, Running!sched_yield, Running!At
<1> QED
  BY <1>1, Unwired, QuietCall

LEMMA DupStep ==
    ASSUME Processed, NEW p \in {1, 2}, proc[p].status = "running", proc[p].script # <<>>, Running!NoText,
           Running!Becomes(p, [proc[p] EXCEPT !.table = Running!dup2(@, 1, 2)])
    PROVE  Effect(p)
<1>1. \A oldfd, newfd : newfd \in 0 .. 2 => Rewired(proc[p], [proc[p] EXCEPT !.table = Running!dup2(proc[p].table, oldfd, newfd)])
  BY Unwired, Duplicates
<1>2. Rewired(proc[p], [proc[p] EXCEPT !.table = Running!dup2(proc[p].table, 1, 2)])
  BY <1>1
<1> QED
  BY <1>2, QuietCall

(* open finds a descriptor that is not in use.                             *)
LEMMA OpensFile ==
    ASSUME Processed, NEW p \in {1, 2}, proc[p].status = "running", proc[p].script # <<>>, Running!NoText,
           NEW fd \in Nat, fd \notin DOMAIN proc[p].table,
           Running!Becomes(p, [proc[p] EXCEPT !.table = Running!With(@, fd, "file")])
    PROVE  Effect(p)
<1>1. "file" \in Kinds
  BY DEF Kinds
<1>2. Rewired(proc[p], [proc[p] EXCEPT !.table = Running!With(proc[p].table, fd, "file")])
  BY <1>1, Unwired, TableGrows
<1> QED
  BY <1>2, QuietCall

LEMMA OpensPipe ==
    ASSUME Processed, NEW p \in {1, 2}, proc[p].status = "running", proc[p].script # <<>>, Running!NoText,
           NEW rd \in Nat, rd \notin DOMAIN proc[p].table,
           NEW wr \in Nat, wr \notin DOMAIN Running!With(proc[p].table, rd, "r"),
           Running!Becomes(p, [proc[p] EXCEPT !.table = Running!With(Running!With(proc[p].table, rd, "r"), wr, "w"),
                                              !.pipe = [read_fd |-> rd, write_fd |-> wr]])
    PROVE  Effect(p)
<1>1. Rewired(proc[p], [proc[p] EXCEPT !.table = Running!With(Running!With(proc[p].table, rd, "r"), wr, "w"),
                                       !.pipe = [read_fd |-> rd, write_fd |-> wr]])
  BY Unwired, PipeOpens
<1> QED
  BY <1>1, QuietCall

LEMMA OpensNoPipe ==
    ASSUME Processed, NEW p \in {1, 2}, proc[p].status = "running", proc[p].script # <<>>, Running!NoText,
           NEW a \in Int, NEW b \in Int,
           Running!Becomes(p, [proc[p] EXCEPT !.pipe = [read_fd |-> a, write_fd |-> b], !.careless = TRUE])
    PROVE  Effect(p)
<1>1. Rewired(proc[p], [proc[p] EXCEPT !.pipe = [read_fd |-> a, write_fd |-> b], !.careless = TRUE])
  BY Unwired, PipeFails
<1> QED
  BY <1>1, QuietCall

Stored ==
    /\ device \in [{"tty", "file", "pipe"} -> Seq(Nat)] /\ received \in Seq(Nat) /\ said \in Nat

(* Text goes to one place, or to none.                                     *)
LEMMA OnePlace ==
    ASSUME Stored, NEW r, Running!Written(r)
    PROVE  /\ UNCHANGED <<received, said, twins>>
           /\ Running!Where(r) = {} => UNCHANGED device
           /\ Running!Where(r) # {} => \E d \in {"tty", "file", "pipe"} : device' = [device EXCEPT ![d] = @ \o r.buffer]
<1>1. /\ device' = [d \in DOMAIN device |-> IF d \in Running!Where(r) THEN device[d] \o r.buffer ELSE device[d]]
      /\ UNCHANGED <<received, said, twins>> /\ device \in [{"tty", "file", "pipe"} -> Seq(Nat)]
  BY DEF Running!Written, Stored
<1>2. Running!Where(r) = {} \/ \E d \in {"tty", "file", "pipe"} : Running!Where(r) = {d}
  <2> DEFINE to == IF 1 \in DOMAIN r.table THEN r.table[1] ELSE "closed"
  <2>1. Running!Where(r) = CASE to = "w" /\ Running!Held("r") -> {"pipe"} [] to \in {"tty", "file"} -> {to} [] OTHER -> {}
    BY DEF Running!Where
  <2> HIDE DEF to
  <2>2. CASE to = "w" /\ Running!Held("r")
    <3>1. Running!Where(r) = {"pipe"}
      BY <2>1, <2>2
    <3> QED
      BY <3>1
  <2>3. CASE to \in {"tty", "file"}
    <3>1. Running!Where(r) = {to}
      BY <2>1, <2>3
    <3> QED
      BY <2>3, <3>1
  <2>4. CASE ~ (to = "w" /\ Running!Held("r")) /\ to \notin {"tty", "file"}
    BY <2>1, <2>4
  <2> QED
    BY <2>2, <2>3, <2>4
<1>3. ASSUME Running!Where(r) = {} PROVE device' = device
  BY <1>1, <1>3
<1>4. ASSUME NEW d \in {"tty", "file", "pipe"}, Running!Where(r) = {d} PROVE device' = [device EXCEPT ![d] = @ \o r.buffer]
  BY <1>1, <1>4
<1> QED
  BY <1>1, <1>2, <1>3, <1>4

LEMMA NewBuffer ==
    ASSUME NEW r, Own(r), NEW buffer \in Seq(Nat)
    PROVE  LET q == [r EXCEPT !.buffer = buffer] IN
           Own(q) /\ q.status = r.status /\ q.script = r.script /\ q.buffer = buffer
<1> DEFINE q == [r EXCEPT !.buffer = buffer]
<1>1. q \in Processes
  BY DEF Own, Processes
<1>2. /\ q.status = r.status /\ q.buffer = buffer /\ q.script = r.script /\ q.table = r.table
      /\ q.pipe = r.pipe /\ q.careless = r.careless /\ q.foreign = r.foreign
  BY DEF Own, Processes
<1> HIDE DEF q
<1>3. Own(q)
  BY <1>1, <1>2 DEF Own, Careful
<1> QED
  BY <1>2, <1>3 DEF q

LEMMA RenewedMemory ==
    ASSUME NEW r \in Processes, NEW buffer \in Seq(Nat), NEW pipe \in Pairs
    PROVE  [r EXCEPT !.buffer = buffer, !.pipe = pipe] \in Processes
  BY DEF Processes

LEMMA RenewedProcess ==
    ASSUME NEW r \in Processes, NEW status \in {"none", "running", "ended"}, NEW table \in Tables,
           NEW buffer \in Seq(Nat), NEW pipe \in Pairs
    PROVE  [r EXCEPT !.status = status, !.table = table, !.buffer = buffer, !.pipe = pipe] \in Processes
  BY DEF Processes

(* A process that is replaced, and one that is gone.                       *)
LEMMA NewProgram ==
    ASSUME NEW r, Own(r)
    PROVE  LET q == [r EXCEPT !.buffer = <<>>, !.pipe = Running!None] IN
           Own(q) /\ q.status = r.status /\ q.script = r.script /\ q.buffer = <<>>
<1> DEFINE q == [r EXCEPT !.buffer = <<>>, !.pipe = Running!None]
<1>1. q \in Processes
  <2>1. Running!None \in Pairs
    BY DEF Running!None, Pairs
  <2>2. r \in Processes /\ <<>> \in Seq(Nat)
    BY DEF Own
  <2> QED
    BY <2>1, <2>2, RenewedMemory
<1>2. /\ q.status = r.status /\ q.buffer = <<>> /\ q.script = r.script /\ q.table = r.table
      /\ q.pipe = Running!None /\ q.careless = r.careless /\ q.foreign = r.foreign
  BY DEF Own, Processes
<1> HIDE DEF q
<1>3. Own(q)
  BY <1>1, <1>2 DEF Own, Careful
<1> QED
  BY <1>2, <1>3 DEF q

LEMMA NoDescriptors == <<>> \in Tables
<1>1. DOMAIN <<>> = {} /\ <<>> = [k \in {} |-> 0]
  OBVIOUS
<1>2. <<>> \in [{} -> Kinds]
  BY <1>1
<1> QED
  BY <1>1, <1>2 DEF Tables

LEMMA GoneProcess ==
    ASSUME NEW r, Own(r)
    PROVE  LET q == Running!Gone(r) IN
           Own(q) /\ q.status = "ended" /\ q.script = r.script /\ q.buffer = <<>>
<1> DEFINE q == Running!Gone(r)
<1>1. <<>> \in Tables /\ Running!None \in Pairs
  <2>1. <<>> \in Tables
    BY NoDescriptors
  <2> QED
    BY <2>1 DEF Running!None, Pairs
<1>2. q \in Processes
  <2>1. r \in Processes /\ <<>> \in Seq(Nat) /\ "ended" \in {"none", "running", "ended"}
    BY DEF Own
  <2> QED
    BY <1>1, <2>1, RenewedProcess DEF Running!Gone
<1>3. /\ q.status = "ended" /\ q.buffer = <<>> /\ q.script = r.script
      /\ q.careless = r.careless /\ q.foreign = r.foreign
  BY DEF Own, Processes, Running!Gone
<1> HIDE DEF q
<1>4. Own(q)
  BY <1>2, <1>3 DEF Own
<1> QED
  BY <1>3, <1>4 DEF q

LEMMA PrintStep ==
    ASSUME Processed, Stored, NEW p \in {1, 2}, Running!Printf(p)
    PROVE  Effect(p)
<1> DEFINE more == Append(proc[p].buffer, said + 1)
           r == [proc[p] EXCEPT !.buffer = more]
<1>1. /\ proc[p].status = "running" /\ proc[p].script # <<>> /\ Head(proc[p].script) = "print" /\ said' = said + 1
      /\ Running!Becomes(p, r) /\ UNCHANGED <<device, received, lost, twins>>
  BY DEF Running!Printf, Running!At
<1>2. Own(proc[p]) /\ proc[p].buffer \in Seq(Nat) /\ more \in Seq(Nat)
  BY Unwired, ProcessFields DEF Stored
<1> HIDE DEF more
<1>3. Own(r) /\ r.status = proc[p].status /\ r.script = proc[p].script /\ r.buffer = more
  BY <1>2, NewBuffer
<1> HIDE DEF r
<1>4. /\ Processed' /\ Alone(p) /\ proc'[p].status = r.status /\ proc'[p].buffer = r.buffer
      /\ \A o \in {1, 2} : \/ proc'[o].script = proc[o].script
                           \/ proc[o].script # <<>> /\ proc'[o].script = Tail(proc[o].script)
  BY <1>1, <1>3, Becoming
<1>5. Prints(p)
  BY <1>1, <1>3, <1>4 DEF Prints, more
<1> QED
  BY <1>1, <1>3, <1>4, <1>5 DEF Effect

LEMMA FlushStep ==
    ASSUME Processed, Stored, NEW p \in {1, 2}, Running!Fflush(p)
    PROVE  Effect(p)
<1> DEFINE rest == IF Running!Where(proc[p]) = {} THEN proc[p].buffer ELSE <<>>
           r == [proc[p] EXCEPT !.buffer = rest]
<1>1. /\ proc[p].status = "running" /\ proc[p].script # <<>> /\ Running!Written(proc[p]) /\ UNCHANGED lost
      /\ Running!Becomes(p, r)
  BY DEF Running!Fflush, Running!At
<1>2. Own(proc[p]) /\ proc[p].buffer \in Seq(Nat) /\ rest \in Seq(Nat)
  BY Unwired, ProcessFields
<1>3. /\ Running!Where(proc[p]) = {} => rest = proc[p].buffer
      /\ Running!Where(proc[p]) # {} => rest = <<>>
  OBVIOUS
<1> HIDE DEF rest
<1>4. Own(r) /\ r.status = proc[p].status /\ r.script = proc[p].script /\ r.buffer = rest
  BY <1>2, NewBuffer
<1> HIDE DEF r
<1>5. /\ Processed' /\ Alone(p) /\ proc'[p].status = r.status /\ proc'[p].buffer = r.buffer
      /\ \A o \in {1, 2} : \/ proc'[o].script = proc[o].script
                           \/ proc[o].script # <<>> /\ proc'[o].script = Tail(proc[o].script)
  BY <1>1, <1>4, Becoming
<1>6. Quiet(p) \/ Writes(p)
  BY <1>1, <1>3, <1>4, <1>5, OnePlace DEF Quiet, Writes
<1> QED
  BY <1>1, <1>4, <1>5, <1>6 DEF Effect

LEMMA ReturnStep ==
    ASSUME Processed, Stored, NEW p \in {1, 2}, Running!Exit(p)
    PROVE  Effect(p)
<1> DEFINE r == Running!Gone(proc[p])
<1>1. /\ proc[p].status = "running" /\ Running!Written(proc[p]) /\ proc' = [proc EXCEPT ![p] = r]
      /\ lost' = IF Running!Where(proc[p]) = {} THEN lost \cup Running!ToSet(proc[p].buffer) ELSE lost
  BY DEF Running!Exit
<1>2. Own(r) /\ r.status = "ended" /\ r.script = proc[p].script /\ r.buffer = <<>>
  BY Unwired, GoneProcess
<1> HIDE DEF r
<1>3. proc'[p] = r /\ Alone(p) /\ proc' \in [{1, 2} -> Processes]
  BY <1>1, <1>2 DEF Alone, Processed, Own
<1>4. Processed' /\ \A o \in {1, 2} : proc'[o].script = proc[o].script
  BY <1>2, <1>3 DEF Processed, Alone
<1>5. Loses(p) \/ Writes(p)
  BY <1>1, <1>2, <1>3, OnePlace DEF Loses, Writes
<1> QED
  BY <1>1, <1>2, <1>3, <1>4, <1>5 DEF Effect

LEMMA EndStep ==
    ASSUME Processed, Stored, NEW p \in {1, 2}, Running!_exit(p)
    PROVE  Effect(p)
<1> DEFINE r == Running!Gone(proc[p])
<1>1. /\ proc[p].status = "running" /\ proc[p].script # <<>> /\ Running!Becomes(p, r)
      /\ lost' = lost \cup Running!ToSet(proc[p].buffer) /\ UNCHANGED <<device, received, said, twins>>
  BY DEF Running!_exit, Running!At
<1>2. Own(r) /\ r.status = "ended" /\ r.script = proc[p].script /\ r.buffer = <<>>
  BY Unwired, GoneProcess
<1> HIDE DEF r
<1>3. /\ Processed' /\ Alone(p) /\ proc'[p].status = r.status /\ proc'[p].buffer = r.buffer
      /\ \A o \in {1, 2} : \/ proc'[o].script = proc[o].script
                           \/ proc[o].script # <<>> /\ proc'[o].script = Tail(proc[o].script)
  BY <1>1, <1>2, Becoming
<1>4. Loses(p)
  BY <1>1, <1>2, <1>3 DEF Loses
<1> QED
  BY <1>1, <1>2, <1>3, <1>4 DEF Effect

LEMMA ExecStep ==
    ASSUME Processed, Stored, NEW p \in {1, 2}, Running!execv(p)
    PROVE  Effect(p)
<1> DEFINE r == [proc[p] EXCEPT !.buffer = <<>>, !.pipe = Running!None]
<1>1. /\ proc[p].status = "running" /\ proc[p].script # <<>> /\ UNCHANGED <<device, received, said, twins>>
      /\ \/ Running!Becomes(p, r) /\ lost' = lost \cup Running!ToSet(proc[p].buffer)
         \/ Running!Becomes(p, proc[p]) /\ UNCHANGED lost
  BY DEF Running!execv, Running!At
<1>2. CASE Running!Becomes(p, r) /\ lost' = lost \cup Running!ToSet(proc[p].buffer)
  <2>1. Own(r) /\ r.status = proc[p].status /\ r.script = proc[p].script /\ r.buffer = <<>>
    BY Unwired, NewProgram
  <2> HIDE DEF r
  <2>2. /\ Processed' /\ Alone(p) /\ proc'[p].status = r.status /\ proc'[p].buffer = r.buffer
        /\ \A o \in {1, 2} : \/ proc'[o].script = proc[o].script
                             \/ proc[o].script # <<>> /\ proc'[o].script = Tail(proc[o].script)
    BY <1>1, <1>2, <2>1, Becoming
  <2>3. Loses(p)
    BY <1>1, <1>2, <2>1, <2>2 DEF Loses
  <2> QED
    BY <1>1, <2>1, <2>2, <2>3 DEF Effect
<1>3. CASE Running!Becomes(p, proc[p]) /\ UNCHANGED lost
  BY <1>1, <1>3, Unwired, QuietCall DEF Running!NoText
<1> QED
  BY <1>1, <1>2, <1>3

LEMMA ForkStep ==
    ASSUME Processed, Stored, NEW p \in {1, 2}, Running!fork(p)
    PROVE  Effect(p)
<1>1. proc[p].status = "running" /\ proc[p].script # <<>>
  BY DEF Running!fork, Running!At
<1>2. CASE Running!Becomes(p, proc[p]) /\ Running!NoText
  BY <1>1, <1>2, Unwired, QuietCall
<1>3. CASE /\ proc[2].status = "none"
           /\ proc' = [proc EXCEPT ![p].script = Tail(@), ![2] = [proc[p] EXCEPT !.script = proc[2].script]]
           /\ twins' = twins \cup Running!ToSet(proc[p].buffer)
           /\ UNCHANGED <<device, received, said, lost>>
  <2>1. p = 1
    BY <1>1, <1>3
  <2> DEFINE r == [proc[1] EXCEPT !.script = Tail(@)]
             child == [proc[1] EXCEPT !.script = proc[2].script]
  <2>2. Own(r) /\ r.status = proc[1].status /\ r.buffer = proc[1].buffer /\ r.script = Tail(proc[1].script)
    BY <1>1, <2>1, ScriptGoesOn, Unwired
  <2>3. Own(child) /\ child.status = proc[1].status /\ child.buffer = proc[1].buffer /\ child.script = proc[2].script
    <3>1. /\ proc[1] \in Processes /\ proc[2].script \in Seq(Running!Calls) /\ Own(proc[1])
      BY Unwired, ProcessFields
    <3>2. child \in Processes
      BY <3>1 DEF Processes
    <3>3. /\ child.status = proc[1].status /\ child.buffer = proc[1].buffer /\ child.script = proc[2].script
          /\ child.table = proc[1].table /\ child.pipe = proc[1].pipe
          /\ child.careless = proc[1].careless /\ child.foreign = proc[1].foreign
      BY <3>1 DEF Processes
    <3> HIDE DEF child
    <3>4. Own(child)
      BY <3>1, <3>2, <3>3 DEF Own, Careful
    <3> QED
      BY <3>3, <3>4
  <2>4. proc' = [proc EXCEPT ![1] = r, ![2] = child]
    BY <1>3, <2>1 DEF Processed
  <2> HIDE DEF r, child
  <2>5. proc'[1] = r /\ proc'[2] = child /\ proc' \in [{1, 2} -> Processes]
    BY <2>2, <2>3, <2>4 DEF Processed, Own
  <2>6. Processed'
    BY <2>2, <2>3, <2>5 DEF Processed
  <2>7. Doubles(p)
    BY <1>1, <1>3, <2>1, <2>2, <2>3, <2>5 DEF Doubles
  <2> QED
    BY <1>1, <2>1, <2>2, <2>3, <2>5, <2>6, <2>7 DEF Effect
<1> QED
  BY <1>2, <1>3 DEF Running!fork, Running!Child

LEMMA ReadStep ==
    ASSUME Processed, Stored, NEW p \in {1, 2}, Running!Read(p)
    PROVE  Effect(p)
<1>1. proc[p].status = "running" /\ proc[p].script # <<>>
  BY DEF Running!Read, Running!At
<1>2. \/ /\ UNCHANGED <<proc, said, lost, twins>>
         /\ \E n \in 1 .. Len(device["pipe"]) :
             /\ received' = received \o SubSeq(device["pipe"], 1, n)
             /\ device' = [device EXCEPT !["pipe"] = SubSeq(@, n + 1, Len(@))]
      \/ Running!Becomes(p, proc[p]) /\ Running!NoText
  BY DEF Running!Read
<1>3. CASE Running!Becomes(p, proc[p]) /\ Running!NoText
  BY <1>1, <1>3, Unwired, QuietCall
<1>4. CASE /\ UNCHANGED <<proc, said, lost, twins>>
           /\ \E n \in 1 .. Len(device["pipe"]) :
               /\ received' = received \o SubSeq(device["pipe"], 1, n)
               /\ device' = [device EXCEPT !["pipe"] = SubSeq(@, n + 1, Len(@))]
  <2>1. Fetches(p)
    BY <1>4 DEF Fetches
  <2>2. Processed' /\ proc' = proc
    BY <1>4 DEF Processed
  <2> QED
    BY <1>1, <2>1, <2>2 DEF Effect
<1> QED
  BY <1>2, <1>3, <1>4

(* The lowest free descriptor is a new one.                                *)
LEMMA LowestFree ==
    ASSUME NEW table, NEW high \in Nat, (0 .. high) \ DOMAIN table # {}
    PROVE  Listing!Min((0 .. high) \ DOMAIN table) \in Nat \ DOMAIN table
<1>1. (0 .. high) \ DOMAIN table \subseteq Nat
  OBVIOUS
<1>2. Listing!Min((0 .. high) \ DOMAIN table) \in (0 .. high) \ DOMAIN table
  BY <1>1, Least
<1> QED
  BY <1>1, <1>2

LEMMA RunningDescriptors ==
    ASSUME NEW table, Running!Fds \ DOMAIN table # {}
    PROVE  Running!Lowest(table) \in Nat \ DOMAIN table
<1>1. MaxFd \in Nat
  BY SystemAssumption DEF Running!ProcessAssumption
<1> QED
  BY <1>1, LowestFree DEF Running!Lowest, Running!Min, Listing!Min, Running!Fds

LEMMA PipingDescriptors ==
    ASSUME NEW table, Piping!Fds \ DOMAIN table # {}
    PROVE  Piping!Lowest(table) \in Nat \ DOMAIN table
<1>1. MaxPipeFd \in Nat
  BY SystemAssumption DEF Piping!ProcessAssumption
<1> QED
  BY <1>1, LowestFree DEF Piping!Lowest, Piping!Min, Listing!Min, Piping!Fds

(* What is done with a descriptor whose number somebody found.             *)
LEMMA PipeStep ==
    ASSUME Processed, NEW p \in {1, 2}, proc[p].status = "running", proc[p].script # <<>>, Running!NoText,
           NEW rd, NEW wr, NEW high \in Nat,
           \/ /\ rd \in Nat \ DOMAIN proc[p].table /\ wr \in Nat \ DOMAIN Running!With(proc[p].table, rd, "r")
              /\ Running!Becomes(p, [proc[p] EXCEPT !.table = Running!With(Running!With(proc[p].table, rd, "r"), wr, "w"),
                                                    !.pipe = [read_fd |-> rd, write_fd |-> wr]])
           \/ \E a, b \in {0, 1, high} :
                Running!Becomes(p, [proc[p] EXCEPT !.pipe = [read_fd |-> a, write_fd |-> b], !.careless = TRUE])
    PROVE  Effect(p)
<1>1. CASE /\ rd \in Nat \ DOMAIN proc[p].table /\ wr \in Nat \ DOMAIN Running!With(proc[p].table, rd, "r")
           /\ Running!Becomes(p, [proc[p] EXCEPT !.table = Running!With(Running!With(proc[p].table, rd, "r"), wr, "w"),
                                                 !.pipe = [read_fd |-> rd, write_fd |-> wr]])
  BY <1>1, OpensPipe
<1>2. CASE \E a, b \in {0, 1, high} :
             Running!Becomes(p, [proc[p] EXCEPT !.pipe = [read_fd |-> a, write_fd |-> b], !.careless = TRUE])
  <2>1. PICK a, b \in {0, 1, high} :
             Running!Becomes(p, [proc[p] EXCEPT !.pipe = [read_fd |-> a, write_fd |-> b], !.careless = TRUE])
    BY <1>2
  <2> QED
    <3>1. a \in Int /\ b \in Int
      OBVIOUS
    <3> QED
      BY <2>1, <3>1, OpensNoPipe
<1> QED
  BY <1>1, <1>2

LEMMA RunningPipe ==
    ASSUME Processed, NEW p \in {1, 2}, Running!Pipe(p)
    PROVE  Effect(p)
<1> DEFINE table == proc[p].table
           rd == Running!Lowest(table)
           readable == Running!With(table, rd, "r")
           wr == Running!Lowest(readable)
<1>1. /\ proc[p].status = "running" /\ proc[p].script # <<>> /\ Running!NoText
      /\ \/ /\ Running!Fds \ DOMAIN readable # {}
            /\ Running!Becomes(p, [proc[p] EXCEPT !.table = Running!With(readable, wr, "w"),
                                                  !.pipe = [read_fd |-> rd, write_fd |-> wr]])
         \/ \E a, b \in {0, 1, MaxFd} :
              Running!Becomes(p, [proc[p] EXCEPT !.pipe = [read_fd |-> a, write_fd |-> b], !.careless = TRUE])
  BY DEF Running!Pipe, Running!At
<1>2. Running!Fds \ DOMAIN readable # {} => wr \in Nat \ DOMAIN readable /\ rd \in Nat \ DOMAIN table
  <2>1. DOMAIN table \subseteq DOMAIN readable
    BY DEF Running!With
  <2> HIDE DEF table, readable
  <2> QED
    BY <2>1, RunningDescriptors
<1>3. MaxFd \in Nat
  BY SystemAssumption DEF Running!ProcessAssumption
<1> HIDE DEF rd, wr
<1> QED
  BY <1>1, <1>2, <1>3, PipeStep

LEMMA RunningOpen ==
    ASSUME Processed, NEW p \in {1, 2}, Running!OpenOrDup(p)
    PROVE  Effect(p)
<1> DEFINE table == proc[p].table
           fd == Running!Lowest(table)
<1>1. /\ proc[p].status = "running" /\ proc[p].script # <<>> /\ Running!NoText
      /\ \/ Running!Fds \ DOMAIN table # {} /\ Running!Becomes(p, [proc[p] EXCEPT !.table = Running!With(@, fd, "file")])
         \/ Running!Becomes(p, [proc[p] EXCEPT !.table = Running!dup2(@, 1, 2)])
  BY DEF Running!OpenOrDup, Running!At
<1>2. Running!Fds \ DOMAIN table # {} => fd \in Nat \ DOMAIN table
  BY RunningDescriptors
<1> HIDE DEF fd
<1> QED
  BY <1>1, <1>2, OpensFile, DupStep

LEMMA RunningEffect ==
    ASSUME Processed, Stored, NEW p \in {1, 2}, Running!Run(p)
    PROVE  Effect(p)
  BY RunningPipe, RunningOpen, CloseEndStep, DestructorStep, RedirectStep, ReadStep, PrintStep, FlushStep, ReturnStep,
     EndStep, ExecStep, ForkStep, IdleStep DEF Running!Run

(* The pipeline is the same program with other scripts, and another limit  *)
(* of descriptors, which only two calls see.                               *)
LEMMA SameCalls ==
    ASSUME NEW p
    PROVE  /\ Piping!CloseEnd(p) => Running!CloseEnd(p)
           /\ Piping!Destructor(p) => Running!Destructor(p)
           /\ Piping!Redirect(p) => Running!Redirect(p)
           /\ Piping!Read(p) => Running!Read(p)
           /\ Piping!Printf(p) => Running!Printf(p)
           /\ Piping!Fflush(p) => Running!Fflush(p)
           /\ Piping!Exit(p) => Running!Exit(p)
           /\ Piping!_exit(p) => Running!_exit(p)
           /\ Piping!execv(p) => Running!execv(p)
           /\ Piping!fork(p) => Running!fork(p)
           /\ Piping!wait(p) => Running!wait(p)
           /\ Piping!sched_yield(p) => Running!sched_yield(p)
<1>1. Piping!CloseEnd(p) => Running!CloseEnd(p)
  BY DEF Piping!CloseEnd, Piping!At, Piping!Becomes, Piping!NoText, Piping!close_read, Piping!close_write,
         Piping!Closed, Piping!Ends,
         Running!CloseEnd, Running!At, Running!Becomes, Running!NoText, Running!close_read, Running!close_write,
         Running!Closed, Running!Ends
<1>2. Piping!Destructor(p) => Running!Destructor(p)
  BY DEF Piping!Destructor, Piping!At, Piping!Becomes, Piping!NoText, Piping!Destroyed, Piping!close_read,
         Piping!close_write, Piping!Closed, Piping!Ends, Piping!None,
         Running!Destructor, Running!At, Running!Becomes, Running!NoText, Running!Destroyed, Running!close_read,
         Running!close_write, Running!Closed, Running!Ends, Running!None
<1>3. Piping!Redirect(p) => Running!Redirect(p)
  BY DEF Piping!Redirect, Piping!At, Piping!Becomes, Piping!NoText, Piping!dup2, Piping!With,
         Running!Redirect, Running!At, Running!Becomes, Running!NoText, Running!dup2, Running!With
<1>4. Piping!Read(p) => Running!Read(p)
  BY DEF Piping!Read, Piping!At, Piping!Becomes, Piping!NoText, Piping!Held,
         Running!Read, Running!At, Running!Becomes, Running!NoText, Running!Held
<1>5. Piping!Printf(p) => Running!Printf(p)
  BY DEF Piping!Printf, Piping!At, Piping!Becomes,
         Running!Printf, Running!At, Running!Becomes
<1>6. Piping!Fflush(p) => Running!Fflush(p)
  BY DEF Piping!Fflush, Piping!At, Piping!Becomes, Piping!Written, Piping!Where, Piping!Held,
         Running!Fflush, Running!At, Running!Becomes, Running!Written, Running!Where, Running!Held
<1>7. Piping!Exit(p) => Running!Exit(p)
  BY DEF Piping!Exit, Piping!Written, Piping!Where, Piping!Held, Piping!Gone, Piping!None, Piping!ToSet,
         Running!Exit, Running!Written, Running!Where, Running!Held, Running!Gone, Running!None, Running!ToSet
<1>8. Piping!_exit(p) => Running!_exit(p)
  BY DEF Piping!_exit, Piping!At, Piping!Becomes, Piping!Gone, Piping!None, Piping!ToSet,
         Running!_exit, Running!At, Running!Becomes, Running!Gone, Running!None, Running!ToSet
<1>9. Piping!execv(p) => Running!execv(p)
  BY DEF Piping!execv, Piping!At, Piping!Becomes, Piping!None, Piping!ToSet,
         Running!execv, Running!At, Running!Becomes, Running!None, Running!ToSet
<1>10. Piping!fork(p) => Running!fork(p)
  BY DEF Piping!fork, Piping!At, Piping!Becomes, Piping!NoText, Piping!Child, Piping!ToSet,
         Running!fork, Running!At, Running!Becomes, Running!NoText, Running!Child, Running!ToSet
<1>11. Piping!wait(p) => Running!wait(p)
  BY DEF Piping!wait, Piping!At, Piping!Becomes, Piping!NoText, Piping!Child,
         Running!wait, Running!At, Running!Becomes, Running!NoText, Running!Child
<1>12. Piping!sched_yield(p) => Running!sched_yield(p)
  BY DEF Piping!sched_yield, Piping!At, Piping!Becomes, Piping!NoText,
         Running!sched_yield, Running!At, Running!Becomes, Running!NoText
<1> QED
  BY <1>1, <1>2, <1>3, <1>4, <1>5, <1>6, <1>7, <1>8, <1>9, <1>10, <1>11, <1>12

LEMMA PipingPipe ==
    ASSUME Processed, NEW p \in {1, 2}, Piping!Pipe(p)
    PROVE  Effect(p)
<1> DEFINE table == proc[p].table
           rd == Piping!Lowest(table)
           readable == Running!With(table, rd, "r")
           wr == Piping!Lowest(readable)
<1>1. /\ proc[p].status = "running" /\ proc[p].script # <<>> /\ Running!NoText
      /\ \/ /\ Piping!Fds \ DOMAIN readable # {}
            /\ Running!Becomes(p, [proc[p] EXCEPT !.table = Running!With(readable, wr, "w"),
                                                  !.pipe = [read_fd |-> rd, write_fd |-> wr]])
         \/ \E a, b \in {0, 1, MaxPipeFd} :
              Running!Becomes(p, [proc[p] EXCEPT !.pipe = [read_fd |-> a, write_fd |-> b], !.careless = TRUE])
  BY DEF Piping!Pipe, Piping!At, Piping!NoText, Running!NoText, Piping!Becomes, Running!Becomes, Piping!With, Running!With
<1>2. Piping!Fds \ DOMAIN readable # {} => wr \in Nat \ DOMAIN readable /\ rd \in Nat \ DOMAIN table
  <2>1. DOMAIN table \subseteq DOMAIN readable
    BY DEF Running!With
  <2> HIDE DEF table, readable
  <2> QED
    BY <2>1, PipingDescriptors
<1>3. MaxPipeFd \in Nat
  BY SystemAssumption DEF Piping!ProcessAssumption
<1> HIDE DEF rd, wr
<1> QED
  BY <1>1, <1>2, <1>3, PipeStep

LEMMA PipingOpen ==
    ASSUME Processed, NEW p \in {1, 2}, Piping!OpenOrDup(p)
    PROVE  Effect(p)
<1> DEFINE table == proc[p].table
           fd == Piping!Lowest(table)
<1>1. /\ proc[p].status = "running" /\ proc[p].script # <<>> /\ Running!NoText
      /\ \/ Piping!Fds \ DOMAIN table # {} /\ Running!Becomes(p, [proc[p] EXCEPT !.table = Running!With(@, fd, "file")])
         \/ Running!Becomes(p, [proc[p] EXCEPT !.table = Running!dup2(@, 1, 2)])
  BY DEF Piping!OpenOrDup, Piping!At, Piping!NoText, Running!NoText, Piping!Becomes, Running!Becomes, Piping!With,
         Running!With, Piping!dup2, Running!dup2
<1>2. Piping!Fds \ DOMAIN table # {} => fd \in Nat \ DOMAIN table
  BY PipingDescriptors
<1> HIDE DEF fd
<1> QED
  BY <1>1, <1>2, OpensFile, DupStep

LEMMA PipingEffect ==
    ASSUME Processed, Stored, NEW p \in {1, 2}, Piping!Run(p)
    PROVE  Effect(p)
<1>1. CASE Piping!Pipe(p) \/ Piping!OpenOrDup(p)
  BY <1>1, PipingPipe, PipingOpen
<1>2. CASE ~ (Piping!Pipe(p) \/ Piping!OpenOrDup(p))
  <2>1. \/ Running!CloseEnd(p) \/ Running!Destructor(p) \/ Running!Redirect(p) \/ Running!Read(p) \/ Running!Printf(p)
        \/ Running!Fflush(p) \/ Running!Exit(p) \/ Running!_exit(p) \/ Running!execv(p) \/ Running!fork(p)
        \/ Running!wait(p) \/ Running!sched_yield(p)
    BY <1>2, SameCalls DEF Piping!Run
  <2> QED
    BY <2>1, RunningEffect DEF Running!Run
<1> QED
  BY <1>1, <1>2

-----------------------------------------------------------------------------
(* The invariant counts a text in all the places where it can lie: once,   *)
(* or twice when fork doubled it, unless it is lost.                       *)

Lying(text) ==
    Often(text, device["tty"]) + Often(text, device["file"]) + Often(text, device["pipe"]) + Often(text, received)
Waiting(text) == Often(text, proc[1].buffer) + Often(text, proc[2].buffer)
TextInv ==
    /\ Processed /\ Stored
    /\ \A p \in {1, 2} : proc[p].status # "running" => proc[p].buffer = <<>>
    /\ proc[2].status = "none" => twins = {}
    /\ \A text \in Nat : Lying(text) + Waiting(text) <= 2
    /\ \A text \in Nat : text \notin twins => Lying(text) + Waiting(text) <= 1
    /\ \A text \in Nat : Lying(text) + Waiting(text) # 0 => text >= 1 /\ text <= said
    /\ \A text \in Nat : text >= 1 /\ text <= said => text \in lost \/ Lying(text) + Waiting(text) # 0

LEMMA CountTypes ==
    ASSUME Stored, Processed, NEW text
    PROVE  /\ Often(text, device["tty"]) \in Nat /\ Often(text, device["file"]) \in Nat
           /\ Often(text, device["pipe"]) \in Nat /\ Often(text, received) \in Nat
           /\ Often(text, proc[1].buffer) \in Nat /\ Often(text, proc[2].buffer) \in Nat
           /\ Lying(text) \in Nat /\ Waiting(text) \in Nat
           /\ proc[1].buffer \in Seq(Nat) /\ proc[2].buffer \in Seq(Nat)
<1>1. proc[1].buffer \in Seq(Nat) /\ proc[2].buffer \in Seq(Nat)
  BY Unwired, ProcessFields
<1>2. device["tty"] \in Seq(Nat) /\ device["file"] \in Seq(Nat) /\ device["pipe"] \in Seq(Nat) /\ received \in Seq(Nat)
  BY DEF Stored
<1> QED
  BY SMTT(30), <1>1, <1>2, FinitePlaces DEF Lying, Waiting

(* When the other process does nothing the buffer of this one decides.     *)
LEMMA OneWaits ==
    ASSUME Stored, Processed, Processed', NEW p \in {1, 2}, Alone(p), NEW text
    PROVE  /\ Often(text, proc[p].buffer) \in Nat /\ Often(text, proc'[p].buffer) \in Nat
           /\ Waiting(text)' \in Nat /\ Waiting(text) >= Often(text, proc[p].buffer)
           /\ Waiting(text)' + Often(text, proc[p].buffer) = Waiting(text) + Often(text, proc'[p].buffer)
<1>1. /\ Often(text, proc[1].buffer) \in Nat /\ Often(text, proc[2].buffer) \in Nat
  BY CountTypes
<1>2. /\ Often(text, proc'[1].buffer) \in Nat /\ Often(text, proc'[2].buffer) \in Nat
  <2>1. proc'[1].buffer \in Seq(Nat) /\ proc'[2].buffer \in Seq(Nat)
    BY ProcessFields DEF Processed
  <2> QED
    BY <2>1, FinitePlaces
<1>3. Waiting(text)' = Often(text, proc'[1].buffer) + Often(text, proc'[2].buffer)
  BY DEF Waiting
<1>4. CASE p = 1
  <2>1. proc'[2] = proc[2]
    BY <1>4 DEF Alone
  <2> QED
    BY <1>1, <1>2, <1>3, <1>4, <2>1 DEF Waiting
<1>5. CASE p = 2
  <2>1. proc'[1] = proc[1]
    BY <1>5 DEF Alone
  <2> QED
    BY <1>1, <1>2, <1>3, <1>5, <2>1 DEF Waiting
<1> QED
  BY <1>4, <1>5

LEMMA InBuffer ==
    ASSUME NEW s \in Seq(Nat), NEW text
    PROVE  Often(text, s) # 0 <=> text \in Running!ToSet(s)
<1>1. DOMAIN s = 1 .. Len(s)
  OBVIOUS
<1>2. ASSUME Often(text, s) # 0 PROVE text \in Running!ToSet(s)
  <2>1. PICK i \in 1 .. Len(s) : s[i] = text
    BY <1>2, OftenFound
  <2> QED
    BY <1>1, <2>1 DEF Running!ToSet
<1>3. ASSUME text \in Running!ToSet(s) PROVE Often(text, s) # 0
  <2>1. PICK i \in 1 .. Len(s) : s[i] = text
    BY <1>1, <1>3 DEF Running!ToSet
  <2>2. Often(s[i], s) >= 1 /\ Often(s[i], s) \in Nat
    BY FoundOften, FinitePlaces
  <2> QED
    BY <2>1, <2>2
<1> QED
  BY <1>2, <1>3

(* What a call does to the numbers.                                        *)
LEMMA WriteCounts ==
    ASSUME Stored, Processed, Processed', NEW p \in {1, 2}, Writes(p)
    PROVE  Stored' /\ \A text : Lying(text)' + Waiting(text)' = Lying(text) + Waiting(text)
<1>1. PICK d \in {"tty", "file", "pipe"} : device' = [device EXCEPT ![d] = @ \o proc[p].buffer]
  BY DEF Writes
<1>2. proc[p].buffer \in Seq(Nat) /\ device[d] \in Seq(Nat) /\ received' = received /\ said' = said
  BY CountTypes DEF Stored, Writes
<1>3. Stored'
  BY <1>1, <1>2 DEF Stored
<1>4. ASSUME NEW text PROVE Lying(text)' + Waiting(text)' = Lying(text) + Waiting(text)
  <2> DEFINE b == Often(text, proc[p].buffer)
  <2>1. Often(text, device'[d]) = Often(text, device[d]) + b /\ \A o \in {"tty", "file", "pipe"} \ {d} : device'[o] = device[o]
    <3>1. device'[d] = device[d] \o proc[p].buffer
      BY <1>1 DEF Stored
    <3>2. Often(text, device[d] \o proc[p].buffer) = Often(text, device[d]) + b
      BY <1>2, OftenInBoth
    <3> QED
      BY <1>1, <3>1, <3>2 DEF Stored
  <2>2. /\ Often(text, device["tty"]) \in Nat /\ Often(text, device["file"]) \in Nat
        /\ Often(text, device["pipe"]) \in Nat /\ Often(text, received) \in Nat /\ b \in Nat
        /\ Lying(text) \in Nat /\ Waiting(text) \in Nat
    BY <1>2, CountTypes, FinitePlaces
  <2>3. Waiting(text)' \in Nat /\ Waiting(text)' + b = Waiting(text)
    <3>1. Alone(p) /\ Often(text, proc'[p].buffer) = 0
      BY NowhereInNothing DEF Writes
    <3> QED
      BY <2>2, <3>1, OneWaits
  <2> HIDE DEF b
  <2>4. Lying(text)' = Lying(text) + b
    <3>1. Lying(text)' = Often(text, device'["tty"]) + Often(text, device'["file"]) + Often(text, device'["pipe"]) + Often(text, received)
      BY <1>2 DEF Lying
    <3>2. CASE d = "tty"
      BY <2>1, <2>2, <3>1, <3>2 DEF Lying
    <3>3. CASE d = "file"
      BY <2>1, <2>2, <3>1, <3>3 DEF Lying
    <3>4. CASE d = "pipe"
      BY <2>1, <2>2, <3>1, <3>4 DEF Lying
    <3> QED
      BY <3>2, <3>3, <3>4
  <2> QED
    BY <2>2, <2>3, <2>4
<1> QED
  BY <1>3, <1>4

LEMMA FetchCounts ==
    ASSUME Stored, Processed, NEW p \in {1, 2}, Fetches(p)
    PROVE  Stored' /\ \A text : Lying(text)' + Waiting(text)' = Lying(text) + Waiting(text)
<1>1. PICK n \in 1 .. Len(device["pipe"]) :
        /\ received' = received \o SubSeq(device["pipe"], 1, n)
        /\ device' = [device EXCEPT !["pipe"] = SubSeq(@, n + 1, Len(@))]
  BY DEF Fetches
<1> DEFINE s == device["pipe"]
           head == SubSeq(s, 1, n)
           rest == SubSeq(s, n + 1, Len(s))
<1>2. s \in Seq(Nat) /\ received \in Seq(Nat) /\ proc' = proc /\ said' = said
  BY DEF Stored, Fetches
<1>3. head \in Seq(Nat) /\ rest \in Seq(Nat) /\ head \o rest = s
  BY <1>2, CutInTwo
<1>4. /\ received' = received \o head /\ device'["pipe"] = rest
      /\ device'["tty"] = device["tty"] /\ device'["file"] = device["file"]
  BY <1>1 DEF Stored
<1>5. Stored'
  BY SMTT(30), <1>1, <1>2, <1>3, <1>4 DEF Stored
<1> HIDE DEF head, rest
<1>6. ASSUME NEW text PROVE Lying(text)' + Waiting(text)' = Lying(text) + Waiting(text)
  <2>1. Often(text, received \o head) = Often(text, received) + Often(text, head)
    BY <1>2, <1>3, OftenInBoth
  <2>2. Often(text, s) = Often(text, head) + Often(text, rest)
    BY <1>3, OftenInBoth
  <2>3. /\ Often(text, device["tty"]) \in Nat /\ Often(text, device["file"]) \in Nat
        /\ Often(text, s) \in Nat /\ Often(text, received) \in Nat
        /\ Often(text, head) \in Nat /\ Often(text, rest) \in Nat
    BY <1>3, CountTypes, FinitePlaces
  <2>4. Lying(text)' = Often(text, device["tty"]) + Often(text, device["file"]) + Often(text, rest) + Often(text, received \o head)
    BY <1>4 DEF Lying
  <2>5. Lying(text)' = Lying(text)
    BY <2>1, <2>2, <2>3, <2>4 DEF Lying
  <2> QED
    BY <1>2, <2>5 DEF Waiting
<1> QED
  BY <1>5, <1>6

LEMMA TextStep ==
    ASSUME TextInv, NEW p \in {1, 2}, Effect(p)
    PROVE  TextInv'
<1> DEFINE all(text) == Lying(text) + Waiting(text)
           b(text) == Often(text, proc[p].buffer)
<1>1. /\ Processed /\ Stored /\ Processed' /\ proc[p].status = "running"
      /\ \A o \in {1, 2} : proc[o].status # "running" => proc[o].buffer = <<>>
  BY DEF TextInv, Effect
<1>2. \A text : all(text) \in Nat /\ b(text) \in Nat
  <2>1. \A text : Lying(text) \in Nat /\ Waiting(text) \in Nat
    BY <1>1, CountTypes
  <2>2. proc[p].buffer \in Seq(Nat)
    BY <1>1, CountTypes
  <2>3. \A text : b(text) \in Nat
    BY <2>2, FinitePlaces
  <2> QED
    BY <2>1, <2>3
<1>3. /\ \A text \in Nat : all(text) <= 2
      /\ \A text \in Nat : text \notin twins => all(text) <= 1
      /\ \A text \in Nat : all(text) # 0 => text >= 1 /\ text <= said
      /\ \A text \in Nat : text >= 1 /\ text <= said => text \in lost \/ all(text) # 0
      /\ said \in Nat
  BY <1>1 DEF TextInv, Stored
<1>4. SUFFICES /\ Stored'
               /\ \A o \in {1, 2} : proc'[o].status # "running" => proc'[o].buffer = <<>>
               /\ proc'[2].status = "none" => twins' = {}
               /\ \A text \in Nat : all(text)' <= 2
               /\ \A text \in Nat : text \notin twins' => all(text)' <= 1
               /\ \A text \in Nat : all(text)' # 0 => text >= 1 /\ text <= said'
               /\ \A text \in Nat : text >= 1 /\ text <= said' => text \in lost' \/ all(text)' # 0
  BY <1>1 DEF TextInv
<1>5. ASSUME Alone(p)
      PROVE  /\ \A o \in {1, 2} : proc'[o].status # "running" => proc'[o].buffer = <<>>
             /\ proc'[2].status = "none" => proc[2].status = "none"
  BY <1>1, <1>5 DEF Effect, Alone
<1>6. proc[2].status = "none" => twins = {}
  BY DEF TextInv
<1>7. CASE Quiet(p)
  <2>1. Alone(p) /\ proc'[p].buffer = proc[p].buffer /\ UNCHANGED <<device, received, said, lost, twins>>
    BY <1>7 DEF Quiet
  <2>2. Stored'
    BY <1>1, <2>1 DEF Stored
  <2>3. \A text : all(text)' = all(text)
    <3> SUFFICES ASSUME NEW text PROVE all(text)' = all(text)
      OBVIOUS
    <3>1. Lying(text)' = Lying(text)
      BY <2>1 DEF Lying
    <3>2. Waiting(text)' = Waiting(text)
      <4>1. Waiting(text)' \in Nat /\ Waiting(text)' + b(text) = Waiting(text) + Often(text, proc'[p].buffer)
        BY <1>1, <2>1, OneWaits
      <4>2. Waiting(text) \in Nat
        BY <1>1, CountTypes
      <4> QED
        BY <1>2, <2>1, <4>1, <4>2
    <3> QED
      BY <3>1, <3>2
  <2> HIDE DEF all, b
  <2> QED
    BY <1>3, <1>5, <1>6, <2>1, <2>2, <2>3
<1>8. CASE Prints(p)
  <2>1. /\ Alone(p) /\ proc'[p].buffer = Append(proc[p].buffer, said + 1) /\ said' = said + 1
        /\ UNCHANGED <<device, received, lost, twins>>
    BY <1>8 DEF Prints
  <2>2. Stored'
    BY <1>1, <2>1 DEF Stored
  <2>3. \A text \in Nat : all(text)' = IF text = said + 1 THEN all(text) + 1 ELSE all(text)
    <3> SUFFICES ASSUME NEW text \in Nat PROVE all(text)' = IF text = said + 1 THEN all(text) + 1 ELSE all(text)
      OBVIOUS
    <3>1. Lying(text)' = Lying(text) /\ Lying(text) \in Nat /\ Waiting(text) \in Nat
      BY <1>1, <2>1, CountTypes DEF Lying
    <3>2. Waiting(text)' \in Nat /\ Waiting(text)' + b(text) = Waiting(text) + Often(text, proc'[p].buffer)
      BY <1>1, <2>1, OneWaits
    <3>3. proc[p].buffer \in Seq(Nat) /\ said + 1 \in Nat
      <4>1. proc[1].buffer \in Seq(Nat) /\ proc[2].buffer \in Seq(Nat)
        BY <1>1, CountTypes
      <4> QED
        BY <1>3, <4>1
    <3>4. Often(text, proc'[p].buffer) = IF text = said + 1 THEN b(text) + 1 ELSE b(text)
      BY <2>1, <3>3, OftenWithLast
    <3>5. CASE text = said + 1
      BY <1>2, <3>1, <3>2, <3>4, <3>5
    <3>6. CASE text # said + 1
      BY <1>2, <3>1, <3>2, <3>4, <3>6
    <3> QED
      BY <3>5, <3>6
  <2>4. all(said + 1) = 0
    BY <1>2, <1>3
  <2> HIDE DEF all, b
  <2>5. ASSUME NEW text \in Nat, text = said + 1
        PROVE  all(text)' = 1 /\ text >= 1 /\ text <= said'
    BY <1>3, <2>1, <2>3, <2>4, <2>5
  <2>6. ASSUME NEW text \in Nat, text # said + 1
        PROVE  all(text)' = all(text) /\ (text <= said' => text <= said) /\ (text <= said => text <= said')
    BY <1>3, <2>1, <2>3, <2>6
  <2>7. ASSUME NEW text \in Nat
        PROVE  /\ all(text)' <= 2
               /\ text \notin twins' => all(text)' <= 1
               /\ all(text)' # 0 => text >= 1 /\ text <= said'
               /\ text >= 1 /\ text <= said' => text \in lost' \/ all(text)' # 0
    <3>1. CASE text = said + 1
      BY <2>5, <3>1
    <3>2. CASE text # said + 1
      <4>1. all(text)' = all(text) /\ (text <= said' => text <= said) /\ (text <= said => text <= said')
        BY <2>6, <3>2
      <4> QED
        BY <1>3, <2>1, <4>1
    <3> QED
      BY <3>1, <3>2
  <2> QED
    BY <1>5, <1>6, <2>1, <2>2, <2>7
<1>9. CASE Writes(p)
  <2>1. Alone(p) /\ UNCHANGED <<said, lost, twins>>
    BY <1>9 DEF Writes
  <2>2. Stored' /\ \A text : all(text)' = all(text)
    BY <1>1, <1>9, WriteCounts
  <2> HIDE DEF all, b
  <2> QED
    BY <1>3, <1>5, <1>6, <2>1, <2>2
<1>10. CASE Loses(p)
  <2>1. /\ Alone(p) /\ proc'[p].buffer = <<>> /\ lost' = lost \cup Running!ToSet(proc[p].buffer)
        /\ UNCHANGED <<device, received, said, twins>>
    BY <1>10 DEF Loses
  <2>2. Stored'
    BY <1>1, <2>1 DEF Stored
  <2>3. \A text : all(text)' \in Nat /\ all(text)' + b(text) = all(text)
    <3> SUFFICES ASSUME NEW text PROVE all(text)' \in Nat /\ all(text)' + b(text) = all(text)
      OBVIOUS
    <3>1. Lying(text)' = Lying(text) /\ Lying(text) \in Nat /\ Waiting(text) \in Nat
      BY <1>1, <2>1, CountTypes DEF Lying
    <3>2. Waiting(text)' \in Nat /\ Waiting(text)' + b(text) = Waiting(text) + Often(text, proc'[p].buffer)
      BY <1>1, <2>1, OneWaits
    <3>3. Often(text, proc'[p].buffer) = 0
      BY <2>1, NowhereInNothing
    <3> QED
      BY <1>2, <3>1, <3>2, <3>3
  <2>4. \A text : b(text) # 0 => text \in lost'
    <3>1. proc[p].buffer \in Seq(Nat)
      BY <1>1, CountTypes
    <3> QED
      BY <2>1, <3>1, InBuffer
  <2> HIDE DEF all, b
  <2>5. ASSUME NEW text \in Nat
        PROVE  all(text)' <= all(text) /\ (all(text) # 0 => text \in lost' \/ all(text)' # 0)
    BY <1>2, <2>3, <2>4
  <2>6. \A text : all(text)' \in Nat
    BY <2>3
  <2>7. ASSUME NEW text \in Nat
        PROVE  /\ all(text)' <= 2
               /\ text \notin twins' => all(text)' <= 1
               /\ all(text)' # 0 => text >= 1 /\ text <= said'
               /\ text >= 1 /\ text <= said' => text \in lost' \/ all(text)' # 0
    <3>1. /\ all(text)' <= all(text) /\ (all(text) # 0 => text \in lost' \/ all(text)' # 0)
          /\ all(text) \in Nat /\ all(text)' \in Nat
      BY <1>2, <2>5, <2>6
    <3>2. text \in lost => text \in lost'
      BY <2>1
    <3>3. all(text)' # 0 => all(text) # 0
      BY <3>1
    <3>4. all(text)' <= 2 /\ (text \notin twins' => all(text)' <= 1)
      BY <1>3, <2>1, <3>1
    <3> QED
      BY <1>3, <2>1, <3>1, <3>2, <3>3, <3>4
  <2> QED
    BY <1>5, <1>6, <2>1, <2>2, <2>7
<1>11. CASE Fetches(p)
  <2>1. UNCHANGED <<proc, said, lost, twins>>
    BY <1>11 DEF Fetches
  <2>2. Stored' /\ \A text : all(text)' = all(text)
    BY <1>1, <1>11, FetchCounts
  <2> HIDE DEF all, b
  <2> QED
    BY <1>1, <1>3, <1>6, <2>1, <2>2
<1>12. CASE Doubles(p)
  <2>1. /\ p = 1 /\ proc[2].status = "none" /\ proc'[2].status = "running" /\ twins = {}
        /\ proc'[1].buffer = proc[1].buffer /\ proc'[2].buffer = proc[1].buffer
        /\ twins' = twins \cup Running!ToSet(proc[1].buffer)
        /\ UNCHANGED <<device, received, said, lost>>
    BY <1>6, <1>12 DEF Doubles
  <2>2. Stored'
    BY <1>1, <2>1 DEF Stored
  <2>3. \A text : all(text)' = all(text) + b(text) /\ b(text) <= all(text)
    <3> SUFFICES ASSUME NEW text PROVE all(text)' = all(text) + b(text) /\ b(text) <= all(text)
      OBVIOUS
    <3>1. Lying(text)' = Lying(text) /\ Lying(text) \in Nat /\ Waiting(text) \in Nat
      BY <1>1, <2>1, CountTypes DEF Lying
    <3>2. Often(text, proc[2].buffer) = 0
      BY <1>1, <2>1, NowhereInNothing
    <3>3. Waiting(text)' = b(text) + b(text) /\ Waiting(text) = b(text)
      BY <1>2, <2>1, <3>2 DEF Waiting
    <3> QED
      BY <1>2, <3>1, <3>3
  <2>4. \A text : b(text) # 0 <=> text \in twins'
    <3>1. proc[1].buffer \in Seq(Nat)
      BY <1>1, CountTypes
    <3> QED
      BY <2>1, <3>1, InBuffer
  <2>5. \A o \in {1, 2} : proc'[o].status # "running" => proc'[o].buffer = <<>>
    BY <1>1, <2>1 DEF Effect
  <2> HIDE DEF all, b
  <2>6. ASSUME NEW text \in Nat
        PROVE  /\ all(text)' <= 2
               /\ text \notin twins' => all(text)' <= 1
               /\ all(text)' # 0 <=> all(text) # 0
    <3>1. all(text) <= 1
      BY <1>3, <2>1
    <3> QED
      BY <1>2, <2>3, <2>4, <3>1
  <2> QED
    BY <1>3, <2>1, <2>2, <2>5, <2>6
<1> QED
  BY <1>7, <1>8, <1>9, <1>10, <1>11, <1>12 DEF Effect

(* Nothing is printed when the first process starts.                       *)
LEMMA TextStarts ==
    ASSUME NEW s, s[1] \in Seq(Running!Calls), s[2] \in Seq(Running!Calls),
           proc = [p \in {1, 2} |->
                     [status |-> IF p = 1 THEN "running" ELSE "none", pipe |-> Running!None, buffer |-> <<>>, script |-> s[p],
                      table |-> IF p = 1 THEN [f \in 0 .. 2 |-> "tty"] ELSE <<>>, careless |-> FALSE, foreign |-> FALSE]],
           device = [d \in {"tty", "file", "pipe"} |-> <<>>], received = <<>>, said = 0, twins = {}
    PROVE  TextInv
<1> DEFINE first == [status |-> "running", pipe |-> Running!None, buffer |-> <<>>, script |-> s[1],
                     table |-> [f \in 0 .. 2 |-> "tty"], careless |-> FALSE, foreign |-> FALSE]
           second == [status |-> "none", pipe |-> Running!None, buffer |-> <<>>, script |-> s[2],
                      table |-> <<>>, careless |-> FALSE, foreign |-> FALSE]
<1>1. proc[1] = first /\ proc[2] = second /\ DOMAIN proc = {1, 2} /\ proc = [p \in {1, 2} |-> proc[p]]
  OBVIOUS
<1>2. <<>> \in Tables /\ [f \in 0 .. 2 |-> "tty"] \in Tables /\ Running!None \in Pairs
  <2>1. [f \in 0 .. 2 |-> "tty"] \in [0 .. 2 -> Kinds] /\ 0 .. 2 \subseteq Nat
    BY DEF Kinds
  <2>2. [f \in 0 .. 2 |-> "tty"] \in Tables
    BY <2>1 DEF Tables
  <2>3. <<>> \in Tables
    BY NoDescriptors
  <2> QED
    BY <2>2, <2>3 DEF Running!None, Pairs
<1>3. first \in Processes
  BY <1>2 DEF Processes
<1>4. second \in Processes
  BY <1>2 DEF Processes
<1>5. /\ first.status = "running" /\ first.pipe = Running!None /\ first.buffer = <<>> /\ DOMAIN first.table = 0 .. 2
      /\ ~ first.foreign /\ second.status = "none" /\ ~ second.foreign /\ second.buffer = <<>>
  OBVIOUS
<1> HIDE DEF first, second
<1>6. Own(first) /\ Own(second)
  BY <1>3, <1>4, <1>5 DEF Own, Careful
<1>7. Processed
  BY <1>1, <1>3, <1>4, <1>6 DEF Processed
<1>8. Stored
  BY DEF Stored
<1>9. \A text : Lying(text) = 0 /\ Waiting(text) = 0
  BY <1>1, <1>5, NowhereInNothing DEF Lying, Waiting
<1> QED
  BY <1>1, <1>5, <1>7, <1>8, <1>9 DEF TextInv

(* When nothing runs any more every text lies outside the buffers.         *)
LEMMA TextsCounted ==
    ASSUME TextInv
    PROVE  Running!OwnEndsClosed /\ Running!TextOnce /\ Running!TextArrives
<1>1. /\ Processed /\ Stored /\ said \in Nat /\ DOMAIN proc = {1, 2}
      /\ \A p \in {1, 2} : proc[p].status # "running" => proc[p].buffer = <<>>
  BY DEF TextInv, Stored, Processed
<1>2. Running!Everywhere \in Seq(Nat) /\ \A text : Often(text, Running!Everywhere) = Lying(text)
  <2> DEFINE a == device["tty"]
             b == device["file"]
             d == device["pipe"]
  <2>1. a \in Seq(Nat) /\ b \in Seq(Nat) /\ d \in Seq(Nat) /\ received \in Seq(Nat)
    BY <1>1 DEF Stored
  <2>2. Running!Everywhere = ((a \o b) \o d) \o received
    BY DEF Running!Everywhere
  <2>3. \A text : Lying(text) = Often(text, a) + Often(text, b) + Often(text, d) + Often(text, received)
    BY DEF Lying
  <2> HIDE DEF a, b, d
  <2>4. a \o b \in Seq(Nat) /\ (a \o b) \o d \in Seq(Nat) /\ ((a \o b) \o d) \o received \in Seq(Nat)
    BY <2>1
  <2>5. \A text : /\ Often(text, a \o b) = Often(text, a) + Often(text, b)
                  /\ Often(text, (a \o b) \o d) = Often(text, a \o b) + Often(text, d)
                  /\ Often(text, ((a \o b) \o d) \o received) = Often(text, (a \o b) \o d) + Often(text, received)
    BY <2>1, <2>4, OftenInBoth
  <2> QED
    BY <2>2, <2>3, <2>4, <2>5
<1> DEFINE all == Running!Everywhere
<1>3. \A text : Lying(text) \in Nat /\ Waiting(text) \in Nat
  BY <1>1, CountTypes
<1>4. Running!OwnEndsClosed
  BY <1>1 DEF Running!OwnEndsClosed, Processed, Own
<1>5. Running!TextOnce
  <2> SUFFICES ASSUME NEW text \in 1 .. said PROVE Running!Copies(text) <= IF text \in twins THEN 2 ELSE 1
    BY DEF Running!TextOnce
  <2>1. Running!Copies(text) = Lying(text)
    <3>1. DOMAIN all = 1 .. Len(all)
      BY <1>2
    <3> HIDE DEF all
    <3>2. {i \in DOMAIN all : all[i] = text} = Places(text, all)
      BY <3>1 DEF Places
    <3>3. Running!Copies(text) = Running!Cardinality(Places(text, all))
      BY <3>2 DEF Running!Copies, all
    <3> QED
      BY <1>2, <3>3 DEF Often, all, Running!Cardinality, Cardinality
  <2>2. text \in Nat /\ Lying(text) + Waiting(text) <= 2 /\ (text \notin twins => Lying(text) + Waiting(text) <= 1)
    BY <1>1 DEF TextInv
  <2>3. Lying(text) <= 2 /\ (text \notin twins => Lying(text) <= 1)
    BY <1>3, <2>2
  <2> QED
    BY <2>1, <2>3
<1>6. Running!TextArrives
  <2> SUFFICES ASSUME \A p \in {1, 2} : proc[p].status \in {"none", "ended"}, NEW text \in 1 .. said, text \notin lost
               PROVE  text \in Running!ToSet(all)
    BY <1>1 DEF Running!TextArrives
  <2>1. proc[1].buffer = <<>> /\ proc[2].buffer = <<>>
    BY <1>1
  <2>2. Waiting(text) = 0
    BY <2>1, NowhereInNothing DEF Waiting
  <2>3. Lying(text) # 0
    BY <1>1, <1>3, <2>2 DEF TextInv
  <2> HIDE DEF all
  <2> QED
    BY <1>2, <2>3, InBuffer DEF all
<1> QED
  BY <1>4, <1>5, <1>6

-----------------------------------------------------------------------------
(* The pipeline: what was read, what lies in the pipe and what waits in    *)
(* the child's buffer is one row of texts in the order of their printing.  *)

Rising(s) == \A i, j \in 1 .. Len(s) : i < j => s[i] < s[j]
UpTo(s, n) == \A i \in 1 .. Len(s) : s[i] <= n
Row == (received \o device["pipe"]) \o proc[2].buffer
PipeInv ==
    /\ proc[1].buffer = <<>>
    /\ \A k \in 1 .. Len(proc[1].script) : proc[1].script[k] # "print"
    /\ Rising(Row) /\ UpTo(Row, said)

LEMMA InOneRow == \A r, s, t \in Seq(Nat) : (r \o s) \o t = r \o (s \o t)
  BY SMTT(30), ConcatAssociative

LEMMA RowGrows ==
    ASSUME NEW s \in Seq(Nat), NEW n \in Nat, Rising(s), UpTo(s, n)
    PROVE  Rising(Append(s, n + 1)) /\ UpTo(Append(s, n + 1), n + 1)
<1> DEFINE t == Append(s, n + 1)
<1>1. /\ Len(t) = Len(s) + 1 /\ Len(s) \in Nat /\ t[Len(s) + 1] = n + 1
      /\ \A i \in 1 .. Len(s) : t[i] = s[i] /\ s[i] \in Nat
  OBVIOUS
<1> HIDE DEF t
<1>2. UpTo(t, n + 1)
  <2> SUFFICES ASSUME NEW i \in 1 .. Len(t) PROVE t[i] <= n + 1
    BY DEF UpTo
  <2>1. CASE i = Len(s) + 1
    BY <1>1, <2>1
  <2>2. CASE i # Len(s) + 1
    <3>1. i \in 1 .. Len(s)
      BY <1>1, <2>2
    <3>2. s[i] <= n /\ t[i] = s[i] /\ s[i] \in Nat
      BY <1>1, <3>1 DEF UpTo
    <3> QED
      BY <3>2
  <2> QED
    BY <2>1, <2>2
<1>3. Rising(t)
  <2> SUFFICES ASSUME NEW i \in 1 .. Len(t), NEW j \in 1 .. Len(t), i < j PROVE t[i] < t[j]
    BY DEF Rising
  <2>1. i \in 1 .. Len(s) /\ t[i] = s[i] /\ s[i] <= n /\ s[i] \in Nat
    BY <1>1 DEF UpTo
  <2>2. CASE j = Len(s) + 1
    BY <1>1, <2>1, <2>2
  <2>3. CASE j # Len(s) + 1
    <3>1. j \in 1 .. Len(s)
      BY SMTT(30), <1>1, <2>3
    <3>2. t[j] = s[j]
      BY <1>1, <3>1
    <3> QED
      BY <2>1, <3>1, <3>2 DEF Rising
  <2> QED
    BY <2>2, <2>3
<1> QED
  BY <1>2, <1>3 DEF t

LEMMA RowShrinks ==
    ASSUME NEW s \in Seq(Nat), NEW t \in Seq(Nat), NEW n \in Nat, Rising(s \o t), UpTo(s \o t, n)
    PROVE  Rising(s) /\ UpTo(s, n)
<1>1. Len(s \o t) = Len(s) + Len(t) /\ Len(s) \in Nat /\ Len(t) \in Nat /\ \A i \in 1 .. Len(s) : (s \o t)[i] = s[i]
  OBVIOUS
<1>2. \A i \in 1 .. Len(s) : i \in 1 .. Len(s \o t)
  BY <1>1
<1> QED
  BY <1>1, <1>2 DEF Rising, UpTo

LEMMA PipeRowStep ==
    ASSUME PipeInv, TextInv, NEW p \in {1, 2}, Effect(p)
    PROVE  PipeInv'
<1> DEFINE d == device["pipe"]
           b == proc[2].buffer
<1>1. /\ d \in Seq(Nat) /\ b \in Seq(Nat) /\ received \in Seq(Nat) /\ said \in Nat /\ proc[1].buffer = <<>>
      /\ Row = (received \o d) \o b /\ received \o d \in Seq(Nat) /\ Row \in Seq(Nat)
  <2>1. Stored /\ Processed
    BY DEF TextInv
  <2> QED
    BY <2>1, CountTypes DEF Stored, Row, PipeInv
<1>2. Processed' /\ proc[1].script \in Seq(Running!Calls)
  BY Unwired, ProcessFields DEF Effect, TextInv
<1>3. \A k \in 1 .. Len(proc'[1].script) : proc'[1].script[k] # "print"
  <2>1. proc'[1].script = proc[1].script \/ (proc[1].script # <<>> /\ proc'[1].script = Tail(proc[1].script))
    BY DEF Effect
  <2>2. CASE proc'[1].script = proc[1].script
    BY <2>2 DEF PipeInv
  <2>3. CASE proc[1].script # <<>> /\ proc'[1].script = Tail(proc[1].script)
    <3> DEFINE s == proc[1].script
    <3>1. s \in Seq(Running!Calls) /\ s # <<>> /\ \A k \in 1 .. Len(s) : s[k] # "print"
      BY <1>2, <2>3 DEF PipeInv
    <3> HIDE DEF s
    <3>2. Len(Tail(s)) = Len(s) - 1 /\ \A k \in 1 .. Len(Tail(s)) : Tail(s)[k] = s[k + 1] /\ k + 1 \in 1 .. Len(s)
      BY <3>1
    <3> QED
      BY <2>3, <3>1, <3>2 DEF s
  <2> QED
    BY <2>1, <2>2, <2>3
<1>4. Rising(Row) /\ UpTo(Row, said)
  BY DEF PipeInv
<1>5. SUFFICES proc'[1].buffer = <<>> /\ Rising(Row') /\ UpTo(Row', said')
  BY <1>3 DEF PipeInv
<1>6. Row' = (received' \o device'["pipe"]) \o proc'[2].buffer
  BY DEF Row
<1>7. /\ Rising(received \o d) /\ UpTo(received \o d, said)
  <2> HIDE DEF d, b
  <2> QED
    BY <1>1, <1>4, RowShrinks
<1>8. (received \o d) \o <<>> = received \o d
  <2> HIDE DEF d, b
  <2> QED
    BY <1>1
<1>9. CASE Quiet(p)
  <2>1. proc'[1].buffer = proc[1].buffer /\ proc'[2].buffer = b /\ UNCHANGED <<device, received, said>>
    BY <1>9 DEF Quiet, Alone
  <2> QED
    BY <1>1, <1>4, <1>6, <2>1
<1>10. CASE Prints(p)
  <2>1. p = 2
    <3>1. ASSUME p = 1 PROVE FALSE
      <4> DEFINE s == proc[1].script
      <4>1. s \in Seq(Running!Calls) /\ s # <<>> /\ Head(s) = "print" /\ \A k \in 1 .. Len(s) : s[k] # "print"
        BY <1>2, <1>10, <3>1 DEF Prints, PipeInv
      <4> HIDE DEF s
      <4>2. Head(s) = s[1] /\ 1 \in 1 .. Len(s)
        BY <4>1
      <4> QED
        BY <4>1, <4>2
    <3> QED
      BY <3>1
  <2>2. /\ proc'[1].buffer = <<>> /\ proc'[2].buffer = Append(b, said + 1) /\ said' = said + 1
        /\ UNCHANGED <<device, received>>
    BY <1>1, <1>10, <2>1 DEF Prints, Alone
  <2>3. Row' = Append(Row, said + 1)
    <3>1. Row' = (received \o d) \o Append(b, said + 1)
      BY <1>6, <2>2
    <3> DEFINE l == received \o d
    <3>2. l \in Seq(Nat) /\ b \in Seq(Nat) /\ Row = l \o b
      BY <1>1
    <3> HIDE DEF l, b
    <3>3. l \o Append(b, said + 1) = Append(l \o b, said + 1)
      BY SMTT(30), <1>1, <3>2
    <3> QED
      BY <3>1, <3>2, <3>3 DEF l, b
  <2> QED
    BY <1>1, <1>4, <2>2, <2>3, RowGrows
<1>11. CASE Writes(p)
  <2>1. PICK o \in {"tty", "file", "pipe"} : device' = [device EXCEPT ![o] = @ \o proc[p].buffer]
    BY <1>11 DEF Writes
  <2>2. /\ received' = received /\ said' = said /\ proc'[p].buffer = <<>> /\ Alone(p)
        /\ device'["pipe"] = IF o = "pipe" THEN d \o proc[p].buffer ELSE d
    BY <1>11, <2>1 DEF Writes, Stored, TextInv
  <2>3. proc'[1].buffer = <<>>
    BY <1>1, <2>2 DEF Alone
  <2>4. CASE p = 1
    <3>1. proc'[2].buffer = b /\ device'["pipe"] = d
      <4>1. d \o <<>> = d
        BY <1>1
      <4> QED
        BY <1>1, <2>2, <2>4, <4>1 DEF Alone
    <3> QED
      BY <1>1, <1>4, <1>6, <2>2, <2>3, <3>1
  <2>5. CASE p = 2 /\ o = "pipe"
    <3>1. Row' = (received \o (d \o b)) \o <<>>
      BY <1>6, <2>2, <2>5
    <3>2. (received \o (d \o b)) \o <<>> = (received \o d) \o b
      <4> HIDE DEF d, b
      <4>1. d \o b \in Seq(Nat) /\ received \o (d \o b) \in Seq(Nat)
        BY <1>1
      <4>2. (received \o (d \o b)) \o <<>> = received \o (d \o b)
        BY <4>1
      <4>3. received \in Seq(Nat) /\ d \in Seq(Nat) /\ b \in Seq(Nat)
        BY <1>1
      <4>4. received \o (d \o b) = (received \o d) \o b
        BY ONLY <4>3, InOneRow
      <4> QED
        BY <4>2, <4>4
    <3> QED
      BY <1>1, <1>4, <2>2, <2>3, <3>1, <3>2
  <2>6. CASE p = 2 /\ o # "pipe"
    <3>1. Row' = (received \o d) \o <<>>
      BY <1>6, <2>2, <2>6
    <3> QED
      BY <1>7, <1>8, <2>2, <2>3, <3>1
  <2> QED
    BY <2>4, <2>5, <2>6
<1>12. CASE Loses(p)
  <2>1. /\ received' = received /\ said' = said /\ proc'[p].buffer = <<>> /\ Alone(p) /\ device' = device
    BY <1>12 DEF Loses
  <2>2. proc'[1].buffer = <<>>
    BY <1>1, <2>1 DEF Alone
  <2>3. CASE p = 1
    <3>1. proc'[2].buffer = b
      BY <2>1, <2>3 DEF Alone
    <3> QED
      BY <1>1, <1>4, <1>6, <2>1, <2>2, <3>1
  <2>4. CASE p = 2
    <3>1. Row' = (received \o d) \o <<>>
      BY <1>6, <2>1, <2>4
    <3> QED
      BY <1>7, <1>8, <2>1, <2>2, <3>1
  <2> QED
    BY <2>3, <2>4
<1>13. CASE Fetches(p)
  <2>1. PICK n \in 1 .. Len(d) :
          /\ received' = received \o SubSeq(d, 1, n)
          /\ device' = [device EXCEPT !["pipe"] = SubSeq(@, n + 1, Len(@))]
    BY <1>13 DEF Fetches
  <2>2. device'["pipe"] = SubSeq(d, n + 1, Len(d)) /\ proc' = proc /\ said' = said
    BY <1>13, <2>1 DEF Fetches, Stored, TextInv
  <2> DEFINE front == SubSeq(d, 1, n)
             rest == SubSeq(d, n + 1, Len(d))
  <2>3. front \in Seq(Nat) /\ rest \in Seq(Nat) /\ front \o rest = d
    BY <1>1, CutInTwo
  <2>4. Row' = ((received \o front) \o rest) \o b
    BY <1>6, <2>1, <2>2
  <2>5. (received \o front) \o rest = received \o d
    <3> HIDE DEF front, rest, d
    <3>1. (received \o front) \o rest = received \o (front \o rest)
      <4>1. received \in Seq(Nat) /\ front \in Seq(Nat) /\ rest \in Seq(Nat)
        BY <1>1, <2>3
      <4> QED
        BY ONLY <4>1, InOneRow
    <3> QED
      BY <2>3, <3>1
  <2>6. Row' = Row
    BY <1>1, <2>4, <2>5
  <2> QED
    BY <1>1, <1>4, <2>2, <2>6
<1>14. CASE Doubles(p) /\ proc[2].buffer = <<>>
  <2>1. /\ proc'[1].buffer = <<>> /\ proc'[2].buffer = <<>> /\ UNCHANGED <<device, received, said>>
    BY <1>1, <1>14 DEF Doubles
  <2>2. Row' = Row
    BY <1>1, <1>6, <1>14, <2>1
  <2> QED
    BY <1>4, <2>1, <2>2
<1>15. Doubles(p) => proc[2].buffer = <<>>
  BY DEF Doubles, TextInv
<1> QED
  BY <1>9, <1>10, <1>11, <1>12, <1>13, <1>14, <1>15 DEF Effect

TextsInv ==
    /\ part \in {"process", "pipeline"} => TextInv
    /\ part = "pipeline" => PipeInv

LEMMA RunningStarts == Running!Init => TextInv
<1> SUFFICES ASSUME Running!Init PROVE TextInv
  OBVIOUS
<1>1. PICK s \in Scripts :
        proc = [p \in {1, 2} |->
                  [status |-> IF p = 1 THEN "running" ELSE "none", pipe |-> Running!None, buffer |-> <<>>, script |-> s[p],
                   table |-> IF p = 1 THEN [f \in 0 .. 2 |-> "tty"] ELSE <<>>, careless |-> FALSE, foreign |-> FALSE]]
  BY DEF Running!Init, Running!First, Running!Child
<1>2. device = [d \in {"tty", "file", "pipe"} |-> <<>>] /\ received = <<>> /\ said = 0 /\ twins = {}
  BY DEF Running!Init
<1>3. s[1] \in Seq(Running!Calls) /\ s[2] \in Seq(Running!Calls)
  BY SystemAssumption DEF Running!ProcessAssumption
<1> QED
  BY <1>1, <1>2, <1>3, TextStarts

LEMMA PipingStarts == Piping!Init => TextInv /\ PipeInv
<1> SUFFICES ASSUME Piping!Init PROVE TextInv /\ PipeInv
  OBVIOUS
<1>1. PICK s \in PipeScripts :
        proc = [p \in {1, 2} |->
                  [status |-> IF p = 1 THEN "running" ELSE "none", pipe |-> Running!None, buffer |-> <<>>, script |-> s[p],
                   table |-> IF p = 1 THEN [f \in 0 .. 2 |-> "tty"] ELSE <<>>, careless |-> FALSE, foreign |-> FALSE]]
  BY DEF Piping!Init, Piping!First, Piping!Child, Piping!None, Running!None
<1>2. device = [d \in {"tty", "file", "pipe"} |-> <<>>] /\ received = <<>> /\ said = 0 /\ twins = {}
  BY DEF Piping!Init
<1>3. s[1] \in Seq(Running!Calls) /\ s[2] \in Seq(Running!Calls) /\ \A k \in DOMAIN s[1] : s[1][k] # "print"
  BY SystemAssumption DEF Piping!ProcessAssumption, Piping!Calls, Running!Calls
<1>4. TextInv
  BY <1>1, <1>2, <1>3, TextStarts
<1>5. proc[1].buffer = <<>> /\ proc[2].buffer = <<>> /\ proc[1].script = s[1]
  BY <1>1
<1>6. Row = <<>>
  <2>1. Row = (<<>> \o <<>>) \o <<>>
    BY <1>2, <1>5 DEF Row
  <2> QED
    BY <2>1
<1>7. Rising(Row) /\ UpTo(Row, said)
  BY <1>6 DEF Rising, UpTo
<1>8. DOMAIN s[1] = 1 .. Len(s[1])
  BY <1>3
<1> QED
  BY <1>3, <1>4, <1>5, <1>7, <1>8 DEF PipeInv

LEMMA PipeRead == TextInv /\ PipeInv => Piping!PipeInOrder
<1> SUFFICES ASSUME TextInv, PipeInv PROVE Piping!PipeInOrder
  OBVIOUS
<1> DEFINE d == device["pipe"]
           b == proc[2].buffer
<1>1. received \in Seq(Nat) /\ d \in Seq(Nat) /\ b \in Seq(Nat) /\ said \in Nat
  <2>1. Stored /\ Processed
    BY DEF TextInv
  <2> QED
    BY <2>1, CountTypes DEF Stored
<1>2. Rising((received \o d) \o b) /\ UpTo((received \o d) \o b, said)
  BY DEF PipeInv, Row
<1> HIDE DEF d, b
<1>3. Rising(received \o d) /\ UpTo(received \o d, said)
  <2>1. received \o d \in Seq(Nat)
    BY <1>1
  <2> QED
    BY <1>1, <1>2, <2>1, RowShrinks
<1>4. Rising(received)
  BY <1>1, <1>3, RowShrinks
<1>5. DOMAIN received = 1 .. Len(received)
  BY <1>1
<1> QED
  BY <1>4, <1>5 DEF Rising, Piping!PipeInOrder

LEMMA TextsElsewhere == TextsInv /\ UNCHANGED <<part, process>> => TextsInv'
<1> SUFFICES ASSUME TextsInv, UNCHANGED <<part, process>> PROVE TextsInv'
  OBVIOUS
<1>1. part' = part /\ UNCHANGED <<proc, device, received, said, lost, twins>>
  BY DEF process
<1>2. TextInv => TextInv'
  BY <1>1 DEF TextInv, Processed, Stored, Lying, Waiting
<1>3. PipeInv => PipeInv'
  BY <1>1 DEF PipeInv, Row
<1> QED
  BY <1>1, <1>2, <1>3 DEF TextsInv

(* TextsArrive (pipe.cpp:13-22, unistd.cpp:3-99, stdio.cpp:22-37, 84-90,    *)
(* stdlib.cpp:271-274): whatever the programs call, in whatever order two  *)
(* processes run, the destructor of a careful program closes only the ends *)
(* of its pipe, a text appears twice only if fork doubled it, and none is  *)
(* gone that is not counted as lost; and a pipe keeps the order.           *)
THEOREM Texts == Spec => []TextsArrive
<1>1. Init => TextsInv
  BY RunningStarts, PipingStarts DEF Init, TextsInv
<1>2. TextsInv /\ [Next]_vars => TextsInv'
  <2> SUFFICES ASSUME TextsInv, [Next]_vars PROVE TextsInv'
    OBVIOUS
  <2>1. CASE ProcessStep
    <3>1. part = "process" /\ part' = part /\ TextInv /\ Processed /\ Stored /\ DOMAIN proc = {1, 2}
      BY <2>1 DEF ProcessStep, TextsInv, TextInv, Processed
    <3>2. PICK p \in {1, 2} : Running!Run(p)
      BY <2>1, <3>1 DEF ProcessStep, Running!Next
    <3>3. TextInv'
      BY <3>1, <3>2, RunningEffect, TextStep
    <3> QED
      BY <3>1, <3>3 DEF TextsInv
  <2>2. CASE \E p \in {1, 2} : PipelineStep(p)
    <3>1. PICK p \in {1, 2} : PipelineStep(p)
      BY <2>2
    <3>2. part = "pipeline" /\ part' = part /\ TextInv /\ PipeInv /\ Processed /\ Stored /\ Piping!Run(p)
      BY <3>1 DEF PipelineStep, TextsInv, TextInv
    <3>3. Effect(p)
      BY <3>2, PipingEffect
    <3>4. TextInv' /\ PipeInv'
      BY <3>2, <3>3, TextStep, PipeRowStep
    <3> QED
      BY <3>2, <3>4 DEF TextsInv
  <2>3. CASE ExitStep \/ DirectoryStep \/ NetworkStep \/ UNCHANGED vars
    <3>1. UNCHANGED <<part, process>>
      BY <2>3 DEF ExitStep, DirectoryStep, NetworkStep, vars
    <3> QED
      BY <3>1, TextsElsewhere
  <2> QED
    BY <2>1, <2>2, <2>3 DEF Next
<1>3. TextsInv => TextsArrive
  <2> SUFFICES ASSUME TextsInv PROVE TextsArrive
    OBVIOUS
  <2>1. part = "process" => Running!OwnEndsClosed /\ Running!TextOnce /\ Running!TextArrives
    BY TextsCounted DEF TextsInv
  <2>2. part = "pipeline" => Piping!PipeInOrder /\ Piping!TextArrives
    <3> SUFFICES ASSUME part = "pipeline" PROVE Piping!PipeInOrder /\ Piping!TextArrives
      OBVIOUS
    <3>1. TextInv /\ PipeInv
      BY DEF TextsInv
    <3>2. Running!TextArrives
      BY <3>1, TextsCounted
    <3>3. Piping!TextArrives
      BY <3>2 DEF Running!TextArrives, Piping!TextArrives, Running!Everywhere, Piping!Everywhere, Running!ToSet, Piping!ToSet
    <3> QED
      BY <3>1, <3>3, PipeRead
  <2> QED
    BY <2>1, <2>2 DEF TextsArrive
<1> QED
  BY <1>1, <1>2, <1>3, PTL DEF Spec
===============================================================================
