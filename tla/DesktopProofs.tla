----------------------------- MODULE DesktopProofs ----------------------------
(***************************************************************************)
(* What is proved of Desktop: which windows the server knows, where text   *)
(* is painted and which glyph a character gets, for any number of windows  *)
(* and events, any screen, cell, text and shade, and any file of a font.   *)
(***************************************************************************)
EXTENDS Desktop, FiniteSetTheorems, SequenceTheorems, WellFoundedInduction, TLAPS

-----------------------------------------------------------------------------
(* Counting what is in a queue. *)

Kinds == {"make", "draw", "destroy", "rezorder", "event", "answer"}
Messages == [type : Kinds, id : Nat]
Turns(type, queue) == {k \in DOMAIN queue : queue[k].type = type}

(* Instances have operators of their own for what a set counts.            *)
LEMMA SameCount ==
    /\ \A S : Shown!Cardinality(S) = Cardinality(S) /\ Drawing!Cardinality(S) = Cardinality(S)
    /\ \A S : Shown!IsFiniteSet(S) <=> IsFiniteSet(S)
    /\ \A S : Drawing!IsFiniteSet(S) <=> IsFiniteSet(S)
  BY DEF Shown!Cardinality, Drawing!Cardinality, Cardinality, Shown!IsFiniteSet, Drawing!IsFiniteSet, IsFiniteSet

LEMMA Counted ==
    ASSUME NEW queue \in Seq(Messages), NEW type
    PROVE  /\ IsFiniteSet(Turns(type, queue)) /\ Turns(type, queue) \subseteq 1 .. Len(queue)
           /\ Shown!Of(type, queue) = Cardinality(Turns(type, queue)) /\ Shown!Of(type, queue) \in Nat
<1>1. Len(queue) \in Nat /\ DOMAIN queue = 1 .. Len(queue)
  OBVIOUS
<1>2. Turns(type, queue) \subseteq 1 .. Len(queue)
  BY <1>1 DEF Turns
<1>3. IsFiniteSet(1 .. Len(queue))
  BY <1>1, FS_Interval
<1>4. IsFiniteSet(Turns(type, queue))
  BY <1>2, <1>3, FS_Subset
<1> QED
  BY <1>2, <1>4, FS_CardinalityType, SameCount DEF Shown!Of, Turns

LEMMA CountAppend ==
    ASSUME NEW queue \in Seq(Messages), NEW m \in Messages, NEW type
    PROVE  /\ Append(queue, m) \in Seq(Messages)
           /\ Shown!Of(type, Append(queue, m)) = Shown!Of(type, queue) + IF m.type = type THEN 1 ELSE 0
<1> DEFINE more == Append(queue, m)
           n == Len(queue)
<1>1. /\ more \in Seq(Messages) /\ Len(more) = n + 1 /\ n \in Nat /\ DOMAIN queue = 1 .. n /\ DOMAIN more = 1 .. n + 1
      /\ more[n + 1] = m /\ \A k \in 1 .. n : more[k] = queue[k]
  OBVIOUS
<1>2. n + 1 \notin Turns(type, queue)
  BY <1>1 DEF Turns
<1>3. Turns(type, more) = Turns(type, queue) \cup (IF m.type = type THEN {n + 1} ELSE {})
  <2> HIDE DEF more, n
  <2>1. DOMAIN more = DOMAIN queue \cup {n + 1}
    BY <1>1
  <2> QED
    BY <1>1, <2>1 DEF Turns
<1>4. Cardinality(Turns(type, queue) \cup {n + 1}) = Cardinality(Turns(type, queue)) + 1
  BY <1>2, Counted, FS_AddElement
<1>5. Shown!Of(type, queue) = Cardinality(Turns(type, queue)) /\ Shown!Of(type, queue) \in Nat
  BY Counted
<1>6. Shown!Of(type, more) = Cardinality(Turns(type, more))
  BY <1>1, Counted
<1> HIDE DEF more, n
<1>7. ASSUME m.type = type PROVE Shown!Of(type, more) = Shown!Of(type, queue) + 1
  <2>1. Turns(type, more) = Turns(type, queue) \cup {n + 1}
    BY <1>3, <1>7
  <2> QED
    BY <2>1, <1>4, <1>5, <1>6
<1>8. ASSUME m.type # type PROVE Shown!Of(type, more) = Shown!Of(type, queue)
  <2>1. Turns(type, more) = Turns(type, queue)
    BY <1>3, <1>8
  <2> QED
    BY <2>1, <1>5, <1>6
<1> QED
  BY <1>5, <1>7, <1>8, <1>1 DEF more

LEMMA CountTail ==
    ASSUME NEW queue \in Seq(Messages), queue # <<>>, NEW type
    PROVE  /\ Tail(queue) \in Seq(Messages) /\ Head(queue) \in Messages
           /\ Shown!Of(type, queue) = Shown!Of(type, Tail(queue)) + IF Head(queue).type = type THEN 1 ELSE 0
<1> DEFINE less == Tail(queue)
           n == Len(queue)
           moved == [k \in Turns(type, less) |-> k + 1]
           behind == Turns(type, queue) \ {1}
<1>1. /\ less \in Seq(Messages) /\ Len(less) = n - 1 /\ n \in Nat \ {0} /\ DOMAIN queue = 1 .. n /\ DOMAIN less = 1 .. n - 1
      /\ Head(queue) = queue[1] /\ queue[1] \in Messages /\ \A k \in 1 .. n - 1 : less[k] = queue[k + 1]
  BY HeadTailProperties
<1>2. moved \in Bijection(Turns(type, less), behind)
  <2> HIDE DEF less, n
  <2>1. \A k \in Turns(type, less) : k \in 1 .. n - 1 /\ k + 1 \in behind
    BY <1>1 DEF Turns
  <2>2. \A k \in behind : k - 1 \in Turns(type, less) /\ moved[k - 1] = k
    <3> SUFFICES ASSUME NEW k \in behind PROVE k - 1 \in Turns(type, less) /\ moved[k - 1] = k
      OBVIOUS
    <3>1. k \in 2 .. n /\ queue[k].type = type
      BY <1>1 DEF Turns
    <3>2. k - 1 \in 1 .. n - 1 /\ less[k - 1] = queue[(k - 1) + 1] /\ (k - 1) + 1 = k
      BY <1>1, <3>1
    <3>3. k - 1 \in Turns(type, less)
      BY <1>1, <3>1, <3>2 DEF Turns
    <3> QED
      BY <3>2, <3>3
  <2>3. \A k, l \in Turns(type, less) : moved[k] = moved[l] => k = l
    BY <2>1
  <2>4. moved \in [Turns(type, less) -> behind]
    BY <2>1
  <2> HIDE DEF moved, behind
  <2> QED
    BY <2>2, <2>3, <2>4 DEF Bijection, Injection, Surjection, IsInjective
<1>3. Cardinality(behind) = Cardinality(Turns(type, less))
  <2>1. ExistsBijection(Turns(type, less), behind)
    BY <1>2 DEF ExistsBijection
  <2> QED
    BY <2>1, <1>1, Counted, FS_Bijection
<1>4. Cardinality(behind) = Cardinality(Turns(type, queue)) - IF 1 \in Turns(type, queue) THEN 1 ELSE 0
  BY Counted, FS_RemoveElement, FS_CardinalityType
<1>5. 1 \in Turns(type, queue) <=> Head(queue).type = type
  BY <1>1 DEF Turns
<1>6. Shown!Of(type, queue) = Cardinality(Turns(type, queue)) /\ Shown!Of(type, queue) \in Nat
  BY Counted
<1>7. Shown!Of(type, less) = Cardinality(Turns(type, less)) /\ Shown!Of(type, less) \in Nat
  BY <1>1, Counted
<1> HIDE DEF less, n, behind
<1>8. Shown!Of(type, queue) = Shown!Of(type, less) + IF Head(queue).type = type THEN 1 ELSE 0
  <2>1. CASE Head(queue).type = type
    <3>1. Cardinality(behind) = Cardinality(Turns(type, queue)) - 1
      BY <1>4, <1>5, <2>1
    <3> QED
      BY <3>1, <2>1, <1>3, <1>6, <1>7
  <2>2. CASE ~ (Head(queue).type = type)
    <3>1. Cardinality(behind) = Cardinality(Turns(type, queue))
      BY <1>4, <1>5, <1>6, <2>2
    <3>2. Shown!Of(type, queue) = Shown!Of(type, less)
      BY <3>1, <1>3, <1>6, <1>7
    <3> QED
      BY <3>2, <2>2, <1>7
  <2> QED
    BY <2>1, <2>2
<1> QED
  BY <1>1, <1>8 DEF less

(* A message is in a queue once it was appended, and until it is the head. *)
In(m, queue) == \E k \in DOMAIN queue : queue[k] = m

LEMMA InAppend ==
    ASSUME NEW queue \in Seq(Messages), NEW x \in Messages, NEW m
    PROVE  (In(m, queue) => In(m, Append(queue, x))) /\ In(x, Append(queue, x))
<1>1. /\ DOMAIN queue = 1 .. Len(queue) /\ DOMAIN Append(queue, x) = 1 .. Len(queue) + 1 /\ Len(queue) \in Nat
      /\ Append(queue, x)[Len(queue) + 1] = x /\ \A k \in 1 .. Len(queue) : Append(queue, x)[k] = queue[k]
  OBVIOUS
<1> QED
  BY <1>1 DEF In

LEMMA InTail ==
    ASSUME NEW queue \in Seq(Messages), queue # <<>>, NEW m, In(m, queue)
    PROVE  Head(queue) = m \/ In(m, Tail(queue))
<1> DEFINE less == Tail(queue)
           n == Len(queue)
<1>1. /\ n \in Nat \ {0} /\ DOMAIN queue = 1 .. n /\ DOMAIN less = 1 .. n - 1
      /\ Head(queue) = queue[1] /\ \A k \in 1 .. n - 1 : less[k] = queue[k + 1]
  BY HeadTailProperties
<1>2. PICK k \in 1 .. n : queue[k] = m
  BY <1>1 DEF In
<1>3. CASE k = 1
  BY <1>1, <1>2, <1>3
<1>4. CASE k # 1
  <2> HIDE DEF less, n
  <2>1. k - 1 \in 1 .. n - 1 /\ (k - 1) + 1 = k
    BY <1>1, <1>4
  <2>2. less[k - 1] = m
    BY <1>1, <1>2, <2>1
  <2>3. In(m, less)
    BY <1>1, <2>1, <2>2 DEF In
  <2> QED
    BY <2>3 DEF less
<1> QED
  BY <1>3, <1>4

(* The requests of a queue, given the windows that are, or were, there and *)
(* those destroyed: a window drawn is there or made earlier in the queue.  *)
Make(shm) == [type |-> "make", id |-> shm]
InOrder(queue, there, gone) ==
    \A k \in DOMAIN queue :
        /\ queue[k].type = "destroy" => queue[k].id \in gone
        /\ queue[k].type = "draw" =>
              /\ queue[k].id # 0
              /\ queue[k].id \in there \/ \E l \in DOMAIN queue : l < k /\ queue[l] = Make(queue[k].id)

LEMMA OrderAppend ==
    ASSUME NEW queue \in Seq(Messages), NEW m \in Messages, NEW there, NEW gone, NEW thereNow, NEW goneNow,
           InOrder(queue, there, gone), there \subseteq thereNow, gone \subseteq goneNow,
           m.type = "destroy" => m.id \in goneNow,
           m.type = "draw" => m.id # 0 /\ (m.id \in thereNow \/ In(Make(m.id), queue))
    PROVE  InOrder(Append(queue, m), thereNow, goneNow)
<1> DEFINE more == Append(queue, m)
           n == Len(queue)
<1>1. /\ n \in Nat /\ DOMAIN queue = 1 .. n /\ DOMAIN more = 1 .. n + 1
      /\ more[n + 1] = m /\ \A k \in 1 .. n : more[k] = queue[k]
  OBVIOUS
<1> HIDE DEF more, n
<1>2. ASSUME NEW k \in 1 .. n
      PROVE  /\ more[k].type = "destroy" => more[k].id \in goneNow
             /\ more[k].type = "draw" =>
                   /\ more[k].id # 0
                   /\ more[k].id \in thereNow \/ \E l \in DOMAIN more : l < k /\ more[l] = Make(more[k].id)
  <2>1. more[k] = queue[k] /\ k \in DOMAIN queue
    BY <1>1
  <2>2. ASSUME NEW l \in DOMAIN queue PROVE l \in DOMAIN more /\ more[l] = queue[l]
    BY <1>1
  <2> QED
    BY <2>1, <2>2 DEF InOrder
<1>3. ASSUME m.type = "draw", In(Make(m.id), queue)
      PROVE  \E l \in DOMAIN more : l < n + 1 /\ more[l] = Make(m.id)
  BY <1>1, <1>3 DEF In
<1>4. \A k \in DOMAIN more : k \in 1 .. n \/ k = n + 1
  BY <1>1
<1>5. InOrder(more, thereNow, goneNow)
  BY <1>1, <1>2, <1>3, <1>4 DEF InOrder
<1> QED
  BY <1>5 DEF more

LEMMA OrderTail ==
    ASSUME NEW queue \in Seq(Messages), queue # <<>>, NEW there, NEW gone, NEW thereNow,
           InOrder(queue, there, gone), there \subseteq thereNow,
           Head(queue).type = "make" /\ Head(queue).id # 0 => Head(queue).id \in thereNow
    PROVE  InOrder(Tail(queue), thereNow, gone)
<1> DEFINE less == Tail(queue)
           n == Len(queue)
<1>1. /\ n \in Nat \ {0} /\ DOMAIN queue = 1 .. n /\ DOMAIN less = 1 .. n - 1
      /\ Head(queue) = queue[1] /\ \A k \in 1 .. n - 1 : less[k] = queue[k + 1]
  BY HeadTailProperties
<1> HIDE DEF less, n
<1>2. ASSUME NEW k \in 1 .. n - 1
      PROVE  /\ less[k].type = "destroy" => less[k].id \in gone
             /\ less[k].type = "draw" =>
                   /\ less[k].id # 0
                   /\ less[k].id \in thereNow \/ \E l \in DOMAIN less : l < k /\ less[l] = Make(less[k].id)
  <2>1. less[k] = queue[k + 1] /\ k + 1 \in DOMAIN queue
    BY <1>1
  <2>2. ASSUME NEW l \in DOMAIN queue, l < k + 1, queue[l] = Make(less[k].id), less[k].id # 0
        PROVE  less[k].id \in thereNow \/ \E o \in DOMAIN less : o < k /\ less[o] = Make(less[k].id)
    <3>1. CASE l = 1
      BY <1>1, <2>2, <3>1 DEF Make
    <3>2. CASE l # 1
      <4>1. l - 1 \in 1 .. n - 1 /\ (l - 1) + 1 = l /\ l - 1 < k
        BY <1>1, <2>2, <3>2
      <4>2. less[l - 1] = Make(less[k].id)
        BY <1>1, <2>2, <4>1
      <4> QED
        BY <1>1, <4>1, <4>2
    <3> QED
      BY <3>1, <3>2
  <2>3. /\ queue[k + 1].type = "destroy" => queue[k + 1].id \in gone
        /\ queue[k + 1].type = "draw" =>
              /\ queue[k + 1].id # 0
              /\ queue[k + 1].id \in there \/ \E l \in DOMAIN queue : l < k + 1 /\ queue[l] = Make(queue[k + 1].id)
    BY <2>1 DEF InOrder
  <2> QED
    BY <2>1, <2>2, <2>3
<1>3. InOrder(less, thereNow, gone)
  BY <1>1, <1>2 DEF InOrder
<1> QED
  BY <1>3 DEF less

-----------------------------------------------------------------------------
(* Windows.  Behind what WindowsKnown says stands that messages are served *)
(* in order: a window with an id is there, was destroyed, or its request   *)
(* is in the queue, in front of every drawing of it; and a constructor     *)
(* that waits has its request or its answer still before it.               *)

Mail == [type : {"event", "answer"}, id : Nat]
WindowTypes ==
    /\ phase \in [Windows -> {"new", "made"}] /\ id \in [Windows -> Nat]
    /\ gbuf = [w \in Windows |-> id[w] # 0]
    /\ at \in {"program", "send", "wait", "receive"} /\ ((at = "program") = (who = 0))
    /\ at # "program" => who \in Windows /\ phase[who] = "new"
    /\ toServer \in Seq(Messages) /\ Len(toServer) <= MaxQueue /\ inbox \in Seq(Mail)
    /\ count \in [events : Nat, calls : Nat, lost : Nat, stray : Nat]

WithMemory == {w \in Windows : id[w] # 0}
IdsApart ==
    /\ \A w \in Windows : id[w] <= Cardinality(WithMemory)
    /\ \A v, w \in Windows : v # w /\ id[v] = id[w] => id[v] = 0
    /\ \A w \in Windows : id[w] # 0 => phase[w] = "made" \/ (at # "program" /\ w = who)

Waiting == at \in {"wait", "receive"}
AnswerComing == Waiting => In(Make(id[who]), toServer) \/ Shown!Of("answer", inbox) > 0

WindowsThere ==
    \A w \in Windows : id[w] # 0 /\ ~ (at = "send" /\ w = who) =>
        id[w] \in shown \cup destroyed \/ In(Make(id[w]), toServer)

WindowInv ==
    /\ WindowTypes /\ IdsApart /\ AnswerComing /\ WindowsThere
    /\ Shown!AnswersOwed /\ Shown!OneEventEach /\ Shown!FramesKnown
    /\ InOrder(toServer, shown \cup destroyed, destroyed)

LEMMA WindowConstants ==
    /\ Windows \subseteq Nat \ {0} /\ IsFiniteSet(Windows) /\ MaxQueue \in Nat \ {0}
    /\ IsFiniteSet(WithMemory) /\ Cardinality(WithMemory) \in Nat
    /\ IsFiniteSet(Shown!Made) /\ Cardinality(Shown!Made) \in Nat
<1>1. Shown!WindowAssumption
  BY DesktopAssumption
<1>2. Windows \subseteq Nat \ {0} /\ IsFiniteSet(Windows) /\ MaxQueue \in Nat \ {0}
  BY <1>1, SameCount DEF Shown!WindowAssumption
<1>3. WithMemory \subseteq Windows /\ Shown!Made \subseteq Windows
  BY DEF WithMemory, Shown!Made
<1> QED
  BY <1>2, <1>3, FS_Subset, FS_CardinalityType

LEMMA MailCounted ==
    ASSUME NEW queue \in Seq(Mail)
    PROVE  queue \in Seq(Messages) /\ Shown!Of("answer", queue) \in Nat
<1>1. Mail \subseteq Messages
  BY DEF Mail, Messages, Kinds
<1>2. queue \in Seq(Messages)
  BY <1>1, SeqMonotonic
<1> QED
  BY <1>2, Counted

(* The constructor has its memory, and an id nobody has, or neither.       *)
LEMMA ConstructStep ==
    ASSUME WindowInv, NEW w \in Windows, NEW ok \in BOOLEAN, Shown!Construct(w, ok)
    PROVE  WindowInv'
<1> DEFINE card == Cardinality(WithMemory)
           new == IF ok THEN card + 1 ELSE 0
<1>1. /\ at = "program" /\ phase[w] = "new" /\ at' = "send" /\ who' = w
      /\ UNCHANGED <<phase, toServer, inbox, shown, refused, destroyed, count>>
      /\ id' = [id EXCEPT ![w] = new] /\ gbuf' = [gbuf EXCEPT ![w] = ok]
  BY SameCount DEF Shown!Construct, Shown!Library, Shown!create, WithMemory
<1>2. WindowTypes /\ IdsApart /\ WindowsThere
  BY DEF WindowInv
<1>3. card \in Nat /\ new \in Nat /\ w \in Nat /\ w # 0 /\ (ok <=> new # 0) /\ (ok => new = card + 1) /\ (~ ok => new = 0)
  BY WindowConstants
<1>4. id \in [Windows -> Nat] /\ id[w] = 0
  BY <1>1, <1>2 DEF WindowTypes, IdsApart
<1> HIDE DEF new
<1>5. id' \in [Windows -> Nat] /\ id'[w] = new /\ \A v \in Windows : v # w => id'[v] = id[v]
  BY <1>1, <1>3, <1>4
<1>6. WindowTypes'
  <2>1. gbuf' = [v \in Windows |-> id'[v] # 0]
    <3>1. gbuf = [v \in Windows |-> id[v] # 0]
      BY <1>2 DEF WindowTypes
    <3>2. gbuf' = [v \in Windows |-> IF v = w THEN ok ELSE id[v] # 0]
      BY <1>1, <3>1, Zenon
    <3>3. \A v \in Windows : (IF v = w THEN ok ELSE id[v] # 0) = (id'[v] # 0)
      BY <1>3, <1>5
    <3> QED
      BY <3>2, <3>3, Zenon
  <2> QED
    BY <1>1, <1>2, <1>3, <1>5, <2>1 DEF WindowTypes
<1>7. WithMemory' = WithMemory \cup (IF ok THEN {w} ELSE {}) /\ w \notin WithMemory
  BY <1>3, <1>4, <1>5 DEF WithMemory
<1>8. (ok => Cardinality(WithMemory') = card + 1) /\ (~ ok => Cardinality(WithMemory') = card)
  BY <1>3, <1>7, WindowConstants, FS_AddElement
<1>9. card <= Cardinality(WithMemory') /\ new <= Cardinality(WithMemory') /\ Cardinality(WithMemory') \in Nat
  BY <1>3, <1>8
<1>10. \A v \in Windows : v # w => id'[v] <= card /\ (id'[v] # 0 => phase[v] = "made")
  BY <1>1, <1>2, <1>5 DEF IdsApart
<1> HIDE DEF card
<1>11. IdsApart'
  <2>1. \A v \in Windows : id'[v] <= Cardinality(WithMemory')
    BY <1>3, <1>5, <1>9, <1>10
  <2>2. ASSUME NEW u \in Windows, NEW v \in Windows, u # v, id'[u] = id'[v] PROVE id'[u] = 0
    <3>1. CASE u = w
      <4>1. v # w /\ id'[v] = new /\ id'[u] = new
        BY <3>1, <2>2, <1>5
      <4>2. new <= card
        BY <4>1, <1>10
      <4> QED
        BY <4>1, <4>2, <1>3
    <3>2. CASE v = w
      BY <3>2, <2>2, <1>3, <1>4, <1>5, <1>10
    <3>3. CASE u # w /\ v # w
      BY <3>3, <2>2, <1>2, <1>5 DEF IdsApart
    <3> QED
      BY <3>1, <3>2, <3>3
  <2> QED
    BY <1>1, <1>10, <2>1, <2>2 DEF IdsApart, WithMemory
<1>12. WindowsThere'
  BY <1>1, <1>2, <1>5 DEF WindowsThere, WindowTypes
<1>13. Shown!Unanswered' = Shown!Unanswered /\ ~ Waiting' /\ Shown!Made' = Shown!Made
  BY <1>1 DEF Shown!Unanswered, Waiting, Shown!Made
<1>14. Shown!AnswersOwed' /\ Shown!OneEventEach' /\ Shown!FramesKnown'
  BY <1>1, <1>13, SameCount DEF WindowInv, Shown!AnswersOwed, Shown!OneEventEach, Shown!FramesKnown
<1> QED
  BY <1>1, <1>6, <1>11, <1>12, <1>13, <1>14 DEF WindowInv, AnswerComing

(* The request leaves: with no memory too, and then the server has nothing *)
(* to make of it but its answer.                                           *)
LEMMA AskStep ==
    ASSUME WindowInv, Shown!Ask
    PROVE  WindowInv'
<1> DEFINE m == Make(id[who])
<1>1. /\ at = "send" /\ at' = "wait" /\ Len(toServer) < MaxQueue /\ toServer' = Append(toServer, m)
      /\ UNCHANGED <<phase, id, gbuf, ginfo, who, inbox, shown, refused, destroyed, count>>
  BY DEF Shown!Ask, Shown!send_msg, Shown!Message, Make
<1>2. WindowTypes /\ IdsApart /\ WindowsThere /\ Shown!AnswersOwed /\ InOrder(toServer, shown \cup destroyed, destroyed)
  BY DEF WindowInv
<1>3. m \in Messages /\ m.type = "make" /\ toServer \in Seq(Messages)
  BY <1>1, <1>2 DEF WindowTypes, Make, Messages, Kinds
<1>4. toServer' \in Seq(Messages) /\ Len(toServer') <= MaxQueue
  BY <1>1, <1>3, WindowConstants
<1>5. Shown!Of("make", toServer') = Shown!Of("make", toServer) + 1 /\ Shown!Of("make", toServer) \in Nat
  BY <1>1, <1>3, CountAppend, Counted
<1>6. In(m, toServer') /\ \A x : In(x, toServer) => In(x, toServer')
  BY <1>1, <1>3, InAppend
<1>7. InOrder(toServer', shown \cup destroyed, destroyed)
  BY <1>1, <1>2, <1>3, OrderAppend
<1>8. Shown!Of("answer", inbox) \in Nat /\ count.stray \in Nat /\ count.lost \in Nat
  BY <1>2, MailCounted DEF WindowTypes
<1> HIDE DEF m
<1>9. WindowTypes'
  BY <1>1, <1>2, <1>4 DEF WindowTypes
<1>10. IdsApart'
  BY <1>1, <1>2 DEF IdsApart, WithMemory
<1>11. AnswerComing'
  BY <1>1, <1>6 DEF AnswerComing, Make, m
<1>12. WindowsThere'
  BY <1>1, <1>2, <1>6 DEF WindowsThere, Make, m
<1>13. Shown!Unanswered = 0 /\ Shown!Unanswered' = 1
  BY <1>1 DEF Shown!Unanswered
<1>14. Shown!AnswersOwed'
  BY SMTT(30), <1>1, <1>2, <1>5, <1>8, <1>13 DEF Shown!AnswersOwed
<1> QED
  BY <1>1, <1>7, <1>9, <1>10, <1>11, <1>12, <1>14
  DEF WindowInv, Shown!OneEventEach, Shown!FramesKnown, Shown!Made

LEMMA WaitStep ==
    ASSUME WindowInv, Shown!wait_for_msg
    PROVE  WindowInv'
<1>1. /\ at = "wait" /\ at' = "receive"
      /\ UNCHANGED <<phase, id, gbuf, ginfo, who, toServer, inbox, shown, refused, destroyed, count>>
  BY DEF Shown!wait_for_msg
<1>2. Shown!Unanswered' = Shown!Unanswered /\ Waiting /\ Waiting'
  BY <1>1 DEF Shown!Unanswered, Waiting
<1>3. WindowTypes' /\ IdsApart' /\ AnswerComing' /\ WindowsThere'
  BY <1>1, <1>2 DEF WindowInv, WindowTypes, IdsApart, WithMemory, AnswerComing, WindowsThere
<1> QED
  BY <1>1, <1>2, <1>3 DEF WindowInv, Shown!AnswersOwed, Shown!OneEventEach, Shown!FramesKnown, Shown!Made

(* What is taken from the inbox is an answer or an event.                  *)
LEMMA Taken ==
    ASSUME WindowTypes, Shown!receive_msg
    PROVE  /\ inbox' \in Seq(Mail) /\ Shown!Of("answer", inbox') \in Nat /\ Shown!Of("answer", inbox) \in Nat
           /\ \/ Head(inbox).type = "answer" /\ Shown!Of("answer", inbox) = Shown!Of("answer", inbox') + 1
              \/ Head(inbox).type = "event" /\ Shown!Of("answer", inbox) = Shown!Of("answer", inbox')
<1>1. inbox # <<>> /\ inbox' = Tail(inbox) /\ inbox \in Seq(Mail)
  BY DEF WindowTypes, Shown!receive_msg
<1>2. inbox' \in Seq(Mail) /\ Head(inbox) \in Mail
  BY <1>1
<1>3. Shown!Of("answer", inbox) = Shown!Of("answer", inbox') + IF Head(inbox).type = "answer" THEN 1 ELSE 0
  BY <1>1, MailCounted, CountTail
<1>4. Shown!Of("answer", inbox') \in Nat /\ Shown!Of("answer", inbox) \in Nat
  BY <1>1, <1>2, MailCounted
<1> QED
  BY <1>2, <1>3, <1>4 DEF Mail

(* The constructor is through, with an answer or with an event in its      *)
(* place; then an answer is still to come.                                 *)
LEMMA ResponseStep ==
    ASSUME WindowInv, Shown!Response
    PROVE  WindowInv'
<1>1. /\ at = "receive" /\ Shown!receive_msg /\ at' = "program" /\ who' = 0 /\ phase' = [phase EXCEPT ![who] = "made"]
      /\ count' = IF Head(inbox).type = "event" THEN [count EXCEPT !.lost = @ + 1] ELSE count
      /\ UNCHANGED <<id, gbuf, ginfo, toServer, shown, refused, destroyed>>
  BY DEF Shown!Response, Shown!Bump, Shown!NoWindow
<1>2. WindowTypes /\ IdsApart /\ WindowsThere /\ Shown!AnswersOwed /\ Shown!OneEventEach
  BY DEF WindowInv
<1>3. /\ who \in Windows /\ phase[who] = "new" /\ phase \in [Windows -> {"new", "made"}]
      /\ count \in [events : Nat, calls : Nat, lost : Nat, stray : Nat] /\ toServer \in Seq(Messages)
  BY <1>1, <1>2 DEF WindowTypes
<1>4. phase' \in [Windows -> {"new", "made"}] /\ phase'[who] = "made" /\ \A w \in Windows : w # who => phase'[w] = phase[w]
  BY <1>1, <1>3
<1>5. /\ count' \in [events : Nat, calls : Nat, lost : Nat, stray : Nat] /\ count'.stray = count.stray
      /\ Head(inbox).type = "event" => count'.lost = count.lost + 1
      /\ Head(inbox).type = "answer" => count'.lost = count.lost
  BY <1>1, <1>3
<1>6. Shown!Made' = Shown!Made \cup {who} /\ who \notin Shown!Made
  BY <1>3, <1>4 DEF Shown!Made
<1>7. Cardinality(Shown!Made') = Cardinality(Shown!Made) + 1
  BY <1>6, WindowConstants, FS_AddElement
<1>8. WindowTypes'
  BY <1>1, <1>2, <1>4, <1>5, Taken DEF WindowTypes
<1>9. IdsApart' /\ WindowsThere' /\ AnswerComing'
  BY SMTT(30), <1>1, <1>2, <1>3, <1>4 DEF IdsApart, WithMemory, WindowsThere, AnswerComing, Waiting
<1>10. Shown!Unanswered = 1 /\ Shown!Unanswered' = 0
  BY <1>1 DEF Shown!Unanswered
<1>11. Shown!Of("make", toServer) \in Nat
  BY <1>3, Counted
<1>12. Shown!AnswersOwed'
  <2>1. toServer' = toServer
    BY <1>1
  <2> QED
    BY SMTT(30), <1>1, <1>2, <1>3, <1>5, <1>10, <1>11, <2>1, Taken DEF Shown!AnswersOwed
<1>13. Shown!OneEventEach'
  BY SMTT(30), <1>1, <1>2, <1>3, <1>5, <1>7, SameCount, WindowConstants, Taken DEF Shown!OneEventEach
<1> QED
  BY <1>1, <1>8, <1>9, <1>12, <1>13 DEF WindowInv, Shown!FramesKnown

(* The program's own loop.                                                 *)
LEMMA ProgramStep ==
    ASSUME WindowInv, Shown!Program
    PROVE  WindowInv'
<1>1. /\ at = "program" /\ Shown!receive_msg
      /\ count' = IF Head(inbox).type = "answer" THEN [count EXCEPT !.stray = @ + 1] ELSE count
      /\ UNCHANGED <<phase, id, gbuf, ginfo, at, who, toServer, shown, refused, destroyed>>
  BY DEF Shown!Program, Shown!Bump, Shown!Library
<1>2. WindowTypes /\ Shown!AnswersOwed /\ Shown!OneEventEach
  BY DEF WindowInv
<1>3. count \in [events : Nat, calls : Nat, lost : Nat, stray : Nat] /\ toServer \in Seq(Messages)
  BY <1>2 DEF WindowTypes
<1>4. /\ count' \in [events : Nat, calls : Nat, lost : Nat, stray : Nat] /\ count'.lost = count.lost
      /\ Head(inbox).type = "answer" => count'.stray = count.stray + 1
      /\ Head(inbox).type = "event" => count'.stray = count.stray
  BY <1>1, <1>3
<1>5. WindowTypes'
  BY <1>1, <1>2, <1>4, Taken DEF WindowTypes
<1>6. IdsApart' /\ WindowsThere' /\ AnswerComing'
  BY <1>1 DEF WindowInv, IdsApart, WithMemory, WindowsThere, AnswerComing, Waiting
<1>7. Shown!Unanswered = 0 /\ Shown!Unanswered' = 0 /\ Shown!Made' = Shown!Made
  BY <1>1 DEF Shown!Unanswered, Shown!Made
<1>8. Shown!Of("make", toServer) \in Nat
  BY <1>3, Counted
<1>9. Shown!AnswersOwed'
  <2>1. Shown!Of("make", toServer') = Shown!Of("make", toServer)
    BY <1>1
  <2>2. Shown!Of("answer", inbox') + count'.stray = Shown!Of("answer", inbox) + count.stray
    BY SMTT(30), <1>1, <1>2, <1>3, <1>4, Taken
  <2>3. /\ count.lost \in Nat /\ count.stray \in Nat /\ count'.stray \in Nat
        /\ Shown!Of("answer", inbox') \in Nat /\ Shown!Of("answer", inbox) \in Nat
    BY <1>1, <1>2, <1>3, <1>4, Taken
  <2> QED
    BY <1>2, <1>4, <1>7, <1>8, <2>1, <2>2, <2>3 DEF Shown!AnswersOwed
<1> QED
  BY <1>1, <1>2, <1>4, <1>5, <1>6, <1>7, <1>9, SameCount DEF WindowInv, Shown!FramesKnown, Shown!OneEventEach

LEMMA EventStep ==
    ASSUME WindowInv, Shown!Event
    PROVE  WindowInv'
<1> DEFINE m == [type |-> "event", id |-> 0]
<1>1. /\ inbox' = Append(inbox, m) /\ count' = [count EXCEPT !.events = @ + 1]
      /\ UNCHANGED <<phase, id, gbuf, ginfo, at, who, toServer, shown, refused, destroyed>>
  BY DEF Shown!Event, Shown!Bump, Shown!Message
<1>2. WindowTypes /\ Shown!AnswersOwed /\ Shown!OneEventEach
  BY DEF WindowInv
<1>3. count \in [events : Nat, calls : Nat, lost : Nat, stray : Nat] /\ inbox \in Seq(Mail) /\ m \in Mail /\ m \in Messages
  BY <1>2 DEF WindowTypes, Mail, Messages, Kinds
<1>4. inbox' \in Seq(Mail)
  BY <1>1, <1>3
<1>5. Shown!Of("answer", inbox') = Shown!Of("answer", inbox)
  BY SMTT(30), <1>1, <1>3, MailCounted, CountAppend
<1>6. count' \in [events : Nat, calls : Nat, lost : Nat, stray : Nat] /\ count'.lost = count.lost /\ count'.stray = count.stray
  <2>1. count' = [count EXCEPT !.events = @ + 1] /\ count \in [events : Nat, calls : Nat, lost : Nat, stray : Nat]
    BY <1>1, <1>3
  <2> QED
    BY <2>1
<1> HIDE DEF m
<1>7. WindowTypes'
  BY <1>1, <1>2, <1>4, <1>6 DEF WindowTypes
<1>8. IdsApart' /\ WindowsThere' /\ AnswerComing'
  BY <1>1, <1>5 DEF WindowInv, IdsApart, WithMemory, WindowsThere, AnswerComing, Waiting
<1>9. Shown!Unanswered' = Shown!Unanswered /\ Shown!Made' = Shown!Made
  BY <1>1 DEF Shown!Unanswered, Shown!Made
<1> QED
  BY <1>1, <1>2, <1>5, <1>6, <1>7, <1>8, <1>9, SameCount
  DEF WindowInv, Shown!FramesKnown, Shown!OneEventEach, Shown!AnswersOwed

(* draw_frame, destroy and rezorder.                                       *)
LEMMA RequestStep ==
    ASSUME WindowInv, NEW type \in {"draw", "destroy", "rezorder"}, NEW shm \in Nat, Shown!Request(type, shm),
           type = "draw" => shm # 0 /\ (shm \in shown \cup destroyed \/ In(Make(shm), toServer))
    PROVE  WindowInv'
<1> DEFINE m == [type |-> type, id |-> shm]
<1>1. /\ at = "program" /\ Len(toServer) < MaxQueue /\ toServer' = Append(toServer, m)
      /\ count' = [count EXCEPT !.calls = @ + 1]
      /\ destroyed' = IF type = "destroy" THEN destroyed \cup {shm} ELSE destroyed
      /\ UNCHANGED <<phase, id, gbuf, ginfo, at, who, inbox, shown, refused>>
  BY DEF Shown!Request, Shown!Bump, Shown!Message, Shown!send_msg, Shown!Library
<1>2. /\ WindowTypes /\ Shown!AnswersOwed /\ Shown!OneEventEach /\ Shown!FramesKnown /\ WindowsThere
      /\ InOrder(toServer, shown \cup destroyed, destroyed)
  BY DEF WindowInv
<1>3. m \in Messages /\ m.type = type /\ m.id = shm /\ toServer \in Seq(Messages) /\ type # "make"
  BY <1>2 DEF WindowTypes, Messages, Kinds
<1>4. toServer' \in Seq(Messages) /\ Len(toServer') <= MaxQueue
  BY <1>1, <1>3, WindowConstants
<1>5. Shown!Of("make", toServer') = Shown!Of("make", toServer)
  BY <1>1, <1>3, CountAppend, Counted
<1>6. \A x : In(x, toServer) => In(x, toServer')
  BY <1>1, <1>3, InAppend
<1>7. count' \in [events : Nat, calls : Nat, lost : Nat, stray : Nat] /\ count'.lost = count.lost /\ count'.stray = count.stray
  <2>1. count' = [count EXCEPT !.calls = @ + 1] /\ count \in [events : Nat, calls : Nat, lost : Nat, stray : Nat]
    BY <1>1, <1>2 DEF WindowTypes
  <2> QED
    BY <2>1
<1>8. destroyed \subseteq destroyed' /\ (type = "destroy" => shm \in destroyed')
  BY <1>1
<1>9. InOrder(toServer', (shown \cup destroyed)', destroyed')
  <2> DEFINE now == shown \cup destroyed'
  <2>1. InOrder(Append(toServer, m), now, destroyed')
    <3>1. shown \cup destroyed \subseteq now
      BY <1>8
    <3>2. /\ m.type = "destroy" => m.id \in destroyed'
          /\ m.type = "draw" => m.id # 0 /\ (m.id \in now \/ In(Make(m.id), toServer))
      BY <1>3, <1>8
    <3> HIDE DEF now, m
    <3> QED
      BY <1>2, <1>3, <1>8, <3>1, <3>2, OrderAppend
  <2> QED
    BY <1>1, <2>1
<1> HIDE DEF m
<1>10. WindowTypes'
  BY <1>1, <1>2, <1>4, <1>7 DEF WindowTypes
<1>11. IdsApart' /\ WindowsThere' /\ AnswerComing'
  BY <1>1, <1>6, <1>8 DEF WindowInv, IdsApart, WithMemory, WindowsThere, AnswerComing, Waiting
<1>12. Shown!Unanswered' = Shown!Unanswered /\ Shown!Made' = Shown!Made
  BY <1>1 DEF Shown!Unanswered, Shown!Made
<1>13. Shown!AnswersOwed' /\ Shown!OneEventEach' /\ Shown!FramesKnown'
  BY <1>1, <1>2, <1>5, <1>7, <1>8, <1>12, SameCount DEF Shown!FramesKnown, Shown!OneEventEach, Shown!AnswersOwed
<1> QED
  BY <1>9, <1>10, <1>11, <1>13 DEF WindowInv

LEMMA CallStep ==
    ASSUME WindowInv, (\E w \in Windows : Shown!draw_frame(w) \/ Shown!destroy(w)) \/ Shown!rezorder
    PROVE  WindowInv'
<1>1. /\ id \in [Windows -> Nat] /\ gbuf = [w \in Windows |-> id[w] # 0] /\ WindowsThere
  BY DEF WindowInv, WindowTypes
<1>2. ASSUME NEW w \in Windows, Shown!draw_frame(w) PROVE WindowInv'
  <2>1. gbuf[w] /\ Shown!Request("draw", id[w]) /\ at = "program"
    BY <1>2 DEF Shown!draw_frame, Shown!Request, Shown!Library
  <2>2. id[w] \in Nat /\ id[w] # 0
    BY <1>1, <2>1
  <2>3. id[w] \in shown \cup destroyed \/ In(Make(id[w]), toServer)
    BY <1>1, <2>1, <2>2 DEF WindowsThere
  <2> QED
    BY <2>1, <2>2, <2>3, RequestStep
<1>3. ASSUME NEW w \in Windows, Shown!destroy(w) PROVE WindowInv'
  <2>1. Shown!Request("destroy", id[w]) /\ id[w] \in Nat
    BY <1>1, <1>3 DEF Shown!destroy
  <2> QED
    BY <2>1, RequestStep
<1>4. ASSUME Shown!rezorder PROVE WindowInv'
  BY <1>4, RequestStep DEF Shown!rezorder
<1> QED
  BY <1>2, <1>3, <1>4

(* The server makes a window, takes one away, or finds it there to draw.   *)
LEMMA ServerServes ==
    ASSUME WindowInv, Shown!Server
    PROVE  WindowInv'
<1> DEFINE m == Head(toServer)
<1>1. /\ toServer # <<>> /\ toServer' = Tail(toServer)
      /\ shown' = CASE m.type = "make" /\ m.id # 0 -> shown \cup {m.id} [] m.type = "destroy" -> shown \ {m.id} [] OTHER -> shown
      /\ inbox' = IF m.type = "make" THEN Append(inbox, [type |-> "answer", id |-> m.id]) ELSE inbox
      /\ refused' = IF m.type = "draw" /\ m.id \notin shown THEN refused \cup {m.id} ELSE refused
      /\ UNCHANGED <<phase, id, gbuf, ginfo, at, who, destroyed, count>>
  BY DEF Shown!Server, Shown!Message
<1>2. /\ WindowTypes /\ Shown!AnswersOwed /\ Shown!OneEventEach /\ Shown!FramesKnown /\ WindowsThere /\ AnswerComing
      /\ InOrder(toServer, shown \cup destroyed, destroyed)
  BY DEF WindowInv
<1>3. toServer \in Seq(Messages) /\ inbox \in Seq(Mail) /\ Len(toServer) \in Nat /\ Len(toServer) <= MaxQueue
  BY <1>2 DEF WindowTypes
<1>4. m \in Messages /\ m = toServer[1] /\ 1 \in DOMAIN toServer /\ \A k \in DOMAIN toServer : ~ (k < 1)
  BY <1>1, <1>3
<1>5. toServer' \in Seq(Messages) /\ Len(toServer') <= MaxQueue
  BY <1>1, <1>3, WindowConstants
<1>6. /\ m.type = "destroy" => m.id \in destroyed
      /\ m.type = "draw" => m.id \in shown \cup destroyed
  BY <1>2, <1>4 DEF InOrder
<1> HIDE DEF m
<1>7. /\ shown \cup destroyed \subseteq shown' \cup destroyed
      /\ m.type = "make" /\ m.id # 0 => m.id \in shown' \cup destroyed
  <2>1. CASE m.type = "make"
    BY <1>1, <2>1
  <2>2. CASE m.type = "destroy"
    BY <1>1, <1>6, <2>2
  <2>3. CASE m.type # "make" /\ m.type # "destroy"
    BY <1>1, <2>3
  <2> QED
    BY <2>1, <2>2, <2>3
<1>8. InOrder(toServer', (shown \cup destroyed)', destroyed')
  <2>1. InOrder(Tail(toServer), shown' \cup destroyed, destroyed)
    BY <1>1, <1>2, <1>3, <1>7, OrderTail DEF m
  <2> QED
    BY <1>1, <2>1
<1>9. Shown!FramesKnown'
  BY <1>1, <1>2, <1>6 DEF Shown!FramesKnown
<1>10. inbox' \in Seq(Mail)
  <2>1. CASE m.type = "make"
    <3> DEFINE a == [type |-> "answer", id |-> m.id]
    <3>1. m.id \in Nat /\ inbox' = Append(inbox, a)
      BY <1>1, <1>4, <2>1 DEF Messages
    <3>2. a \in Mail
      BY <3>1 DEF Mail
    <3> HIDE DEF a
    <3> QED
      BY <3>1, <3>2, <1>3
  <2>2. CASE m.type # "make"
    BY <1>1, <1>3, <2>2
  <2> QED
    BY <2>1, <2>2
<1>11. WindowTypes'
  BY <1>1, <1>2, <1>5, <1>10 DEF WindowTypes
<1>12. \A x : In(x, toServer) => x = m \/ In(x, toServer')
  BY <1>1, <1>3, InTail DEF m
<1>13. WindowsThere'
  <2> SUFFICES ASSUME NEW w \in Windows, id[w] # 0, ~ (at = "send" /\ w = who)
               PROVE  id[w] \in shown' \cup destroyed \/ In(Make(id[w]), toServer')
    BY <1>1 DEF WindowsThere
  <2>1. id[w] \in shown \cup destroyed \/ In(Make(id[w]), toServer)
    BY <1>2 DEF WindowsThere
  <2>2. CASE id[w] \in shown \cup destroyed
    BY <2>2, <1>7
  <2>3. CASE In(Make(id[w]), toServer)
    <3>1. CASE Make(id[w]) = m
      BY <3>1, <1>7 DEF Make
    <3> QED
      BY <3>1, <2>3, <1>12
  <2> QED
    BY <2>1, <2>2, <2>3
<1>14. Shown!Of("make", toServer) = Shown!Of("make", toServer') + IF m.type = "make" THEN 1 ELSE 0
  BY <1>1, <1>3, CountTail DEF m
<1>15. Shown!Of("answer", inbox') = Shown!Of("answer", inbox) + IF m.type = "make" THEN 1 ELSE 0
  <2>1. CASE m.type = "make"
    <3> DEFINE a == [type |-> "answer", id |-> m.id]
    <3>1. a \in Messages /\ a.type = "answer" /\ inbox' = Append(inbox, a)
      BY <1>1, <1>4, <2>1 DEF Messages, Kinds
    <3> HIDE DEF a
    <3> QED
      BY <2>1, <3>1, <1>3, MailCounted, CountAppend
  <2>2. CASE m.type # "make"
    BY <1>1, <1>3, <2>2, MailCounted
  <2> QED
    BY <2>1, <2>2
<1>16. /\ Shown!Of("answer", inbox') \in Nat /\ Shown!Of("answer", inbox) \in Nat
       /\ Shown!Of("make", toServer) \in Nat /\ Shown!Of("make", toServer') \in Nat /\ count.stray \in Nat
  BY <1>2, <1>3, <1>5, <1>10, MailCounted, Counted DEF WindowTypes
<1>17. AnswerComing'
  <2> SUFFICES ASSUME Waiting PROVE In(Make(id[who]), toServer') \/ Shown!Of("answer", inbox') > 0
    BY <1>1 DEF AnswerComing, Waiting
  <2>1. CASE In(Make(id[who]), toServer)
    <3>1. CASE Make(id[who]) = m
      <4>1. m.type = "make"
        BY <3>1 DEF Make
      <4> QED
        BY <4>1, <1>15, <1>16
    <3> QED
      BY <3>1, <2>1, <1>12
  <2>2. CASE Shown!Of("answer", inbox) > 0
    BY <2>2, <1>15, <1>16
  <2> QED
    BY <2>1, <2>2, <1>2 DEF AnswerComing
<1>18. Shown!Unanswered' = Shown!Unanswered /\ Shown!Made' = Shown!Made
  BY <1>1 DEF Shown!Unanswered, Shown!Made
<1>19. Shown!AnswersOwed'
  <2>1. Shown!Of("make", toServer') + Shown!Of("answer", inbox') = Shown!Of("make", toServer) + Shown!Of("answer", inbox)
    BY <1>14, <1>15, <1>16
  <2> QED
    BY <2>1, <1>1, <1>2, <1>16, <1>18 DEF Shown!AnswersOwed
<1>20. IdsApart'
  BY <1>1 DEF WindowInv, IdsApart, WithMemory
<1> QED
  BY <1>1, <1>2, <1>8, <1>9, <1>11, <1>13, <1>17, <1>18, <1>19, <1>20, SameCount DEF WindowInv, Shown!OneEventEach

(* Every window returned unmade has its request in the queue, and has it   *)
(* alone; one more request, or an answer, is for the constructor that      *)
(* waits.                                                                  *)
LEMMA Late ==
    ASSUME WindowInv
    PROVE  Shown!LateWindows
<1> DEFINE late == {w \in Shown!Made : gbuf[w] /\ Shown!Message("make", id[w]) \in {toServer[k] : k \in DOMAIN toServer}}
           asked == Turns("make", toServer)
           first == [w \in late |-> CHOOSE k \in DOMAIN toServer : toServer[k] = Make(id[w])]
<1>1. WindowTypes /\ IdsApart /\ AnswerComing /\ Shown!AnswersOwed
  BY DEF WindowInv
<1>2. /\ toServer \in Seq(Messages) /\ Shown!Of("make", toServer) = Cardinality(asked) /\ Cardinality(asked) \in Nat
      /\ IsFiniteSet(asked) /\ Shown!Of("answer", inbox) \in Nat
      /\ count.lost \in Nat /\ count.stray \in Nat
  BY <1>1, Counted, MailCounted DEF WindowTypes
<1>3. ASSUME NEW w \in late
      PROVE  /\ w \in Windows /\ phase[w] = "made" /\ id[w] # 0
             /\ first[w] \in asked /\ toServer[first[w]] = Make(id[w])
  <2>1. w \in Windows /\ phase[w] = "made" /\ gbuf[w] /\ \E k \in DOMAIN toServer : toServer[k] = Make(id[w])
    BY DEF Shown!Made, Shown!Message, Make
  <2>2. id[w] # 0
    BY <1>1, <2>1 DEF WindowTypes
  <2>3. first[w] \in DOMAIN toServer /\ toServer[first[w]] = Make(id[w])
    BY <2>1
  <2> HIDE DEF first, late
  <2>4. first[w] \in asked
    BY <2>3 DEF Turns, Make
  <2> QED
    BY <2>1, <2>2, <2>3, <2>4
<1>4. IsFiniteSet(late) /\ Cardinality(late) \in Nat /\ first \in Injection(late, asked)
  <2>1. \A v, w \in late : first[v] = first[w] => v = w
    <3> SUFFICES ASSUME NEW v \in late, NEW w \in late, first[v] = first[w] PROVE v = w
      OBVIOUS
    <3> HIDE DEF first, late
    <3>1. Make(id[v]) = Make(id[w])
      BY <1>3
    <3>2. id[v] = id[w]
      BY <3>1 DEF Make
    <3> QED
      BY <3>2, <1>1, <1>3 DEF IdsApart
  <2>2. first \in [late -> asked]
    <3>1. first = [w \in late |-> first[w]]
      OBVIOUS
    <3> HIDE DEF first
    <3> QED
      BY <3>1, <1>3
  <2> HIDE DEF first, late, asked
  <2>3. first \in Injection(late, asked)
    BY <2>1, <2>2 DEF Injection, IsInjective
  <2> QED
    BY <2>3, <1>2, FS_Injection, FS_CardinalityType
<1>5. Shown!Cardinality(late) = Cardinality(late)
  BY SameCount
<1> HIDE DEF late, first, asked
<1>6. Cardinality(late) <= Cardinality(asked)
  BY <1>2, <1>4, FS_Injection
<1>7. CASE ~ Waiting
  <2>1. Shown!Unanswered = 0
    BY <1>7 DEF Shown!Unanswered, Waiting
  <2> QED
    BY <2>1, <1>1, <1>2, <1>4, <1>5, <1>6 DEF Shown!AnswersOwed, Shown!LateWindows, late
<1>8. CASE Waiting
  <2>1. Shown!Unanswered = 1
    BY <1>8 DEF Shown!Unanswered, Waiting
  <2>2. CASE Shown!Of("answer", inbox) > 0
    BY <2>1, <2>2, <1>1, <1>2, <1>4, <1>5, <1>6 DEF Shown!AnswersOwed, Shown!LateWindows, late
  <2>3. CASE In(Make(id[who]), toServer)
    <3>1. PICK l \in DOMAIN toServer : toServer[l] = Make(id[who])
      BY <2>3 DEF In
    <3>2. l \in asked
      BY <3>1 DEF asked, Turns, Make
    <3>3. who \in Windows /\ phase[who] = "new"
      BY <1>1, <1>8 DEF WindowTypes, Waiting
    <3>4. ASSUME NEW w \in late PROVE first[w] # l
      <4>1. SUFFICES ASSUME first[w] = l PROVE FALSE
        OBVIOUS
      <4>2. Make(id[w]) = Make(id[who])
        BY <4>1, <1>3, <3>1
      <4>3. w # who /\ id[w] # 0 /\ w \in Windows
        BY <1>3, <3>3
      <4>4. id[w] = id[who]
        BY <4>2 DEF Make
      <4> QED
        BY <4>3, <4>4, <3>3, <1>1 DEF IdsApart
    <3>5. first \in Injection(late, asked \ {l})
      BY <1>4, <3>4 DEF Injection, IsInjective
    <3>6. IsFiniteSet(asked \ {l}) /\ Cardinality(asked \ {l}) = Cardinality(asked) - 1
      BY <1>2, <3>2, FS_RemoveElement
    <3>7. Cardinality(late) <= Cardinality(asked) - 1
      BY <3>5, <3>6, FS_Injection
    <3> QED
      BY SMTT(30), <2>1, <3>7, <1>1, <1>2, <1>4, <1>5 DEF Shown!AnswersOwed, Shown!LateWindows, late
  <2> QED
    BY <2>2, <2>3, <1>1, <1>8 DEF AnswerComing
<1> QED
  BY <1>7, <1>8

LEMMA WindowStarts ==
    ASSUME Shown!Init
    PROVE  WindowInv
<1>1. /\ phase = [w \in Windows |-> "new"] /\ id = [w \in Windows |-> 0] /\ gbuf = [w \in Windows |-> FALSE]
      /\ at = "program" /\ who = 0 /\ toServer = <<>> /\ inbox = <<>> /\ shown = {} /\ refused = {} /\ destroyed = {}
      /\ count = [events |-> 0, calls |-> 0, lost |-> 0, stray |-> 0]
  BY DEF Shown!Init, Shown!NoWindow
<1>2. toServer \in Seq(Messages) /\ inbox \in Seq(Mail) /\ Len(toServer) = 0
  BY <1>1
<1>3. gbuf = [w \in Windows |-> id[w] # 0]
  BY <1>1
<1>4. WindowTypes
  <2>1. phase \in [Windows -> {"new", "made"}] /\ id \in [Windows -> Nat]
    BY <1>1
  <2>2. count \in [events : Nat, calls : Nat, lost : Nat, stray : Nat]
    BY <1>1
  <2>3. Len(toServer) <= MaxQueue
    BY <1>2, WindowConstants
  <2>4. at \in {"program", "send", "wait", "receive"} /\ (at = "program") = (who = 0) /\ ~ (at # "program")
    BY <1>1
  <2> QED
    BY <1>2, <1>3, <2>1, <2>2, <2>3, <2>4 DEF WindowTypes
<1>5. IdsApart /\ WindowsThere /\ AnswerComing
  BY <1>1, WindowConstants DEF IdsApart, WindowsThere, AnswerComing, Waiting
<1>6. \A type : Turns(type, <<>>) = {}
  BY DEF Turns
<1>7. Shown!Of("make", toServer) = 0 /\ Shown!Of("answer", inbox) = 0
  BY <1>1, <1>2, <1>6, Counted, MailCounted, FS_EmptySet
<1>8. Shown!Made = {}
  BY <1>1 DEF Shown!Made
<1>9. Shown!AnswersOwed /\ Shown!OneEventEach /\ Shown!FramesKnown
  BY <1>1, <1>7, <1>8, SameCount, FS_EmptySet
  DEF Shown!AnswersOwed, Shown!Unanswered, Shown!OneEventEach, Shown!FramesKnown
<1>10. InOrder(toServer, shown \cup destroyed, destroyed)
  BY <1>1 DEF InOrder
<1> QED
  BY <1>4, <1>5, <1>9, <1>10 DEF WindowInv

LEMMA WindowRuns ==
    ASSUME WindowInv, [Next]_vars
    PROVE  WindowInv'
<1>1. CASE Shown!Next
  BY <1>1, ConstructStep, AskStep, WaitStep, ResponseStep, ProgramStep, EventStep, CallStep, ServerServes
  DEF Shown!Next, Shown!Constructor
<1>2. CASE UNCHANGED window
  <2>1. UNCHANGED <<phase, id, gbuf, at, who, toServer, inbox, shown, refused, destroyed, count>>
    BY <1>2 DEF window
  <2> QED
    BY <2>1
    DEF WindowInv, WindowTypes, IdsApart, WithMemory, AnswerComing, Waiting, WindowsThere, Shown!AnswersOwed, Shown!Unanswered,
        Shown!OneEventEach, Shown!Made, Shown!FramesKnown
<1> QED
  BY <1>1, <1>2 DEF Next, vars, WindowStep, DrawStep, LoadStep, LookupStep, GlyphStep

(* Every answer a constructor left for an event is still owed, no more     *)
(* windows than that are late, and the server is asked to draw what it     *)
(* does not know only after destroy.                                       *)
THEOREM WindowsServed == Spec => []WindowsKnown
<1>1. Init => WindowInv
  BY WindowStarts DEF Init
<1>2. WindowInv /\ [Next]_vars => WindowInv'
  BY WindowRuns
<1>3. WindowInv => WindowsKnown
  <2> SUFFICES ASSUME WindowInv PROVE WindowsKnown
    OBVIOUS
  <2>1. Shown!TypeOK
    BY DEF WindowInv, WindowTypes, IdsApart, Shown!TypeOK, Shown!NoWindow
  <2> QED
    BY <2>1, Late DEF WindowInv, WindowsKnown
<1> QED
  BY <1>1, <1>2, <1>3, PTL DEF Spec

-----------------------------------------------------------------------------
(* Numbers of pixels: a row and a column each. *)

LEMMA NoMultiple ==
    ASSUME NEW d \in Int, NEW W \in Nat, NEW e \in Int, -W < e, e < W, d * W = e
    PROVE  d = 0
<1>1. CASE d >= 1
  <2>1. d * W = (d - 1) * W + W /\ (d - 1) \in Nat
    BY <1>1
  <2>2. (d - 1) * W >= 0
    BY <2>1
  <2> QED
    BY <2>1, <2>2
<1>2. CASE d <= -1
  <2>1. d * W = -((-d - 1) * W) - W /\ (-d - 1) \in Nat
    BY <1>2
  <2>2. (-d - 1) * W >= 0
    BY <2>1
  <2> QED
    BY <2>1, <2>2
<1> QED
  BY <1>1, <1>2

LEMMA RowColumn ==
    ASSUME NEW x \in Nat, NEW y \in Int, NEW W \in Nat, x < W
    PROVE  (y * W + x) % W = x /\ (y * W + x) \div W = y
<1> DEFINE n == y * W + x
           q == n \div W
           r == n % W
<1>1. n \in Int /\ q \in Int /\ r \in Int /\ 0 <= r /\ r < W /\ n = q * W + r
  OBVIOUS
<1>2. (q - y) * W = x - r
  <2>1. (q - y) * W = q * W - y * W
    BY <1>1
  <2> HIDE DEF q, r
  <2>2. q * W + r = y * W + x /\ y * W \in Int /\ q * W \in Int
    BY <1>1
  <2> QED
    BY <2>1, <2>2, <1>1
<1> HIDE DEF q, r, n
<1>3. q - y = 0
  <2>1. q - y \in Int /\ x - r \in Int /\ -W < x - r /\ x - r < W
    BY <1>1
  <2> QED
    BY <2>1, <1>2, NoMultiple
<1>4. q = y
  BY <1>3, <1>1
<1>5. r = x
  BY <1>2, <1>4, <1>1
<1> QED
  BY <1>4, <1>5 DEF q, r, n

(* Blending stays between the two. *)
LEMMA Between ==
    ASSUME NEW p \in Nat, NEW k \in Nat, NEW a \in Nat, a <= 255
    PROVE  LET to == (k * a + p * (255 - a)) \div 255
           IN  /\ p <= k => p <= to /\ to <= k
               /\ k <= p => k <= to /\ to <= p
               /\ to \in Int
<1> DEFINE s == k * a + p * (255 - a)
<1>1. k * a \in Nat /\ p * a \in Nat /\ s = k * a + 255 * p - p * a /\ s \in Int
  OBVIOUS
<1>2. ASSUME p <= k PROVE 255 * p <= s /\ s <= 255 * k
  <2>1. k * a = p * a + (k - p) * a /\ (k - p) * a \in Nat /\ k - p \in Nat
    BY <1>2
  <2>2. (k - p) * 255 = (k - p) * a + (k - p) * (255 - a) /\ (k - p) * (255 - a) >= 0
    BY <2>1
  <2> HIDE DEF s
  <2> QED
    BY <2>1, <2>2, <1>1
<1>3. ASSUME k <= p PROVE 255 * k <= s /\ s <= 255 * p
  <2>1. p * a = k * a + (p - k) * a /\ (p - k) * a \in Nat /\ p - k \in Nat
    BY <1>3
  <2>2. (p - k) * 255 = (p - k) * a + (p - k) * (255 - a) /\ (p - k) * (255 - a) >= 0
    BY <2>1
  <2> HIDE DEF s
  <2> QED
    BY <2>1, <2>2, <1>1
<1> HIDE DEF s
<1>4. s \div 255 \in Int /\ 255 * (s \div 255) <= s /\ s < 255 * (s \div 255) + 255
  BY <1>1
<1> DEFINE to == s \div 255
<1> HIDE DEF to
<1>5. ASSUME p <= k PROVE p <= to /\ to <= k
  <2>1. 255 * p < 255 * to + 255 /\ 255 * to <= 255 * k
    BY <1>1, <1>2, <1>4, <1>5 DEF to
  <2> QED
    BY <2>1, <1>4 DEF to
<1>6. ASSUME k <= p PROVE k <= to /\ to <= p
  <2>1. 255 * k < 255 * to + 255 /\ 255 * to <= 255 * p
    BY <1>1, <1>3, <1>4, <1>6 DEF to
  <2> QED
    BY <2>1, <1>4 DEF to
<1> QED
  BY <1>4, <1>5, <1>6 DEF s, to

LEMMA InArray ==
    ASSUME NEW r \in Nat, NEW k \in Nat, NEW cw \in Nat, NEW ch \in Nat, r < ch, k < cw
    PROVE  r * cw + k < cw * ch
<1>1. ch - 1 - r \in Nat /\ cw * ch = r * cw + cw + (ch - 1 - r) * cw
  OBVIOUS
<1>2. (ch - 1 - r) * cw >= 0
  BY <1>1
<1>3. r * cw \in Nat
  OBVIOUS
<1> QED
  BY <1>1, <1>2, <1>3

-----------------------------------------------------------------------------
(* Drawing.  A cached glyph has the size of the cell it was rendered for,  *)
(* and while a text is drawn neither the cell nor the font changes.        *)

DrawTypes ==
    /\ screen \in Screens /\ bytes \in {-1, Width * Height * Drawing!bytesPerPixel(screen)}
    /\ font \in Nat /\ cell \in Nat \X Nat
    /\ cache \in [CodePoints -> [size : Nat, font : Nat]]
    /\ rest \in Seq(CodePoints \cup {10}) /\ pen \in Int \X Int /\ left \in Int

JobFits ==
    job # Drawing!Idle =>
        /\ job.W = Width /\ job.H = Height /\ job.cw \in Nat /\ job.ch \in Nat /\ job.own \in BOOLEAN
        /\ ~ job.own => font # 0 /\ job.cw = cell[1] /\ job.ch = cell[2]

Cached == {cp \in CodePoints : cache[cp] # Drawing!NoGlyph}
CacheFits ==
    \A cp \in Cached :
        /\ cache[cp].font # 0 /\ cache[cp].font <= font
        /\ cache[cp].font = font => cache[cp].size = Drawing!CellsWide(cp, cell[1]) * cell[2]

LastFits == last.font \in Nat /\ last.font <= font /\ Drawing!PaintsInCell /\ Drawing!InkTowards /\ Drawing!OwnGlyphsFit

DrawInv == DrawTypes /\ JobFits /\ CacheFits /\ LastFits /\ Drawing!CacheOwns

LEMMA DrawConstants ==
    /\ Width \in Nat \ {0} /\ Height \in Nat \ {0} /\ Width * Height \in Nat
    /\ IsFiniteSet(CodePoints) /\ Texts \subseteq Seq(CodePoints \cup {10})
    /\ CellSizes \subseteq Nat \X Nat /\ Places \subseteq Int \X Int
    /\ \A s \in Screens : s.format \in 0 .. 3
    /\ \A paper \in Shades : paper \in Nat
    /\ \A a \in Covered : a \in Nat /\ a <= 255
<1>1. Drawing!WinDrawAssumption
  BY DesktopAssumption
<1>2. /\ Width \in Nat \ {0} /\ Height \in Nat \ {0} /\ IsFiniteSet(CodePoints) /\ Texts \subseteq Seq(CodePoints \cup {10})
      /\ CellSizes \subseteq Nat \X Nat /\ Places \subseteq Int \X Int /\ Shades \subseteq 0 .. 255 /\ Covered \subseteq 1 .. 255
      /\ Screens \subseteq [width : Nat, height : Nat, format : 0 .. 3]
  BY <1>1, SameCount DEF Drawing!WinDrawAssumption
<1> QED
  BY SMTT(30), <1>2

LEMMA WideCells ==
    ASSUME NEW cp, NEW w \in Nat
    PROVE  Drawing!CellsWide(cp, w) \in Nat
  BY DEF Drawing!CellsWide

LEMMA InTarget ==
    ASSUME NEW p \in Int \X Int, NEW cw \in Nat, NEW ch \in Nat,
           NEW n \in Drawing!Clipped(p, cw, ch, Width, Height)
    PROVE  /\ n \in 0 .. Width * Height - 1 /\ n % Width \in p[1] .. p[1] + cw - 1
           /\ n \div Width \in p[2] .. p[2] + ch - 1
<1>1. PICK x \in {v \in p[1] .. p[1] + cw - 1 : v >= 0 /\ v < Width},
           y \in {v \in p[2] .. p[2] + ch - 1 : v >= 0 /\ v < Height} : n = y * Width + x
  BY DEF Drawing!Clipped
<1>2. /\ x \in Nat /\ y \in Nat /\ x < Width /\ y < Height /\ x \in p[1] .. p[1] + cw - 1 /\ y \in p[2] .. p[2] + ch - 1
      /\ Width \in Nat /\ Height \in Nat
  BY <1>1, DrawConstants
<1>3. n % Width = x /\ n \div Width = y
  BY <1>1, <1>2, RowColumn
<1>4. y * Width + x < Width * Height /\ y * Width \in Nat /\ Width * Height \in Nat
  BY <1>2, InArray
<1>5. n \in 0 .. Width * Height - 1
  BY <1>1, <1>2, <1>4
<1> QED
  BY <1>2, <1>3, <1>5

LEMMA Furthest ==
    ASSUME NEW p \in Int, NEW n \in Nat, NEW limit \in Nat,
           {y \in 0 .. n - 1 : p + y >= 0 /\ p + y < limit} # {}
    PROVE  /\ Drawing!Max({y \in 0 .. n - 1 : p + y >= 0 /\ p + y < limit}) \in Nat
           /\ Drawing!Max({y \in 0 .. n - 1 : p + y >= 0 /\ p + y < limit}) < n
<1> DEFINE S == {y \in 0 .. n - 1 : p + y >= 0 /\ p + y < limit}
           m == IF n - 1 <= limit - 1 - p THEN n - 1 ELSE limit - 1 - p
<1>1. PICK y \in S : TRUE
  OBVIOUS
<1>2. m \in S /\ \A z \in S : m >= z
  BY <1>1
<1>3. Drawing!Max(S) \in S
  <2> HIDE DEF S, m
  <2> QED
    BY <1>2 DEF Drawing!Max
<1> QED
  BY <1>3

(* Painting a cell, whatever is drawn in it.                               *)
LEMMA Paints ==
    ASSUME DrawInv, job # Drawing!Idle, NEW cw \in Nat, NEW size, NEW of, NEW paper \in Shades, NEW ink \in Shades, NEW a \in Covered,
           rest # <<>>, Drawing!Paint(cw, size, of, paper, ink, a)
    PROVE  /\ Drawing!PaintsInCell' /\ Drawing!InkTowards'
           /\ last'.font = of /\ last'.size = size /\ last'.read < cw * job.ch
           /\ pen' \in Int \X Int /\ rest' \in Seq(CodePoints \cup {10})
<1> DEFINE rows == {y \in 0 .. job.ch - 1 : pen[2] + y >= 0 /\ pen[2] + y < Height}
           columns == {x \in 0 .. cw - 1 : pen[1] + x >= 0 /\ pen[1] + x < Width}
           read == IF rows = {} \/ columns = {} THEN -1 ELSE Drawing!Max(rows) * cw + Drawing!Max(columns)
           to == Drawing!Blend(ink, paper, a)
<1>1. /\ job.W = Width /\ job.H = Height /\ job.ch \in Nat /\ pen \in Int \X Int /\ pen[1] \in Int /\ pen[2] \in Int
      /\ rest \in Seq(CodePoints \cup {10}) /\ Width \in Nat /\ Height \in Nat
  BY DrawConstants DEF DrawInv, JobFits, DrawTypes
<1>2. /\ last' = [pixels |-> Drawing!Clipped(pen, cw, job.ch, Width, Height), at |-> pen, size |-> size, font |-> of, w |-> cw,
                  h |-> job.ch, read |-> read, paper |-> paper, ink |-> ink, a |-> a, to |-> to]
      /\ pen' = <<pen[1] + cw, pen[2]>> /\ rest' = Tail(rest)
  BY <1>1, Zenon DEF Drawing!Paint
<1>3. read < cw * job.ch
  <2>1. CASE rows = {} \/ columns = {}
    <3>1. cw * job.ch \in Nat
      BY <1>1
    <3> HIDE DEF rows, columns
    <3> QED
      BY <3>1, <2>1
  <2>2. CASE ~ (rows = {} \/ columns = {})
    <3>1. /\ Drawing!Max(rows) \in Nat /\ Drawing!Max(rows) < job.ch
          /\ Drawing!Max(columns) \in Nat /\ Drawing!Max(columns) < cw
      BY <1>1, <2>2, Furthest
    <3> HIDE DEF rows, columns
    <3>2. Drawing!Max(rows) * cw + Drawing!Max(columns) < cw * job.ch
      BY <1>1, <3>1, InArray
    <3> QED
      BY <3>2, <2>2
  <2> QED
    BY <2>1, <2>2
<1>4. /\ paper \in Nat /\ ink \in Nat /\ a \in Nat /\ a <= 255
  BY DrawConstants
<1>5. /\ paper <= ink => paper <= to /\ to <= ink
      /\ ink <= paper => ink <= to /\ to <= paper
      /\ to \in Int
  BY <1>4, Between DEF Drawing!Blend
<1>6. a = 255 => to = ink
  BY <1>4 DEF Drawing!Blend
<1> HIDE DEF read, to, rows, columns
<1>7. Drawing!PaintsInCell'
  <2>1. last'.pixels = Drawing!Clipped(pen, cw, job.ch, Width, Height) /\ last'.at = pen /\ last'.w = cw /\ last'.h = job.ch
    BY <1>2
  <2> QED
    BY SMTT(30), <2>1, <1>1, InTarget DEF Drawing!PaintsInCell
<1>8. Drawing!InkTowards'
  <2>1. last'.to = to /\ last'.paper = paper /\ last'.ink = ink /\ last'.a = a
    BY <1>2
  <2> QED
    BY <2>1, <1>4, <1>5, <1>6 DEF Drawing!InkTowards
<1>9. last'.font = of /\ last'.size = size /\ last'.read = read
  BY <1>2
<1>10. pen' \in Int \X Int
  BY <1>1, <1>2
<1>11. rest' \in Seq(CodePoints \cup {10})
  <2> DEFINE T == CodePoints \cup {10}
  <2>1. rest \in Seq(T) /\ rest # <<>>
    BY <1>1
  <2> HIDE DEF T
  <2>2. Tail(rest) \in Seq(T)
    BY <2>1
  <2> QED
    BY <1>2, <2>2 DEF T
<1> QED
  BY <1>3, <1>7, <1>8, <1>9, <1>10, <1>11

LEMMA OwnCharacter ==
    ASSUME DrawInv, NEW paper \in Shades, NEW ink \in Shades, NEW a \in Covered, Drawing!DrawGlyph(paper, ink, a)
    PROVE  DrawInv'
<1>1. /\ job # Drawing!Idle /\ rest # <<>> /\ job.cw \in Nat /\ job.ch \in Nat
      /\ Drawing!Paint(job.cw, job.cw * job.ch, 0, paper, ink, a)
      /\ UNCHANGED <<screen, bytes, font, cell, cache, live, job, left>>
  BY DEF Drawing!DrawGlyph, Drawing!Drawing, DrawInv, JobFits
<1>2. /\ Drawing!PaintsInCell' /\ Drawing!InkTowards'
      /\ last'.font = 0 /\ last'.size = job.cw * job.ch /\ last'.read < job.cw * job.ch
      /\ pen' \in Int \X Int /\ rest' \in Seq(CodePoints \cup {10})
  BY <1>1, Paints
<1>3. LastFits'
  BY <1>1, <1>2 DEF DrawInv, DrawTypes, LastFits, Drawing!OwnGlyphsFit
<1>4. DrawTypes' /\ JobFits' /\ CacheFits' /\ Drawing!CacheOwns'
  BY <1>1, <1>2 DEF DrawInv, DrawTypes, JobFits, CacheFits, Cached, Drawing!CacheOwns
<1> QED
  BY <1>3, <1>4 DEF DrawInv

(* A glyph comes from the cache, or goes into it.                          *)
LEMMA Character ==
    ASSUME DrawInv, NEW paper \in Shades, NEW ink \in Shades, NEW a \in Covered, Drawing!TextGlyph(paper, ink, a)
    PROVE  DrawInv'
<1> DEFINE cp == Head(rest)
           w == Drawing!CellsWide(cp, cell[1])
           full == w * cell[2]
           shape == Drawing!getGlyph(cp)
<1>1. /\ job # Drawing!Idle /\ rest # <<>> /\ cp # 10 /\ ~ job.own
      /\ UNCHANGED <<screen, bytes, font, cell, job, left>>
  BY DEF Drawing!TextGlyph, Drawing!Drawing
<1>2. DrawTypes /\ JobFits /\ CacheFits /\ LastFits /\ Drawing!CacheOwns
  BY DEF DrawInv
<1>3. /\ font # 0 /\ job.cw = cell[1] /\ job.ch = cell[2] /\ cell[1] \in Nat /\ cell[2] \in Nat /\ font \in Nat
      /\ pen[1] \in Int /\ pen[2] \in Int
  BY <1>1, <1>2 DEF JobFits, DrawTypes
<1>4. cp \in CodePoints /\ Tail(rest) \in Seq(CodePoints \cup {10})
  <2> DEFINE T == CodePoints \cup {10}
  <2>1. rest \in Seq(T) /\ rest # <<>>
    BY <1>1, <1>2 DEF DrawTypes
  <2> HIDE DEF T
  <2>2. Tail(rest) \in Seq(T) /\ Head(rest) \in T
    BY <2>1
  <2> QED
    BY <1>1, <2>2 DEF T
<1>5. w \in Nat /\ full \in Nat
  BY <1>3, <1>4, WideCells
<1> HIDE DEF cp
<1>6. CASE cell[1] = 0 \/ cell[2] = 0
  <2>1. rest' = Tail(rest) /\ pen' = <<pen[1] + w, pen[2]>> /\ UNCHANGED <<cache, live, last>>
    BY <1>3, <1>6 DEF Drawing!TextGlyph, cp
  <2>2. pen' \in Int \X Int
    BY <2>1, <1>3, <1>5
  <2> HIDE DEF w
  <2>3. DrawTypes' /\ JobFits' /\ CacheFits' /\ Drawing!CacheOwns'
    BY <1>1, <1>2, <1>4, <2>1, <2>2 DEF DrawTypes, JobFits, CacheFits, Cached, Drawing!CacheOwns
  <2>4. LastFits'
    BY <1>1, <1>2, <2>1 DEF LastFits, Drawing!PaintsInCell, Drawing!InkTowards, Drawing!OwnGlyphsFit
  <2> QED
    BY <2>3, <2>4 DEF DrawInv
<1>7. CASE ~ (cell[1] = 0 \/ cell[2] = 0)
  <2>1. /\ Drawing!Paint(w, shape.size, shape.font, paper, ink, a)
        /\ cache' = [cache EXCEPT ![cp] = [size |-> shape.size, font |-> shape.font]]
        /\ live' = live + shape.new
    BY <1>3, <1>7, Zenon DEF Drawing!TextGlyph, cp
  <2>2. /\ shape.size \in Nat /\ shape.font \in Nat /\ shape.font # 0 /\ shape.font <= font
        /\ shape.font = font => shape.size = full
        /\ cp \in Cached => shape.new = 0
        /\ cp \notin Cached => shape.new = 1
    <3>1. CASE cp \in Cached
      <4>1. shape = [size |-> cache[cp].size, font |-> cache[cp].font, new |-> 0]
        BY <3>1 DEF Drawing!getGlyph, Cached
      <4> HIDE DEF shape
      <4>2. shape.size = cache[cp].size /\ shape.font = cache[cp].font /\ shape.new = 0
        BY <4>1
      <4>3. cache[cp].size \in Nat /\ cache[cp].font \in Nat
        BY <1>2, <1>4 DEF DrawTypes
      <4> QED
        BY <3>1, <4>2, <4>3, <1>2 DEF CacheFits
    <3>2. CASE cp \notin Cached
      <4>1. shape = [size |-> full, font |-> font, new |-> 1]
        BY <1>4, <3>2 DEF Drawing!getGlyph, Cached
      <4> HIDE DEF shape, full
      <4>2. shape.size = full /\ shape.font = font /\ shape.new = 1
        BY <4>1
      <4> QED
        BY <3>2, <4>2, <1>3, <1>5
    <3> QED
      BY <3>1, <3>2
  <2> HIDE DEF shape
  <2> DEFINE g == [size |-> shape.size, font |-> shape.font]
  <2>3. g \in [size : Nat, font : Nat] /\ g # Drawing!NoGlyph /\ g.size = shape.size /\ g.font = shape.font
    <3>1. Drawing!NoGlyph.font = 0
      BY DEF Drawing!NoGlyph
    <3> QED
      BY <2>2, <3>1
  <2>4. cache' = [cache EXCEPT ![cp] = g]
    BY <2>1
  <2> HIDE DEF g
  <2>5. /\ cache' \in [CodePoints -> [size : Nat, font : Nat]] /\ cache'[cp] = g
        /\ \A d \in CodePoints : d # cp => cache'[d] = cache[d]
    BY <1>2, <1>4, <2>3, <2>4 DEF DrawTypes
  <2>6. Cached' = Cached \cup {cp}
    BY <1>4, <2>3, <2>5 DEF Cached
  <2>7. CacheFits'
    <3> SUFFICES ASSUME NEW d \in Cached'
                 PROVE  /\ cache'[d].font # 0 /\ cache'[d].font <= font
                        /\ cache'[d].font = font => cache'[d].size = Drawing!CellsWide(d, cell[1]) * cell[2]
      BY <1>1 DEF CacheFits
    <3>1. CASE d = cp
      BY <3>1, <2>2, <2>3, <2>5
    <3>2. CASE d # cp
      <4>1. d \in Cached /\ cache'[d] = cache[d]
        BY <3>2, <2>5, <2>6 DEF Cached
      <4> HIDE DEF w, full
      <4> QED
        BY <4>1, <1>2 DEF CacheFits
    <3> QED
      BY <3>1, <3>2
  <2>8. Drawing!CacheOwns'
    <3>1. IsFiniteSet(Cached) /\ Cardinality(Cached) \in Nat
      <4>1. Cached \subseteq CodePoints
        BY DEF Cached
      <4> QED
        BY <4>1, DrawConstants, FS_Subset, FS_CardinalityType
    <3>2. live = Cardinality(Cached)
      BY <1>2, SameCount DEF Drawing!CacheOwns, Cached
    <3>3. live' = Cardinality(Cached')
      <4>1. CASE cp \in Cached
        <5>1. Cached' = Cached /\ shape.new = 0
          BY <4>1, <2>2, <2>6
        <5> QED
          BY <5>1, <2>1, <3>1, <3>2
      <4>2. CASE cp \notin Cached
        <5>1. Cardinality(Cached \cup {cp}) = Cardinality(Cached) + 1 /\ shape.new = 1
          BY <4>2, <2>2, <3>1, FS_AddElement
        <5> QED
          BY <5>1, <2>1, <2>6, <3>2
      <4> QED
        BY <4>1, <4>2
    <3> QED
      BY <3>3, SameCount DEF Drawing!CacheOwns, Cached
  <2>9. /\ Drawing!PaintsInCell' /\ Drawing!InkTowards'
        /\ last'.font = shape.font /\ last'.size = shape.size /\ last'.read < full
        /\ pen' \in Int \X Int /\ rest' \in Seq(CodePoints \cup {10})
    <3> HIDE DEF w
    <3>1. w \in Nat /\ job # Drawing!Idle /\ rest # <<>>
      BY <1>1, <1>5
    <3>2. /\ Drawing!PaintsInCell' /\ Drawing!InkTowards'
          /\ last'.font = shape.font /\ last'.size = shape.size /\ last'.read < w * job.ch
          /\ pen' \in Int \X Int /\ rest' \in Seq(CodePoints \cup {10})
      BY <2>1, <3>1, Paints
    <3> QED
      BY <3>2, <1>3
  <2>10. LastFits'
    <3>1. last'.font = font => last'.size = full
      BY <2>2, <2>9
    <3> HIDE DEF full, w
    <3> QED
      BY <1>1, <2>2, <2>9, <3>1 DEF LastFits, Drawing!OwnGlyphsFit
  <2>11. DrawTypes' /\ JobFits'
    BY <1>1, <1>2, <2>5, <2>9 DEF DrawTypes, JobFits
  <2> QED
    BY <2>7, <2>8, <2>10, <2>11 DEF DrawInv
<1> QED
  BY <1>6, <1>7

LEMMA UntouchedFits ==
    /\ Drawing!Untouched.font = 0 /\ Drawing!Untouched.size = 0 /\ Drawing!Untouched.pixels = {}
    /\ Drawing!Untouched.to = 0 /\ Drawing!Untouched.paper = 0 /\ Drawing!Untouched.ink = 0
    /\ last = Drawing!Untouched /\ font \in Nat => LastFits
<1>1. /\ Drawing!Untouched.font = 0 /\ Drawing!Untouched.size = 0 /\ Drawing!Untouched.pixels = {}
      /\ Drawing!Untouched.to = 0 /\ Drawing!Untouched.paper = 0 /\ Drawing!Untouched.ink = 0
  BY DEF Drawing!Untouched
<1> QED
  BY <1>1 DEF LastFits, Drawing!PaintsInCell, Drawing!InkTowards, Drawing!OwnGlyphsFit

(* A drawing call begins.                                                  *)
LEMMA Begins ==
    ASSUME DrawInv, NEW call, NEW text \in Texts, NEW p \in Places, Drawing!Begin(call, text, p),
           /\ call.W = Width /\ call.H = Height /\ call.cw \in Nat /\ call.ch \in Nat /\ call.own \in BOOLEAN
           /\ ~ call.own => font # 0 /\ call.cw = cell[1] /\ call.ch = cell[2]
    PROVE  DrawInv'
<1>1. /\ job' = call /\ rest' = text /\ pen' = p /\ left' = p[1] /\ last' = Drawing!Untouched
      /\ UNCHANGED <<screen, bytes, font, cell, cache, live>>
  BY DEF Drawing!Begin
<1>2. p \in Int \X Int /\ p[1] \in Int /\ text \in Seq(CodePoints \cup {10})
  BY DrawConstants
<1>3. DrawTypes' /\ JobFits'
  BY <1>1, <1>2 DEF DrawInv, DrawTypes, JobFits
<1>4. CacheFits' /\ Drawing!CacheOwns'
  BY <1>1 DEF DrawInv, CacheFits, Cached, Drawing!CacheOwns
<1>5. LastFits'
  BY <1>1, UntouchedFits DEF DrawInv, DrawTypes, LastFits, Drawing!PaintsInCell, Drawing!InkTowards, Drawing!OwnGlyphsFit
<1> QED
  BY <1>3, <1>4, <1>5 DEF DrawInv

LEMMA DrawCalls ==
    ASSUME DrawInv, NEW text \in Texts, NEW p \in Places,
           Drawing!drawText(text, p) \/ \E size \in CellSizes : Drawing!draw(text, p, size)
    PROVE  DrawInv'
<1>1. CASE Drawing!drawText(text, p)
  <2> DEFINE call == [W |-> Width, H |-> Height, cw |-> cell[1], ch |-> cell[2], own |-> FALSE]
  <2>1. font # 0 /\ Drawing!Begin(call, text, p) /\ cell[1] \in Nat /\ cell[2] \in Nat
    BY <1>1 DEF Drawing!drawText, DrawInv, DrawTypes
  <2>2. call.W = Width /\ call.H = Height /\ call.cw = cell[1] /\ call.ch = cell[2] /\ call.own = FALSE
    OBVIOUS
  <2> HIDE DEF call
  <2> QED
    BY <2>1, <2>2, Begins
<1>2. ASSUME NEW size \in CellSizes, Drawing!draw(text, p, size) PROVE DrawInv'
  <2> DEFINE px == IF size[2] = 0 THEN Height ELSE size[2]
             cw == IF size[1] = 0 THEN px ELSE size[1]
             call == [W |-> Width, H |-> Height, cw |-> cw, ch |-> px, own |-> TRUE]
  <2>1. Drawing!Begin(call, text, p)
    BY <1>2 DEF Drawing!draw
  <2>2. px \in Nat /\ cw \in Nat
    BY DrawConstants
  <2> HIDE DEF px, cw
  <2>3. call.W = Width /\ call.H = Height /\ call.cw = cw /\ call.ch = px /\ call.own = TRUE
    OBVIOUS
  <2> HIDE DEF call
  <2> QED
    BY <2>1, <2>2, <2>3, Begins
<1> QED
  BY <1>1, <1>2

(* The steps that draw nothing: a line's end, the text's end, a new font,  *)
(* and the end of one WinDraw for another.                                 *)
LEMMA Newlines ==
    ASSUME DrawInv, Drawing!Newline \/ Drawing!Finish
    PROVE  DrawInv'
<1>1. UNCHANGED <<screen, bytes, font, cell, cache, live, left, last>>
  BY DEF Drawing!Newline, Drawing!Finish
<1>2. CacheFits' /\ Drawing!CacheOwns' /\ LastFits'
  BY <1>1 DEF DrawInv, CacheFits, Cached, Drawing!CacheOwns, LastFits, Drawing!PaintsInCell, Drawing!InkTowards, Drawing!OwnGlyphsFit
<1>3. DrawTypes /\ JobFits
  BY DEF DrawInv
<1>4. CASE Drawing!Newline
  <2>1. job # Drawing!Idle /\ rest # <<>> /\ pen' = <<left, pen[2] + job.ch>> /\ rest' = Tail(rest) /\ job' = job
    BY <1>4 DEF Drawing!Newline, Drawing!Drawing
  <2>2. pen' \in Int \X Int
    BY <2>1, <1>3 DEF DrawTypes, JobFits
  <2>3. rest' \in Seq(CodePoints \cup {10})
    <3> DEFINE T == CodePoints \cup {10}
    <3>1. rest \in Seq(T) /\ rest # <<>>
      BY <1>3, <2>1 DEF DrawTypes
    <3> HIDE DEF T
    <3>2. Tail(rest) \in Seq(T)
      BY <3>1
    <3> QED
      BY <2>1, <3>2 DEF T
  <2> QED
    BY <1>1, <1>2, <1>3, <2>1, <2>2, <2>3 DEF DrawInv, DrawTypes, JobFits
<1>5. CASE Drawing!Finish
  <2>1. job' = Drawing!Idle /\ rest' = rest /\ pen' = pen
    BY <1>5 DEF Drawing!Finish
  <2> QED
    BY <1>1, <1>2, <1>3, <2>1 DEF DrawInv, DrawTypes, JobFits, Drawing!Idle
<1> QED
  BY <1>4, <1>5

LEMMA NewFont ==
    ASSUME DrawInv, NEW size \in CellSizes, Drawing!setFont(size)
    PROVE  DrawInv'
<1>1. /\ job = Drawing!Idle /\ font' = font + 1 /\ cell' = size
      /\ UNCHANGED <<screen, bytes, cache, live, job, rest, pen, left, last>>
  BY DEF Drawing!setFont
<1>2. DrawTypes /\ CacheFits /\ LastFits /\ font \in Nat /\ size \in Nat \X Nat
  BY DrawConstants DEF DrawInv, DrawTypes
<1>3. ASSUME NEW cp \in Cached PROVE cache[cp].font # 0 /\ cache[cp].font <= font' /\ cache[cp].font # font'
  <2>1. cache[cp].font \in Nat /\ cache[cp].font # 0 /\ cache[cp].font <= font
    BY <1>2 DEF CacheFits, Cached, DrawTypes
  <2> QED
    BY <1>1, <1>2, <2>1
<1>4. CacheFits' /\ Drawing!CacheOwns'
  BY <1>1, <1>3 DEF DrawInv, CacheFits, Cached, Drawing!CacheOwns
<1>5. last.font <= font' /\ last.font # font' /\ font' \in Nat
  BY <1>1, <1>2 DEF LastFits
<1>6. LastFits'
  BY <1>1, <1>2, <1>5 DEF LastFits, Drawing!PaintsInCell, Drawing!InkTowards, Drawing!OwnGlyphsFit
<1>7. DrawTypes' /\ JobFits'
  BY <1>1, <1>2, <1>5 DEF DrawTypes, JobFits
<1> QED
  BY <1>4, <1>6, <1>7 DEF DrawInv

LEMMA NewPixel ==
    ASSUME DrawInv, NEW p \in Places, Drawing!drawPixel(p)
    PROVE  DrawInv'
<1>1. /\ last' = [Drawing!Untouched EXCEPT !.pixels = Drawing!Clipped(p, 1, 1, Width, Height), !.at = p, !.w = 1, !.h = 1]
      /\ UNCHANGED <<screen, bytes, font, cell, cache, live, job, rest, pen, left>>
  BY DEF Drawing!drawPixel
<1>2. /\ last'.pixels = Drawing!Clipped(p, 1, 1, Width, Height) /\ last'.at = p /\ last'.w = 1 /\ last'.h = 1
      /\ last'.font = 0 /\ last'.size = 0 /\ last'.to = 0 /\ last'.paper = 0 /\ last'.ink = 0
  BY <1>1 DEF Drawing!Untouched
<1>3. p \in Int \X Int
  BY DrawConstants
<1>4. Drawing!PaintsInCell'
  BY <1>2, <1>3, InTarget DEF Drawing!PaintsInCell
<1>5. LastFits'
  BY SMTT(30), <1>1, <1>2, <1>4 DEF DrawInv, DrawTypes, LastFits, Drawing!InkTowards, Drawing!OwnGlyphsFit
<1>6. DrawTypes' /\ JobFits' /\ CacheFits' /\ Drawing!CacheOwns'
  BY <1>1 DEF DrawInv, DrawTypes, JobFits, CacheFits, Cached, Drawing!CacheOwns
<1> QED
  BY <1>5, <1>6 DEF DrawInv

LEMMA NoneCached ==
    ASSUME cache = [cp \in CodePoints |-> Drawing!NoGlyph], live = 0
    PROVE  /\ cache \in [CodePoints -> [size : Nat, font : Nat]] /\ CacheFits /\ Drawing!CacheOwns
<1>1. Drawing!NoGlyph \in [size : Nat, font : Nat]
  BY DEF Drawing!NoGlyph
<1>2. Cached = {}
  BY DEF Cached
<1>3. Cardinality(Cached) = 0
  BY <1>2, FS_EmptySet
<1> QED
  BY <1>1, <1>2, <1>3, SameCount DEF CacheFits, Drawing!CacheOwns, Cached

LEMMA Renewed ==
    ASSUME DrawInv, Drawing!Renew
    PROVE  DrawInv'
<1>1. /\ job = Drawing!Idle /\ font' = 0 /\ cell' = <<Width, Height>> /\ last' = Drawing!Untouched
      /\ cache' = [cp \in CodePoints |-> Drawing!NoGlyph] /\ live' = live - Cardinality(Cached)
      /\ UNCHANGED <<screen, bytes, job, rest, pen, left>>
  BY SameCount DEF Drawing!Renew, Drawing!Destroy, Cached
<1>2. live' = 0
  <2>1. IsFiniteSet(Cached) /\ Cardinality(Cached) \in Nat
    <3>1. Cached \subseteq CodePoints
      BY DEF Cached
    <3> QED
      BY <3>1, DrawConstants, FS_Subset, FS_CardinalityType
  <2>2. live = Cardinality(Cached)
    BY SameCount DEF DrawInv, Drawing!CacheOwns, Cached
  <2> QED
    BY <1>1, <2>1, <2>2
<1>3. Cached' = {}
  BY <1>1 DEF Cached
<1>4. cache' \in [CodePoints -> [size : Nat, font : Nat]]
  BY <1>1 DEF Drawing!NoGlyph
<1>5. CacheFits' /\ Drawing!CacheOwns'
  BY <1>2, <1>3, SameCount, FS_EmptySet DEF CacheFits, Drawing!CacheOwns, Cached
<1>6. LastFits'
  BY <1>1, UntouchedFits DEF LastFits, Drawing!PaintsInCell, Drawing!InkTowards, Drawing!OwnGlyphsFit
<1>7. DrawTypes' /\ JobFits'
  BY <1>1, <1>4, DrawConstants DEF DrawInv, DrawTypes, JobFits
<1> QED
  BY <1>5, <1>6, <1>7 DEF DrawInv

LEMMA DrawRuns ==
    ASSUME DrawInv, [Next]_vars
    PROVE  DrawInv'
<1>1. CASE Drawing!Next
  <2>1. CASE \E size \in CellSizes : Drawing!setFont(size)
    BY <2>1, NewFont
  <2>2. CASE \E text \in Texts, p \in Places : Drawing!drawText(text, p) \/ \E size \in CellSizes : Drawing!draw(text, p, size)
    BY <2>2, DrawCalls
  <2>3. CASE \E p \in Places : Drawing!drawPixel(p)
    BY <2>3, NewPixel
  <2>4. CASE Drawing!Step
    BY <2>4, Newlines, OwnCharacter, Character DEF Drawing!Step
  <2>5. CASE Drawing!Renew
    BY <2>5, Renewed
  <2> QED
    BY <1>1, <2>1, <2>2, <2>3, <2>4, <2>5 DEF Drawing!Next
<1>2. CASE UNCHANGED windraw
  <2>1. UNCHANGED <<screen, bytes, font, cell, cache, live, job, rest, pen, left, last>>
    BY <1>2 DEF windraw
  <2>2. DrawTypes' /\ JobFits' /\ CacheFits' /\ Drawing!CacheOwns'
    BY <2>1 DEF DrawInv, DrawTypes, JobFits, CacheFits, Cached, Drawing!CacheOwns
  <2>3. LastFits'
    BY <2>1 DEF DrawInv, LastFits, Drawing!PaintsInCell, Drawing!InkTowards, Drawing!OwnGlyphsFit
  <2> QED
    BY <2>2, <2>3 DEF DrawInv
<1> QED
  BY <1>1, <1>2 DEF Next, vars, WindowStep, DrawStep, LoadStep, LookupStep, GlyphStep

LEMMA DrawStarts ==
    ASSUME Drawing!Init
    PROVE  DrawInv
<1>1. /\ screen \in Screens /\ bytes \in {-1, Width * Height * Drawing!bytesPerPixel(screen)} /\ font = 0 /\ cell = <<Width, Height>>
      /\ cache = [cp \in CodePoints |-> Drawing!NoGlyph] /\ live = 0
      /\ job = Drawing!Idle /\ rest = <<>> /\ pen = <<0, 0>> /\ left = 0 /\ last = Drawing!Untouched
  BY DEF Drawing!Init, Drawing!Null
<1>2. rest \in Seq(CodePoints \cup {10}) /\ pen \in Int \X Int /\ cell \in Nat \X Nat /\ font \in Nat /\ left \in Int
  BY <1>1, DrawConstants
<1> QED
  BY <1>1, <1>2, NoneCached, UntouchedFits DEF DrawInv, DrawTypes, JobFits

(* Four bytes for each pixel are in the buffer of a screen of 32 bits.     *)
LEMMA FourBytes ==
    ASSUME DrawInv
    PROVE  Drawing!FourBytePixels
<1> DEFINE area == Width * Height
<1> SUFFICES ASSUME bytes # -1, ~ (screen.format \in {2, 3}), NEW n \in last.pixels PROVE 4 * (n + 1) <= bytes
  BY DEF Drawing!FourBytePixels, Drawing!Null
<1>1. screen.format \in {0, 1}
  <2>1. screen.format \in 0 .. 3
    BY DrawConstants DEF DrawInv, DrawTypes
  <2> QED
    BY <2>1
<1>2. Drawing!bytesPerPixel(screen) = 4
  BY <1>1, Zenon DEF Drawing!bytesPerPixel
<1>3. bytes = area * 4 /\ area \in Nat
  BY <1>2, DrawConstants DEF DrawInv, DrawTypes
<1>4. n \in 0 .. area - 1
  BY DEF DrawInv, LastFits, Drawing!PaintsInCell
<1> HIDE DEF area
<1> QED
  BY <1>3, <1>4

(* No text, glyph or pixel is painted outside of its cell or the target; a *)
(* glyph of the font in use is read inside its array; and the cache owns   *)
(* what it holds.                                                          *)
THEOREM TextDrawn == Spec => []DrawnInside
<1>1. Init => DrawInv
  BY DrawStarts DEF Init
<1>2. DrawInv /\ [Next]_vars => DrawInv'
  BY DrawRuns
<1>3. DrawInv => DrawnInside
  BY FourBytes DEF DrawInv, LastFits, DrawnInside
<1> QED
  BY <1>1, <1>2, <1>3, PTL DEF Spec

-----------------------------------------------------------------------------
(* Files of fonts.  While the directory is read, what was stored under a   *)
(* tag is its last record so far; an offset stored is 0 or a record's of   *)
(* the tag, and so leads to a table of that kind or to nothing.            *)

OffsetTags == {"cmap", "head", "loca", "glyf", "hmtx"}
ValueTags == {"maxp", "hhea"}
FieldNames == OffsetTags \cup ValueTags \cup {"subCount", "unitsPerEm", "locFormat", "f"}

LastOf(tag, k) ==
    /\ k \in DOMAIN file.dir /\ k < record /\ file.dir[k].tag = tag
    /\ \A l \in DOMAIN file.dir : k < l /\ l < record => file.dir[l].tag # tag
StoredSoFar ==
    /\ \A tag \in OffsetTags : \A k \in DOMAIN file.dir : LastOf(tag, k) => fields[tag] = file.dir[k].offset
    /\ \A tag \in ValueTags : \A k \in DOMAIN file.dir :
          LastOf(tag, k) /\ Loading!Has(file.dir[k].offset) => fields[tag] = file.body[file.dir[k].offset]

OffsetsNamed ==
    \A tag \in OffsetTags :
        fields[tag] = 0 \/ \E k \in DOMAIN file.dir : file.dir[k].tag = tag /\ file.dir[k].offset = fields[tag]

NotYetFour ==
    Loading!Has(fields["cmap"]) =>
        /\ fields["subCount"] = Len(file.body[fields["cmap"]])
        /\ \A k \in DOMAIN file.body[fields["cmap"]] : k < i => file.body[fields["cmap"]][k].format # 4

FontTypes ==
    /\ file \in Files /\ pc \in {"header", "tables", "cmap", "subtables", "ready"}
    /\ i \in Nat \ {0} /\ fields \in [FieldNames -> Nat] /\ segments \in Loading!Segments

FontInv ==
    /\ FontTypes /\ OffsetsNamed
    /\ pc # "ready" => segments = Loading!Empty /\ answer.glyph = 0 /\ ~ answer.asked
    /\ pc = "tables" => record = i /\ i <= file.count + 1 /\ StoredSoFar
    /\ pc = "subtables" => NotYetFour
    /\ Loading!TablesFound /\ Loading!FirstFormatFour /\ Loading!GlyphAsNamed /\ Loading!GlyphDataFound

LEMMA FileConstants ==
    ASSUME NEW f \in Files
    PROVE  /\ f.count \in Nat /\ 0 \notin DOMAIN f.body
           /\ DOMAIN f.dir = 1 .. Len(f.dir) /\ Len(f.dir) \in Nat
           /\ \A k \in DOMAIN f.dir : f.dir[k].offset \in Nat
           /\ \A tag \in {"cmap", "head", "loca", "hmtx", "maxp", "hhea"} : \A k \in DOMAIN f.dir :
                 f.dir[k].tag = tag /\ f.dir[k].offset \in DOMAIN f.body => f.body[f.dir[k].offset] \in Loading!TableOf(tag)
<1>1. Loading!FontFileAssumption
  BY DesktopAssumption
<1>2. /\ f.count \in Nat /\ 0 \notin DOMAIN f.body /\ f.dir \in Seq([tag : STRING, offset : Nat])
      /\ \A tag \in {"cmap", "head", "loca", "hmtx", "maxp", "hhea"} : \A k \in DOMAIN f.dir :
            f.dir[k].tag = tag /\ f.dir[k].offset \in DOMAIN f.body => f.body[f.dir[k].offset] \in Loading!TableOf(tag)
  BY <1>1 DEF Loading!FontFileAssumption
<1>3. DOMAIN f.dir = 1 .. Len(f.dir) /\ Len(f.dir) \in Nat /\ \A k \in DOMAIN f.dir : f.dir[k].offset \in Nat
  <2> DEFINE T == [tag : STRING, offset : Nat]
             d == f.dir
  <2>1. d \in Seq(T) /\ \A t \in T : t.offset \in Nat
    BY <1>2
  <2> HIDE DEF T, d
  <2>2. DOMAIN d = 1 .. Len(d) /\ Len(d) \in Nat /\ \A k \in DOMAIN d : d[k] \in T
    BY <2>1
  <2> QED
    BY <2>1, <2>2 DEF d
<1> QED
  BY <1>2, <1>3

LEMMA ByChance == Chance \subseteq Nat /\ Strays \subseteq [format : Nat, segments : Loading!Segments]
<1>1. Loading!FontFileAssumption
  BY DesktopAssumption
<1> QED
  BY <1>1 DEF Loading!FontFileAssumption

LEMMA CodesCounted == \A unicode \in Codes : unicode \in Nat
<1>1. Loading!FontFileAssumption
  BY DesktopAssumption
<1> QED
  BY <1>1 DEF Loading!FontFileAssumption

(* An offset stored leads to a table of its tag.                           *)
LEMMA TableThere ==
    ASSUME FontTypes, OffsetsNamed, NEW tag \in {"cmap", "head", "loca", "hmtx"}, Loading!Has(fields[tag])
    PROVE  file.body[fields[tag]] \in Loading!TableOf(tag)
<1>1. file \in Files /\ tag \in OffsetTags
  BY DEF FontTypes, OffsetTags
<1>2. fields[tag] # 0 /\ fields[tag] \in DOMAIN file.body
  BY <1>1, FileConstants DEF Loading!Has
<1>3. PICK k \in DOMAIN file.dir : file.dir[k].tag = tag /\ file.dir[k].offset = fields[tag]
  BY <1>1, <1>2 DEF OffsetsNamed
<1> QED
  BY <1>1, <1>2, <1>3, FileConstants

LEMMA SubtablesThere ==
    ASSUME FontTypes, OffsetsNamed, Loading!Has(fields["cmap"])
    PROVE  /\ Len(file.body[fields["cmap"]]) \in Nat
           /\ DOMAIN file.body[fields["cmap"]] = 1 .. Len(file.body[fields["cmap"]])
           /\ \A k \in DOMAIN file.body[fields["cmap"]] : file.body[fields["cmap"]][k].segments \in Loading!Segments
<1>1. Loading!TableOf("cmap") = Seq([format : Nat, segments : Loading!Segments])
  BY DEF Loading!TableOf
<1>2. file.body[fields["cmap"]] \in Seq([format : Nat, segments : Loading!Segments])
  BY <1>1, TableThere
<1> DEFINE T == [format : Nat, segments : Loading!Segments]
           d == file.body[fields["cmap"]]
<1>3. d \in Seq(T) /\ \A t \in T : t.segments \in Loading!Segments
  BY <1>2
<1> HIDE DEF T, d
<1>4. DOMAIN d = 1 .. Len(d) /\ Len(d) \in Nat /\ \A k \in DOMAIN d : d[k] \in T
  BY <1>3
<1> QED
  BY <1>3, <1>4 DEF d

LEMMA HeadThere ==
    ASSUME FontTypes, OffsetsNamed, Loading!Has(fields["head"])
    PROVE  file.body[fields["head"]] \in [unitsPerEm : Nat, locFormat : Nat]
<1>1. Loading!TableOf("head") = [unitsPerEm : Nat, locFormat : Nat]
  BY DEF Loading!TableOf
<1> QED
  BY <1>1, TableThere

LEMMA LocaThere ==
    ASSUME FontTypes, OffsetsNamed, Loading!Has(fields["loca"])
    PROVE  file.body[fields["loca"]] \in Seq(Nat)
<1>1. Loading!TableOf("loca") = Seq(Nat)
  BY DEF Loading!TableOf
<1> QED
  BY <1>1, TableThere

LEMMA ValueThere ==
    ASSUME file \in Files, NEW k \in DOMAIN file.dir, file.dir[k].tag \in ValueTags, Loading!Has(file.dir[k].offset)
    PROVE  file.body[file.dir[k].offset] \in Nat
<1>1. Loading!TableOf("maxp") = Nat /\ Loading!TableOf("hhea") = Nat
  BY DEF Loading!TableOf
<1>2. file.dir[k].tag = "maxp" \/ file.dir[k].tag = "hhea"
  BY DEF ValueTags
<1> QED
  BY <1>1, <1>2, FileConstants DEF Loading!Has

(* Lists of numbers have a least one.                                      *)
LEMMA FirstOne ==
    ASSUME NEW S \in SUBSET Nat, S # {}
    PROVE  Loading!Min(S) \in S /\ \A n \in S : Loading!Min(S) <= n
<1> DEFINE R == OpToRel(<, Nat)
<1>1. IsWellFoundedOn(R, Nat)
  BY NatLessThanWellFounded
<1>2. \A m, n \in Nat : <<n, m>> \in R <=> n < m
  BY DEF OpToRel
<1> HIDE DEF R
<1>3. PICK m \in S : \A n \in S : ~ (<<n, m>> \in R)
  BY <1>1, WFMin
<1>4. ASSUME NEW n \in S PROVE m <= n
  <2>1. m \in Nat /\ n \in Nat
    OBVIOUS
  <2>2. ~ (n < m)
    BY <2>1, <1>2, <1>3
  <2> QED
    BY <2>1, <2>2
<1> QED
  BY <1>3, <1>4 DEF Loading!Min

LEMMA FontStarts ==
    ASSUME Loading!Init
    PROVE  FontInv
<1>1. /\ file \in Files /\ pc \in {"header", "ready"} /\ i = 1 /\ segments = Loading!Empty
      /\ fields = [cmap |-> 0, head |-> 0, loca |-> 0, maxp |-> 0, glyf |-> 0, hmtx |-> 0, hhea |-> 0, subCount |-> 0,
                   unitsPerEm |-> 0, locFormat |-> 0, f |-> IF pc = "ready" THEN Loading!NULL ELSE 1]
      /\ answer.glyph = 0 /\ ~ answer.asked
  BY DEF Loading!Init
<1>2. /\ fields \in [FieldNames -> Nat] /\ \A tag \in OffsetTags : fields[tag] = 0
      /\ pc = "ready" => fields["f"] = Loading!NULL
  BY <1>1 DEF FieldNames, OffsetTags, ValueTags, Loading!NULL
<1>3. segments \in Loading!Segments
  BY <1>1 DEF Loading!Segments, Loading!Empty
<1>4. FontTypes /\ OffsetsNamed
  BY <1>1, <1>2, <1>3 DEF FontTypes, OffsetsNamed
<1>5. ~ Loading!Has(fields["cmap"])
  BY <1>1, <1>2, FileConstants DEF Loading!Has, OffsetTags
<1>6. Loading!TablesFound /\ Loading!FirstFormatFour /\ Loading!GlyphAsNamed /\ Loading!GlyphDataFound
  BY <1>1, <1>2, <1>5 DEF Loading!TablesFound, Loading!FirstFormatFour, Loading!GlyphAsNamed, Loading!GlyphDataFound
<1> QED
  BY <1>1, <1>4, <1>6 DEF FontInv

LEMMA HeaderRead ==
    ASSUME FontInv, Loading!Header
    PROVE  FontInv'
<1>1. pc = "header" /\ pc' = "tables" /\ i' = 1 /\ record' = 1 /\ UNCHANGED <<file, fields, segments, answer>>
  BY DEF Loading!Header
<1>2. file \in Files /\ file.count \in Nat /\ \A k \in DOMAIN file.dir : k \in Nat /\ ~ (k < 1)
  BY FileConstants DEF FontInv, FontTypes
<1>3. StoredSoFar'
  BY <1>1, <1>2 DEF StoredSoFar, LastOf
<1>4. FontTypes' /\ OffsetsNamed'
  BY <1>1 DEF FontInv, FontTypes, OffsetsNamed
<1>5. Loading!TablesFound' /\ Loading!FirstFormatFour' /\ Loading!GlyphAsNamed' /\ Loading!GlyphDataFound'
  BY <1>1 DEF FontInv, Loading!TablesFound, Loading!FirstFormatFour, Loading!GlyphAsNamed, Loading!GlyphDataFound
<1> QED
  BY <1>1, <1>2, <1>3, <1>4, <1>5 DEF FontInv

(* The next record becomes the last of its tag.                            *)
LEMMA TableRead ==
    ASSUME FontInv, Loading!Table
    PROVE  FontInv'
<1> DEFINE r == file.dir[record]
           known == record \in DOMAIN file.dir
<1>1. /\ pc = "tables" /\ i <= file.count /\ i' = i + 1 /\ record' = record + 1
      /\ UNCHANGED <<file, pc, segments, answer>>
  BY DEF Loading!Table
<1>2. /\ FontTypes /\ OffsetsNamed /\ record = i /\ StoredSoFar
      /\ segments = Loading!Empty /\ answer.glyph = 0 /\ ~ answer.asked
      /\ file \in Files /\ i \in Nat /\ fields \in [FieldNames -> Nat]
  BY <1>1 DEF FontInv, FontTypes
<1>3. /\ file.count \in Nat /\ DOMAIN file.dir = 1 .. Len(file.dir) /\ Len(file.dir) \in Nat
      /\ \A k \in DOMAIN file.dir : file.dir[k].offset \in Nat /\ k \in Nat
  BY <1>2, FileConstants
<1>4. \/ /\ known /\ r.tag \in OffsetTags /\ fields' = [fields EXCEPT ![r.tag] = r.offset]
      \/ /\ known /\ r.tag \in ValueTags
         /\ \E v \in Nat : fields' = [fields EXCEPT ![r.tag] = v] /\ (Loading!Has(r.offset) => v = file.body[r.offset])
      \/ (known => r.tag \notin OffsetTags \cup ValueTags) /\ fields' = fields
  <2> DEFINE q == IF known THEN r ELSE Loading!Nothing
  <2>1. /\ q.tag \in OffsetTags => fields' = [fields EXCEPT ![q.tag] = q.offset]
        /\ q.tag \in ValueTags =>
              \E v \in IF Loading!Has(q.offset) THEN {file.body[q.offset]} ELSE IF q.tag = "maxp" THEN Chance ELSE {0} :
                  fields' = [fields EXCEPT ![q.tag] = v]
        /\ q.tag \notin OffsetTags \cup ValueTags => fields' = fields
    <3>1. CASE q.tag \in OffsetTags
      <4>1. q.tag \notin ValueTags
        BY <3>1 DEF OffsetTags, ValueTags
      <4> QED
        BY <3>1, <4>1, Zenon DEF Loading!Table, OffsetTags, ValueTags
    <3>2. CASE q.tag \in ValueTags
      <4>1. q.tag \notin OffsetTags
        BY <3>2 DEF OffsetTags, ValueTags
      <4> QED
        BY <3>2, <4>1, Zenon DEF Loading!Table, OffsetTags, ValueTags
    <3>3. CASE q.tag \notin OffsetTags \cup ValueTags
      BY <3>3, Zenon DEF Loading!Table, OffsetTags, ValueTags
    <3> QED
      BY <3>1, <3>2, <3>3
  <2>2. CASE ~ known
    <3>1. q.tag = ""
      BY <2>2 DEF Loading!Nothing
    <3>2. q.tag \notin OffsetTags \cup ValueTags
      BY <3>1 DEF OffsetTags, ValueTags
    <3> QED
      BY <2>1, <2>2, <3>2
  <2>3. CASE known
    <3>1. q = r
      BY <2>3
    <3>2. CASE r.tag \in OffsetTags
      BY <2>1, <2>3, <3>1, <3>2
    <3>3. CASE r.tag \in ValueTags
      <4>1. PICK v \in IF Loading!Has(r.offset) THEN {file.body[r.offset]} ELSE IF r.tag = "maxp" THEN Chance ELSE {0} :
               fields' = [fields EXCEPT ![r.tag] = v]
        BY <2>1, <3>1, <3>3
      <4>2. v \in Nat /\ (Loading!Has(r.offset) => v = file.body[r.offset])
        BY <1>2, <2>3, <3>3, <4>1, ValueThere, ByChance
      <4> QED
        BY <2>3, <3>3, <4>1, <4>2
    <3>4. CASE r.tag \notin OffsetTags \cup ValueTags
      BY <2>1, <3>1, <3>4
    <3> QED
      BY <3>2, <3>3, <3>4
  <2> QED
    BY <2>2, <2>3
<1> DEFINE StoredNow ==
    /\ fields' \in [FieldNames -> Nat]
    /\ \A tag \in FieldNames : (known /\ r.tag = tag) \/ fields'[tag] = fields[tag]
    /\ \A tag \in OffsetTags : known /\ r.tag = tag => fields'[tag] = r.offset
    /\ \A tag \in ValueTags : known /\ r.tag = tag /\ Loading!Has(r.offset) => fields'[tag] = file.body[r.offset]
<1>5. StoredNow
  <2>1. OffsetTags \cup ValueTags \subseteq FieldNames
    BY DEF FieldNames
  <2>2. CASE known /\ r.tag \in OffsetTags /\ fields' = [fields EXCEPT ![r.tag] = r.offset]
    <3>1. r.offset \in Nat /\ r.tag \notin ValueTags
      BY <1>3, <2>2 DEF OffsetTags, ValueTags
    <3> HIDE DEF r, known
    <3> QED
      BY <1>2, <2>1, <2>2, <3>1
  <2>3. ASSUME known, r.tag \in ValueTags, NEW v \in Nat, fields' = [fields EXCEPT ![r.tag] = v],
               Loading!Has(r.offset) => v = file.body[r.offset]
        PROVE  StoredNow
    <3>1. r.tag \notin OffsetTags
      BY <2>3 DEF OffsetTags, ValueTags
    <3> HIDE DEF r, known
    <3> QED
      BY <1>2, <2>1, <2>3, <3>1
  <2>4. CASE (known => r.tag \notin OffsetTags \cup ValueTags) /\ fields' = fields
    BY <1>2, <2>4
  <2> HIDE DEF r, known
  <2> QED
    BY <1>4, <2>2, <2>3, <2>4
<1> HIDE DEF r, known
<1>6. ASSUME NEW tag, NEW k \in DOMAIN file.dir, LastOf(tag, k)'
      PROVE  (k = record /\ known /\ r.tag = tag) \/ (k # record /\ LastOf(tag, k) /\ ~ (known /\ r.tag = tag))
  BY <1>1, <1>2, <1>3, <1>6 DEF LastOf, r, known
<1>7. StoredSoFar'
  <2>1. ASSUME NEW tag \in OffsetTags, NEW k \in DOMAIN file.dir, LastOf(tag, k)'
        PROVE  fields'[tag] = file.dir[k].offset
    <3>1. tag \in FieldNames
      BY DEF FieldNames
    <3>2. CASE k = record /\ known /\ r.tag = tag
      BY <3>2, <1>5 DEF r
    <3>3. CASE LastOf(tag, k) /\ ~ (known /\ r.tag = tag)
      <4>1. fields'[tag] = fields[tag]
        BY <1>5, <3>1, <3>3
      <4> QED
        BY <3>3, <4>1, <1>2 DEF StoredSoFar
    <3> QED
      BY <1>6, <2>1, <3>2, <3>3
  <2>2. ASSUME NEW tag \in ValueTags, NEW k \in DOMAIN file.dir, LastOf(tag, k)', Loading!Has(file.dir[k].offset)
        PROVE  fields'[tag] = file.body[file.dir[k].offset]
    <3>1. tag \in FieldNames
      BY DEF FieldNames
    <3>2. CASE k = record /\ known /\ r.tag = tag
      BY <2>2, <3>2, <1>5 DEF r
    <3>3. CASE LastOf(tag, k) /\ ~ (known /\ r.tag = tag)
      <4>1. fields'[tag] = fields[tag]
        BY <1>5, <3>1, <3>3
      <4> QED
        BY <2>2, <3>3, <4>1, <1>2 DEF StoredSoFar
    <3> QED
      BY <1>6, <2>2, <3>2, <3>3
  <2> QED
    BY <1>1, <2>1, <2>2 DEF StoredSoFar, Loading!Has
<1>8. OffsetsNamed'
  <2> SUFFICES ASSUME NEW tag \in OffsetTags
               PROVE  fields'[tag] = 0 \/ \E k \in DOMAIN file.dir : file.dir[k].tag = tag /\ file.dir[k].offset = fields'[tag]
    BY <1>1 DEF OffsetsNamed
  <2>1. tag \in FieldNames
    BY DEF FieldNames
  <2>2. CASE known /\ r.tag = tag
    BY <2>2, <1>5 DEF r, known
  <2>3. CASE ~ (known /\ r.tag = tag)
    <3>1. fields'[tag] = fields[tag]
      BY <2>1, <2>3, <1>5
    <3> QED
      BY <3>1, <1>2 DEF OffsetsNamed
  <2> QED
    BY <2>2, <2>3
<1>9. FontTypes' /\ i' <= file.count + 1 /\ record' = i'
  BY <1>1, <1>2, <1>3, <1>5 DEF FontTypes
<1>10. Loading!TablesFound' /\ Loading!FirstFormatFour' /\ Loading!GlyphAsNamed' /\ Loading!GlyphDataFound'
  BY <1>1, <1>2 DEF Loading!TablesFound, Loading!FirstFormatFour, Loading!GlyphAsNamed, Loading!GlyphDataFound
<1> QED
  BY <1>1, <1>2, <1>7, <1>8, <1>9, <1>10 DEF FontInv

LEMMA HeadRead ==
    ASSUME FontInv, Loading!HeadTable
    PROVE  FontInv'
<1>1. /\ pc = "tables" /\ i > file.count /\ pc' = "cmap" /\ UNCHANGED <<file, i, record, segments, answer>>
      /\ FontTypes /\ OffsetsNamed /\ record = i /\ i <= file.count + 1 /\ StoredSoFar
      /\ segments = Loading!Empty /\ answer.glyph = 0 /\ ~ answer.asked
      /\ file \in Files /\ i \in Nat /\ fields \in [FieldNames -> Nat]
  BY DEF Loading!HeadTable, FontInv, FontTypes
<1>2. PICK h \in IF Loading!Has(fields["head"]) THEN {file.body[fields["head"]]} ELSE [unitsPerEm : Chance, locFormat : Chance] :
         fields' = [fields EXCEPT !["unitsPerEm"] = h.unitsPerEm, !["locFormat"] = h.locFormat]
  BY DEF Loading!HeadTable
<1>3. h \in [unitsPerEm : Nat, locFormat : Nat] /\ (Loading!Has(fields["head"]) => h = file.body[fields["head"]])
  <2>1. CASE Loading!Has(fields["head"])
    BY <1>1, <1>2, <2>1, HeadThere
  <2>2. CASE ~ Loading!Has(fields["head"])
    BY <1>2, <2>2, ByChance
  <2> QED
    BY <2>1, <2>2
<1>4. /\ fields' \in [FieldNames -> Nat] /\ fields'["unitsPerEm"] = h.unitsPerEm /\ fields'["locFormat"] = h.locFormat
      /\ \A tag \in OffsetTags \cup ValueTags : fields'[tag] = fields[tag]
  <2>1. h.unitsPerEm \in Nat /\ h.locFormat \in Nat
    BY <1>3
  <2> QED
    BY <1>1, <1>2, <2>1 DEF FieldNames, OffsetTags, ValueTags
<1>5. ASSUME file.count = Len(file.dir), NEW tag, NEW t \in Loading!Tagged(tag)
      PROVE  \E k \in DOMAIN file.dir : LastOf(tag, k) /\ t = file.dir[k]
  <2>1. PICK k \in DOMAIN file.dir : /\ t = file.dir[k] /\ t.tag = tag
                                     /\ \A l \in DOMAIN file.dir : l > k => file.dir[l].tag # tag
    BY <1>5 DEF Loading!Tagged
  <2>2. DOMAIN file.dir = 1 .. Len(file.dir) /\ Len(file.dir) \in Nat
    BY <1>1, FileConstants
  <2>3. k < record
    BY <1>1, <1>5, <2>2
  <2> QED
    BY <2>1, <2>2, <2>3 DEF LastOf
<1>6. Loading!TablesFound'
  <2> SUFFICES ASSUME file.count = Len(file.dir)
               PROVE  /\ \A tag \in {"cmap", "loca", "glyf", "hmtx"} : \A t \in Loading!Tagged(tag) : fields'[tag] = t.offset
                      /\ \A tag \in {"maxp", "hhea"} : \A t \in Loading!Tagged(tag) :
                            Loading!Has(t.offset) => fields'[tag] = file.body[t.offset]
                      /\ \A t \in Loading!Tagged("head") : Loading!Has(t.offset) =>
                            [unitsPerEm |-> fields'.unitsPerEm, locFormat |-> fields'.locFormat] = file.body[t.offset]
    <3>1. \A tag : (Loading!Tagged(tag))' = Loading!Tagged(tag)
      BY <1>1 DEF Loading!Tagged
    <3>2. \A o : (Loading!Has(o))' = Loading!Has(o)
      BY <1>1 DEF Loading!Has
    <3> QED
      BY <1>1, <3>1, <3>2 DEF Loading!TablesFound
  <2>1. ASSUME NEW tag \in {"cmap", "loca", "glyf", "hmtx", "head"}, NEW t \in Loading!Tagged(tag)
        PROVE  fields'[tag] = t.offset
    <3>1. tag \in OffsetTags
      BY DEF OffsetTags
    <3>2. fields[tag] = t.offset
      BY <1>1, <1>5, <3>1 DEF StoredSoFar
    <3> QED
      BY <1>4, <3>1, <3>2
  <2>2. ASSUME NEW tag \in {"maxp", "hhea"}, NEW t \in Loading!Tagged(tag), Loading!Has(t.offset)
        PROVE  fields'[tag] = file.body[t.offset]
    <3>1. tag \in ValueTags
      BY DEF ValueTags
    <3>2. PICK k \in DOMAIN file.dir : LastOf(tag, k) /\ t = file.dir[k]
      BY <1>5
    <3>3. fields[tag] = file.body[t.offset]
      BY <1>1, <2>2, <3>1, <3>2 DEF StoredSoFar
    <3> QED
      BY <1>4, <3>1, <3>3
  <2>3. ASSUME NEW t \in Loading!Tagged("head"), Loading!Has(t.offset)
        PROVE  [unitsPerEm |-> fields'.unitsPerEm, locFormat |-> fields'.locFormat] = file.body[t.offset]
    <3>1. fields'["head"] = t.offset /\ fields'["head"] = fields["head"]
      BY <2>1, <1>4 DEF OffsetTags
    <3>2. h = file.body[t.offset]
      BY <1>3, <2>3, <3>1
    <3>3. h = [unitsPerEm |-> h.unitsPerEm, locFormat |-> h.locFormat]
      BY <1>3
    <3> QED
      BY <1>4, <3>2, <3>3
  <2> QED
    BY <2>1, <2>2, <2>3
<1>7. FontTypes' /\ OffsetsNamed'
  BY <1>1, <1>4 DEF FontTypes, OffsetsNamed
<1>8. Loading!FirstFormatFour' /\ Loading!GlyphAsNamed' /\ Loading!GlyphDataFound'
  BY <1>1 DEF Loading!FirstFormatFour, Loading!GlyphAsNamed, Loading!GlyphDataFound
<1> QED
  BY <1>1, <1>6, <1>7, <1>8 DEF FontInv

(* What the tables gave stays when no more of it is read.                  *)
LEMMA TablesKept ==
    ASSUME Loading!TablesFound, pc \in {"cmap", "subtables", "ready"}, file' = file,
           \A tag \in FieldNames \ {"subCount"} : fields'[tag] = fields[tag]
    PROVE  Loading!TablesFound'
<1>1. /\ \A tag : (Loading!Tagged(tag))' = Loading!Tagged(tag)
      /\ \A o : (Loading!Has(o))' = Loading!Has(o)
  BY DEF Loading!Tagged, Loading!Has
<1>2. \A tag \in {"cmap", "loca", "glyf", "hmtx", "maxp", "hhea", "unitsPerEm", "locFormat", "f"} : fields'[tag] = fields[tag]
  BY DEF FieldNames, OffsetTags, ValueTags
<1>3. fields'["unitsPerEm"] = fields["unitsPerEm"] /\ fields'["locFormat"] = fields["locFormat"] /\ fields'["f"] = fields["f"]
  BY <1>2
<1> QED
  BY <1>1, <1>2, <1>3 DEF Loading!TablesFound

LEMMA CmapRead ==
    ASSUME FontInv, Loading!CmapTable
    PROVE  FontInv'
<1>1. /\ pc = "cmap" /\ pc' = "subtables" /\ i' = 1 /\ UNCHANGED <<file, record, segments, answer>>
      /\ FontTypes /\ OffsetsNamed /\ Loading!TablesFound
      /\ segments = Loading!Empty /\ answer.glyph = 0 /\ ~ answer.asked
      /\ file \in Files /\ fields \in [FieldNames -> Nat]
  BY DEF Loading!CmapTable, FontInv, FontTypes
<1>2. PICK n \in IF Loading!Has(fields["cmap"]) THEN {Len(file.body[fields["cmap"]])} ELSE Chance :
         fields' = [fields EXCEPT !["subCount"] = n]
  BY DEF Loading!CmapTable
<1>3. n \in Nat /\ (Loading!Has(fields["cmap"]) => n = Len(file.body[fields["cmap"]]))
  BY <1>1, <1>2, SubtablesThere, ByChance
<1>4. /\ fields' \in [FieldNames -> Nat] /\ fields'["subCount"] = n
      /\ \A tag \in OffsetTags : fields'[tag] = fields[tag]
      /\ \A tag \in FieldNames \ {"subCount"} : fields'[tag] = fields[tag]
  BY <1>1, <1>2, <1>3 DEF FieldNames, OffsetTags
<1>5. fields'["cmap"] = fields["cmap"]
  BY <1>4 DEF OffsetTags
<1>6. NotYetFour'
  <2>1. ASSUME Loading!Has(fields["cmap"]) PROVE \A k \in DOMAIN file.body[fields["cmap"]] : ~ (k < 1)
    BY <1>1, <2>1, SubtablesThere
  <2> QED
    BY <1>1, <1>3, <1>4, <1>5, <2>1 DEF NotYetFour, Loading!Has
<1>7. FontTypes' /\ OffsetsNamed'
  BY <1>1, <1>4 DEF FontTypes, OffsetsNamed
<1>8. Loading!FirstFormatFour' /\ Loading!GlyphAsNamed' /\ Loading!GlyphDataFound'
  BY <1>1 DEF Loading!FirstFormatFour, Loading!GlyphAsNamed, Loading!GlyphDataFound
<1>9. Loading!TablesFound'
  BY <1>1, <1>4, TablesKept
<1> QED
  BY <1>1, <1>6, <1>7, <1>8, <1>9 DEF FontInv

(* The loop ends at the first subtable of format 4, or behind the last.    *)
LEMMA SubtableRead ==
    ASSUME FontInv, Loading!Subtable
    PROVE  FontInv'
<1> DEFINE table == file.body[fields["cmap"]]
           has == Loading!Has(fields["cmap"])
<1>1. /\ pc = "subtables" /\ i <= fields["subCount"] /\ UNCHANGED <<file, record, fields, answer>>
      /\ FontTypes /\ OffsetsNamed /\ NotYetFour /\ Loading!TablesFound
      /\ segments = Loading!Empty /\ answer.glyph = 0 /\ ~ answer.asked
      /\ file \in Files /\ fields \in [FieldNames -> Nat] /\ i \in Nat \ {0}
  BY DEF Loading!Subtable, FontInv, FontTypes
<1> PICK t \in Loading!SubtableAt(i) :
        IF t.format = 4
        THEN segments' = t.segments /\ pc' = "ready" /\ UNCHANGED i
        ELSE i' = i + 1 /\ UNCHANGED <<segments, pc>>
  BY Zenon DEF Loading!Subtable
<1>2. ASSUME has
      PROVE  /\ DOMAIN table = 1 .. Len(table) /\ Len(table) \in Nat /\ i \in DOMAIN table
             /\ table[i].segments \in Loading!Segments /\ t = table[i]
             /\ \A k \in DOMAIN table : k < i => table[k].format # 4
  <2>1. /\ DOMAIN table = 1 .. Len(table) /\ Len(table) \in Nat
        /\ \A k \in DOMAIN table : table[k].segments \in Loading!Segments
    BY <1>1, <1>2, SubtablesThere
  <2>2. i \in DOMAIN table /\ \A k \in DOMAIN table : k < i => table[k].format # 4
    BY <1>1, <1>2, <2>1 DEF NotYetFour
  <2> QED
    BY <1>2, <2>1, <2>2 DEF Loading!SubtableAt
<1>3. t.segments \in Loading!Segments
  <2>1. ASSUME ~ has PROVE t \in Strays
    BY <2>1 DEF Loading!SubtableAt
  <2> QED
    BY <1>2, <2>1, ByChance
<1>4. OffsetsNamed'
  BY <1>1 DEF OffsetsNamed
<1>5. Loading!TablesFound' /\ Loading!GlyphAsNamed' /\ Loading!GlyphDataFound'
  <2>1. Loading!TablesFound'
    BY <1>1, TablesKept
  <2> QED
    BY <1>1, <2>1 DEF Loading!GlyphAsNamed, Loading!GlyphDataFound
<1>6. CASE t.format = 4
  <2>1. segments' = t.segments /\ pc' = "ready" /\ i' = i
    BY <1>6
  <2> DEFINE four == {k \in DOMAIN table : table[k].format = 4}
  <2>2. ASSUME has PROVE Loading!Min(four) = i /\ four # {}
    <3>1. four \subseteq Nat /\ i \in four /\ \A k \in four : i <= k
      BY SMTT(30), <1>1, <1>2, <1>6, <2>1, <2>2
    <3> HIDE DEF four
    <3>2. Loading!Min(four) \in four /\ Loading!Min(four) <= i
      BY <3>1, FirstOne
    <3>3. i <= Loading!Min(four) /\ Loading!Min(four) \in Nat /\ i \in Nat
      BY <3>1, <3>2
    <3> QED
      BY <3>1, <3>2, <3>3
  <2>4. (has => segments' = table[i].segments) /\ segments' \in Loading!Segments
    BY <1>2, <1>3, <2>1
  <2>5. Loading!FirstFormatFour'
    <3>1. has => four # {} /\ segments' = table[Loading!Min(four)].segments
      BY <2>2, <2>4
    <3> QED
      BY <1>1, <3>1 DEF Loading!FirstFormatFour, Loading!Has
  <2>6. FontTypes'
    BY <1>1, <2>1, <2>4 DEF FontTypes
  <2> QED
    BY <1>4, <1>5, <2>1, <2>5, <2>6 DEF FontInv
<1>7. CASE t.format # 4
  <2>1. i' = i + 1 /\ UNCHANGED <<segments, pc>>
    BY <1>7
  <2>2. NotYetFour'
    <3>1. ASSUME has, NEW k \in DOMAIN table, k < i + 1 PROVE table[k].format # 4
      <4>1. k = i \/ k < i
        BY SMTT(30), <1>1, <1>2, <3>1
      <4> QED
        BY <1>2, <1>7, <3>1, <4>1
    <3> QED
      BY <1>1, <2>1, <3>1 DEF NotYetFour, Loading!Has
  <2>3. FontTypes' /\ Loading!FirstFormatFour'
    BY <1>1, <2>1 DEF FontTypes, Loading!FirstFormatFour
  <2> QED
    BY <1>1, <1>4, <1>5, <2>1, <2>2, <2>3 DEF FontInv
<1> QED
  BY <1>6, <1>7

LEMMA NoSubtable ==
    ASSUME FontInv, Loading!Subtables
    PROVE  FontInv'
<1> DEFINE table == file.body[fields["cmap"]]
<1>1. /\ pc = "subtables" /\ i > fields["subCount"] /\ pc' = "ready" /\ UNCHANGED <<file, i, record, fields, segments, answer>>
      /\ FontTypes /\ OffsetsNamed /\ NotYetFour /\ Loading!TablesFound
      /\ segments = Loading!Empty /\ answer.glyph = 0 /\ ~ answer.asked /\ i \in Nat
  BY DEF Loading!Subtables, FontInv, FontTypes
<1>2. ASSUME Loading!Has(fields["cmap"]) PROVE {k \in DOMAIN table : table[k].format = 4} = {}
  <2>1. DOMAIN table = 1 .. Len(table) /\ Len(table) \in Nat
    BY <1>1, <1>2, SubtablesThere
  <2> QED
    BY <1>1, <1>2, <2>1 DEF NotYetFour
<1>3. Loading!FirstFormatFour'
  BY <1>1, <1>2 DEF Loading!FirstFormatFour, Loading!Has
<1>4. FontTypes' /\ OffsetsNamed'
  BY <1>1 DEF FontTypes, OffsetsNamed
<1>5. Loading!GlyphAsNamed' /\ Loading!GlyphDataFound'
  BY <1>1 DEF Loading!GlyphAsNamed, Loading!GlyphDataFound
<1>6. Loading!TablesFound'
  BY <1>1, TablesKept
<1> QED
  BY <1>1, <1>3, <1>4, <1>5, <1>6 DEF FontInv

LEMMA Entries ==
    ASSUME NEW T, NEW q \in Seq(T)
    PROVE  DOMAIN q = 1 .. Len(q) /\ Len(q) \in Nat /\ \A n \in DOMAIN q : q[n] \in T
  OBVIOUS

(* The index leads to the same word as the offset counted from its own     *)
(* place, in the offsets and the ids behind them.                          *)
LEMMA Named ==
    ASSUME NEW s \in Loading!Segments, NEW unicode \in Nat, Loading!getGlyphIndex(s, unicode) # 0
    PROVE  \E k \in DOMAIN s.ends :
              /\ unicode \in s.starts[k] .. s.ends[k]
              /\ LET words == s.ranges \o s.ids
                     named == words[k + s.ranges[k] \div 2 + (unicode - s.starts[k])]
                 IN  Loading!getGlyphIndex(s, unicode) =
                        Loading!Word(s.deltas[k] + IF s.ranges[k] = 0 THEN unicode ELSE named)
<1> DEFINE after == {k \in DOMAIN s.ends : s.ends[k] >= unicode}
           k == Loading!Min(after)
           o == Loading!IdIndex(s, unicode, k) + 1
           g == Loading!getGlyphIndex(s, unicode)
           n == Len(s.ends)
           words == s.ranges \o s.ids
<1>1. /\ s.ends \in Seq(Nat) /\ s.starts \in Seq(Nat) /\ s.deltas \in Seq(Int) /\ s.ranges \in Seq(Nat) /\ s.ids \in Seq(Nat)
      /\ Len(s.starts) = n /\ Len(s.deltas) = n /\ Len(s.ranges) = n /\ n \in Nat
  BY DEF Loading!Segments
<1>2. g = IF after = {} \/ s.starts[k] > unicode THEN 0
          ELSE IF s.ranges[k] = 0 THEN Loading!Word(unicode + s.deltas[k])
          ELSE IF o \in DOMAIN s.ids /\ s.ids[o] # 0 THEN Loading!Word(s.ids[o] + s.deltas[k])
          ELSE 0
  BY Zenon DEF Loading!getGlyphIndex
<1> HIDE DEF g, k, o
<1>3. after # {} /\ ~ (s.starts[k] > unicode)
  BY <1>2 DEF g
<1>4. k \in DOMAIN s.ends /\ s.ends[k] >= unicode
  <2>1. after \subseteq Nat
    BY SMTT(30), <1>1
  <2> HIDE DEF after
  <2>2. k \in after
    BY <1>3, <2>1, FirstOne DEF k
  <2> QED
    BY <2>2 DEF after
<1>5. /\ k \in 1 .. n /\ s.starts[k] \in Nat /\ s.ends[k] \in Nat /\ s.deltas[k] \in Int /\ s.ranges[k] \in Nat
  <2>1. /\ DOMAIN s.ends = 1 .. n /\ DOMAIN s.starts = 1 .. n /\ DOMAIN s.deltas = 1 .. n /\ DOMAIN s.ranges = 1 .. n
    BY <1>1, Entries
  <2> QED
    BY <1>1, <1>4, <2>1, Entries
<1>6. unicode \in s.starts[k] .. s.ends[k]
  BY <1>3, <1>4, <1>5
<1>7. CASE s.ranges[k] = 0
  <2>1. g = Loading!Word(unicode + s.deltas[k])
    BY <1>2, <1>3, <1>7
  <2>2. unicode + s.deltas[k] = s.deltas[k] + unicode
    BY <1>5
  <2> QED
    BY <1>4, <1>6, <1>7, <2>1, <2>2 DEF g
<1>8. CASE s.ranges[k] # 0
  <2>1. o \in DOMAIN s.ids /\ g = Loading!Word(s.ids[o] + s.deltas[k])
    <3> HIDE DEF after
    <3> QED
      BY <1>2, <1>3, <1>8 DEF g
  <2>2. o = (k + s.ranges[k] \div 2 + (unicode - s.starts[k])) - n
    <3> DEFINE q == s.ranges[k] \div 2
               f == s.starts[k]
    <3>1. q \in Int /\ f \in Int /\ n \in Int /\ k \in Int
      BY ONLY <1>1, <1>5, SMTT(30)
    <3>2. o = (q + (unicode - f) - (n - (k - 1))) + 1
      BY DEF Loading!IdIndex, o
    <3> HIDE DEF n, q, f
    <3>3. o = (k + q + (unicode - f)) - n
      BY <3>1, <3>2
    <3> QED
      BY <3>3 DEF q, f
  <2> DEFINE place == k + s.ranges[k] \div 2 + (unicode - s.starts[k])
  <2>3. place \in Int /\ place = n + o /\ o \in 1 .. Len(s.ids) /\ Len(s.ids) \in Nat
    <3>1. DOMAIN s.ids = 1 .. Len(s.ids) /\ Len(s.ids) \in Nat
      BY <1>1, Entries
    <3>2. place \in Int /\ n \in Int /\ o = place - n
      <4>1. s.ranges[k] \div 2 \in Int /\ s.starts[k] \in Int /\ n \in Int /\ k \in Int
        BY ONLY <1>1, <1>5, SMTT(30)
      <4>2. place \in Int
        BY <4>1
      <4> QED
        BY <4>1, <4>2, <2>2
    <3> HIDE DEF place, n
    <3> QED
      BY <2>1, <3>1, <3>2
  <2> HIDE DEF place
  <2>4. words[place] = s.ids[o] /\ s.ids[o] \in Nat
    <3> DEFINE a1 == s.ranges
               b1 == s.ids
    <3>1. a1 \in Seq(Nat) /\ b1 \in Seq(Nat) /\ Len(a1) = n
      BY <1>1
    <3> HIDE DEF a1, b1
    <3>2. \A l \in 1 .. Len(b1) : (a1 \o b1)[Len(a1) + l] = b1[l] /\ b1[l] \in Nat
      BY SMTT(30), <3>1
    <3>3. \A l \in 1 .. Len(s.ids) : words[n + l] = s.ids[l] /\ s.ids[l] \in Nat
      BY <1>1, <3>2 DEF a1, b1
    <3> HIDE DEF words
    <3> QED
      BY <2>3, <3>3
  <2>5. g = Loading!Word(s.deltas[k] + words[place])
    <3>1. s.ids[o] + s.deltas[k] = s.deltas[k] + s.ids[o]
      BY <1>5, <2>4
    <3> QED
      BY <2>1, <2>4, <3>1
  <2> QED
    BY <1>4, <1>6, <1>8, <2>5 DEF g, place
<1> QED
  BY <1>7, <1>8

LEMMA GlyphNumber ==
    ASSUME NEW s \in Loading!Segments, NEW unicode \in Nat
    PROVE  Loading!getGlyphIndex(s, unicode) \in Nat
<1>1. CASE Loading!getGlyphIndex(s, unicode) = 0
  BY <1>1
<1>2. CASE Loading!getGlyphIndex(s, unicode) # 0
  <2>1. PICK v : Loading!getGlyphIndex(s, unicode) = Loading!Word(v) /\ v \in Int
    <3> DEFINE after == {k \in DOMAIN s.ends : s.ends[k] >= unicode}
               k == Loading!Min(after)
               o == Loading!IdIndex(s, unicode, k) + 1
    <3>1. /\ s.ends \in Seq(Nat) /\ s.deltas \in Seq(Int) /\ s.ids \in Seq(Nat) /\ Len(s.deltas) = Len(s.ends)
      BY DEF Loading!Segments
    <3>2. Loading!getGlyphIndex(s, unicode) =
             IF after = {} \/ s.starts[k] > unicode THEN 0
             ELSE IF s.ranges[k] = 0 THEN Loading!Word(unicode + s.deltas[k])
             ELSE IF o \in DOMAIN s.ids /\ s.ids[o] # 0 THEN Loading!Word(s.ids[o] + s.deltas[k])
             ELSE 0
      BY Zenon DEF Loading!getGlyphIndex
    <3> HIDE DEF k, o
    <3>3. after # {}
      BY <1>2, <3>2
    <3>4. k \in DOMAIN s.ends
      <4>1. after \subseteq Nat
        BY <3>1
      <4> HIDE DEF after
      <4>2. k \in after
        BY <3>3, <4>1, FirstOne DEF k
      <4> QED
        BY <4>2 DEF after
    <3>5. s.deltas[k] \in Int
      BY <3>1, <3>4
    <3>6. o \in DOMAIN s.ids => s.ids[o] \in Nat
      BY <3>1
    <3> HIDE DEF after
    <3>7. unicode + s.deltas[k] \in Int /\ (o \in DOMAIN s.ids => s.ids[o] + s.deltas[k] \in Int)
      BY <3>5, <3>6
    <3> QED
      BY <1>2, <3>2, <3>7
  <2> QED
    BY <2>1 DEF Loading!Word
<1> QED
  BY <1>1, <1>2

(* What the table's entry says is what is answered.                        *)
LEMMA IndexRead ==
    ASSUME FontTypes, NEW g \in Nat, NEW offset \in Loading!getGlyphOffset(g), fields["f"] # Loading!NULL
    PROVE  /\ Loading!Has(fields["loca"]) /\ g + 2 \in DOMAIN file.body[fields["loca"]] /\ fields["locFormat"] \in {0, 1} =>
                 LET entry == file.body[fields["loca"]]
                 IN  offset = IF entry[g + 1] = entry[g + 2] THEN Loading!Missing
                              ELSE Loading!Scaled(fields["locFormat"], entry[g + 1])
           /\ ~ Loading!Has(fields["loca"]) /\ fields["loca"] # 0 => offset = Loading!Missing
<1> DEFINE entry == file.body[fields["loca"]]
           said == IF entry[g + 1] = entry[g + 2] THEN Loading!Missing
                   ELSE Loading!Scaled(fields["locFormat"], entry[g + 1])
<1>1. ASSUME Loading!Has(fields["loca"]), g + 2 \in DOMAIN entry, fields["locFormat"] \in {0, 1}
      PROVE  offset = said
  <2>1. Loading!getGlyphOffset(g) = {said}
    BY <1>1, Zenon DEF Loading!getGlyphOffset
  <2> HIDE DEF said
  <2> QED
    BY <2>1
<1>2. ASSUME ~ Loading!Has(fields["loca"]), fields["loca"] # 0
      PROVE  offset = Loading!Missing
  <2>1. Loading!getGlyphOffset(g) = {Loading!Missing}
    BY <1>2, Zenon DEF Loading!getGlyphOffset
  <2> QED
    BY <2>1
<1> QED
  BY <1>1, <1>2

LEMMA LookedUp ==
    ASSUME FontInv, NEW unicode \in Codes, Loading!Lookup(unicode)
    PROVE  FontInv'
<1> DEFINE g == Loading!getGlyphIndex(segments, unicode)
<1>1. /\ pc = "ready" /\ UNCHANGED <<file, pc, i, record, fields, segments>>
      /\ answer'.code = unicode /\ answer'.glyph = g /\ answer'.offset \in Loading!getGlyphOffset(g)
      /\ FontTypes /\ OffsetsNamed /\ Loading!TablesFound /\ segments \in Loading!Segments /\ unicode \in Nat
  BY CodesCounted DEF Loading!Lookup, FontInv, FontTypes
<1>2. Loading!FirstFormatFour' /\ FontTypes' /\ OffsetsNamed'
  BY <1>1 DEF FontInv, Loading!FirstFormatFour, FontTypes, OffsetsNamed, Loading!Has
<1>3. Loading!GlyphAsNamed'
  <2> SUFFICES ASSUME g # 0 PROVE Loading!GlyphAsNamed'
    BY <1>1 DEF Loading!GlyphAsNamed
  <2>1. PICK k \in DOMAIN segments.ends :
              /\ unicode \in segments.starts[k] .. segments.ends[k]
              /\ LET words == segments.ranges \o segments.ids
                     named == words[k + segments.ranges[k] \div 2 + (unicode - segments.starts[k])]
                 IN  g = Loading!Word(segments.deltas[k] + IF segments.ranges[k] = 0 THEN unicode ELSE named)
    BY <1>1, Named
  <2> HIDE DEF g
  <2> QED
    BY <1>1, <2>1, Zenon DEF Loading!GlyphAsNamed
<1>4. g \in Nat
  BY <1>1, GlyphNumber
<1>5. Loading!GlyphDataFound'
  <2> HIDE DEF g
  <2>1. CASE fields["f"] # Loading!NULL /\ file.count = Len(file.dir)
    <3> SUFFICES ASSUME NEW l \in Loading!Tagged("loca"), NEW h \in Loading!Tagged("head"),
                        Loading!Has(h.offset), file.body[h.offset].locFormat \in {0, 1}
                 PROVE  /\ Loading!Has(l.offset) /\ g + 2 \in DOMAIN file.body[l.offset] =>
                              LET entry == file.body[l.offset]
                              IN  answer'.offset = IF entry[g + 1] = entry[g + 2] THEN Loading!Missing
                                                   ELSE Loading!Scaled(file.body[h.offset].locFormat, entry[g + 1])
                        /\ ~ Loading!Has(l.offset) /\ l.offset # 0 => answer'.offset = Loading!Missing
      <4>1. /\ \A tag : (Loading!Tagged(tag))' = Loading!Tagged(tag)
            /\ \A o : (Loading!Has(o))' = Loading!Has(o)
        BY <1>1 DEF Loading!Tagged, Loading!Has
      <4> QED
        BY <1>1, <4>1 DEF Loading!GlyphDataFound
    <3>1. /\ fields["loca"] = l.offset
          /\ [unitsPerEm |-> fields["unitsPerEm"], locFormat |-> fields["locFormat"]] = file.body[h.offset]
      BY <1>1, <2>1 DEF Loading!TablesFound
    <3>2. fields["locFormat"] = file.body[h.offset].locFormat
      BY <3>1
    <3> QED
      BY <1>1, <1>4, <2>1, <3>1, <3>2, IndexRead
  <2>2. CASE ~ (fields["f"] # Loading!NULL /\ file.count = Len(file.dir))
    BY <1>1, <2>2 DEF Loading!GlyphDataFound
  <2> QED
    BY <2>1, <2>2
<1>6. Loading!TablesFound'
  BY <1>1, TablesKept
<1> QED
  BY <1>1, <1>2, <1>3, <1>5, <1>6 DEF FontInv

(* However the directory is ordered and wherever the file ends, every      *)
(* table is found, the first subtable of format 4 is the one loaded, and a *)
(* code leads to the glyph the file names and to its data.                 *)
THEOREM FontsRead == Spec => []GlyphsFound
<1>1. Init => FontInv
  BY FontStarts DEF Init
<1>2. ASSUME FontInv, [Next]_vars PROVE FontInv'
  <2>1. CASE Loading!Load
    BY <1>2, <2>1, HeaderRead, TableRead, HeadRead, CmapRead, SubtableRead, NoSubtable DEF Loading!Load
  <2>2. CASE \E unicode \in Codes : Loading!Lookup(unicode)
    BY <1>2, <2>2, LookedUp
  <2>3. CASE UNCHANGED fontfile
    <3>1. UNCHANGED <<file, pc, i, record, fields, segments, answer>>
      BY <2>3 DEF fontfile
    <3>2. FontTypes' /\ OffsetsNamed' /\ StoredSoFar' = StoredSoFar /\ NotYetFour' = NotYetFour
      BY <3>1, <1>2 DEF FontInv, FontTypes, OffsetsNamed, StoredSoFar, LastOf, NotYetFour, Loading!Has
    <3>3. Loading!TablesFound'
      BY <3>1, <1>2 DEF FontInv, Loading!TablesFound, Loading!Tagged, Loading!Has
    <3>4. Loading!FirstFormatFour'
      BY <3>1, <1>2 DEF FontInv, Loading!Has, Loading!FirstFormatFour
    <3>5. Loading!GlyphAsNamed'
      <4>1. Loading!GlyphAsNamed
        BY <1>2 DEF FontInv
      <4> QED
        BY ONLY <3>1, <4>1, Zenon DEF Loading!GlyphAsNamed
    <3>6. Loading!GlyphDataFound'
      <4>1. Loading!GlyphDataFound
        BY <1>2 DEF FontInv
      <4> QED
        BY ONLY SMTT(30), <3>1, <4>1 DEF Loading!GlyphDataFound, Loading!Tagged, Loading!Has
    <3> QED
      BY <3>1, <3>2, <3>3, <3>4, <3>5, <3>6, <1>2 DEF FontInv
  <2> QED
    BY <1>2, <2>1, <2>2, <2>3 DEF Next, vars, WindowStep, DrawStep, LoadStep, LookupStep, GlyphStep
<1>3. FontInv => GlyphsFound
  BY DEF FontInv, GlyphsFound
<1> QED
  BY <1>1, <1>2, <1>3, PTL DEF Spec
===============================================================================
