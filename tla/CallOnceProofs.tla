--------------------------- MODULE CallOnceProofs ---------------------------
(***************************************************************************)
(* Proofs about call_once, for every set of threads and flags, whatever    *)
(* functions call whatever flags.  The argument: a frame past the exchange *)
(* owns its flag, a flag has at most one such frame, and state and effect  *)
(* say how far that frame is.                                              *)
(***************************************************************************)
EXTENDS CallOnce, SequenceTheorems, TLAPS

Depth(t) == 1 .. Len(stack[t])
Owns(t, i) == stack[t][i].pc \in {"run", "store"}

(* The flag word tells what has been stored. *)
FlagInv ==
    \A x \in Flag :
        /\ state[x] = 0 => runs[x] = 0 /\ effect[x] = "none"
        /\ state[x] = 2 => effect[x] = "whole"
        /\ runs[x] <= 1

(* While a frame is between the exchange and the last store, the word is 1 *)
(* and the effect is where the frame is.                                   *)
FrameInv ==
    \A t \in Thread : \A i \in Depth(t) :
        /\ stack[t][i].pc = "run" =>
             state[stack[t][i].flag] = 1 /\ effect[stack[t][i].flag] = "partial"
        /\ stack[t][i].pc = "store" =>
             state[stack[t][i].flag] = 1 /\ effect[stack[t][i].flag] = "whole"

(* A flag is owned by at most one frame. *)
OwnerInv ==
    \A t, u \in Thread : \A i \in Depth(t) : \A j \in Depth(u) :
        Owns(t, i) /\ Owns(u, j) /\ stack[t][i].flag = stack[u][j].flag
            => t = u /\ i = j

IInv == TypeOK /\ FlagInv /\ FrameInv /\ OwnerInv

-----------------------------------------------------------------------------
(* What the operations do to a stack. *)

LEMMA FrontOf ==
    ASSUME NEW S, NEW s \in Seq(S), Len(s) # 0
    PROVE  /\ SubSeq(s, 1, Len(s) - 1) \in Seq(S)
           /\ Len(SubSeq(s, 1, Len(s) - 1)) = Len(s) - 1
           /\ \A i \in 1 .. (Len(s) - 1) : SubSeq(s, 1, Len(s) - 1)[i] = s[i]
<1>1. PICK n \in Nat : n = Len(s) - 1
  OBVIOUS
<1>2. \A i \in 1 .. n : s[i] \in S
  BY <1>1
<1>3. /\ SubSeq(s, 1, n) \in Seq(S)
      /\ Len(SubSeq(s, 1, n)) = IF 1 <= n THEN n - 1 + 1 ELSE 0
      /\ \A i \in 1 .. n - 1 + 1 : SubSeq(s, 1, n)[i] = s[1 + i - 1]
  BY <1>2, SubSeqProperties
<1>4. Len(SubSeq(s, 1, n)) = n /\ \A i \in 1 .. n : SubSeq(s, 1, n)[i] = s[i]
  BY <1>3
<1> QED BY <1>1, <1>3, <1>4

LEMMA FrameType ==
    ASSUME TypeOK, NEW t \in Thread, NEW i \in Depth(t)
    PROVE  /\ stack[t] \in Seq(Frame) /\ stack[t][i] \in Frame
           /\ stack[t][i].flag \in Flag
           /\ stack[t][i].pc \in {"cas", "run", "store", "spin"}
           /\ stack[t][i].called \in SUBSET Flag
<1>1. stack[t] \in Seq(Frame)
  BY DEF TypeOK
<1>2. stack[t][i] \in Frame
  BY <1>1 DEF Depth
<1> QED BY <1>1, <1>2 DEF Frame

LEMMA TopType ==
    ASSUME TypeOK, NEW t \in Thread, stack[t] # <<>>
    PROVE  /\ Len(stack[t]) \in Nat \ {0} /\ Len(stack[t]) \in Depth(t)
           /\ Top(t) = stack[t][Len(stack[t])] /\ Top(t) \in Frame
           /\ Top(t).flag \in Flag
<1>1. stack[t] \in Seq(Frame)
  BY DEF TypeOK
<1>2. Len(stack[t]) \in Nat \ {0}
  BY <1>1
<1> QED BY <1>1, <1>2, FrameType DEF Depth, Top, Frame

(* A step of t that leaves its depth alone moves the top frame's pc. *)
LEMMA GoToStack ==
    ASSUME TypeOK, NEW t \in Thread, stack[t] # <<>>,
           NEW pc \in {"cas", "run", "store", "spin"}, GoTo(t, pc)
    PROVE  /\ stack' \in [Thread -> Seq(Frame)]
           /\ \A u \in Thread : Len(stack'[u]) = Len(stack[u])
           /\ \A u \in Thread : \A i \in Depth(u) :
                /\ stack'[u][i].flag = stack[u][i].flag
                /\ stack'[u][i].pc = IF u = t /\ i = Len(stack[t]) THEN pc
                                     ELSE stack[u][i].pc
<1> DEFINE n == Len(stack[t])
           moved == [stack[t] EXCEPT ![n].pc = pc]
<1>1. /\ stack \in [Thread -> Seq(Frame)] /\ n \in Nat \ {0}
      /\ stack[t] \in Seq(Frame) /\ stack[t][n] \in Frame
  BY TopType DEF TypeOK, Top
<1>2. [stack[t][n] EXCEPT !.pc = pc] \in Frame
  BY <1>1 DEF Frame
<1>3. /\ moved \in Seq(Frame) /\ Len(moved) = n
      /\ \A i \in 1 .. n : moved[i] = IF i = n THEN [stack[t][n] EXCEPT !.pc = pc]
                                      ELSE stack[t][i]
  BY <1>1, <1>2
<1>4. stack' = [stack EXCEPT ![t] = moved]
  BY DEF GoTo
<1> HIDE DEF moved, n
<1>5. stack'[t] = moved /\ \A u \in Thread \ {t} : stack'[u] = stack[u]
  BY <1>1, <1>4
<1>6. stack' \in [Thread -> Seq(Frame)]
  BY <1>1, <1>3, <1>4
<1>7. /\ moved[n].flag = stack[t][n].flag /\ moved[n].pc = pc
      /\ \A i \in 1 .. n : i # n => moved[i] = stack[t][i]
  BY <1>1, <1>3 DEF Frame
<1> QED BY <1>1, <1>3, <1>5, <1>6, <1>7 DEF Depth, n

(* Returning drops the top frame and keeps flag and pc of the others. *)
LEMMA ReturnStack ==
    ASSUME TypeOK, NEW t \in Thread, stack[t] # <<>>, Return(t)
    PROVE  /\ stack' \in [Thread -> Seq(Frame)]
           /\ Len(stack'[t]) = Len(stack[t]) - 1
           /\ \A u \in Thread \ {t} : stack'[u] = stack[u]
           /\ \A i \in 1 .. (Len(stack[t]) - 1) :
                /\ stack'[t][i].flag = stack[t][i].flag
                /\ stack'[t][i].pc = stack[t][i].pc
<1> DEFINE n == Len(stack[t])
           rest == SubSeq(stack[t], 1, n - 1)
           below == IF rest = <<>> THEN rest
                    ELSE [rest EXCEPT ![Len(rest)].called = @ \cup {Top(t).flag}]
<1>1. /\ stack \in [Thread -> Seq(Frame)] /\ n \in Nat \ {0}
      /\ stack[t] \in Seq(Frame) /\ Top(t).flag \in Flag
  BY TopType DEF TypeOK
<1>2. /\ rest \in Seq(Frame) /\ Len(rest) = n - 1
      /\ \A i \in 1 .. (n - 1) : rest[i] = stack[t][i] /\ rest[i] \in Frame
  <2>1. \A i \in 1 .. (n - 1) : stack[t][i] \in Frame
    BY <1>1
  <2>2. Len(stack[t]) # 0
    BY <1>1
  <2>3. rest \in Seq(Frame) /\ Len(rest) = n - 1
        /\ \A i \in 1 .. (n - 1) : rest[i] = stack[t][i]
    BY <1>1, <2>2, FrontOf
  <2> QED BY <2>1, <2>3
<1>3. stack' = [stack EXCEPT ![t] = below]
  BY DEF Return
<1>4. /\ below \in Seq(Frame) /\ Len(below) = n - 1
      /\ \A i \in 1 .. (n - 1) : /\ below[i].flag = stack[t][i].flag
                                 /\ below[i].pc = stack[t][i].pc
  <2>1. CASE rest = <<>>
    BY <1>1, <1>2, <2>1
  <2>2. CASE rest # <<>>
    <3> HIDE DEF rest
    <3>1. n - 1 \in 1 .. (n - 1) /\ Len(rest) = n - 1
      BY <1>1, <1>2, <2>2
    <3>2. PICK f : f = [rest[n - 1] EXCEPT !.called = @ \cup {Top(t).flag}]
      OBVIOUS
    <3>3. f \in Frame /\ f.flag = rest[n - 1].flag /\ f.pc = rest[n - 1].pc
      BY <1>1, <1>2, <3>1, <3>2 DEF Frame
    <3>4. below = [rest EXCEPT ![n - 1] = f]
      BY <2>2, <3>1, <3>2
    <3>5. /\ below \in Seq(Frame) /\ Len(below) = n - 1
          /\ \A i \in 1 .. (n - 1) : below[i] = IF i = n - 1 THEN f ELSE rest[i]
      <4>1. PICK m : m = n - 1
        OBVIOUS
      <4>2. m \in 1 .. Len(rest) /\ Len(rest) = m /\ below = [rest EXCEPT ![m] = f]
        BY <3>1, <3>4, <4>1
      <4>3. /\ below \in Seq(Frame) /\ Len(below) = Len(rest)
            /\ \A i \in 1 .. Len(rest) : below[i] = IF i = m THEN f ELSE rest[i]
        <5> HIDE DEF below
        <5> QED BY <1>2, <3>3, <4>2, ExceptSeq
      <4> QED BY <4>1, <4>2, <4>3
    <3> QED BY <1>2, <3>1, <3>3, <3>5
  <2> QED BY <2>1, <2>2
<1> HIDE DEF below, rest
<1>5. stack'[t] = below /\ \A u \in Thread \ {t} : stack'[u] = stack[u]
  BY <1>1, <1>3
<1>6. stack' \in [Thread -> Seq(Frame)]
  BY <1>1, <1>3, <1>4
<1> QED BY <1>1, <1>4, <1>5, <1>6

(* Entering a call_once puts a frame before the exchange on top. *)
LEMMA EnterStack ==
    ASSUME TypeOK, NEW t \in Thread, NEW x \in Flag,
           stack' = [stack EXCEPT ![t] = Append(@, Entered(x))]
    PROVE  /\ stack' \in [Thread -> Seq(Frame)]
           /\ Len(stack'[t]) = Len(stack[t]) + 1
           /\ stack'[t][Len(stack[t]) + 1] = Entered(x)
           /\ \A u \in Thread \ {t} : stack'[u] = stack[u]
           /\ \A i \in Depth(t) : stack'[t][i] = stack[t][i]
<1>1. stack \in [Thread -> Seq(Frame)] /\ stack[t] \in Seq(Frame)
  BY DEF TypeOK
<1>2. Entered(x) \in Frame
  BY DEF Entered, Frame
<1> HIDE DEF Entered
<1>3. PICK longer : longer = Append(stack[t], Entered(x))
  OBVIOUS
<1>4. /\ longer \in Seq(Frame) /\ Len(longer) = Len(stack[t]) + 1
      /\ longer[Len(stack[t]) + 1] = Entered(x)
      /\ \A i \in 1 .. Len(stack[t]) : longer[i] = stack[t][i]
  BY <1>1, <1>2, <1>3
<1>5. stack' = [stack EXCEPT ![t] = longer]
  BY <1>3
<1> QED BY <1>1, <1>4, <1>5 DEF Depth

-----------------------------------------------------------------------------
(* The invariant is inductive. *)

LEMMA InitInv == Init => IInv
<1> SUFFICES ASSUME Init PROVE IInv
  OBVIOUS
<1>1. \A t \in Thread : stack[t] = <<>> /\ Depth(t) = {}
  <2>1. \A t \in Thread : stack[t] = <<>>
    BY DEF Init
  <2>2. 1 .. Len(<<>>) = {}
    OBVIOUS
  <2> QED BY <2>1, <2>2 DEF Depth
<1>2. TypeOK
  BY DEF Init, TypeOK, Effect
<1>3. FlagInv
  BY DEF Init, FlagInv
<1> QED BY <1>1, <1>2, <1>3 DEF IInv, FrameInv, OwnerInv

LEMMA WinInv ==
    ASSUME IInv, NEW t \in Thread, Win(t)
    PROVE  IInv'
<1> DEFINE n == Len(stack[t])
<1>1. PICK x \in Flag : /\ x = Top(t).flag /\ x = stack[t][n].flag
                        /\ n \in Depth(t) /\ stack[t] # <<>>
  BY TopType DEF IInv, Win, In
<1>2. /\ state[x] = 0 /\ state' = [state EXCEPT ![x] = 1]
      /\ effect' = [effect EXCEPT ![x] = "partial"]
      /\ runs' = [runs EXCEPT ![x] = @ + 1] /\ GoTo(t, "run")
  BY <1>1 DEF Win
<1>3. /\ stack' \in [Thread -> Seq(Frame)]
      /\ \A u \in Thread : Depth(u)' = Depth(u)
      /\ \A u \in Thread : \A i \in Depth(u) :
           /\ stack'[u][i].flag = stack[u][i].flag
           /\ stack'[u][i].pc = IF u = t /\ i = n THEN "run" ELSE stack[u][i].pc
  BY <1>1, <1>2, GoToStack DEF IInv, Depth
<1> HIDE DEF n
<1>4. TypeOK'
  BY <1>1, <1>2, <1>3 DEF IInv, TypeOK, Effect
<1>5. FlagInv'
  BY <1>1, <1>2 DEF IInv, TypeOK, FlagInv
<1>6. \A u \in Thread : \A i \in Depth(u) : Owns(u, i) => stack[u][i].flag # x
  BY <1>2 DEF IInv, FrameInv, Owns
<1>7. FrameInv'
  <2> SUFFICES ASSUME NEW u \in Thread, NEW i \in Depth(u)
               PROVE  /\ stack'[u][i].pc = "run" =>
                           /\ state'[stack[u][i].flag] = 1
                           /\ effect'[stack[u][i].flag] = "partial"
                      /\ stack'[u][i].pc = "store" =>
                           /\ state'[stack[u][i].flag] = 1
                           /\ effect'[stack[u][i].flag] = "whole"
    BY <1>3 DEF FrameInv
  <2>1. stack[u][i].flag \in Flag
    BY FrameType DEF IInv
  <2>2. CASE u = t /\ i = n
    BY <1>1, <1>2, <1>3, <2>1, <2>2 DEF IInv, TypeOK
  <2>3. CASE ~(u = t /\ i = n)
    <3>1. stack'[u][i].pc = stack[u][i].pc
      BY <1>3, <2>3
    <3>2. CASE Owns(u, i)
      <4>1. stack[u][i].flag # x
        BY <1>6, <2>3, <3>2
      <4>2. /\ state'[stack[u][i].flag] = state[stack[u][i].flag]
            /\ effect'[stack[u][i].flag] = effect[stack[u][i].flag]
        BY <1>2, <2>1, <4>1 DEF IInv, TypeOK
      <4> QED BY <3>1, <4>2 DEF IInv, FrameInv
    <3>3. CASE ~Owns(u, i)
      BY <3>1, <3>3 DEF Owns
    <3> QED BY <3>2, <3>3
  <2> QED BY <2>2, <2>3
<1>8. OwnerInv'
  <2> SUFFICES ASSUME NEW u \in Thread, NEW v \in Thread,
                      NEW i \in Depth(u), NEW j \in Depth(v),
                      stack'[u][i].pc \in {"run", "store"},
                      stack'[v][j].pc \in {"run", "store"},
                      stack[u][i].flag = stack[v][j].flag
               PROVE  u = v /\ i = j
    BY <1>3 DEF OwnerInv, Owns
  <2>1. CASE u = t /\ i = n
    <3>1. CASE v = t /\ j = n
      BY <2>1, <3>1
    <3>2. CASE ~(v = t /\ j = n)
      <4>1. stack[v][j].pc \in {"run", "store"}
        BY <1>3, <3>2
      <4> QED BY <1>1, <1>6, <2>1, <4>1 DEF Owns
    <3> QED BY <3>1, <3>2
  <2>2. CASE ~(u = t /\ i = n)
    <3>1. Owns(u, i)
      BY <1>3, <2>2 DEF Owns
    <3>2. CASE v = t /\ j = n
      BY <1>1, <1>6, <3>1, <3>2
    <3>3. CASE ~(v = t /\ j = n)
      <4>1. Owns(v, j)
        BY <1>3, <3>3 DEF Owns
      <4> QED BY <3>1, <4>1 DEF IInv, OwnerInv
    <3> QED BY <3>2, <3>3
  <2> QED BY <2>1, <2>2
<1> QED BY <1>4, <1>5, <1>7, <1>8 DEF IInv

LEMMA LoseInv ==
    ASSUME IInv, NEW t \in Thread, Lose(t)
    PROVE  IInv'
<1> DEFINE n == Len(stack[t])
<1>1. stack[t] # <<>> /\ GoTo(t, "spin") /\ UNCHANGED <<state, effect, runs>>
  BY DEF Lose, In
<1>2. /\ stack' \in [Thread -> Seq(Frame)]
      /\ \A u \in Thread : Depth(u)' = Depth(u)
      /\ \A u \in Thread : \A i \in Depth(u) :
           /\ stack'[u][i].flag = stack[u][i].flag
           /\ stack'[u][i].pc = IF u = t /\ i = n THEN "spin" ELSE stack[u][i].pc
  BY <1>1, GoToStack DEF IInv, Depth
<1> HIDE DEF n
<1>3. TypeOK' /\ FlagInv'
  BY <1>1, <1>2 DEF IInv, TypeOK, FlagInv
<1>4. FrameInv'
  BY <1>1, <1>2 DEF IInv, FrameInv
<1>5. OwnerInv'
  BY <1>1, <1>2 DEF IInv, OwnerInv, Owns
<1> QED BY <1>3, <1>4, <1>5 DEF IInv

LEMMA FinishInv ==
    ASSUME IInv, NEW t \in Thread, Finish(t)
    PROVE  IInv'
<1> DEFINE n == Len(stack[t])
<1>1. PICK x \in Flag : /\ x = Top(t).flag /\ x = stack[t][n].flag
                        /\ n \in Depth(t) /\ stack[t] # <<>>
                        /\ stack[t][n].pc = "run"
  BY TopType DEF IInv, Finish, In
<1>2. /\ effect' = [effect EXCEPT ![x] = "whole"] /\ GoTo(t, "store")
      /\ UNCHANGED <<state, runs>> /\ state[x] = 1
  BY <1>1 DEF Finish, IInv, FrameInv
<1>3. /\ stack' \in [Thread -> Seq(Frame)]
      /\ \A u \in Thread : Depth(u)' = Depth(u)
      /\ \A u \in Thread : \A i \in Depth(u) :
           /\ stack'[u][i].flag = stack[u][i].flag
           /\ stack'[u][i].pc = IF u = t /\ i = n THEN "store" ELSE stack[u][i].pc
  BY <1>1, <1>2, GoToStack DEF IInv, Depth
<1> HIDE DEF n
<1>4. TypeOK' /\ FlagInv'
  BY <1>1, <1>2, <1>3 DEF IInv, TypeOK, FlagInv, Effect
<1>5. \A u \in Thread : \A i \in Depth(u) :
        Owns(u, i) /\ ~(u = t /\ i = n) => stack[u][i].flag # x
  BY <1>1 DEF IInv, OwnerInv, Owns
<1>6. FrameInv'
  <2> SUFFICES ASSUME NEW u \in Thread, NEW i \in Depth(u)
               PROVE  /\ stack'[u][i].pc = "run" =>
                           /\ state[stack[u][i].flag] = 1
                           /\ effect'[stack[u][i].flag] = "partial"
                      /\ stack'[u][i].pc = "store" =>
                           /\ state[stack[u][i].flag] = 1
                           /\ effect'[stack[u][i].flag] = "whole"
    BY <1>2, <1>3 DEF FrameInv
  <2>1. stack[u][i].flag \in Flag
    BY FrameType DEF IInv
  <2>2. CASE u = t /\ i = n
    BY <1>1, <1>2, <1>3, <2>1, <2>2 DEF IInv, TypeOK
  <2>3. CASE ~(u = t /\ i = n)
    <3>1. stack'[u][i].pc = stack[u][i].pc
      BY <1>3, <2>3
    <3>2. CASE Owns(u, i)
      <4>1. stack[u][i].flag # x
        BY <1>5, <2>3, <3>2
      <4>2. /\ state'[stack[u][i].flag] = state[stack[u][i].flag]
            /\ effect'[stack[u][i].flag] = effect[stack[u][i].flag]
        BY <1>2, <2>1, <4>1 DEF IInv, TypeOK
      <4> QED BY <3>1, <4>2 DEF IInv, FrameInv
    <3>3. CASE ~Owns(u, i)
      BY <3>1, <3>3 DEF Owns
    <3> QED BY <3>2, <3>3
  <2> QED BY <2>2, <2>3
<1>7. OwnerInv'
  <2> SUFFICES ASSUME NEW u \in Thread, NEW v \in Thread,
                      NEW i \in Depth(u), NEW j \in Depth(v),
                      stack'[u][i].pc \in {"run", "store"},
                      stack'[v][j].pc \in {"run", "store"},
                      stack[u][i].flag = stack[v][j].flag
               PROVE  u = v /\ i = j
    BY <1>3 DEF OwnerInv, Owns
  <2>1. Owns(u, i)
    <3>1. CASE u = t /\ i = n
      BY <1>1, <3>1 DEF Owns
    <3>2. CASE ~(u = t /\ i = n)
      BY <1>3, <3>2 DEF Owns
    <3> QED BY <3>1, <3>2
  <2>2. Owns(v, j)
    <3>1. CASE v = t /\ j = n
      BY <1>1, <3>1 DEF Owns
    <3>2. CASE ~(v = t /\ j = n)
      BY <1>3, <3>2 DEF Owns
    <3> QED BY <3>1, <3>2
  <2> QED BY <2>1, <2>2 DEF IInv, OwnerInv
<1> QED BY <1>4, <1>6, <1>7 DEF IInv

(* A stack that lost its top frame keeps what is said of the others. *)
LEMMA ReturnFrames ==
    ASSUME IInv, NEW t \in Thread, stack[t] # <<>>, Return(t)
    PROVE  /\ stack' \in [Thread -> Seq(Frame)]
           /\ \A u \in Thread : \A i \in Depth(u)' :
                /\ i \in Depth(u) /\ ~(u = t /\ i = Len(stack[t]))
                /\ stack'[u][i].flag = stack[u][i].flag
                /\ stack'[u][i].pc = stack[u][i].pc
<1>1. TypeOK /\ Len(stack[t]) \in Nat \ {0}
  BY TopType DEF IInv
<1>2. /\ stack' \in [Thread -> Seq(Frame)]
      /\ Len(stack'[t]) = Len(stack[t]) - 1
      /\ \A u \in Thread \ {t} : stack'[u] = stack[u]
      /\ \A i \in 1 .. (Len(stack[t]) - 1) :
           /\ stack'[t][i].flag = stack[t][i].flag
           /\ stack'[t][i].pc = stack[t][i].pc
  BY <1>1, ReturnStack
<1>3. \A i \in Depth(t)' : /\ i \in Depth(t) /\ i # Len(stack[t])
                           /\ i \in 1 .. (Len(stack[t]) - 1)
  BY <1>1, <1>2 DEF Depth
<1>4. \A u \in Thread \ {t} : Depth(u)' = Depth(u)
  BY <1>2 DEF Depth
<1> QED BY <1>2, <1>3, <1>4

LEMMA PublishInv ==
    ASSUME IInv, NEW t \in Thread, Publish(t)
    PROVE  IInv'
<1> DEFINE n == Len(stack[t])
<1>1. PICK x \in Flag : /\ x = Top(t).flag /\ x = stack[t][n].flag
                        /\ n \in Depth(t) /\ stack[t] # <<>>
                        /\ stack[t][n].pc = "store"
  BY TopType DEF IInv, Publish, In
<1>2. /\ state' = [state EXCEPT ![x] = 2] /\ Return(t)
      /\ UNCHANGED <<effect, runs>> /\ effect[x] = "whole"
  BY <1>1 DEF Publish, IInv, FrameInv
<1>3. /\ stack' \in [Thread -> Seq(Frame)]
      /\ \A u \in Thread : \A i \in Depth(u)' :
           /\ i \in Depth(u) /\ ~(u = t /\ i = n)
           /\ stack'[u][i].flag = stack[u][i].flag
           /\ stack'[u][i].pc = stack[u][i].pc
  BY <1>1, <1>2, ReturnFrames
<1> HIDE DEF n
<1>4. TypeOK' /\ FlagInv'
  BY <1>1, <1>2, <1>3 DEF IInv, TypeOK, FlagInv
<1>5. \A u \in Thread : \A i \in Depth(u) :
        Owns(u, i) /\ ~(u = t /\ i = n) => stack[u][i].flag # x
  BY <1>1 DEF IInv, OwnerInv, Owns
<1>6. FrameInv'
  <2> SUFFICES ASSUME NEW u \in Thread, NEW i \in Depth(u)'
               PROVE  /\ stack[u][i].pc = "run" =>
                           /\ state'[stack[u][i].flag] = 1
                           /\ effect[stack[u][i].flag] = "partial"
                      /\ stack[u][i].pc = "store" =>
                           /\ state'[stack[u][i].flag] = 1
                           /\ effect[stack[u][i].flag] = "whole"
    BY <1>2, <1>3 DEF FrameInv
  <2>1. stack[u][i].flag \in Flag
    BY <1>3, FrameType DEF IInv
  <2> QED BY <1>2, <1>3, <1>5, <2>1 DEF IInv, TypeOK, FrameInv, Owns
<1>7. OwnerInv'
  <2> SUFFICES ASSUME NEW u \in Thread, NEW v \in Thread,
                      NEW i \in Depth(u)', NEW j \in Depth(v)',
                      stack'[u][i].pc \in {"run", "store"},
                      stack'[v][j].pc \in {"run", "store"},
                      stack'[u][i].flag = stack'[v][j].flag
               PROVE  u = v /\ i = j
    BY DEF OwnerInv, Owns
  <2>1. i \in Depth(u) /\ j \in Depth(v)
    BY <1>3
  <2>2. Owns(u, i) /\ Owns(v, j) /\ stack[u][i].flag = stack[v][j].flag
    BY <1>3 DEF Owns
  <2> QED BY <2>1, <2>2 DEF IInv, OwnerInv
<1> QED BY <1>4, <1>6, <1>7 DEF IInv

LEMMA SpinInv ==
    ASSUME IInv, NEW t \in Thread, Spin(t)
    PROVE  IInv'
<1>1. stack[t] # <<>> /\ Return(t) /\ UNCHANGED <<state, effect, runs>>
  BY DEF Spin, In
<1>2. /\ stack' \in [Thread -> Seq(Frame)]
      /\ \A u \in Thread : \A i \in Depth(u)' :
           /\ i \in Depth(u)
           /\ stack'[u][i].flag = stack[u][i].flag
           /\ stack'[u][i].pc = stack[u][i].pc
  BY <1>1, ReturnFrames
<1>3. TypeOK' /\ FlagInv'
  BY <1>1, <1>2 DEF IInv, TypeOK, FlagInv
<1>4. FrameInv'
  BY <1>1, <1>2 DEF IInv, FrameInv
<1>5. OwnerInv'
  <2> SUFFICES ASSUME NEW u \in Thread, NEW v \in Thread,
                      NEW i \in Depth(u)', NEW j \in Depth(v)',
                      stack'[u][i].pc \in {"run", "store"},
                      stack'[v][j].pc \in {"run", "store"},
                      stack'[u][i].flag = stack'[v][j].flag
               PROVE  u = v /\ i = j
    BY DEF OwnerInv, Owns
  <2>1. i \in Depth(u) /\ j \in Depth(v)
    BY <1>2
  <2>2. Owns(u, i) /\ Owns(v, j) /\ stack[u][i].flag = stack[v][j].flag
    BY <1>2 DEF Owns
  <2> QED BY <2>1, <2>2 DEF IInv, OwnerInv
<1> QED BY <1>3, <1>4, <1>5 DEF IInv

(* Call and Nest put a frame on top that owns nothing yet. *)
Enter(t, x) ==
    /\ stack' = [stack EXCEPT ![t] = Append(@, Entered(x))]
    /\ UNCHANGED <<state, effect, runs>>

LEMMA EnterInv ==
    ASSUME IInv, NEW t \in Thread, NEW x \in Flag, Enter(t, x)
    PROVE  IInv'
<1>1. /\ stack' \in [Thread -> Seq(Frame)]
      /\ Len(stack'[t]) = Len(stack[t]) + 1
      /\ stack'[t][Len(stack[t]) + 1] = Entered(x)
      /\ \A u \in Thread \ {t} : stack'[u] = stack[u]
      /\ \A i \in Depth(t) : stack'[t][i] = stack[t][i]
  BY EnterStack DEF IInv, Enter
<1>2. \A u \in Thread : \A i \in Depth(u)' :
        \/ i \in Depth(u) /\ stack'[u][i] = stack[u][i]
        \/ stack'[u][i].pc = "cas"
  <2>1. Len(stack[t]) \in Nat
    BY DEF IInv, TypeOK
  <2> QED BY <1>1, <2>1 DEF Depth, Entered
<1>3. TypeOK' /\ FlagInv'
  BY <1>1 DEF Enter, IInv, TypeOK, FlagInv
<1>4. FrameInv'
  <2> SUFFICES ASSUME NEW u \in Thread, NEW i \in Depth(u)'
               PROVE  /\ stack'[u][i].pc = "run" =>
                           /\ state[stack'[u][i].flag] = 1
                           /\ effect[stack'[u][i].flag] = "partial"
                      /\ stack'[u][i].pc = "store" =>
                           /\ state[stack'[u][i].flag] = 1
                           /\ effect[stack'[u][i].flag] = "whole"
    BY DEF FrameInv, Enter
  <2>1. CASE i \in Depth(u) /\ stack'[u][i] = stack[u][i]
    BY <2>1 DEF IInv, FrameInv
  <2>2. CASE stack'[u][i].pc = "cas"
    BY <2>2
  <2> QED BY <1>2, <2>1, <2>2
<1>5. OwnerInv'
  <2> SUFFICES ASSUME NEW u \in Thread, NEW v \in Thread,
                      NEW i \in Depth(u)', NEW j \in Depth(v)',
                      stack'[u][i].pc \in {"run", "store"},
                      stack'[v][j].pc \in {"run", "store"},
                      stack'[u][i].flag = stack'[v][j].flag
               PROVE  u = v /\ i = j
    BY DEF OwnerInv, Owns
  <2>1. i \in Depth(u) /\ j \in Depth(v)
    <3>1. stack'[u][i].pc # "cas" /\ stack'[v][j].pc # "cas"
      OBVIOUS
    <3> QED BY <1>2, <3>1
  <2>2. Owns(u, i) /\ Owns(v, j) /\ stack[u][i].flag = stack[v][j].flag
    BY <1>2, <2>1 DEF Owns
  <2> QED BY <2>1, <2>2 DEF IInv, OwnerInv
<1> QED BY <1>3, <1>4, <1>5 DEF IInv

LEMMA NextInv == IInv /\ [Next]_vars => IInv'
<1> SUFFICES ASSUME IInv, [Next]_vars PROVE IInv'
  OBVIOUS
<1>1. CASE UNCHANGED vars
  BY <1>1 DEF vars, IInv, TypeOK, FlagInv, FrameInv, OwnerInv, Depth, Owns
<1>2. ASSUME NEW t \in Thread, NEW x \in Flag, Call(t, x)
      PROVE  IInv'
  <2>1. Enter(t, x)
    BY <1>2 DEF Call, Enter, IInv, TypeOK
  <2> QED BY <2>1, EnterInv
<1>3. ASSUME NEW t \in Thread, NEW x \in Flag, Nest(t, x)
      PROVE  IInv'
  BY <1>3, EnterInv DEF Nest, Enter
<1>4. ASSUME NEW t \in Thread, Pause(t)
      PROVE  IInv'
  BY <1>1, <1>4 DEF Pause
<1> QED
  BY <1>1, <1>2, <1>3, <1>4, WinInv, LoseInv, FinishInv, PublishInv, SpinInv
  DEF Next, Step

-----------------------------------------------------------------------------
(* The invariant holds for any threads, flags and needs. *)
THEOREM Invariance == Spec => []IInv
  BY InitInv, NextInv, PTL DEF Spec

(* Every variable keeps its type. *)
THEOREM TypeCorrect == Spec => []TypeOK
<1>1. IInv => TypeOK
  BY DEF IInv
<1> QED BY <1>1, Invariance, PTL

(* The function of a flag is entered at most once, however many threads    *)
(* call call_once and however its calls are nested.                        *)
THEOREM Once == Spec => []RunsOnce
<1>1. IInv => RunsOnce
  BY DEF IInv, FlagInv, RunsOnce
<1> QED BY <1>1, Invariance, PTL

-----------------------------------------------------------------------------
(* A call returns only when the last store of the function is made. *)

LEMMA PoppedWhole ==
    ASSUME IInv, NEW t \in Thread, Publish(t) \/ Spin(t)
    PROVE  effect[Top(t).flag] = "whole"
<1>1. stack[t] # <<>>
  BY DEF Publish, Spin, In
<1>2. /\ Len(stack[t]) \in Depth(t) /\ Top(t) = stack[t][Len(stack[t])]
      /\ Top(t).flag \in Flag
  BY <1>1, TopType DEF IInv
<1>3. CASE Publish(t)
  BY <1>2, <1>3 DEF Publish, In, IInv, FrameInv
<1>4. CASE Spin(t)
  BY <1>2, <1>4 DEF Spin, In, IInv, FlagInv
<1> QED BY <1>3, <1>4

LEMMA ShrinkWhole ==
    ASSUME IInv, [Next]_vars, NEW t \in Thread, Len(stack'[t]) < Len(stack[t])
    PROVE  effect[Top(t).flag] = "whole"
<1>0. TypeOK /\ \A u \in Thread : Len(stack[u]) \in Nat
  BY DEF IInv, TypeOK
<1>1. CASE UNCHANGED vars
  BY <1>0, <1>1 DEF vars
<1>2. ASSUME NEW u \in Thread, NEW pc \in {"cas", "run", "store", "spin"},
             stack[u] # <<>>, GoTo(u, pc)
      PROVE  FALSE
  <2>1. Len(stack'[t]) = Len(stack[t])
    BY <1>0, <1>2, GoToStack
  <2> QED BY <1>0, <2>1
<1>3. ASSUME NEW u \in Thread, NEW x \in Flag,
             stack' = [stack EXCEPT ![u] = Append(@, Entered(x))]
      PROVE  FALSE
  <2>1. /\ Len(stack'[u]) = Len(stack[u]) + 1
        /\ \A v \in Thread \ {u} : stack'[v] = stack[v]
    BY <1>0, <1>3, EnterStack
  <2>2. CASE t = u
    BY <1>0, <2>1, <2>2
  <2>3. CASE t # u
    BY <1>0, <2>1, <2>3
  <2> QED BY <2>2, <2>3
<1>4. ASSUME NEW u \in Thread, Publish(u) \/ Spin(u)
      PROVE  effect[Top(t).flag] = "whole"
  <2>1. stack[u] # <<>> /\ Return(u)
    BY <1>4 DEF Publish, Spin, In
  <2>2. u = t
    BY <1>0, <2>1, ReturnStack
  <2> QED BY <1>4, <2>2, PoppedWhole
<1>5. ASSUME NEW u \in Thread, Win(u) \/ Lose(u) \/ Finish(u)
      PROVE  FALSE
  BY <1>2, <1>5 DEF Win, Lose, Finish, In
<1>6. ASSUME NEW u \in Thread, NEW x \in Flag, Call(u, x)
      PROVE  FALSE
  <2>1. stack' = [stack EXCEPT ![u] = Append(@, Entered(x))]
    BY <1>6 DEF Call, IInv, TypeOK
  <2> QED BY <1>3, <2>1
<1>7. ASSUME NEW u \in Thread, NEW x \in Flag, Nest(u, x)
      PROVE  FALSE
  BY <1>3, <1>7 DEF Nest
<1>8. ASSUME NEW u \in Thread, Pause(u)
      PROVE  effect[Top(t).flag] = "whole"
  BY <1>1, <1>8 DEF Pause
<1> QED BY <1>1, <1>4, <1>5, <1>6, <1>7, <1>8 DEF Next, Step

(* No thread returns before the function's last store: the window of every *)
(* thread is sized by the bytesPerPixel all of them see.                   *)
THEOREM Returns == Spec => ReturnsAfterEffect
<1>1. IInv /\ [Next]_vars =>
        [\A t \in Thread : Len(stack'[t]) < Len(stack[t]) =>
            effect[Top(t).flag] = "whole"]_vars
  BY ShrinkWhole
<1> QED BY <1>1, Invariance, PTL DEF Spec, ReturnsAfterEffect

-----------------------------------------------------------------------------
(* Threads lock each other up only over flags that come to need            *)
(* themselves.                                                             *)

(* Every frame but the top one is inside of its function, which needs the  *)
(* flag of the next.                                                       *)
ChainInv ==
    \A t \in Thread : \A i \in Depth(t) : i # Len(stack[t]) =>
        stack[t][i].pc = "run" /\ stack[t][i + 1].flag \in Needs[stack[t][i].flag]

(* A thread spins only on a flag somebody has taken, and a flag that is    *)
(* being run has a frame that runs it.                                     *)
WordInv ==
    /\ \A t \in Thread : \A i \in Depth(t) : stack[t][i].pc = "spin" => state[stack[t][i].flag] # 0
    /\ \A x \in Flag : state[x] = 1 =>
         \E t \in Thread : \E i \in Depth(t) : stack[t][i].flag = x /\ Owns(t, i)

LockInv == ChainInv /\ WordInv

LEMMA InitLock == Init => LockInv
<1> SUFFICES ASSUME Init PROVE LockInv
  OBVIOUS
<1>1. \A t \in Thread : Depth(t) = {}
  <2>1. 1 .. Len(<<>>) = {}
    OBVIOUS
  <2> QED BY <2>1 DEF Depth, Init
<1> QED BY <1>1 DEF Init, LockInv, ChainInv, WordInv

(* Of an action that moves the top frame's pc the words must follow it.    *)
LEMMA GoToLock ==
    ASSUME IInv, LockInv, NEW t \in Thread, stack[t] # <<>>,
           NEW pc \in {"run", "store", "spin"}, GoTo(t, pc),
           \/ /\ pc = "run" /\ Top(t).pc = "cas" /\ state[Top(t).flag] = 0
              /\ state' = [state EXCEPT ![Top(t).flag] = 1]
           \/ pc = "spin" /\ Top(t).pc = "cas" /\ state[Top(t).flag] # 0 /\ state' = state
           \/ pc = "store" /\ Top(t).pc = "run" /\ state' = state
    PROVE  LockInv'
<1> DEFINE n == Len(stack[t])
<1>1. PICK x \in Flag : /\ x = Top(t).flag /\ x = stack[t][n].flag /\ Top(t) = stack[t][n]
                        /\ n \in Depth(t) /\ TypeOK
  BY TopType DEF IInv
<1>2. /\ \A u \in Thread : Depth(u)' = Depth(u) /\ Len(stack'[u]) = Len(stack[u])
      /\ \A u \in Thread : \A i \in Depth(u) :
           /\ stack'[u][i].flag = stack[u][i].flag
           /\ stack'[u][i].pc = IF u = t /\ i = n THEN pc ELSE stack[u][i].pc
  BY <1>1, GoToStack DEF Depth
<1> HIDE DEF n
<1>3. \A y \in Flag : state'[y] = IF pc = "run" /\ y = x THEN 1 ELSE state[y]
  BY <1>1 DEF IInv, TypeOK
<1>4. ChainInv'
  <2> SUFFICES ASSUME NEW u \in Thread, NEW i \in Depth(u), i # Len(stack[u])
               PROVE  stack'[u][i].pc = "run" /\ stack'[u][i + 1].flag \in Needs[stack'[u][i].flag]
    BY <1>2 DEF ChainInv
  <2>1. i + 1 \in Depth(u)
    BY <1>1 DEF Depth, TypeOK
  <2>2. stack[u][i].pc = "run" /\ stack[u][i + 1].flag \in Needs[stack[u][i].flag]
    BY DEF LockInv, ChainInv
  <2> QED BY <1>2, <2>1, <2>2 DEF n
<1>5. ASSUME NEW u \in Thread, NEW i \in Depth(u)', stack'[u][i].pc = "spin"
      PROVE  state'[stack'[u][i].flag] # 0
  <2>1. i \in Depth(u) /\ stack[u][i].flag \in Flag /\ stack'[u][i].flag = stack[u][i].flag
    BY <1>1, <1>2, FrameType
  <2>2. CASE u = t /\ i = n
    BY <1>1, <1>2, <1>3, <1>5, <2>1, <2>2
  <2>3. CASE ~ (u = t /\ i = n)
    BY <1>2, <1>3, <1>5, <2>1, <2>3 DEF LockInv, WordInv
  <2> QED BY <2>2, <2>3
<1>6. ASSUME NEW y \in Flag, state'[y] = 1
      PROVE  \E u \in Thread : \E i \in Depth(u)' : stack'[u][i].flag = y /\ Owns(u, i)'
  <2>1. CASE pc = "run" /\ y = x
    BY <1>1, <1>2, <2>1 DEF Owns
  <2>2. CASE ~ (pc = "run" /\ y = x)
    <3>1a. PICK u \in Thread : \E i \in Depth(u) : stack[u][i].flag = y /\ Owns(u, i)
      BY <1>3, <1>6, <2>2 DEF LockInv, WordInv
    <3>1. PICK i \in Depth(u) : stack[u][i].flag = y /\ Owns(u, i)
      BY <3>1a
    <3>2. Owns(u, i)'
      BY <1>1, <1>2, <3>1 DEF Owns
    <3> QED BY <1>2, <3>1, <3>2
  <2> QED BY <2>1, <2>2
<1> QED BY <1>4, <1>5, <1>6 DEF LockInv, WordInv

(* A return leaves a function inside, and its word is 2 by then.           *)
LEMMA ReturnLock ==
    ASSUME IInv, LockInv, NEW t \in Thread, Publish(t) \/ Spin(t)
    PROVE  LockInv'
<1> DEFINE n == Len(stack[t])
<1>1. stack[t] # <<>> /\ Return(t)
  BY DEF Publish, Spin, In
<1>2. PICK x \in Flag : /\ x = Top(t).flag /\ x = stack[t][n].flag /\ Top(t) = stack[t][n]
                        /\ n \in Depth(t) /\ n \in Nat \ {0} /\ TypeOK
  BY <1>1, TopType DEF IInv
<1>3. \/ Top(t).pc = "spin" /\ state' = state
      \/ state' = [state EXCEPT ![x] = 2]
  BY <1>2 DEF Publish, Spin, In
<1>4. /\ Len(stack'[t]) = n - 1
      /\ \A u \in Thread \ {t} : stack'[u] = stack[u]
      /\ \A i \in 1 .. (n - 1) : /\ stack'[t][i].flag = stack[t][i].flag
                                 /\ stack'[t][i].pc = stack[t][i].pc
  BY <1>1, <1>2, ReturnStack
<1>5. \A u \in Thread : /\ Len(stack[u]) \in Nat
                        /\ Len(stack'[u]) = IF u = t THEN n - 1 ELSE Len(stack[u])
  BY <1>2, <1>4 DEF TypeOK
<1>6. \A u \in Thread : \A i \in Depth(u)' :
        /\ i \in Depth(u) /\ i \in Nat /\ ~ (u = t /\ i = n)
        /\ stack'[u][i].flag = stack[u][i].flag /\ stack'[u][i].pc = stack[u][i].pc
  <2>1. \A i \in Depth(t)' : i \in Depth(t) /\ i \in 1 .. (n - 1) /\ i # n
    BY <1>2, <1>4 DEF Depth
  <2>2. \A u \in Thread \ {t} : Depth(u)' = Depth(u)
    BY <1>4 DEF Depth
  <2>3. \A u \in Thread : \A i \in Depth(u)' : i \in Nat
    BY DEF Depth
  <2> QED BY <1>4, <2>1, <2>2, <2>3
<1>7. \A u \in Thread : \A i \in Depth(u) : ~ (u = t /\ i = n) => i \in Depth(u)'
  BY <1>2, <1>5 DEF Depth
<1>8. \A y \in Flag : state'[y] = state[y] \/ (y = x /\ state'[y] = 2)
  BY <1>2, <1>3 DEF TypeOK
<1> HIDE DEF n
<1>9. ChainInv'
  <2> SUFFICES ASSUME NEW u \in Thread, NEW i \in Depth(u)', i # Len(stack'[u])
               PROVE  stack'[u][i].pc = "run" /\ stack'[u][i + 1].flag \in Needs[stack'[u][i].flag]
    BY DEF ChainInv
  <2>1. i + 1 \in Depth(u)' /\ i # Len(stack[u])
    BY <1>2, <1>5 DEF Depth, n
  <2>2. stack[u][i].pc = "run" /\ stack[u][i + 1].flag \in Needs[stack[u][i].flag]
    BY <1>6, <2>1 DEF LockInv, ChainInv
  <2> QED BY <1>6, <2>1, <2>2
<1>10. ASSUME NEW u \in Thread, NEW i \in Depth(u)', stack'[u][i].pc = "spin"
      PROVE  state'[stack'[u][i].flag] # 0
  <2>1. i \in Depth(u) /\ stack[u][i].flag \in Flag
    BY <1>2, <1>6, FrameType
  <2> QED BY <1>6, <1>8, <1>10, <2>1 DEF LockInv, WordInv
<1>11. ASSUME NEW y \in Flag, state'[y] = 1
      PROVE  \E u \in Thread : \E i \in Depth(u)' : stack'[u][i].flag = y /\ Owns(u, i)'
  <2>1a. PICK u \in Thread : \E i \in Depth(u) : stack[u][i].flag = y /\ Owns(u, i)
    BY <1>8, <1>11 DEF LockInv, WordInv
  <2>1. PICK i \in Depth(u) : stack[u][i].flag = y /\ Owns(u, i)
    BY <2>1a
  <2>2. ~ (u = t /\ i = n)
    BY <1>2, <1>3, <1>11, <2>1 DEF Owns, TypeOK
  <2> QED BY <1>6, <1>7, <2>1, <2>2 DEF Owns
<1> QED BY <1>9, <1>10, <1>11 DEF LockInv, WordInv

(* A nested call is one the function below needs.                          *)
LEMMA EnterLock ==
    ASSUME IInv, LockInv, NEW t \in Thread, NEW x \in Flag, Enter(t, x),
           stack[t] # <<>> => Top(t).pc = "run" /\ x \in Needs[Top(t).flag]
    PROVE  LockInv'
<1> DEFINE n == Len(stack[t])
<1>1. /\ Len(stack'[t]) = n + 1 /\ stack'[t][n + 1] = Entered(x) /\ state' = state
      /\ \A u \in Thread \ {t} : stack'[u] = stack[u]
      /\ \A i \in Depth(t) : stack'[t][i] = stack[t][i]
      /\ TypeOK
  BY EnterStack DEF IInv, Enter
<1>2. \A u \in Thread : /\ Len(stack[u]) \in Nat
                        /\ Len(stack'[u]) = IF u = t THEN n + 1 ELSE Len(stack[u])
  BY <1>1 DEF TypeOK
<1>3. \A u \in Thread : \A i \in Depth(u) : i \in Depth(u)' /\ stack'[u][i] = stack[u][i]
  BY <1>1, <1>2 DEF Depth
<1>4. \A u \in Thread : \A i \in Depth(u)' :
        i \in Depth(u) \/ (u = t /\ i = n + 1 /\ stack'[u][i].pc = "cas" /\ stack'[u][i].flag = x)
  BY <1>1, <1>2 DEF Depth, Entered
<1>5. n \in Nat /\ (n # 0 => stack[t] # <<>> /\ Top(t) = stack[t][n])
  BY <1>1, <1>2 DEF Top, TypeOK
<1>6. ChainInv'
  <2> SUFFICES ASSUME NEW u \in Thread, NEW i \in Depth(u)', i # Len(stack'[u])
               PROVE  stack'[u][i].pc = "run" /\ stack'[u][i + 1].flag \in Needs[stack'[u][i].flag]
    BY DEF ChainInv
  <2>1. i \in Depth(u)
    BY <1>1, <1>4
  <2>2. CASE i # Len(stack[u])
    <3>1. i + 1 \in Depth(u)
      BY <1>2, <2>1, <2>2 DEF Depth
    <3> QED BY <1>3, <2>1, <2>2, <3>1 DEF LockInv, ChainInv
  <2>3. CASE i = Len(stack[u])
    <3>1. u = t /\ i = n /\ n # 0
      BY <1>2, <2>1, <2>3 DEF Depth
    <3>2. stack'[u][i + 1].flag = x
      BY <1>1, <3>1 DEF Entered
    <3> QED BY <1>3, <1>5, <2>1, <3>1, <3>2
  <2> QED BY <2>2, <2>3
<1>7. ASSUME NEW u \in Thread, NEW i \in Depth(u)', stack'[u][i].pc = "spin"
      PROVE  state'[stack'[u][i].flag] # 0
  BY <1>1, <1>3, <1>4, <1>7 DEF LockInv, WordInv
<1>8. ASSUME NEW y \in Flag, state'[y] = 1
      PROVE  \E u \in Thread : \E i \in Depth(u)' : stack'[u][i].flag = y /\ Owns(u, i)'
  <2>1a. PICK u \in Thread : \E i \in Depth(u) : stack[u][i].flag = y /\ Owns(u, i)
    BY <1>1, <1>8 DEF LockInv, WordInv
  <2>1. PICK i \in Depth(u) : stack[u][i].flag = y /\ Owns(u, i)
    BY <2>1a
  <2> QED BY <1>3, <2>1 DEF Owns
<1> QED BY <1>6, <1>7, <1>8 DEF LockInv, WordInv

LEMMA NextLock == IInv /\ LockInv /\ [Next]_vars => LockInv'
<1> SUFFICES ASSUME IInv, LockInv, [Next]_vars PROVE LockInv'
  OBVIOUS
<1>1. CASE UNCHANGED vars
  BY <1>1 DEF vars, LockInv, ChainInv, WordInv, Depth, Owns
<1>2. ASSUME NEW t \in Thread, NEW x \in Flag, Call(t, x) PROVE LockInv'
  <2>1. Enter(t, x) /\ stack[t] = <<>>
    BY <1>2 DEF Call, Enter, IInv, TypeOK
  <2> QED BY <2>1, EnterLock
<1>3. ASSUME NEW t \in Thread, NEW x \in Flag, Nest(t, x) PROVE LockInv'
  BY <1>3, EnterLock DEF Nest, Enter, In
<1>4. ASSUME NEW t \in Thread, Win(t) PROVE LockInv'
  BY <1>4, GoToLock DEF Win, In
<1>5. ASSUME NEW t \in Thread, Lose(t) PROVE LockInv'
  BY <1>5, GoToLock DEF Lose, In
<1>6. ASSUME NEW t \in Thread, Finish(t) PROVE LockInv'
  BY <1>6, GoToLock DEF Finish, In
<1>7. ASSUME NEW t \in Thread, Pause(t) PROVE LockInv'
  BY <1>1, <1>7 DEF Pause
<1> QED BY <1>1, <1>2, <1>3, <1>4, <1>5, <1>6, <1>7, ReturnLock DEF Next, Step

(* The flags of all frames of the threads locked up are such a chain: a    *)
(* frame below another one needs the flag of that, and the flag a thread   *)
(* spins on has a runner among them, whose next frame it needs.            *)
LEMMA LockedNeeds ==
    ASSUME IInv, LockInv, NEW T \in SUBSET Thread, LockedUp(T), NEW t \in T
    PROVE  ComesToCycle(Top(t).flag)
<1> DEFINE S == {x \in Flag : \E u \in T : \E i \in Depth(u) : stack[u][i].flag = x}
<1>1. \A u \in T : /\ stack[u] # <<>> /\ Top(u).pc = "spin" /\ state[Top(u).flag] # 2
                   /\ Top(u) = stack[u][Len(stack[u])] /\ Len(stack[u]) \in Depth(u)
                   /\ Top(u).flag \in Flag /\ Runner(Top(u).flag) \subseteq T
  BY TopType DEF LockedUp, In, IInv
<1>2. Top(t).flag \in S
  BY <1>1
<1>3. ASSUME NEW u \in T, NEW i \in Depth(u), i # Len(stack[u])
      PROVE  Needs[stack[u][i].flag] \cap S # {}
  <2>1. i + 1 \in Depth(u)
    BY <1>3 DEF Depth, IInv, TypeOK
  <2>2. stack[u][i + 1].flag \in Needs[stack[u][i].flag]
    BY <1>3 DEF LockInv, ChainInv
  <2>3. stack[u][i + 1].flag \in S
    BY <2>1, FrameType DEF IInv
  <2> QED BY <2>2, <2>3
<1>4. ASSUME NEW y \in S
      PROVE  Needs[y] \cap S # {}
  <2>1a. PICK u \in T : \E i \in Depth(u) : stack[u][i].flag = y
    OBVIOUS
  <2>1. PICK i \in Depth(u) : stack[u][i].flag = y
    BY <2>1a
  <2>2. CASE i # Len(stack[u])
    BY <1>3, <2>1, <2>2
  <2>3. CASE i = Len(stack[u])
    <3>1. stack[u][i].pc = "spin" /\ state[y] # 2 /\ y = Top(u).flag /\ y \in Flag
      BY <1>1, <2>1, <2>3
    <3>2. state[y] = 1
      BY <2>1, <3>1 DEF LockInv, WordInv, IInv, TypeOK
    <3>3a. PICK v \in Thread : \E j \in Depth(v) : stack[v][j].flag = y /\ Owns(v, j)
      BY <3>1, <3>2 DEF LockInv, WordInv
    <3>3. PICK j \in Depth(v) : stack[v][j].flag = y /\ Owns(v, j)
      BY <3>3a
    <3>4. v \in Runner(y)
      <4>1. j \in DOMAIN stack[v]
        BY DEF Depth, IInv, TypeOK
      <4> QED BY <3>3, <4>1 DEF Runner, Owns
    <3>5. v \in T
      BY <1>1, <3>1, <3>4
    <3>6. j # Len(stack[v])
      BY <1>1, <3>3, <3>5 DEF Owns
    <3> QED BY <1>3, <3>3, <3>5, <3>6
  <2> QED BY <2>2, <2>3
<1> HIDE DEF S
<1>5. S \in SUBSET Flag
  BY DEF S
<1> QED BY <1>2, <1>4, <1>5 DEF ComesToCycle

(* Threads whose flags come to no cycle never lock each other up, however  *)
(* many race (mutex:15, 20).                                               *)
THEOREM NoLock == Spec => []LockedOnCycles
<1>1. IInv /\ LockInv => LockedOnCycles
  BY LockedNeeds DEF LockedOnCycles
<1>2. Spec => [](IInv /\ LockInv)
  BY InitInv, InitLock, NextInv, NextLock, PTL DEF Spec
<1> QED BY <1>1, <1>2, PTL

-----------------------------------------------------------------------------
(* call_once implements AbstractOnce. *)

Done == {x \in Flag : effect[x] = "whole"}
Waits == [t \in Thread |-> IF stack[t] = <<>> THEN {} ELSE {stack[t][1].flag}]

LEMMA InitRefines == Init => Abstract!Init
  BY DEF Init, Abstract!Init

(* What a step leaves alone of the bottom frames is what the abstract      *)
(* threads wait for.                                                       *)
LEMMA BottomsKept ==
    ASSUME \A u \in Thread : /\ stack'[u] = <<>> <=> stack[u] = <<>>
                             /\ stack[u] # <<>> =>
                                  stack'[u][1].flag = stack[u][1].flag
    PROVE  Waits' = Waits
  BY DEF Waits

LEMMA GoToKeeps ==
    ASSUME TypeOK, NEW t \in Thread, stack[t] # <<>>,
           NEW pc \in {"cas", "run", "store", "spin"}, GoTo(t, pc)
    PROVE  Waits' = Waits
<1>1. /\ stack' \in [Thread -> Seq(Frame)]
      /\ \A u \in Thread : Len(stack'[u]) = Len(stack[u])
      /\ \A u \in Thread : \A i \in Depth(u) :
           stack'[u][i].flag = stack[u][i].flag
  BY GoToStack
<1>2. ASSUME NEW u \in Thread
      PROVE  /\ stack'[u] = <<>> <=> stack[u] = <<>>
             /\ stack[u] # <<>> => stack'[u][1].flag = stack[u][1].flag
  <2>1. stack[u] \in Seq(Frame) /\ stack'[u] \in Seq(Frame)
    BY <1>1 DEF TypeOK
  <2>2. stack[u] # <<>> => 1 \in Depth(u)
    BY <2>1 DEF Depth
  <2>3. stack'[u] = <<>> <=> stack[u] = <<>>
    BY <1>1, <2>1
  <2> QED BY <1>1, <2>2, <2>3
<1> QED BY <1>2, BottomsKept

LEMMA WinRefines ==
    ASSUME IInv, NEW t \in Thread, Win(t)
    PROVE  UNCHANGED <<Done, Waits>>
<1>1. stack[t] # <<>> /\ GoTo(t, "run") /\ Top(t).flag \in Flag
  BY TopType DEF Win, In, IInv
<1>2. Waits' = Waits
  BY <1>1, GoToKeeps DEF IInv
<1>3. effect[Top(t).flag] = "none"
  BY <1>1 DEF Win, IInv, FlagInv
<1>4. Done' = Done
  BY <1>1, <1>3 DEF Win, Done, IInv, TypeOK
<1> QED BY <1>2, <1>4

LEMMA LoseRefines ==
    ASSUME IInv, NEW t \in Thread, Lose(t)
    PROVE  UNCHANGED <<Done, Waits>>
<1>1. stack[t] # <<>> /\ GoTo(t, "spin") /\ effect' = effect
  BY DEF Lose, In
<1>2. Waits' = Waits
  BY <1>1, GoToKeeps DEF IInv
<1> QED BY <1>1, <1>2 DEF Done

LEMMA FinishRefines ==
    ASSUME IInv, NEW t \in Thread, Finish(t)
    PROVE  /\ UNCHANGED Waits
           /\ \E x \in Flag : x \notin Done /\ Done' = Done \cup {x}
<1>1. /\ stack[t] # <<>> /\ GoTo(t, "store") /\ Top(t).flag \in Flag
      /\ Len(stack[t]) \in Depth(t) /\ Top(t) = stack[t][Len(stack[t])]
  BY TopType DEF Finish, In, IInv
<1>2. Waits' = Waits
  BY <1>1, GoToKeeps DEF IInv
<1>3. effect[Top(t).flag] = "partial"
  BY <1>1 DEF Finish, In, IInv, FrameInv
<1>4. Top(t).flag \notin Done /\ Done' = Done \cup {Top(t).flag}
  BY <1>1, <1>3 DEF Finish, Done, IInv, TypeOK
<1> QED BY <1>1, <1>2, <1>4

(* A return from a nested call is hidden; the last return of a thread is   *)
(* an Answer.                                                              *)
LEMMA ReturnRefines ==
    ASSUME IInv, NEW t \in Thread, Publish(t) \/ Spin(t)
    PROVE  /\ UNCHANGED Done
           /\ \/ UNCHANGED Waits
              \/ /\ Waits[t] # {} /\ Waits[t] \subseteq Done
                 /\ Waits' = [Waits EXCEPT ![t] = {}]
<1>1. /\ stack[t] # <<>> /\ Return(t) /\ effect' = effect
      /\ effect[Top(t).flag] = "whole"
  BY PoppedWhole DEF Publish, Spin, In
<1>2. /\ Len(stack[t]) \in Nat \ {0} /\ Top(t) = stack[t][Len(stack[t])]
      /\ Top(t).flag \in Flag /\ TypeOK
  BY <1>1, TopType DEF IInv
<1>3. /\ stack' \in [Thread -> Seq(Frame)]
      /\ Len(stack'[t]) = Len(stack[t]) - 1
      /\ \A u \in Thread \ {t} : stack'[u] = stack[u]
      /\ \A i \in 1 .. (Len(stack[t]) - 1) :
           stack'[t][i].flag = stack[t][i].flag
  BY <1>1, <1>2, ReturnStack
<1>4. stack'[t] \in Seq(Frame)
  BY <1>3
<1>5. CASE Len(stack[t]) = 1
  <2>1. stack'[t] = <<>>
    BY <1>3, <1>4, <1>5
  <2>2. Waits[t] = {Top(t).flag} /\ Top(t).flag \in Done
    BY <1>1, <1>2, <1>5 DEF Waits, Done
  <2>3. Waits' = [Waits EXCEPT ![t] = {}]
    BY <1>3, <2>1 DEF Waits
  <2> QED BY <1>1, <2>2, <2>3 DEF Done
<1>6. CASE Len(stack[t]) # 1
  <2>1. 1 \in 1 .. (Len(stack[t]) - 1)
    <3> SUFFICES ASSUME NEW n \in Nat, n # 0, n # 1
                 PROVE  1 \in 1 .. (n - 1)
      BY <1>2, <1>6
    <3>1. 1 <= n - 1
      OBVIOUS
    <3> QED BY <3>1
  <2>2. stack'[t] # <<>> /\ stack'[t][1].flag = stack[t][1].flag
    BY <1>3, <1>4, <2>1
  <2>3. Waits' = Waits
    BY <1>1, <1>3, <2>2, BottomsKept
  <2> QED BY <1>1, <2>3 DEF Done
<1> QED BY <1>5, <1>6

LEMMA CallRefines ==
    ASSUME IInv, NEW t \in Thread, NEW x \in Flag, Call(t, x)
    PROVE  /\ UNCHANGED Done
           /\ Waits[t] = {} /\ Waits' = [Waits EXCEPT ![t] = {x}]
<1>1. /\ stack[t] = <<>> /\ stack'[t] = <<Entered(x)>> /\ effect' = effect
      /\ \A u \in Thread \ {t} : stack'[u] = stack[u]
  BY DEF Call, IInv, TypeOK
<1>2. stack'[t] # <<>> /\ stack'[t][1].flag = x
  BY <1>1 DEF Entered
<1>3. Waits[t] = {} /\ Waits' = [Waits EXCEPT ![t] = {x}]
  BY <1>1, <1>2 DEF Waits
<1> QED BY <1>1, <1>3 DEF Done

LEMMA NestRefines ==
    ASSUME IInv, NEW t \in Thread, NEW x \in Flag, Nest(t, x)
    PROVE  UNCHANGED <<Done, Waits>>
<1>1. /\ stack[t] # <<>> /\ effect' = effect
      /\ stack' = [stack EXCEPT ![t] = Append(@, Entered(x))]
  BY DEF Nest, In
<1>2. /\ Len(stack[t]) \in Nat \ {0} /\ stack[t] \in Seq(Frame)
      /\ 1 \in Depth(t)
  BY <1>1, TopType DEF IInv, TypeOK, Depth
<1>3. /\ stack' \in [Thread -> Seq(Frame)]
      /\ Len(stack'[t]) = Len(stack[t]) + 1
      /\ \A u \in Thread \ {t} : stack'[u] = stack[u]
      /\ stack'[t][1] = stack[t][1]
  BY <1>1, <1>2, EnterStack DEF IInv
<1>4. stack'[t] # <<>>
  BY <1>2, <1>3
<1>5. Waits' = Waits
  <2> USE <1>3, <1>4
  <2> QED BY <1>1, BottomsKept
<1> QED BY <1>1, <1>5 DEF Done

LEMMA NextRefines ==
    IInv /\ [Next]_vars => [Abstract!Next]_<<Done, Waits>>
<1> SUFFICES ASSUME IInv, [Next]_vars
             PROVE  Abstract!Next \/ UNCHANGED <<Done, Waits>>
  OBVIOUS
<1>1. CASE UNCHANGED vars
  BY <1>1 DEF vars, Done, Waits
<1>2. ASSUME NEW t \in Thread, NEW x \in Flag, Call(t, x)
      PROVE  Abstract!Next
  <2>1. Abstract!Ask(t, x)
    BY <1>2, CallRefines DEF Abstract!Ask, Done, Waits
  <2> QED BY <2>1 DEF Abstract!Next
<1>3. ASSUME NEW t \in Thread, NEW x \in Flag, Nest(t, x)
      PROVE  UNCHANGED <<Done, Waits>>
  BY <1>3, NestRefines
<1>4. ASSUME NEW t \in Thread, Finish(t)
      PROVE  Abstract!Next
  <2>1. PICK x \in Flag : Abstract!Run(x)
    BY <1>4, FinishRefines DEF Abstract!Run, Done, Waits
  <2> QED BY <2>1 DEF Abstract!Next
<1>5. ASSUME NEW t \in Thread, Publish(t) \/ Spin(t)
      PROVE  Abstract!Next \/ UNCHANGED <<Done, Waits>>
  <2>1. Abstract!Answer(t) \/ UNCHANGED <<Done, Waits>>
    BY <1>5, ReturnRefines DEF Abstract!Answer, Done, Waits
  <2> QED BY <2>1 DEF Abstract!Next
<1>6. ASSUME NEW t \in Thread, Win(t) \/ Lose(t) \/ Pause(t)
      PROVE  UNCHANGED <<Done, Waits>>
  <2>1. CASE Win(t)
    BY <2>1, WinRefines
  <2>2. CASE Lose(t)
    BY <2>2, LoseRefines
  <2>3. CASE Pause(t)
    BY <2>3 DEF Pause, vars, Done, Waits
  <2> QED BY <1>6, <2>1, <2>2, <2>3
<1> QED BY <1>1, <1>2, <1>3, <1>4, <1>5, <1>6 DEF Next, Step

(* The flag's protocol keeps the promise of AbstractOnce: the function of  *)
(* a flag takes effect once, and a caller is answered only after it.       *)
THEOREM Refinement == Spec => AbstractSpec
<1>1. IInv /\ [Next]_vars => [Abstract!Next]_Abstract!vars
  BY NextRefines DEF Abstract!vars, Done, Waits
<1> QED
  BY <1>1, InitRefines, Invariance, PTL DEF Spec, AbstractSpec, Abstract!Spec
=============================================================================
