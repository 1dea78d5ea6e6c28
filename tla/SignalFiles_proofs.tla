-------------------------- MODULE SignalFiles_proofs --------------------------
(***************************************************************************)
(* What holds of output files and signals whatever the number of threads,  *)
(* files and signals.  The invariant has layers, each proved from those    *)
(* before it:                                                              *)
(*   BasicOK      types; the stack of a thread is a frame of the tool's    *)
(*                code below handlers' frames; the mutex is owned by the   *)
(*                one stack with frames between lock and unlock, and taken *)
(*                as often as there are such frames;                       *)
(*   FilesOK      no two threads have the same file; the list names each   *)
(*                once, and none that was kept;                            *)
(*   CalmOK       without an interrupt function no handler returns, so     *)
(*                while no thread is in one, no signal has come;           *)
(*   SpaceOK      with one thread, the loop over the signals is ahead of   *)
(*                the table it fills;                                      *)
(*   UntouchedOK  until a signal comes, the open files are on the list and *)
(*                all the handlers are registered before a file is opened; *)
(*   OpenedOK     a file that is open and there is on the list or late,    *)
(*                and late once a handler has found the list empty.        *)
(***************************************************************************)
EXTENDS SignalFiles, SequenceTheorems, FiniteSetTheorems, WellFoundedInduction, TLAPS

\* A sequence without its last element, with another last one, and with two instead.
LEMMA Fronts ==
  ASSUME NEW S, NEW s \in Seq(S), s # <<>>
  PROVE  /\ Front(s) \in Seq(S) /\ Len(Front(s)) = Len(s) - 1 /\ Len(s) \in Nat \ {0}
         /\ \A i \in 1 .. Len(s) - 1 : Front(s)[i] = s[i]
         /\ \A i \in 1 .. Len(s) : s[i] \in S
<1>1. Len(s) \in Nat \ {0} /\ Len(s) - 1 \in 0 .. Len(s) /\ \A i \in 1 .. Len(s) : s[i] \in S
  BY EmptySeq, ElementOfSeq
<1>2. \A i \in 1 .. Len(s) - 1 : s[i] \in S
  BY <1>1
<1>3. Front(s) = [i \in 1 .. Len(s) - 1 |-> s[i]]
  BY <1>1 DEF Front
<1>4. Front(s) \in Seq(S) /\ Len(Front(s)) = Len(s) - 1
  BY <1>1, <1>2, <1>3, IsASeq
<1>. QED  BY <1>1, <1>3, <1>4

LEMMA Replaced ==
  ASSUME NEW S, NEW s \in Seq(S), s # <<>>, NEW f \in S
  PROVE  LET q == Append(Front(s), f)
         IN  /\ q \in Seq(S) /\ q # <<>> /\ Len(q) = Len(s) /\ q[Len(s)] = f
             /\ \A i \in 1 .. Len(s) - 1 : q[i] = s[i]
<1>1. /\ Front(s) \in Seq(S) /\ Len(Front(s)) = Len(s) - 1 /\ Len(s) \in Nat \ {0}
      /\ \A i \in 1 .. Len(s) - 1 : Front(s)[i] = s[i]
  BY Fronts
<1>. DEFINE q == Append(Front(s), f)
<1>2. q \in Seq(S) /\ Len(q) = (Len(s) - 1) + 1 /\ q[(Len(s) - 1) + 1] = f
      /\ \A i \in 1 .. Len(s) - 1 : q[i] = Front(s)[i]
  BY <1>1, AppendProperties
<1>3. (Len(s) - 1) + 1 = Len(s)
  BY <1>1
<1>. HIDE DEF q
<1>4. q # <<>>
  BY <1>1, <1>2, <1>3, EmptySeq
<1>5. QED  BY <1>1, <1>2, <1>3, <1>4 DEF q

\* A set of numbers with a bound has a greatest one.
LEMMA Greatest ==
  ASSUME NEW n \in Nat, NEW I, I \subseteq 0 .. n, I # {}
  PROVE  \E i \in I : \A j \in I : j <= i
<1>. DEFINE T == {n - i : i \in I}
<1>1. T \subseteq Nat /\ T # {}
  <2>1. ASSUME NEW i \in I PROVE n - i \in Nat
    <3>1. i \in 0 .. n
      OBVIOUS
    <3>. QED  BY ONLY <3>1, n \in Nat
  <2>2. \A x \in T : x \in Nat
    BY <2>1
  <2>3. PICK i \in I : TRUE
    OBVIOUS
  <2>4. n - i \in T
    BY <2>3
  <2>. QED  BY <2>2, <2>4
<1>2. PICK x \in T : \A y \in T : ~(<<y, x>> \in OpToRel(<, Nat))
  BY <1>1, NatLessThanWellFounded, WFMin
<1>3. \A y \in T : ~(y < x)
  BY <1>1, <1>2 DEF OpToRel
<1>4. PICK i \in I : x = n - i
  OBVIOUS
<1>5. ASSUME NEW j \in I PROVE j <= i
  <2>1. ~(n - j < n - i)
    BY <1>3, <1>4
  <2>. QED  BY <2>1
<1>. QED  BY <1>5
-----------------------------------------------------------------------------
(* Types, and what a thread's stack looks like: the tool's own frame, and  *)
(* handlers on top of it.                                                  *)

Frames == ToolFrames \cup HandlerFrames
ToolPcs == {"set", "idle", "push", "unlock", "register", "sigaction", "count", "open",
            "work", "erase", "forget", "unlock at end"}
HandlerPcs == {"restore", "empty", "lock", "remove", "decide", "call", "raise", "fault", "return"}
Actions == {"default", "handler"}
StacksOK ==
    /\ stack \in [Threads -> Seq(Frames)]
    /\ \A t \in Threads : /\ stack[t] # <<>> /\ stack[t][1] \in ToolFrames
                          /\ \A i \in 2 .. Len(stack[t]) : stack[t][i] \in HandlerFrames
TypesOK ==
    /\ tool \in Tools /\ disk \subseteq Files /\ kept \subseteq Files /\ late \subseteq Files
    /\ FilesToRemove \in Seq(Files)
    /\ disposition \in [ToSet(AllSigs) -> Actions]
    /\ table \in [Slots -> [SigNo : ToSet(AllSigs), SA : Actions]]
    /\ Num \in 0 .. Len(AllSigs)
    /\ mutex \in [owner : Threads \cup {NoThread}, depth : Int]
    /\ InterruptFunction \in BOOLEAN /\ killed \in BOOLEAN
    /\ outputs \in Int /\ signals \in Int
    /\ StacksOK

\* What the tool's code in thread t is doing, or was when a signal came.
Own(t) == stack[t][1]

\* The signals form a sequence that is not empty.
LEMMA SignalNames ==
  /\ AllSigs \in Seq(STRING) /\ Len(AllSigs) \in Nat \ {0}
  /\ \A i \in 1 .. Len(AllSigs) : AllSigs[i] \in ToSet(AllSigs)
  /\ \A s \in ToSet(AllSigs) : \E i \in 1 .. Len(AllSigs) : AllSigs[i] = s
  /\ \A s \in ToSet(IntSigs) \cup ToSet(KillSigs) : s \in ToSet(AllSigs)
<1>1. IntSigs \in Seq(STRING) /\ KillSigs \in Seq(STRING) /\ IntSigs # <<>> /\ KillSigs # <<>>
  BY SignalsAssumption
<1>2. Len(IntSigs) \in Nat \ {0} /\ Len(KillSigs) \in Nat \ {0}
      /\ DOMAIN IntSigs = 1 .. Len(IntSigs) /\ DOMAIN KillSigs = 1 .. Len(KillSigs)
  BY <1>1, EmptySeq
<1>3. /\ AllSigs \in Seq(STRING) /\ Len(AllSigs) = Len(IntSigs) + Len(KillSigs)
      /\ \A i \in 1 .. Len(IntSigs) + Len(KillSigs) :
            AllSigs[i] = IF i <= Len(IntSigs) THEN IntSigs[i] ELSE KillSigs[i - Len(IntSigs)]
  BY <1>1, ConcatProperties DEF AllSigs
<1>4. DOMAIN AllSigs = 1 .. Len(AllSigs)
  BY <1>3
<1>5. \A i \in 1 .. Len(IntSigs) : i \in 1 .. Len(AllSigs) /\ AllSigs[i] = IntSigs[i]
  BY <1>2, <1>3
<1>6. \A i \in 1 .. Len(KillSigs) :
          i + Len(IntSigs) \in 1 .. Len(AllSigs) /\ AllSigs[i + Len(IntSigs)] = KillSigs[i]
  <2>. TAKE i \in 1 .. Len(KillSigs)
  <2>1. i + Len(IntSigs) \in 1 .. Len(AllSigs) /\ ~(i + Len(IntSigs) <= Len(IntSigs))
        /\ (i + Len(IntSigs)) - Len(IntSigs) = i
    BY <1>2, <1>3
  <2>. QED  BY <1>3, <2>1
<1>7. \A s \in ToSet(IntSigs) \cup ToSet(KillSigs) : s \in ToSet(AllSigs)
  BY <1>2, <1>4, <1>5, <1>6 DEF ToSet
<1>8. Len(AllSigs) \in Nat \ {0}
  BY <1>2, <1>3
<1>. QED  BY <1>3, <1>4, <1>7, <1>8 DEF ToSet

\* The frame that thread t is executing.
LEMMA TopFacts ==
  ASSUME StacksOK, NEW t \in Threads
  PROVE  /\ stack[t] \in Seq(Frames) /\ stack[t] # <<>> /\ Len(stack[t]) \in Nat \ {0}
         /\ Top(t) = stack[t][Len(stack[t])] /\ Head(stack[t]) = Own(t)
         /\ Own(t) \in ToolFrames
         /\ IF Len(stack[t]) = 1 THEN Top(t) = Own(t) /\ Top(t).pc \in ToolPcs
                                 ELSE Top(t) \in HandlerFrames /\ Top(t).pc \in HandlerPcs
<1>1. stack[t] \in Seq(Frames) /\ stack[t] # <<>> /\ Len(stack[t]) \in Nat \ {0}
  BY EmptySeq DEF StacksOK
<1>2. Top(t) = stack[t][Len(stack[t])] /\ Head(stack[t]) = Own(t) /\ Own(t) \in ToolFrames
  BY <1>1, HeadTailProperties DEF Top, Last, Own, StacksOK
<1>3. CASE Len(stack[t]) = 1
  BY <1>1, <1>2, <1>3 DEF Own, ToolFrames, ToolPcs
<1>4. CASE Len(stack[t]) # 1
  <2>1. PICK n \in Nat \ {0} : n = Len(stack[t])
    BY <1>1
  <2>2. n \in 2 .. n
    <3>1. n # 1
      BY <1>4, <2>1
    <3>. QED  BY ONLY n \in Nat \ {0}, <3>1
  <2>3. Top(t) \in HandlerFrames
    BY <1>2, <2>1, <2>2 DEF StacksOK
  <2>. QED  BY <1>1, <1>2, <1>4, <2>3 DEF HandlerFrames, HandlerPcs
<1>. QED  BY <1>1, <1>2, <1>3, <1>4

\* No place is both in the tool and in a handler.
LEMMA Places ==
  ASSUME StacksOK, NEW t \in Threads
  PROVE  /\ Top(t).pc \in ToolPcs => Len(stack[t]) = 1 /\ Top(t) = Own(t)
         /\ Top(t).pc \in HandlerPcs =>
               Len(stack[t]) > 1 /\ Len(stack[t]) # 1 /\ Top(t) \in HandlerFrames
<1>1. \A pc : ~(pc \in ToolPcs /\ pc \in HandlerPcs)
  BY DEF ToolPcs, HandlerPcs
<1>2. CASE Len(stack[t]) = 1
  BY <1>1, <1>2, TopFacts
<1>3. CASE Len(stack[t]) # 1
  <2>1. Len(stack[t]) > 1
    <3>. PICK n \in Nat \ {0} : n = Len(stack[t])
      BY TopFacts
    <3>1. n # 1
      BY <1>3
    <3>2. n > 1
      BY ONLY n \in Nat \ {0}, <3>1
    <3>. QED  BY ONLY <3>2, n = Len(stack[t])
  <2>. QED  BY <1>1, <1>3, <2>1, TopFacts
<1>. QED  BY <1>2, <1>3

\* The tool's code in thread t goes on with another frame.
LEMMA OwnStep ==
  ASSUME StacksOK, NEW t \in Threads, Len(stack[t]) = 1, NEW frame \in ToolFrames,
         Become(t, frame)
  PROVE  /\ StacksOK' /\ Own(t)' = frame /\ Len(stack'[t]) = 1
         /\ \A u \in Threads \ {t} : stack'[u] = stack[u] /\ Own(u)' = Own(u)
<1>1. stack[t] \in Seq(Frames) /\ stack[t] # <<>> /\ frame \in Frames
  BY TopFacts DEF Frames
<1>. DEFINE q == Append(Front(stack[t]), frame)
<1>2. q \in Seq(Frames) /\ q # <<>> /\ Len(q) = Len(stack[t]) /\ q[Len(stack[t])] = frame
  BY <1>1, Replaced
<1>3. stack' = [stack EXCEPT ![t] = q]
  BY DEF Become
<1>. HIDE DEF q
<1>4. stack'[t] = q /\ \A u \in Threads \ {t} : stack'[u] = stack[u]
  BY <1>3 DEF StacksOK
<1>5. stack' \in [Threads -> Seq(Frames)]
  BY <1>2, <1>3 DEF StacksOK
<1>6. \A i : i \notin 2 .. Len(q)
  BY <1>2
<1>7. StacksOK'
  BY <1>2, <1>4, <1>5, <1>6 DEF StacksOK
<1>. QED  BY <1>2, <1>4, <1>7 DEF Own

\* A handler goes on with another frame.
LEMMA HandlerGoesOn ==
  ASSUME StacksOK, NEW t \in Threads, Len(stack[t]) > 1, NEW frame \in HandlerFrames,
         Become(t, frame)
  PROVE  /\ StacksOK' /\ Len(stack'[t]) = Len(stack[t])
         /\ stack'[t][Len(stack[t])] = frame
         /\ \A i \in 1 .. Len(stack[t]) - 1 : stack'[t][i] = stack[t][i]
         /\ \A u \in Threads \ {t} : stack'[u] = stack[u]
         /\ \A u \in Threads : Own(u)' = Own(u)
<1>1. stack[t] \in Seq(Frames) /\ stack[t] # <<>> /\ frame \in Frames /\ Len(stack[t]) \in Nat
  BY TopFacts DEF Frames
<1>. DEFINE q == Append(Front(stack[t]), frame)
<1>2. q \in Seq(Frames) /\ q # <<>> /\ Len(q) = Len(stack[t]) /\ q[Len(stack[t])] = frame
      /\ \A i \in 1 .. Len(stack[t]) - 1 : q[i] = stack[t][i]
  BY <1>1, Replaced
<1>3. stack' = [stack EXCEPT ![t] = q]
  BY DEF Become
<1>. HIDE DEF q
<1>4. stack'[t] = q /\ \A u \in Threads \ {t} : stack'[u] = stack[u]
  BY <1>3 DEF StacksOK
<1>5. stack' \in [Threads -> Seq(Frames)]
  BY <1>2, <1>3 DEF StacksOK
<1>6. 1 \in 1 .. Len(stack[t]) - 1
  BY <1>1
<1>7. q[1] \in ToolFrames /\ q[1] = stack[t][1]
  BY <1>2, <1>6 DEF StacksOK
<1>8. ASSUME NEW i \in 2 .. Len(q) PROVE q[i] \in HandlerFrames
  <2>1. i = Len(stack[t]) \/ (i \in 1 .. Len(stack[t]) - 1 /\ i \in 2 .. Len(stack[t]))
    BY <1>1, <1>2
  <2>. QED  BY <1>2, <2>1 DEF StacksOK
<1>9. StacksOK'
  BY <1>2, <1>4, <1>5, <1>7, <1>8 DEF StacksOK
<1>. QED  BY <1>2, <1>4, <1>7, <1>9 DEF Own

\* A sequence with two elements instead of its last one.
TwoAtEnd(q, s, f, g) ==
    /\ Len(q) = Len(s) + 1 /\ q[Len(s)] = f /\ q[Len(s) + 1] = g
    /\ \A i \in 1 .. Len(s) - 1 : q[i] = s[i]

LEMMA Interrupted ==
  ASSUME NEW s \in Seq(Frames), s # <<>>, NEW f \in Frames, NEW g \in Frames
  PROVE  TwoAtEnd(Front(s) \o <<f, g>>, s, f, g)
<1>p. PICK p \in Seq(Frames) : p = <<f, g>> /\ Len(p) = 2 /\ p[1] = f /\ p[2] = g
  <2>. DEFINE p == <<f, g>>
  <2>1. p \in Seq(Frames) /\ Len(p) = 2 /\ p[1] = f /\ p[2] = g
    OBVIOUS
  <2>. QED  BY <2>1
<1>q. PICK q : q = Front(s) \o p
  OBVIOUS
<1>1. /\ Front(s) \in Seq(Frames) /\ Len(Front(s)) = Len(s) - 1 /\ Len(s) \in Nat \ {0}
      /\ \A i \in 1 .. Len(s) - 1 : Front(s)[i] = s[i]
  BY Fronts
<1>2. /\ Len(q) = Len(Front(s)) + Len(p)
      /\ \A i \in 1 .. Len(Front(s)) + Len(p) :
            q[i] = IF i <= Len(Front(s)) THEN Front(s)[i] ELSE p[i - Len(Front(s))]
  BY <1>1, <1>q, ConcatProperties
<1>3. /\ Len(q) = (Len(s) - 1) + 2
      /\ \A i \in 1 .. (Len(s) - 1) + 2 :
            q[i] = IF i <= Len(s) - 1 THEN Front(s)[i] ELSE p[i - (Len(s) - 1)]
  BY <1>1, <1>2, <1>p
<1>4. (Len(s) - 1) + 2 = Len(s) + 1 /\ Len(s) \in 1 .. (Len(s) - 1) + 2
      /\ Len(s) + 1 \in 1 .. (Len(s) - 1) + 2 /\ ~(Len(s) <= Len(s) - 1)
      /\ ~(Len(s) + 1 <= Len(s) - 1) /\ Len(s) - (Len(s) - 1) = 1
      /\ (Len(s) + 1) - (Len(s) - 1) = 2
  BY <1>1
<1>5. q[Len(s)] = p[1] /\ q[Len(s) + 1] = p[2]
  BY <1>3, <1>4
<1>6. \A i \in 1 .. Len(s) - 1 : q[i] = s[i]
  <2>. TAKE i \in 1 .. Len(s) - 1
  <2>1. i \in 1 .. (Len(s) - 1) + 2 /\ i <= Len(s) - 1
    BY <1>1
  <2>. QED  BY <1>1, <1>3, <2>1
<1>7. TwoAtEnd(q, s, p[1], p[2])
  BY <1>3, <1>4, <1>5, <1>6 DEF TwoAtEnd
<1>. QED  BY ONLY <1>p, <1>q, <1>7

LEMMA InterruptedType ==
  ASSUME NEW s \in Seq(Frames), s # <<>>, NEW f \in Frames, NEW g \in Frames
  PROVE  Front(s) \o <<f, g>> \in Seq(Frames) /\ Front(s) \o <<f, g>> # <<>>
<1>1. Front(s) \in Seq(Frames) /\ <<f, g>> \in Seq(Frames)
  BY Fronts
<1>2. Front(s) \o <<f, g>> \in Seq(Frames)
  BY <1>1, ConcatProperties
<1>3. PICK q : q = Front(s) \o <<f, g>>
  OBVIOUS
<1>4. TwoAtEnd(q, s, f, g)
  BY <1>3, Interrupted
<1>5. Len(q) = Len(s) + 1 /\ Len(s) \in Nat
  BY <1>4 DEF TwoAtEnd
<1>. QED  BY <1>2, <1>3, <1>5, EmptySeq

\* A signal puts a handler on top; what it interrupts is left at frame.
LEMMA SignalStack ==
  ASSUME StacksOK, NEW t \in Threads, NEW frame, NEW s \in ToSet(AllSigs),
         IF Len(stack[t]) = 1 THEN frame \in ToolFrames ELSE frame \in HandlerFrames,
         stack' = [stack EXCEPT ![t] = Front(@) \o <<frame, Handler(s)>>]
  PROVE  /\ StacksOK' /\ Len(stack'[t]) = Len(stack[t]) + 1
         /\ stack'[t][Len(stack[t])] = frame /\ stack'[t][Len(stack[t]) + 1] = Handler(s)
         /\ \A i \in 1 .. Len(stack[t]) - 1 : stack'[t][i] = stack[t][i]
         /\ \A u \in Threads \ {t} : stack'[u] = stack[u] /\ Own(u)' = Own(u)
         /\ Own(t)' = IF Len(stack[t]) = 1 THEN frame ELSE Own(t)
<1>1. stack[t] \in Seq(Frames) /\ stack[t] # <<>> /\ Len(stack[t]) \in Nat \ {0}
  BY TopFacts
<1>2. Handler(s) \in HandlerFrames
  BY DEF Handler, HandlerFrames
<1>3. frame \in Frames /\ Handler(s) \in Frames
  BY <1>2 DEF Frames
<1>n. PICK n \in Nat \ {0} : n = Len(stack[t])
  BY <1>1
<1>. DEFINE g == Handler(s)
<1>q. PICK q : q = Front(stack[t]) \o <<frame, g>>
  OBVIOUS
<1>4. stack' = [stack EXCEPT ![t] = q]
  BY <1>q
<1>. HIDE DEF g
<1>5. q \in Seq(Frames) /\ q # <<>> /\ Len(q) = Len(stack[t]) + 1 /\ q[Len(stack[t])] = frame
      /\ q[Len(stack[t]) + 1] = g /\ \A i \in 1 .. Len(stack[t]) - 1 : q[i] = stack[t][i]
  <2>1. g \in Frames
    BY <1>3 DEF g
  <2>2. frame \in Frames /\ stack[t] \in Seq(Frames) /\ stack[t] # <<>>
    BY <1>1, <1>3
  <2>3. TwoAtEnd(q, stack[t], frame, g)
    BY ONLY <1>q, <2>1, <2>2, Interrupted
  <2>4. q \in Seq(Frames) /\ q # <<>>
    BY ONLY <1>q, <2>1, <2>2, InterruptedType
  <2>. QED  BY ONLY <2>3, <2>4 DEF TwoAtEnd
<1>6. stack'[t] = q /\ \A u \in Threads \ {t} : stack'[u] = stack[u]
  BY <1>4 DEF StacksOK
<1>7. stack' \in [Threads -> Seq(Frames)]
  BY <1>4, <1>5 DEF StacksOK
<1>8. Len(stack[t]) = 1 \/ 1 \in 1 .. Len(stack[t]) - 1
  <2>1. n = 1 \/ 1 \in 1 .. n - 1
    BY ONLY n \in Nat \ {0}
  <2>. QED  BY ONLY <2>1, <1>n
<1>9. q[1] = IF Len(stack[t]) = 1 THEN frame ELSE stack[t][1]
  BY <1>1, <1>5, <1>8
<1>10. q[1] \in ToolFrames
  BY <1>9 DEF StacksOK
<1>11. ASSUME NEW i \in 2 .. Len(q) PROVE q[i] \in HandlerFrames
  <2>1. \/ i = Len(stack[t]) + 1
        \/ i = Len(stack[t]) /\ Len(stack[t]) # 1
        \/ (i \in 1 .. Len(stack[t]) - 1 /\ i \in 2 .. Len(stack[t]))
    <3>1. i \in 2 .. n + 1
      BY <1>5, <1>n
    <3>2. i = n + 1 \/ (i = n /\ n # 1) \/ (i \in 1 .. n - 1 /\ i \in 2 .. n)
      BY ONLY n \in Nat \ {0}, <3>1
    <3>. QED  BY ONLY <3>2, <1>n
  <2>. QED  BY <1>2, <1>5, <2>1 DEF StacksOK, g
<1>12. StacksOK'
  BY <1>5, <1>6, <1>7, <1>10, <1>11 DEF StacksOK
<1>. QED  BY <1>5, <1>6, <1>9, <1>12 DEF Own, g

\* A handler returns.
LEMMA ReturnStack ==
  ASSUME StacksOK, NEW t \in Threads, Len(stack[t]) > 1,
         stack' = [stack EXCEPT ![t] = Front(@)]
  PROVE  /\ StacksOK' /\ Len(stack'[t]) = Len(stack[t]) - 1
         /\ \A i \in 1 .. Len(stack[t]) - 1 : stack'[t][i] = stack[t][i]
         /\ \A u \in Threads \ {t} : stack'[u] = stack[u]
         /\ \A u \in Threads : Own(u)' = Own(u)
<1>1. stack[t] \in Seq(Frames) /\ stack[t] # <<>> /\ Len(stack[t]) \in Nat
  BY TopFacts
<1>. DEFINE q == Front(stack[t])
<1>2. q \in Seq(Frames) /\ Len(q) = Len(stack[t]) - 1
      /\ \A i \in 1 .. Len(stack[t]) - 1 : q[i] = stack[t][i]
  BY <1>1, Fronts
<1>3. stack' = [stack EXCEPT ![t] = q]
  OBVIOUS
<1>. HIDE DEF q
<1>4. stack'[t] = q /\ \A u \in Threads \ {t} : stack'[u] = stack[u]
  BY <1>3 DEF StacksOK
<1>5. stack' \in [Threads -> Seq(Frames)]
  BY <1>2, <1>3 DEF StacksOK
<1>6. 1 \in 1 .. Len(stack[t]) - 1 /\ q # <<>>
  BY <1>1, <1>2, EmptySeq
<1>7. q[1] \in ToolFrames /\ q[1] = stack[t][1]
  BY <1>2, <1>6 DEF StacksOK
<1>8. ASSUME NEW i \in 2 .. Len(q) PROVE q[i] \in HandlerFrames
  <2>1. i \in 1 .. Len(stack[t]) - 1 /\ i \in 2 .. Len(stack[t])
    BY <1>1, <1>2
  <2>. QED  BY <1>2, <2>1 DEF StacksOK
<1>9. StacksOK'
  BY <1>4, <1>5, <1>6, <1>7, <1>8 DEF StacksOK
<1>. QED  BY <1>2, <1>4, <1>7, <1>9 DEF Own
-----------------------------------------------------------------------------
(* What a step makes of the stacks.                                        *)

\* The frame that a thread executes is replaced by another one at pc,
TopGoes(t, pc) ==
    /\ Len(stack'[t]) = Len(stack[t])
    /\ stack'[t][Len(stack[t])].pc = pc
    /\ \A i \in 1 .. Len(stack[t]) - 1 : stack'[t][i] = stack[t][i]
    /\ \A u \in Threads \ {t} : stack'[u] = stack[u]
\* or gets the handler of s on top, and is left at pc.
HandlerRuns(t, pc, s) ==
    /\ Len(stack'[t]) = Len(stack[t]) + 1
    /\ stack'[t][Len(stack[t])].pc = pc /\ stack'[t][Len(stack[t]) + 1] = Handler(s)
    /\ \A i \in 1 .. Len(stack[t]) - 1 : stack'[t][i] = stack[t][i]
    /\ \A u \in Threads \ {t} : stack'[u] = stack[u]
\* The tool's own code in t goes on at pc, with that file,
OwnGoes(t, pc, file) ==
    /\ Len(stack[t]) = 1 /\ TopGoes(t, pc)
    /\ Own(t)'.pc = pc /\ Own(t)'.file = file
    /\ \A u \in Threads \ {t} : Own(u)' = Own(u)
\* or stays where it is.
OwnStays == \A u \in Threads : Own(u)' = Own(u)

LEMMA OwnBecomes ==
  ASSUME StacksOK, NEW t \in Threads, Top(t).pc \in ToolPcs, NEW frame \in ToolFrames,
         Become(t, frame)
  PROVE  StacksOK' /\ OwnGoes(t, frame.pc, frame.file) /\ Own(t)' = frame /\ Top(t) = Own(t)
<1>1. Len(stack[t]) = 1 /\ Top(t) = Own(t)
  BY Places
<1>2. /\ StacksOK' /\ Own(t)' = frame /\ Len(stack'[t]) = 1
      /\ \A u \in Threads \ {t} : stack'[u] = stack[u] /\ Own(u)' = Own(u)
  BY <1>1, OwnStep
<1>3. stack'[t][1] = frame
  BY <1>2 DEF Own
<1>4. \A i : i \notin 1 .. Len(stack[t]) - 1
  BY <1>1
<1>. QED  BY <1>1, <1>2, <1>3, <1>4 DEF OwnGoes, TopGoes

LEMMA OwnGoto ==
  ASSUME StacksOK, NEW t \in Threads, Top(t).pc \in ToolPcs, NEW pc \in ToolPcs, Goto(t, pc)
  PROVE  /\ StacksOK' /\ OwnGoes(t, pc, Own(t).file) /\ Top(t) = Own(t)
         /\ Own(t)'.opened = Own(t).opened /\ Own(t)'.i = Own(t).i /\ Own(t)'.next = Own(t).next
<1>1. Top(t) = Own(t) /\ Own(t) \in ToolFrames
  BY Places, TopFacts
<1>2. PICK frame : frame = [Own(t) EXCEPT !.pc = pc]
  OBVIOUS
<1>3. /\ frame \in ToolFrames /\ frame.pc = pc /\ frame.file = Own(t).file
      /\ frame.opened = Own(t).opened /\ frame.i = Own(t).i /\ frame.next = Own(t).next
  BY <1>1, <1>2 DEF ToolFrames, ToolPcs
<1>4. Become(t, frame)
  BY <1>1, <1>2 DEF Goto
<1>. QED  BY <1>3, <1>4, OwnBecomes

LEMMA HandlerGoto ==
  ASSUME StacksOK, NEW t \in Threads, Top(t).pc \in HandlerPcs, NEW pc \in HandlerPcs, Goto(t, pc)
  PROVE  StacksOK' /\ TopGoes(t, pc) /\ OwnStays /\ Len(stack[t]) > 1
<1>1. Top(t) \in HandlerFrames /\ Len(stack[t]) > 1
  BY Places
<1>2. PICK frame : frame = [Top(t) EXCEPT !.pc = pc]
  OBVIOUS
<1>3. frame \in HandlerFrames /\ frame.pc = pc
  BY <1>1, <1>2 DEF HandlerFrames, HandlerPcs
<1>4. Become(t, frame)
  BY <1>2 DEF Goto
<1>. QED  BY <1>1, <1>3, <1>4, HandlerGoesOn DEF TopGoes, OwnStays

\* What is interrupted is not changed but for the place where a handler goes on.
LEMMA SignalComes ==
  ASSUME StacksOK, NEW t \in Threads, NEW s \in ToSet(AllSigs), NEW frame,
         frame = Top(t) \/ (Top(t).pc \in HandlerPcs /\ frame = [Top(t) EXCEPT !.pc = "return"]),
         Comes(t, s, frame)
  PROVE  /\ StacksOK' /\ OwnStays
         /\ \/ disposition[s] = "default" /\ killed' = TRUE /\ UNCHANGED <<stack, disposition>>
            \/ /\ disposition[s] # "default" /\ killed' = FALSE /\ HandlerRuns(t, frame.pc, s)
               /\ disposition' = [disposition EXCEPT ![s] = "default"]
<1>1. CASE disposition[s] = "default"
  BY <1>1 DEF Comes, StacksOK, OwnStays, Own
<1>2. CASE disposition[s] # "default"
  <2>1. IF Len(stack[t]) = 1 THEN frame \in ToolFrames /\ frame = Own(t) ELSE frame \in HandlerFrames
    <3>1. CASE frame = Top(t)
      BY <3>1, TopFacts
    <3>2. CASE Top(t).pc \in HandlerPcs /\ frame = [Top(t) EXCEPT !.pc = "return"]
      <4>1. Len(stack[t]) # 1 /\ Top(t) \in HandlerFrames
        BY <3>2, Places
      <4>2. frame \in HandlerFrames
        BY <3>2, <4>1 DEF HandlerFrames
      <4>. QED  BY <4>1, <4>2
    <3>. QED  BY <3>1, <3>2
  <2>2. /\ stack' = [stack EXCEPT ![t] = Front(@) \o <<frame, Handler(s)>>]
        /\ killed' = FALSE
        /\ disposition' = [disposition EXCEPT ![s] = "default"]
    BY <1>2 DEF Comes
  <2>3. /\ StacksOK' /\ Len(stack'[t]) = Len(stack[t]) + 1
        /\ stack'[t][Len(stack[t])] = frame /\ stack'[t][Len(stack[t]) + 1] = Handler(s)
        /\ \A i \in 1 .. Len(stack[t]) - 1 : stack'[t][i] = stack[t][i]
        /\ \A u \in Threads \ {t} : stack'[u] = stack[u] /\ Own(u)' = Own(u)
        /\ Own(t)' = IF Len(stack[t]) = 1 THEN frame ELSE Own(t)
    BY <2>1, <2>2, SignalStack
  <2>4. Own(t)' = Own(t)
    BY <2>1, <2>3
  <2>. QED  BY <1>2, <2>2, <2>3, <2>4 DEF OwnStays, HandlerRuns
<1>. QED  BY <1>1, <1>2

\* An interrupt or a crash.
LEMMA InterruptFacts ==
  ASSUME StacksOK, NEW t \in Threads, NEW s \in ToSet(AllSigs), Interrupt(t, s) \/ Crash(t, s)
  PROVE  /\ StacksOK' /\ OwnStays /\ ~killed /\ signals > 0 /\ signals' = signals - 1
         /\ t \in tool.threads \/ Own(t).pc = "work"
         /\ \/ disposition[s] = "default" /\ killed' = TRUE /\ UNCHANGED <<stack, disposition>>
            \/ /\ disposition[s] # "default" /\ killed' = FALSE /\ HandlerRuns(t, Top(t).pc, s)
               /\ disposition' = [disposition EXCEPT ![s] = "default"]
         /\ UNCHANGED <<tool, table, Num, names, outputs, mutex, InterruptFunction>>
<1>1. /\ Comes(t, s, Top(t)) /\ signals > 0 /\ signals' = signals - 1
      /\ UNCHANGED <<tool, table, Num, names, outputs, mutex, InterruptFunction>>
  BY DEF Interrupt, Crash
<1>2. ~killed
  BY DEF Interrupt, Crash, At
<1>3. t \in tool.threads \/ Own(t).pc = "work"
  <2>1. CASE Interrupt(t, s)
    BY <2>1 DEF Interrupt
  <2>2. CASE Crash(t, s)
    <3>1. Top(t).pc = "work" /\ "work" \in ToolPcs
      BY <2>2 DEF Crash, At, ToolPcs
    <3>. QED  BY <3>1, Places
  <2>. QED  BY <2>1, <2>2
<1>4. /\ StacksOK' /\ OwnStays
      /\ \/ disposition[s] = "default" /\ killed' = TRUE /\ UNCHANGED <<stack, disposition>>
         \/ /\ disposition[s] # "default" /\ killed' = FALSE /\ HandlerRuns(t, Top(t).pc, s)
            /\ disposition' = [disposition EXCEPT ![s] = "default"]
  <2>. PICK frame : frame = Top(t)
    OBVIOUS
  <2>. QED  BY <1>1, SignalComes
<1>. QED  BY <1>1, <1>2, <1>3, <1>4
-----------------------------------------------------------------------------
(* Who holds the mutex: the code that is between lock and unlock, in the   *)
(* owner's stack as often as it has been taken, in no other stack.         *)

HoldsAt(pc) == pc \in {"unlock", "unlock at end", "remove", "decide"}
HeldIn(q) == {i \in 1 .. Len(q) : HoldsAt(q[i].pc)}
MutexOK ==
    /\ mutex.owner = NoThread => mutex.depth = 0
    /\ \A t \in Threads :
          IF mutex.owner = t THEN mutex.depth = Cardinality(HeldIn(stack[t])) /\ mutex.depth > 0
                             ELSE HeldIn(stack[t]) = {}

LEMMA HeldFinite ==
  ASSUME StacksOK, NEW t \in Threads
  PROVE  IsFiniteSet(HeldIn(stack[t])) /\ Cardinality(HeldIn(stack[t])) \in Nat
<1>1. Len(stack[t]) \in Nat
  BY TopFacts
<1>2. IsFiniteSet(1 .. Len(stack[t])) /\ HeldIn(stack[t]) \subseteq 1 .. Len(stack[t])
  BY <1>1, FS_Interval DEF HeldIn
<1>3. IsFiniteSet(HeldIn(stack[t]))
  BY <1>2, FS_Subset
<1>. QED  BY <1>3, FS_CardinalityType

\* What a step makes of the places where the mutex is held.
LEMMA HeldGoes ==
  ASSUME StacksOK, NEW t \in Threads, NEW pc, TopGoes(t, pc)
  PROVE  /\ HeldIn(stack'[t]) = (HeldIn(stack[t]) \ {Len(stack[t])})
                                    \cup (IF HoldsAt(pc) THEN {Len(stack[t])} ELSE {})
         /\ Len(stack[t]) \in HeldIn(stack[t]) <=> HoldsAt(Top(t).pc)
         /\ \A u \in Threads \ {t} : stack'[u] = stack[u]
<1>. PICK n \in Nat \ {0} : n = Len(stack[t])
  BY TopFacts
<1>1. /\ Len(stack'[t]) = n /\ stack'[t][n].pc = pc
      /\ \A i \in 1 .. n - 1 : stack'[t][i] = stack[t][i]
      /\ \A u \in Threads \ {t} : stack'[u] = stack[u]
  BY DEF TopGoes
<1>2. n \in 1 .. n /\ \A i \in 1 .. n : i = n \/ i \in 1 .. n - 1
  BY ONLY n \in Nat \ {0}
<1>3. n \notin 1 .. n - 1 /\ \A i \in 1 .. n - 1 : i \in 1 .. n
  BY ONLY n \in Nat \ {0}
<1>4. HeldIn(stack'[t]) = {i \in 1 .. n : HoldsAt(stack'[t][i].pc)}
  BY <1>1 DEF HeldIn
<1>5. HeldIn(stack[t]) = {i \in 1 .. n : HoldsAt(stack[t][i].pc)}
  BY DEF HeldIn
<1>6. Top(t) = stack[t][n]
  BY TopFacts
<1>7. ASSUME NEW i
      PROVE  i \in HeldIn(stack'[t]) <=>
                i \in (HeldIn(stack[t]) \ {n}) \cup (IF HoldsAt(pc) THEN {n} ELSE {})
  <2>1. CASE i \in 1 .. n - 1
    BY <1>1, <1>3, <1>4, <1>5, <2>1
  <2>2. CASE i = n
    BY <1>1, <1>2, <1>4, <1>5, <2>2
  <2>3. CASE i \notin 1 .. n
    BY <1>2, <1>4, <1>5, <2>3
  <2>. QED  BY <1>2, <2>1, <2>2, <2>3
<1>8. n \in HeldIn(stack[t]) <=> HoldsAt(Top(t).pc)
  BY <1>2, <1>5, <1>6
<1>. QED  BY <1>1, <1>7, <1>8

LEMMA HeldInterrupted ==
  ASSUME StacksOK, NEW t \in Threads, NEW pc, NEW s \in ToSet(AllSigs), HandlerRuns(t, pc, s),
         HoldsAt(pc) <=> HoldsAt(Top(t).pc)
  PROVE  \A u \in Threads : HeldIn(stack'[u]) = HeldIn(stack[u])
<1>. PICK n \in Nat \ {0} : n = Len(stack[t])
  BY TopFacts
<1>1. /\ Len(stack'[t]) = n + 1 /\ stack'[t][n].pc = pc /\ stack'[t][n + 1] = Handler(s)
      /\ \A i \in 1 .. n - 1 : stack'[t][i] = stack[t][i]
      /\ \A u \in Threads \ {t} : stack'[u] = stack[u]
  BY DEF HandlerRuns
<1>2. /\ \A i \in 1 .. n + 1 : i = n + 1 \/ i = n \/ i \in 1 .. n - 1
      /\ \A i \in 1 .. n : i = n \/ i \in 1 .. n - 1
      /\ \A i \in 1 .. n : i \in 1 .. n + 1
      /\ n \in 1 .. n /\ n + 1 \notin 1 .. n
  BY ONLY n \in Nat \ {0}
<1>3. ~HoldsAt(stack'[t][n + 1].pc)
  <2>1. Handler(s).pc = "restore" /\ ~HoldsAt("restore")
    BY DEF Handler, HoldsAt
  <2>. QED  BY <1>1, <2>1
<1>4. HeldIn(stack'[t]) = {i \in 1 .. n + 1 : HoldsAt(stack'[t][i].pc)}
  BY <1>1 DEF HeldIn
<1>5. HeldIn(stack[t]) = {i \in 1 .. n : HoldsAt(stack[t][i].pc)}
  BY DEF HeldIn
<1>6. HoldsAt(pc) <=> HoldsAt(stack[t][n].pc)
  BY TopFacts
<1>7. ASSUME NEW i PROVE i \in HeldIn(stack'[t]) <=> i \in HeldIn(stack[t])
  <2>1. CASE i \in 1 .. n - 1
    BY <1>1, <1>2, <1>4, <1>5, <2>1
  <2>2. CASE i = n
    BY <1>1, <1>2, <1>4, <1>5, <1>6, <2>2
  <2>3. CASE i = n + 1
    BY <1>2, <1>3, <1>4, <1>5, <2>3
  <2>. QED  BY <1>2, <1>4, <1>5, <2>1, <2>2, <2>3
<1>8. HeldIn(stack'[t]) = HeldIn(stack[t])
  BY <1>7
<1>. QED  BY <1>1, <1>8

LEMMA HeldReturned ==
  ASSUME StacksOK, NEW t \in Threads, ~HoldsAt(Top(t).pc),
         Len(stack'[t]) = Len(stack[t]) - 1,
         \A i \in 1 .. Len(stack[t]) - 1 : stack'[t][i] = stack[t][i],
         \A u \in Threads \ {t} : stack'[u] = stack[u]
  PROVE  \A u \in Threads : HeldIn(stack'[u]) = HeldIn(stack[u])
<1>. PICK n \in Nat \ {0} : n = Len(stack[t])
  BY TopFacts
<1>1. /\ n \in 1 .. n /\ \A i \in 1 .. n : i = n \/ i \in 1 .. n - 1
      /\ \A i \in 1 .. n - 1 : i \in 1 .. n
  BY ONLY n \in Nat \ {0}
<1>2. HeldIn(stack'[t]) = {i \in 1 .. n - 1 : HoldsAt(stack'[t][i].pc)}
  BY DEF HeldIn
<1>3. HeldIn(stack[t]) = {i \in 1 .. n : HoldsAt(stack[t][i].pc)}
  BY DEF HeldIn
<1>4. ~HoldsAt(stack[t][n].pc)
  BY TopFacts
<1>5. HeldIn(stack'[t]) = HeldIn(stack[t])
  BY <1>1, <1>2, <1>3, <1>4
<1>. QED  BY <1>5

LEMMA MutexType ==
  ASSUME TypesOK, NEW t \in Threads, acquire(t) \/ release
  PROVE  mutex' \in [owner : Threads \cup {NoThread}, depth : Int]
<1>1. mutex \in [owner : Threads \cup {NoThread}, depth : Int]
  BY DEF TypesOK
<1>2. CASE acquire(t)
  BY <1>1, <1>2 DEF acquire
<1>3. CASE release
  BY <1>1, <1>3 DEF release
<1>. QED  BY <1>2, <1>3

\* A step that neither takes nor gives the mutex,
LEMMA MutexSame ==
  ASSUME MutexOK, mutex' = mutex, \A u \in Threads : HeldIn(stack'[u]) = HeldIn(stack[u])
  PROVE  MutexOK'
<1>1. \A u \in Threads : HeldIn(stack[u])' = HeldIn(stack[u])
  BY DEF HeldIn
<1>. QED  BY <1>1 DEF MutexOK

LEMMA MutexGoes ==
  ASSUME StacksOK, MutexOK, NEW t \in Threads, NEW pc, TopGoes(t, pc), mutex' = mutex,
         HoldsAt(pc) <=> HoldsAt(Top(t).pc)
  PROVE  MutexOK'
<1>1. HeldIn(stack'[t]) = HeldIn(stack[t]) /\ \A u \in Threads \ {t} : stack'[u] = stack[u]
  BY HeldGoes
<1>. QED  BY <1>1, MutexSame

\* one that takes it, and one that gives it back.
LEMMA MutexTaken ==
  ASSUME StacksOK, TypesOK, MutexOK, NEW t \in Threads, NEW pc, TopGoes(t, pc), acquire(t),
         ~HoldsAt(Top(t).pc), HoldsAt(pc)
  PROVE  MutexOK'
<1>1. /\ HeldIn(stack'[t]) = HeldIn(stack[t]) \cup {Len(stack[t])}
      /\ Len(stack[t]) \notin HeldIn(stack[t])
      /\ \A u \in Threads \ {t} : stack'[u] = stack[u]
  BY HeldGoes
<1>2. IsFiniteSet(HeldIn(stack[t])) /\ Cardinality(HeldIn(stack[t])) \in Nat
  BY HeldFinite
<1>3. Cardinality(HeldIn(stack'[t])) = Cardinality(HeldIn(stack[t])) + 1
  BY <1>1, <1>2, FS_AddElement
<1>4. /\ mutex.owner \in {NoThread, t} /\ mutex'.owner = t /\ mutex'.depth = mutex.depth + 1
      /\ t # NoThread
  BY SignalsAssumption DEF acquire
<1>5. mutex.depth = Cardinality(HeldIn(stack[t]))
  BY <1>2, <1>4, FS_EmptySet DEF MutexOK
<1>6. \A u \in Threads \ {t} : HeldIn(stack'[u]) = {}
  BY <1>1, <1>4, SignalsAssumption DEF MutexOK
<1>7. \A u \in Threads : HeldIn(stack[u])' = HeldIn(stack'[u])
  BY DEF HeldIn
<1>8. mutex'.depth = Cardinality(HeldIn(stack'[t])) /\ mutex'.depth > 0
  BY <1>2, <1>3, <1>4, <1>5
<1>. QED  BY <1>4, <1>6, <1>7, <1>8 DEF MutexOK

LEMMA MutexGiven ==
  ASSUME StacksOK, TypesOK, MutexOK, NEW t \in Threads, NEW pc, TopGoes(t, pc), release,
         HoldsAt(Top(t).pc), ~HoldsAt(pc)
  PROVE  MutexOK'
<1>1. /\ HeldIn(stack'[t]) = HeldIn(stack[t]) \ {Len(stack[t])}
      /\ Len(stack[t]) \in HeldIn(stack[t])
      /\ \A u \in Threads \ {t} : stack'[u] = stack[u]
  BY HeldGoes
<1>2. IsFiniteSet(HeldIn(stack[t])) /\ Cardinality(HeldIn(stack[t])) \in Nat
  BY HeldFinite
<1>3. Cardinality(HeldIn(stack'[t])) = Cardinality(HeldIn(stack[t])) - 1
  BY <1>1, <1>2, FS_RemoveElement
<1>4. mutex.owner = t /\ mutex.depth = Cardinality(HeldIn(stack[t])) /\ mutex.depth > 0
  BY <1>1 DEF MutexOK
<1>5. \A u \in Threads \ {t} : HeldIn(stack'[u]) = {}
  BY <1>1, <1>4 DEF MutexOK
<1>6. \A u \in Threads : HeldIn(stack[u])' = HeldIn(stack'[u])
  BY DEF HeldIn
<1>7. CASE mutex.depth = 1
  <2>1. mutex'.owner = NoThread /\ mutex'.depth = 0 /\ NoThread \notin Threads
    BY <1>7, SignalsAssumption DEF release
  <2>2. Cardinality(HeldIn(stack'[t])) = 0 /\ IsFiniteSet(HeldIn(stack'[t]))
    BY <1>1, <1>2, <1>3, <1>4, <1>7, FS_RemoveElement
  <2>3. HeldIn(stack'[t]) = {}
    BY <2>2, FS_EmptySet
  <2>. QED  BY <1>5, <1>6, <2>1, <2>3 DEF MutexOK
<1>8. CASE mutex.depth # 1
  <2>1. mutex'.owner = t /\ mutex'.depth = mutex.depth - 1 /\ NoThread \notin Threads
    BY <1>4, <1>8, SignalsAssumption DEF release, TypesOK
  <2>2. mutex'.depth = Cardinality(HeldIn(stack'[t])) /\ mutex'.depth > 0
    BY <1>2, <1>3, <1>4, <1>8, <2>1
  <2>. QED  BY <1>5, <1>6, <2>1, <2>2 DEF MutexOK
<1>. QED  BY <1>7, <1>8
-----------------------------------------------------------------------------
(* The list of files: a file that is on it once is taken off.              *)

OnceIn(q) == \A i, j \in 1 .. Len(q) : q[i] = q[j] => i = j

LEMMA Without ==
  ASSUME NEW S, NEW q \in Seq(S), NEW n \in 1 .. Len(q)
  PROVE  /\ RemoveAt(q, n) \in Seq(S) /\ Len(RemoveAt(q, n)) = Len(q) - 1
         /\ \A i \in 1 .. Len(q) - 1 : RemoveAt(q, n)[i] = IF i < n THEN q[i] ELSE q[i + 1]
<1>1. PICK l \in Nat : l = Len(q)
  BY LenProperties
<1>2. \A i \in 1 .. l : q[i] \in S
  BY <1>1, ElementOfSeq
<1>3. n \in 1 .. l
  BY <1>1
<1>4. PICK a : a = SubSeq(q, 1, n - 1)
  OBVIOUS
<1>5. PICK b : b = SubSeq(q, n + 1, l)
  OBVIOUS
<1>6. /\ a \in Seq(S) /\ Len(a) = n - 1 /\ \A i \in 1 .. n - 1 : a[i] = q[i]
  <2>1. 1 \in Int /\ n - 1 \in Int /\ \A i \in 1 .. n - 1 : i \in 1 .. l
    BY <1>3
  <2>2. \A i \in 1 .. n - 1 : q[i] \in S
    BY <1>2, <2>1
  <2>3. /\ a \in Seq(S) /\ Len(a) = IF 1 <= n - 1 THEN (n - 1) - 1 + 1 ELSE 0
        /\ \A i \in 1 .. (n - 1) - 1 + 1 : a[i] = q[1 + i - 1]
    BY <1>4, <2>1, <2>2, SubSeqProperties
  <2>4. (IF 1 <= n - 1 THEN (n - 1) - 1 + 1 ELSE 0) = n - 1 /\ (n - 1) - 1 + 1 = n - 1
        /\ \A i \in 1 .. n - 1 : 1 + i - 1 = i
    BY <1>3
  <2>. QED  BY <2>3, <2>4
<1>7. /\ b \in Seq(S) /\ Len(b) = l - n /\ \A i \in 1 .. l - n : b[i] = q[i + n]
  <2>1. n + 1 \in Int /\ l \in Int /\ \A i \in n + 1 .. l : i \in 1 .. l
    BY <1>3
  <2>2. \A i \in n + 1 .. l : q[i] \in S
    BY <1>2, <2>1
  <2>3. /\ b \in Seq(S) /\ Len(b) = IF n + 1 <= l THEN l - (n + 1) + 1 ELSE 0
        /\ \A i \in 1 .. l - (n + 1) + 1 : b[i] = q[n + 1 + i - 1]
    BY <1>5, <2>1, <2>2, SubSeqProperties
  <2>4. (IF n + 1 <= l THEN l - (n + 1) + 1 ELSE 0) = l - n /\ l - (n + 1) + 1 = l - n
        /\ \A i \in 1 .. l - n : n + 1 + i - 1 = i + n
    BY <1>3
  <2>. QED  BY <2>3, <2>4
<1>8. RemoveAt(q, n) = a \o b
  BY <1>1, <1>4, <1>5 DEF RemoveAt
<1>9. /\ a \o b \in Seq(S) /\ Len(a \o b) = Len(a) + Len(b)
      /\ \A i \in 1 .. Len(a) + Len(b) :
            (a \o b)[i] = IF i <= Len(a) THEN a[i] ELSE b[i - Len(a)]
  BY <1>6, <1>7, ConcatProperties
<1>10. Len(a) + Len(b) = l - 1
  BY <1>3, <1>6, <1>7
<1>11. ASSUME NEW i \in 1 .. l - 1
       PROVE  (a \o b)[i] = IF i < n THEN q[i] ELSE q[i + 1]
  <2>1. (a \o b)[i] = IF i <= n - 1 THEN a[i] ELSE b[i - (n - 1)]
    BY <1>6, <1>9, <1>10
  <2>2. CASE i < n
    <3>1. i <= n - 1 /\ i \in 1 .. n - 1
      BY <1>3, <2>2
    <3>. QED  BY <1>6, <2>1, <2>2, <3>1
  <2>3. CASE ~(i < n)
    <3>1. ~(i <= n - 1) /\ i - (n - 1) \in 1 .. l - n /\ (i - (n - 1)) + n = i + 1
      BY <1>3, <2>3
    <3>. QED  BY <1>7, <2>1, <2>3, <3>1
  <2>. QED  BY <2>2, <2>3
<1>. QED  BY <1>1, <1>8, <1>9, <1>10, <1>11

\* What SelectLastInSeq returns for f: its last place.
PlaceIn(q, f) ==
    LET I == {i \in 1 .. Len(q) : q[i] = f} IN IF I # {} THEN Max(I) ELSE 0
LEMMA LastPlace ==
  ASSUME NEW S, NEW q \in Seq(S), NEW f
  PROVE  IF \E i \in 1 .. Len(q) : q[i] = f
         THEN PlaceIn(q, f) \in 1 .. Len(q) /\ q[PlaceIn(q, f)] = f
         ELSE PlaceIn(q, f) = 0
<1>. DEFINE I == {i \in 1 .. Len(q) : q[i] = f}
<1>1. PlaceIn(q, f) = IF I # {} THEN Max(I) ELSE 0
  BY DEF PlaceIn
<1>2. CASE I = {}
  BY <1>1, <1>2
<1>3. CASE I # {}
  <2>1. Len(q) \in Nat /\ I \subseteq 0 .. Len(q)
    BY LenProperties
  <2>2. \E i \in I : \A j \in I : j <= i
    BY <1>3, <2>1, Greatest
  <2>3. \E i \in I : \A j \in I : i >= j
    BY <2>1, <2>2
  <2>4. Max(I) \in I
    BY <2>3 DEF Max
  <2>. QED  BY <1>1, <1>3, <2>4
<1>. QED  BY <1>2, <1>3

\* The list after the step of DontRemoveFileOnSignal.
LEMMA TakenOff ==
  ASSUME NEW S, NEW q \in Seq(S), NEW f, NEW r,
         r = IF PlaceIn(q, f) = 0 THEN q ELSE RemoveAt(q, PlaceIn(q, f))
  PROVE  /\ r \in Seq(S)
         /\ OnceIn(q) => OnceIn(r) /\ \A g : g \in ToSet(r) <=> g \in ToSet(q) /\ g # f
<1>1. PICK n : n = PlaceIn(q, f) /\ r = IF n = 0 THEN q ELSE RemoveAt(q, n)
  OBVIOUS
<1>2. IF \E i \in 1 .. Len(q) : q[i] = f THEN n \in 1 .. Len(q) /\ q[n] = f ELSE n = 0
  BY <1>1, LastPlace
<1>3. DOMAIN q = 1 .. Len(q) /\ Len(q) \in Nat
  BY LenProperties
<1>4. CASE ~\E i \in 1 .. Len(q) : q[i] = f
  <2>1. r = q
    BY <1>1, <1>2, <1>4
  <2>2. f \notin ToSet(q)
    BY <1>3, <1>4 DEF ToSet
  <2>. QED  BY <2>1, <2>2
<1>5. CASE \E i \in 1 .. Len(q) : q[i] = f
  <2>1. PICK l \in Nat : l = Len(q)
    BY <1>3
  <2>2. n \in 1 .. l /\ q[n] = f /\ r = RemoveAt(q, n)
    <3>1. n \in 1 .. l /\ q[n] = f
      BY <1>2, <1>5, <2>1
    <3>2. n # 0
      BY <2>1, <3>1
    <3>. QED  BY <1>1, <3>1, <3>2
  <2>3. /\ r \in Seq(S) /\ Len(r) = l - 1
        /\ \A i \in 1 .. l - 1 : r[i] = IF i < n THEN q[i] ELSE q[i + 1]
    BY <2>1, <2>2, Without
  <2>4. DOMAIN r = 1 .. l - 1
    BY <2>3, LenProperties
  <2>5. ASSUME OnceIn(q)
        PROVE  OnceIn(r) /\ \A g : g \in ToSet(r) <=> g \in ToSet(q) /\ g # f
    <3>1. \A i, j \in 1 .. l : q[i] = q[j] => i = j
      BY <2>1, <2>5 DEF OnceIn
    <3>2. /\ \A i \in 1 .. l - 1 : i \in 1 .. l /\ i + 1 \in 1 .. l /\ (i < n => i # n)
          /\ \A i \in 1 .. l - 1 : (~(i < n) => i + 1 # n)
      BY <2>1, <2>2
    <3>3. ASSUME NEW i \in 1 .. l - 1, NEW j \in 1 .. l - 1, r[i] = r[j] PROVE i = j
      <4>1. CASE i < n /\ j < n
        BY <2>3, <3>1, <3>2, <3>3, <4>1
      <4>2. CASE i < n /\ ~(j < n)
        <5>1. q[i] = q[j + 1]
          BY <2>3, <3>3, <4>2
        <5>2. i = j + 1
          BY <3>1, <3>2, <5>1
        <5>. QED  BY <2>2, <4>2, <5>2
      <4>3. CASE ~(i < n) /\ j < n
        <5>1. q[i + 1] = q[j]
          BY <2>3, <3>3, <4>3
        <5>2. i + 1 = j
          BY <3>1, <3>2, <5>1
        <5>. QED  BY <2>2, <4>3, <5>2
      <4>4. CASE ~(i < n) /\ ~(j < n)
        <5>1. q[i + 1] = q[j + 1]
          BY <2>3, <3>3, <4>4
        <5>2. i + 1 = j + 1
          BY <3>1, <3>2, <5>1
        <5>. QED  BY <5>2
      <4>. QED  BY <4>1, <4>2, <4>3, <4>4
    <3>4. OnceIn(r)
      BY <2>3, <3>3 DEF OnceIn
    <3>5. ASSUME NEW g, g \in ToSet(r) PROVE g \in ToSet(q) /\ g # f
      <4>1. PICK i \in 1 .. l - 1 : r[i] = g
        BY <2>4, <3>5 DEF ToSet
      <4>2. PICK k \in 1 .. l : q[k] = g /\ k # n
        BY <2>3, <3>2, <4>1
      <4>3. g # f
        BY <2>2, <3>1, <4>2
      <4>. QED  BY <1>3, <2>1, <4>2, <4>3 DEF ToSet
    <3>6. ASSUME NEW g, g \in ToSet(q), g # f PROVE g \in ToSet(r)
      <4>1. PICK k \in 1 .. l : q[k] = g
        BY <1>3, <2>1, <3>6 DEF ToSet
      <4>2. k # n
        BY <2>2, <3>6, <4>1
      <4>3. CASE k < n
        <5>1. k \in 1 .. l - 1
          BY <2>2, <4>3
        <5>. QED  BY <2>3, <2>4, <4>1, <4>3, <5>1 DEF ToSet
      <4>4. CASE ~(k < n)
        <5>1. k - 1 \in 1 .. l - 1 /\ ~(k - 1 < n) /\ (k - 1) + 1 = k
          BY <2>2, <4>2, <4>4
        <5>. QED  BY <2>3, <2>4, <4>1, <5>1 DEF ToSet
      <4>. QED  BY <4>3, <4>4
    <3>. QED  BY <3>4, <3>5, <3>6
  <2>. QED  BY <2>3, <2>5
<1>. QED  BY <1>4, <1>5
-----------------------------------------------------------------------------
(* Step by step: the types, the frame of the tool's code, the mutex.       *)

\* A frame of the tool's code: when it has a file, where it goes on, when it is open.
FrameOK(frame) ==
    /\ frame.pc \in {"set", "idle"} => frame.file = ""
    /\ frame.pc \in {"push", "unlock", "open", "work", "erase", "forget", "unlock at end"} =>
          frame.file # ""
    /\ frame.pc \in {"register", "sigaction", "count"} =>
          (frame.next = "open" <=> frame.file # "")
    /\ frame.pc \in {"sigaction", "count"} => frame.i >= 1
    /\ frame.opened => frame.pc \in {"work", "erase", "forget"}
OwnOK == \A t \in Threads :
    /\ FrameOK(Own(t))
    /\ t \notin tool.threads => Len(stack[t]) = 1 /\ Own(t).pc = "idle"
BasicOK == TypesOK /\ OwnOK /\ MutexOK

LEMMA AtTool ==
  ASSUME BasicOK, NEW t \in Threads, NEW pc \in ToolPcs, At(t, pc)
  PROVE  /\ StacksOK /\ ~killed /\ Top(t) = Own(t) /\ Own(t).pc = pc /\ Top(t).pc \in ToolPcs
         /\ Own(t) \in ToolFrames /\ FrameOK(Own(t)) /\ (pc # "idle" => t \in tool.threads)
<1>1. StacksOK /\ ~killed /\ Top(t).pc = pc
  BY DEF BasicOK, TypesOK, At
<1>2. Top(t) = Own(t) /\ Own(t) \in ToolFrames
  BY <1>1, Places, TopFacts
<1>. QED  BY <1>1, <1>2 DEF BasicOK, OwnOK

LEMMA AtHandler ==
  ASSUME BasicOK, NEW t \in Threads, NEW pc \in HandlerPcs, At(t, pc)
  PROVE  /\ StacksOK /\ ~killed /\ Top(t).pc = pc /\ Top(t).pc \in HandlerPcs
         /\ Top(t) \in HandlerFrames /\ Top(t).sig \in ToSet(AllSigs)
         /\ Len(stack[t]) > 1 /\ Len(stack[t]) # 1 /\ t \in tool.threads
<1>1. StacksOK /\ ~killed /\ Top(t).pc = pc
  BY DEF BasicOK, TypesOK, At
<1>2. Top(t) \in HandlerFrames /\ Len(stack[t]) > 1 /\ Len(stack[t]) # 1
  BY <1>1, Places
<1>. QED  BY <1>1, <1>2 DEF BasicOK, OwnOK, HandlerFrames

\* The tool's code goes on with another frame.
LEMMA ToolMove ==
  ASSUME BasicOK, NEW t \in Threads, NEW pc \in ToolPcs, At(t, pc), NEW frame \in ToolFrames,
         FrameOK(frame), Become(t, frame), tool' = tool, t \in tool.threads
  PROVE  StacksOK' /\ OwnOK' /\ OwnGoes(t, frame.pc, frame.file) /\ Own(t)' = frame
<1>1. StacksOK' /\ OwnGoes(t, frame.pc, frame.file) /\ Own(t)' = frame
  BY AtTool, OwnBecomes
<1>2. \A u \in Threads \ {t} : stack'[u] = stack[u] /\ Own(u)' = Own(u)
  BY <1>1 DEF OwnGoes, TopGoes
<1>3. OwnOK'
  BY <1>1, <1>2 DEF BasicOK, OwnOK
<1>. QED  BY <1>1, <1>3

\* A step that leaves the tool's code where it is.
LEMMA OwnSame ==
  ASSUME OwnOK, tool' = tool, NEW t \in Threads, t \in tool.threads, OwnStays,
         \A u \in Threads \ {t} : stack'[u] = stack[u]
  PROVE  OwnOK'
BY DEF OwnOK, OwnStays

LEMMA SetFacts ==
  ASSUME BasicOK, NEW t \in Threads, SetInterruptFunction(t)
  PROVE  /\ BasicOK' /\ Own(t).pc = "set" /\ Own(t)'.next = "idle"
         /\ Own(t)'.opened = Own(t).opened /\ OwnGoes(t, "register", Own(t).file)
<1>. PICK frame : frame = [Own(t) EXCEPT !.pc = "register", !.next = "idle"]
  OBVIOUS
<1>1. At(t, "set") /\ "set" \in ToolPcs /\ UNCHANGED <<sigs, names, bounds, killed, mutex>>
  BY DEF SetInterruptFunction, ToolPcs
<1>2. /\ StacksOK /\ Top(t) = Own(t) /\ Own(t).pc = "set" /\ Own(t) \in ToolFrames
      /\ FrameOK(Own(t)) /\ t \in tool.threads
  BY <1>1, AtTool
<1>3. /\ frame \in ToolFrames /\ frame.pc = "register" /\ frame.file = Own(t).file
      /\ frame.opened = Own(t).opened /\ frame.next = "idle"
  BY <1>2 DEF ToolFrames
<1>4. FrameOK(frame)
  BY <1>2, <1>3 DEF FrameOK
<1>5. Become(t, frame) /\ tool' = tool
  BY <1>1, <1>2 DEF SetInterruptFunction, bounds
<1>6. StacksOK' /\ OwnOK' /\ OwnGoes(t, "register", Own(t).file) /\ Own(t)' = frame
  BY <1>1, <1>2, <1>3, <1>4, <1>5, ToolMove
<1>7. TypesOK'
  BY <1>1, <1>6 DEF SetInterruptFunction, BasicOK, TypesOK, sigs, names, bounds, Slots
<1>8. MutexOK'
  BY <1>1, <1>2, <1>6, MutexGoes DEF OwnGoes, HoldsAt, BasicOK
<1>. QED  BY <1>2, <1>3, <1>6, <1>7, <1>8 DEF BasicOK

LEMMA ConstructFacts ==
  ASSUME BasicOK, NEW t \in Threads, NEW f \in Files, Construct(t, f)
  PROVE  /\ BasicOK' /\ Own(t).pc = "idle" /\ Own(t)'.opened = FALSE /\ OwnGoes(t, "push", f)
         /\ \A u \in Threads : Own(u).file # f
         /\ kept' = kept \ {f} /\ UNCHANGED <<tool, disk, FilesToRemove, late, signals>>
<1>. PICK frame : frame = [Tool("push") EXCEPT !.file = f]
  OBVIOUS
<1>1. /\ At(t, "idle") /\ "idle" \in ToolPcs /\ t \in tool.threads /\ kept' = kept \ {f}
      /\ UNCHANGED <<tool, sigs, disk, FilesToRemove, late, signals, Remaining>>
  BY DEF Construct, ToolPcs
<1>2. StacksOK /\ Top(t) = Own(t) /\ Own(t).pc = "idle" /\ FrameOK(Own(t))
  BY <1>1, AtTool
<1>3. \A u \in Threads : Own(u).file # f
  BY <1>2, TopFacts DEF Construct
<1>4. f # ""
  BY <1>2, <1>3 DEF FrameOK
<1>5. Len(AllSigs) \in Nat \ {0}
  BY SignalNames
<1>6. frame \in ToolFrames /\ frame.pc = "push" /\ frame.file = f /\ frame.opened = FALSE
  <2>1. frame = [pc |-> "push", file |-> f, keep |-> FALSE, opened |-> FALSE, i |-> 0,
                 next |-> "idle"]
    BY DEF Tool
  <2>2. f \in MaybeFiles
    BY DEF MaybeFiles
  <2>3. 0 \in 0 .. Len(AllSigs)
    BY <1>5
  <2>. QED  BY ONLY <2>1, <2>2, <2>3 DEF ToolFrames
<1>7. FrameOK(frame)
  BY <1>4, <1>6 DEF FrameOK
<1>8. Become(t, frame)
  BY DEF Construct
<1>9. StacksOK' /\ OwnOK' /\ OwnGoes(t, "push", f) /\ Own(t)' = frame
  BY <1>1, <1>6, <1>7, <1>8, ToolMove
<1>10. TypesOK'
  BY <1>1, <1>9 DEF Construct, BasicOK, TypesOK, sigs, Remaining, Slots
<1>11. MutexOK'
  BY <1>1, <1>2, <1>9, MutexGoes DEF OwnGoes, HoldsAt, BasicOK, Remaining
<1>. QED  BY <1>1, <1>2, <1>3, <1>6, <1>9, <1>10, <1>11 DEF BasicOK

LEMMA PushFacts ==
  ASSUME BasicOK, NEW t \in Threads, RemoveFileOnSignal(t)
  PROVE  /\ BasicOK' /\ Own(t).pc = "push" /\ Own(t)'.opened = Own(t).opened
         /\ OwnGoes(t, "unlock", Own(t).file) /\ Own(t).file \in Files
         /\ FilesToRemove' = Append(FilesToRemove, Own(t).file)
<1>. PICK frame : frame = [Own(t) EXCEPT !.pc = "unlock"]
  OBVIOUS
<1>1. /\ At(t, "push") /\ "push" \in ToolPcs /\ acquire(t)
      /\ UNCHANGED <<sigs, disk, kept, late, bounds, killed, InterruptFunction>>
  BY DEF RemoveFileOnSignal, ToolPcs
<1>2. /\ StacksOK /\ Top(t) = Own(t) /\ Own(t).pc = "push" /\ Own(t) \in ToolFrames
      /\ FrameOK(Own(t)) /\ t \in tool.threads
  BY <1>1, AtTool
<1>3. /\ frame \in ToolFrames /\ frame.pc = "unlock" /\ frame.file = Own(t).file
      /\ frame.opened = Own(t).opened
  BY <1>2 DEF ToolFrames
<1>4. FrameOK(frame)
  BY <1>2, <1>3 DEF FrameOK
<1>5. Become(t, frame) /\ tool' = tool
  BY <1>1, <1>2 DEF RemoveFileOnSignal, Goto, bounds
<1>6. StacksOK' /\ OwnOK' /\ OwnGoes(t, "unlock", Own(t).file) /\ Own(t)' = frame
  BY <1>1, <1>2, <1>3, <1>4, <1>5, ToolMove
<1>7. Own(t).file \in Files
  BY <1>2 DEF FrameOK, ToolFrames, MaybeFiles
<1>8. FilesToRemove' = Append(FilesToRemove, Own(t).file)
  BY <1>2 DEF RemoveFileOnSignal
<1>9. mutex' \in [owner : Threads \cup {NoThread}, depth : Int]
  BY <1>1, MutexType DEF BasicOK
<1>10. FilesToRemove' \in Seq(Files)
  BY <1>7, <1>8, AppendProperties DEF BasicOK, TypesOK
<1>11. TypesOK'
  BY <1>1, <1>6, <1>9, <1>10 DEF BasicOK, TypesOK, sigs, bounds, Slots
<1>12. MutexOK'
  BY <1>1, <1>2, <1>6, MutexTaken DEF OwnGoes, HoldsAt, BasicOK
<1>. QED  BY <1>2, <1>3, <1>6, <1>7, <1>8, <1>11, <1>12 DEF BasicOK

LEMMA UnlockFacts ==
  ASSUME BasicOK, NEW t \in Threads, Unlock(t)
  PROVE  /\ BasicOK' /\ Own(t).pc = "unlock" /\ Own(t)'.opened = Own(t).opened
         /\ OwnGoes(t, "register", Own(t).file)
<1>. PICK frame : frame = [Own(t) EXCEPT !.pc = "register", !.next = "open"]
  OBVIOUS
<1>1. /\ At(t, "unlock") /\ "unlock" \in ToolPcs /\ release
      /\ UNCHANGED <<sigs, names, bounds, killed, InterruptFunction>>
  BY DEF Unlock, ToolPcs
<1>2. /\ StacksOK /\ Top(t) = Own(t) /\ Own(t).pc = "unlock" /\ Own(t) \in ToolFrames
      /\ FrameOK(Own(t)) /\ t \in tool.threads
  BY <1>1, AtTool
<1>3. /\ frame \in ToolFrames /\ frame.pc = "register" /\ frame.file = Own(t).file
      /\ frame.opened = Own(t).opened /\ frame.next = "open"
  BY <1>2 DEF ToolFrames
<1>4. FrameOK(frame)
  BY <1>2, <1>3 DEF FrameOK
<1>5. Become(t, frame) /\ tool' = tool
  BY <1>1, <1>2 DEF Unlock, bounds
<1>6. StacksOK' /\ OwnOK' /\ OwnGoes(t, "register", Own(t).file) /\ Own(t)' = frame
  BY <1>1, <1>2, <1>3, <1>4, <1>5, ToolMove
<1>7. mutex' \in [owner : Threads \cup {NoThread}, depth : Int]
  BY <1>1, MutexType DEF BasicOK
<1>8. TypesOK'
  BY <1>1, <1>6, <1>7 DEF BasicOK, TypesOK, sigs, names, bounds, Slots
<1>9. MutexOK'
  BY <1>1, <1>2, <1>6, MutexGiven DEF OwnGoes, HoldsAt, BasicOK
<1>. QED  BY <1>2, <1>3, <1>6, <1>8, <1>9 DEF BasicOK

\* Of the steps that change the table, these facts: where the tool's code goes on, and
\* with which signal.
RegisterGoes(t) ==
    \/ Num # 0 /\ OwnGoes(t, Own(t).next, Own(t).file)
    \/ Num = 0 /\ OwnGoes(t, "sigaction", Own(t).file) /\ Own(t)'.i = 1
LEMMA RegisterFacts ==
  ASSUME BasicOK, NEW t \in Threads, RegisterHandlers(t)
  PROVE  /\ BasicOK' /\ Own(t).pc = "register" /\ Own(t)'.opened = Own(t).opened
         /\ RegisterGoes(t) /\ Own(t).next \in {"idle", "open"}
         /\ Own(t).next = "open" <=> Own(t).file # ""
<1>1. /\ At(t, "register") /\ "register" \in ToolPcs
      /\ UNCHANGED <<sigs, names, bounds, Remaining>>
  BY DEF RegisterHandlers, ToolPcs
<1>2. /\ StacksOK /\ Top(t) = Own(t) /\ Own(t).pc = "register" /\ Own(t) \in ToolFrames
      /\ FrameOK(Own(t)) /\ t \in tool.threads
  BY <1>1, AtTool
<1>3. /\ Own(t).next \in {"idle", "open"} /\ (Own(t).next = "open" <=> Own(t).file # "")
      /\ ~Own(t).opened
  BY <1>2 DEF FrameOK, ToolFrames
<1>4. Len(AllSigs) \in Nat \ {0}
  BY SignalNames
<1>5. PICK frame : /\ Become(t, frame)
                   /\ IF Num # 0 THEN frame = [Own(t) EXCEPT !.pc = Own(t).next]
                                 ELSE frame = [Own(t) EXCEPT !.pc = "sigaction", !.i = 1]
  BY <1>2 DEF RegisterHandlers, Goto
<1>6. /\ frame \in ToolFrames /\ frame.file = Own(t).file /\ frame.opened = Own(t).opened
      /\ frame.next = Own(t).next
      /\ IF Num # 0 THEN frame.pc = Own(t).next ELSE frame.pc = "sigaction" /\ frame.i = 1
  <2>1. CASE Num # 0
    BY <1>2, <1>3, <1>5, <2>1 DEF ToolFrames
  <2>2. CASE Num = 0
    <3>1. 1 \in 0 .. Len(AllSigs) /\ frame = [Own(t) EXCEPT !.pc = "sigaction", !.i = 1]
      BY <1>4, <1>5, <2>2
    <3>. QED  BY <1>2, <2>2, <3>1 DEF ToolFrames
  <2>. QED  BY <2>1, <2>2
<1>7. FrameOK(frame)
  <2>1. CASE Num # 0
    <3>1. frame.pc = Own(t).next
      BY <1>6, <2>1
    <3>. QED  BY <1>2, <1>3, <1>6, <3>1 DEF FrameOK
  <2>2. CASE Num = 0
    <3>1. frame.pc = "sigaction" /\ frame.i >= 1
      BY <1>6, <2>2
    <3>. QED  BY <1>2, <1>3, <1>6, <3>1 DEF FrameOK
  <2>. QED  BY <2>1, <2>2
<1>8. tool' = tool
  BY <1>1 DEF bounds
<1>9. StacksOK' /\ OwnOK' /\ OwnGoes(t, frame.pc, Own(t).file) /\ Own(t)' = frame
  BY <1>1, <1>2, <1>5, <1>6, <1>7, <1>8, ToolMove
<1>10. TypesOK'
  BY <1>1, <1>9 DEF BasicOK, TypesOK, sigs, names, bounds, Remaining, Slots
<1>11. MutexOK'
  BY <1>1, <1>2, <1>3, <1>6, <1>9, MutexGoes DEF OwnGoes, HoldsAt, BasicOK, Remaining
<1>12. RegisterGoes(t)
  BY <1>6, <1>9 DEF RegisterGoes
<1>. QED  BY <1>2, <1>3, <1>6, <1>9, <1>10, <1>11, <1>12 DEF BasicOK

LEMMA SigactionFacts ==
  ASSUME BasicOK, NEW t \in Threads, Sigaction(t)
  PROVE  /\ BasicOK' /\ Own(t).pc = "sigaction" /\ Own(t)'.opened = Own(t).opened
         /\ OwnGoes(t, "count", Own(t).file) /\ Own(t)'.i = Own(t).i
         /\ Own(t).i \in 1 .. Len(AllSigs) /\ AllSigs[Own(t).i] \in ToSet(AllSigs)
         /\ disposition' = [disposition EXCEPT ![AllSigs[Own(t).i]] = "handler"]
<1>. PICK frame : frame = [Own(t) EXCEPT !.pc = "count"]
  OBVIOUS
<1>1. /\ At(t, "sigaction") /\ "sigaction" \in ToolPcs /\ Num \in Slots
      /\ UNCHANGED <<Num, names, bounds, Remaining>>
  BY DEF Sigaction, ToolPcs
<1>2. /\ StacksOK /\ Top(t) = Own(t) /\ Own(t).pc = "sigaction" /\ Own(t) \in ToolFrames
      /\ FrameOK(Own(t)) /\ t \in tool.threads
  BY <1>1, AtTool
<1>3. Own(t).i \in 0 .. Len(AllSigs) /\ Own(t).i >= 1
  BY <1>2 DEF FrameOK, ToolFrames
<1>4. Own(t).i \in 1 .. Len(AllSigs) /\ AllSigs[Own(t).i] \in ToSet(AllSigs)
  BY <1>3, SignalNames
<1>5. /\ frame \in ToolFrames /\ frame.pc = "count" /\ frame.file = Own(t).file
      /\ frame.opened = Own(t).opened /\ frame.i = Own(t).i /\ frame.next = Own(t).next
  BY <1>2 DEF ToolFrames
<1>6. FrameOK(frame)
  BY <1>2, <1>5 DEF FrameOK
<1>7. Become(t, frame) /\ tool' = tool
  BY <1>1, <1>2 DEF Sigaction, Goto, bounds
<1>8. StacksOK' /\ OwnOK' /\ OwnGoes(t, "count", Own(t).file) /\ Own(t)' = frame
  BY <1>1, <1>2, <1>5, <1>6, <1>7, ToolMove
<1>9. PICK s \in ToSet(AllSigs) : s = AllSigs[Own(t).i]
  BY <1>4
<1>10. /\ table' = [table EXCEPT ![Num].SA = disposition[s]]
       /\ disposition' = [disposition EXCEPT ![s] = "handler"]
  BY <1>2, <1>9 DEF Sigaction
<1>11. disposition' \in [ToSet(AllSigs) -> Actions] /\ disposition[s] \in Actions
  BY <1>10 DEF BasicOK, TypesOK, Actions
<1>12. table' \in [Slots -> [SigNo : ToSet(AllSigs), SA : Actions]]
  BY <1>10, <1>11 DEF BasicOK, TypesOK
<1>13. TypesOK'
  BY <1>1, <1>8, <1>11, <1>12 DEF BasicOK, TypesOK, names, bounds, Remaining, Slots
<1>14. MutexOK'
  BY <1>1, <1>2, <1>8, MutexGoes DEF OwnGoes, HoldsAt, BasicOK, Remaining
<1>. QED  BY <1>2, <1>4, <1>5, <1>8, <1>9, <1>10, <1>13, <1>14 DEF BasicOK

CountGoes(t) ==
    \/ Own(t).i = Len(AllSigs) /\ OwnGoes(t, Own(t).next, Own(t).file)
    \/ /\ Own(t).i # Len(AllSigs)
       /\ OwnGoes(t, "sigaction", Own(t).file) /\ Own(t)'.i = Own(t).i + 1
LEMMA CountFacts ==
  ASSUME BasicOK, NEW t \in Threads, Count(t)
  PROVE  /\ BasicOK' /\ Own(t).pc = "count" /\ Own(t)'.opened = Own(t).opened
         /\ Own(t).i \in 1 .. Len(AllSigs) /\ Num' = Num + 1 /\ disposition' = disposition
         /\ CountGoes(t) /\ Own(t).next \in {"idle", "open"}
         /\ Own(t).next = "open" <=> Own(t).file # ""
<1>1. /\ At(t, "count") /\ "count" \in ToolPcs /\ Num \in Slots /\ Num' = Num + 1
      /\ UNCHANGED <<disposition, names, bounds, Remaining>>
  BY DEF Count, ToolPcs
<1>2. /\ StacksOK /\ Top(t) = Own(t) /\ Own(t).pc = "count" /\ Own(t) \in ToolFrames
      /\ FrameOK(Own(t)) /\ t \in tool.threads
  BY <1>1, AtTool
<1>3. /\ Own(t).next \in {"idle", "open"} /\ (Own(t).next = "open" <=> Own(t).file # "")
      /\ ~Own(t).opened /\ Own(t).i \in 0 .. Len(AllSigs) /\ Own(t).i >= 1
  BY <1>2 DEF FrameOK, ToolFrames
<1>4. Own(t).i \in 1 .. Len(AllSigs) /\ AllSigs[Own(t).i] \in ToSet(AllSigs)
      /\ Len(AllSigs) \in Nat \ {0}
  <2>1. Len(AllSigs) \in Nat \ {0}
    BY SignalNames
  <2>2. Own(t).i \in 1 .. Len(AllSigs)
    <3>1. PICK n \in Nat : n = Len(AllSigs)
      BY <2>1
    <3>2. PICK x \in 0 .. n : x = Own(t).i /\ x >= 1
      BY <1>3, <3>1
    <3>3. x \in 1 .. n
      BY ONLY n \in Nat, x \in 0 .. n, <3>2
    <3>. QED  BY ONLY <3>1, <3>2, <3>3
  <2>. QED  BY <2>1, <2>2, SignalNames
<1>5. PICK frame : /\ Become(t, frame)
                   /\ IF Own(t).i = Len(AllSigs) THEN frame = [Own(t) EXCEPT !.pc = Own(t).next]
                      ELSE frame = [Own(t) EXCEPT !.pc = "sigaction", !.i = Own(t).i + 1]
  <2>1. CASE Own(t).i = Len(AllSigs)
    BY <1>2, <2>1 DEF Count, Goto
  <2>2. CASE Own(t).i # Len(AllSigs)
    BY <1>2, <2>2 DEF Count
  <2>. QED  BY <2>1, <2>2
<1>6. Own(t).i # Len(AllSigs) => Own(t).i + 1 \in 1 .. Len(AllSigs)
  BY <1>4
<1>7. /\ frame \in ToolFrames /\ frame.file = Own(t).file /\ frame.opened = Own(t).opened
      /\ frame.next = Own(t).next
      /\ IF Own(t).i = Len(AllSigs) THEN frame.pc = Own(t).next
         ELSE frame.pc = "sigaction" /\ frame.i = Own(t).i + 1
  <2>1. CASE Own(t).i = Len(AllSigs)
    BY <1>2, <1>3, <1>5, <2>1 DEF ToolFrames
  <2>2. CASE Own(t).i # Len(AllSigs)
    <3>1. Own(t).i + 1 \in 0 .. Len(AllSigs)
          /\ frame = [Own(t) EXCEPT !.pc = "sigaction", !.i = Own(t).i + 1]
      BY <1>4, <1>5, <1>6, <2>2
    <3>. QED  BY <1>2, <2>2, <3>1 DEF ToolFrames
  <2>. QED  BY <2>1, <2>2
<1>8. FrameOK(frame)
  <2>1. CASE Own(t).i = Len(AllSigs)
    BY <1>2, <1>3, <1>7, <2>1 DEF FrameOK, ToolFrames
  <2>2. CASE Own(t).i # Len(AllSigs)
    <3>1. frame.i >= 1
      BY <1>4, <1>7, <2>2
    <3>. QED  BY <1>2, <1>3, <1>7, <2>2, <3>1 DEF FrameOK
  <2>. QED  BY <2>1, <2>2
<1>9. tool' = tool
  BY <1>1 DEF bounds
<1>10. StacksOK' /\ OwnOK' /\ OwnGoes(t, frame.pc, Own(t).file) /\ Own(t)' = frame
  BY <1>1, <1>2, <1>5, <1>7, <1>8, <1>9, ToolMove
<1>11. PICK s \in ToSet(AllSigs) : s = AllSigs[Own(t).i]
  BY <1>4
<1>12. table' = [table EXCEPT ![Num].SigNo = s]
  BY <1>2, <1>11 DEF Count
<1>13. table' \in [Slots -> [SigNo : ToSet(AllSigs), SA : Actions]]
  BY <1>12 DEF BasicOK, TypesOK
<1>14. Num' \in 0 .. Len(AllSigs)
  BY <1>1, <1>4 DEF Slots
<1>15. TypesOK'
  BY <1>1, <1>10, <1>13, <1>14 DEF BasicOK, TypesOK, names, bounds, Remaining, Slots
<1>16. MutexOK'
  BY <1>1, <1>2, <1>3, <1>7, <1>10, MutexGoes DEF OwnGoes, HoldsAt, BasicOK, Remaining
<1>17. CountGoes(t)
  BY <1>7, <1>10 DEF CountGoes
<1>. QED  BY <1>1, <1>2, <1>3, <1>4, <1>7, <1>10, <1>15, <1>16, <1>17 DEF BasicOK

OpenGoes(t) ==
    \/ /\ OwnGoes(t, "work", Own(t).file) /\ Own(t)'.opened
       /\ disk' = disk \cup {Own(t).file}
       /\ late' = IF signals = tool.signals THEN late \ {Own(t).file}
                  ELSE late \cup {Own(t).file}
    \/ /\ OwnGoes(t, "forget", Own(t).file) /\ ~Own(t)'.opened
       /\ UNCHANGED <<disk, late>>
LEMMA OpenFacts ==
  ASSUME BasicOK, NEW t \in Threads, Open(t)
  PROVE  /\ BasicOK' /\ Own(t).pc = "open" /\ Own(t).file \in Files
         /\ OpenGoes(t)
<1>1. /\ At(t, "open") /\ "open" \in ToolPcs
      /\ UNCHANGED <<sigs, FilesToRemove, kept, bounds, Remaining>>
  BY DEF Open, ToolPcs
<1>2. /\ StacksOK /\ Top(t) = Own(t) /\ Own(t).pc = "open" /\ Own(t) \in ToolFrames
      /\ FrameOK(Own(t)) /\ t \in tool.threads
  BY <1>1, AtTool
<1>3. Own(t).file # "" /\ Own(t).file \in Files /\ ~Own(t).opened
  BY <1>2 DEF FrameOK, ToolFrames, MaybeFiles
<1>4. PICK frame :
        /\ Become(t, frame)
        /\ \/ /\ frame = [Own(t) EXCEPT !.pc = "work", !.opened = TRUE]
              /\ disk' = disk \cup {Own(t).file}
              /\ late' = IF signals = tool.signals THEN late \ {Own(t).file}
                         ELSE late \cup {Own(t).file}
           \/ frame = [Own(t) EXCEPT !.pc = "forget", !.keep = TRUE] /\ UNCHANGED <<disk, late>>
  BY <1>2 DEF Open
<1>5. frame \in ToolFrames /\ frame.file = Own(t).file
      /\ \/ frame.pc = "work" /\ frame.opened
         \/ frame.pc = "forget" /\ ~frame.opened
  BY <1>2, <1>3, <1>4 DEF ToolFrames
<1>6. FrameOK(frame)
  BY <1>3, <1>5 DEF FrameOK
<1>7. tool' = tool
  BY <1>1 DEF bounds
<1>8. StacksOK' /\ OwnOK' /\ OwnGoes(t, frame.pc, Own(t).file) /\ Own(t)' = frame
  BY <1>1, <1>2, <1>4, <1>5, <1>6, <1>7, ToolMove
<1>9. disk' \subseteq Files /\ late' \subseteq Files
  BY <1>3, <1>4 DEF BasicOK, TypesOK
<1>10. TypesOK'
  BY <1>1, <1>8, <1>9 DEF BasicOK, TypesOK, sigs, bounds, Remaining, Slots
<1>11. MutexOK'
  BY <1>1, <1>2, <1>5, <1>8, MutexGoes DEF OwnGoes, HoldsAt, BasicOK, Remaining
<1>12. OpenGoes(t)
  <2>1. CASE disk' = disk \cup {Own(t).file} /\ frame = [Own(t) EXCEPT !.pc = "work", !.opened = TRUE]
    <3>1. frame.pc = "work" /\ frame.opened
      BY <1>2, <2>1 DEF ToolFrames
    <3>. QED  BY <1>2, <1>3, <1>4, <1>8, <2>1, <3>1 DEF OpenGoes, ToolFrames
  <2>2. CASE /\ frame = [Own(t) EXCEPT !.pc = "forget", !.keep = TRUE]
             /\ UNCHANGED <<disk, late>>
    <3>1. frame.pc = "forget" /\ ~frame.opened
      BY <1>2, <1>3, <2>2 DEF ToolFrames
    <3>. QED  BY <1>8, <2>2, <3>1 DEF OpenGoes
  <2>. QED  BY <1>4, <2>1, <2>2
<1>. QED  BY <1>2, <1>3, <1>8, <1>10, <1>11, <1>12 DEF BasicOK

LEMMA FinishFacts ==
  ASSUME BasicOK, NEW t \in Threads, Finish(t)
  PROVE  /\ BasicOK' /\ Own(t).pc = "work" /\ Own(t)'.opened = Own(t).opened
         /\ OwnGoes(t, "erase", Own(t).file)
<1>1. /\ At(t, "work") /\ "work" \in ToolPcs /\ UNCHANGED <<sigs, names, bounds, Remaining>>
  BY DEF Finish, ToolPcs
<1>2. /\ StacksOK /\ Top(t) = Own(t) /\ Own(t).pc = "work" /\ Own(t) \in ToolFrames
      /\ FrameOK(Own(t)) /\ t \in tool.threads
  BY <1>1, AtTool
<1>3. PICK keep \in BOOLEAN : Become(t, [Own(t) EXCEPT !.pc = "erase", !.keep = keep])
  BY <1>2 DEF Finish
<1>4. PICK frame : frame = [Own(t) EXCEPT !.pc = "erase", !.keep = keep]
  OBVIOUS
<1>5. /\ frame \in ToolFrames /\ frame.pc = "erase" /\ frame.file = Own(t).file
      /\ frame.opened = Own(t).opened
  BY <1>2, <1>4 DEF ToolFrames
<1>6. FrameOK(frame)
  BY <1>2, <1>5 DEF FrameOK
<1>7. Become(t, frame) /\ tool' = tool
  BY <1>1, <1>3, <1>4 DEF bounds
<1>8. StacksOK' /\ OwnOK' /\ OwnGoes(t, "erase", Own(t).file) /\ Own(t)' = frame
  BY <1>1, <1>2, <1>5, <1>6, <1>7, ToolMove
<1>9. TypesOK'
  BY <1>1, <1>8 DEF BasicOK, TypesOK, sigs, names, bounds, Remaining, Slots
<1>10. MutexOK'
  BY <1>1, <1>2, <1>8, MutexGoes DEF OwnGoes, HoldsAt, BasicOK, Remaining
<1>. QED  BY <1>2, <1>5, <1>8, <1>9, <1>10 DEF BasicOK

LEMMA EraseFacts ==
  ASSUME BasicOK, NEW t \in Threads, Erase(t)
  PROVE  /\ BasicOK' /\ Own(t).pc = "erase" /\ Own(t)'.opened = Own(t).opened
         /\ OwnGoes(t, "forget", Own(t).file)
         /\ disk' = disk \/ disk' = disk \ {Own(t).file}
<1>. PICK frame : frame = [Own(t) EXCEPT !.pc = "forget"]
  OBVIOUS
<1>1. /\ At(t, "erase") /\ "erase" \in ToolPcs
      /\ UNCHANGED <<sigs, FilesToRemove, kept, late, bounds, Remaining>>
  BY DEF Erase, ToolPcs
<1>2. /\ StacksOK /\ Top(t) = Own(t) /\ Own(t).pc = "erase" /\ Own(t) \in ToolFrames
      /\ FrameOK(Own(t)) /\ t \in tool.threads
  BY <1>1, AtTool
<1>3. /\ frame \in ToolFrames /\ frame.pc = "forget" /\ frame.file = Own(t).file
      /\ frame.opened = Own(t).opened
  BY <1>2 DEF ToolFrames
<1>4. FrameOK(frame)
  BY <1>2, <1>3 DEF FrameOK
<1>5. Become(t, frame) /\ tool' = tool
  BY <1>1, <1>2 DEF Erase, Goto, bounds
<1>6. StacksOK' /\ OwnOK' /\ OwnGoes(t, "forget", Own(t).file) /\ Own(t)' = frame
  BY <1>1, <1>2, <1>3, <1>4, <1>5, ToolMove
<1>7. disk' = disk \/ disk' = disk \ {Own(t).file}
  BY <1>2 DEF Erase
<1>8. disk' \subseteq Files
  BY <1>7 DEF BasicOK, TypesOK
<1>9. TypesOK'
  BY <1>1, <1>6, <1>8 DEF BasicOK, TypesOK, sigs, bounds, Remaining, Slots
<1>10. MutexOK'
  BY <1>1, <1>2, <1>6, MutexGoes DEF OwnGoes, HoldsAt, BasicOK, Remaining
<1>. QED  BY <1>2, <1>3, <1>6, <1>7, <1>9, <1>10 DEF BasicOK

LEMMA ForgetFacts ==
  ASSUME BasicOK, NEW t \in Threads, DontRemoveFileOnSignal(t)
  PROVE  /\ BasicOK' /\ Own(t).pc = "forget" /\ ~Own(t)'.opened
         /\ OwnGoes(t, "unlock at end", Own(t).file)
         /\ OnceIn(FilesToRemove) =>
              /\ OnceIn(FilesToRemove')
              /\ \A g : g \in ToSet(FilesToRemove') <=>
                          g \in ToSet(FilesToRemove) /\ g # Own(t).file
         /\ disk' = disk /\ late' = late
         /\ kept' = kept \/ (Own(t).file \in disk /\ kept' = kept \cup {Own(t).file})
<1>. PICK frame : frame = [Own(t) EXCEPT !.pc = "unlock at end", !.opened = FALSE]
  OBVIOUS
<1>1. /\ At(t, "forget") /\ "forget" \in ToolPcs /\ acquire(t)
      /\ UNCHANGED <<sigs, disk, late, bounds, killed, InterruptFunction>>
  BY DEF DontRemoveFileOnSignal, ToolPcs
<1>2. /\ StacksOK /\ Top(t) = Own(t) /\ Own(t).pc = "forget" /\ Own(t) \in ToolFrames
      /\ FrameOK(Own(t)) /\ t \in tool.threads
  BY <1>1, AtTool
<1>3. /\ frame \in ToolFrames /\ frame.pc = "unlock at end" /\ frame.file = Own(t).file
      /\ ~frame.opened
  BY <1>2 DEF ToolFrames
<1>4. FrameOK(frame)
  BY <1>2, <1>3 DEF FrameOK
<1>5. Become(t, frame) /\ tool' = tool
  BY <1>1, <1>2 DEF DontRemoveFileOnSignal, bounds
<1>6. StacksOK' /\ OwnOK' /\ OwnGoes(t, "unlock at end", Own(t).file) /\ Own(t)' = frame
  BY <1>1, <1>2, <1>3, <1>4, <1>5, ToolMove
<1>7. PICK f : f = Top(t).file
  OBVIOUS
<1>8. FilesToRemove' = IF PlaceIn(FilesToRemove, f) = 0 THEN FilesToRemove
                       ELSE RemoveAt(FilesToRemove, PlaceIn(FilesToRemove, f))
  BY <1>7 DEF DontRemoveFileOnSignal, SelectLastInSeq, PlaceIn
<1>9. FilesToRemove \in Seq(Files)
  BY DEF BasicOK, TypesOK
<1>10. /\ FilesToRemove' \in Seq(Files)
       /\ OnceIn(FilesToRemove) =>
            /\ OnceIn(FilesToRemove')
            /\ \A g : g \in ToSet(FilesToRemove') <=> g \in ToSet(FilesToRemove) /\ g # f
  BY <1>8, <1>9, TakenOff
<1>11. kept' = kept \/ (Own(t).file \in disk /\ kept' = kept \cup {Own(t).file})
  BY <1>2 DEF DontRemoveFileOnSignal
<1>12. kept' \subseteq Files
  BY <1>11 DEF BasicOK, TypesOK
<1>13. mutex' \in [owner : Threads \cup {NoThread}, depth : Int]
  BY <1>1, MutexType DEF BasicOK
<1>14. TypesOK'
  BY <1>1, <1>6, <1>10, <1>12, <1>13 DEF BasicOK, TypesOK, sigs, bounds, Slots
<1>15. MutexOK'
  BY <1>1, <1>2, <1>6, MutexTaken DEF OwnGoes, HoldsAt, BasicOK
<1>. QED  BY <1>1, <1>2, <1>3, <1>6, <1>7, <1>10, <1>11, <1>14, <1>15 DEF BasicOK

LEMMA DestroyedFacts ==
  ASSUME BasicOK, NEW t \in Threads, Destroyed(t)
  PROVE  /\ BasicOK' /\ Own(t).pc = "unlock at end" /\ ~Own(t)'.opened
         /\ OwnGoes(t, "idle", "")
<1>. PICK frame : frame = Tool("idle")
  OBVIOUS
<1>1. /\ At(t, "unlock at end") /\ "unlock at end" \in ToolPcs /\ release
      /\ UNCHANGED <<sigs, names, bounds, killed, InterruptFunction>>
  BY DEF Destroyed, ToolPcs
<1>2. /\ StacksOK /\ Top(t) = Own(t) /\ Own(t).pc = "unlock at end" /\ t \in tool.threads
  BY <1>1, AtTool
<1>3. frame \in ToolFrames /\ frame.pc = "idle" /\ frame.file = "" /\ frame.opened = FALSE
  <2>1. frame = [pc |-> "idle", file |-> "", keep |-> FALSE, opened |-> FALSE, i |-> 0,
                 next |-> "idle"]
    BY DEF Tool
  <2>2. "" \in MaybeFiles
    BY DEF MaybeFiles
  <2>3. 0 \in 0 .. Len(AllSigs)
    BY SignalNames
  <2>. QED  BY ONLY <2>1, <2>2, <2>3 DEF ToolFrames
<1>4. FrameOK(frame)
  BY <1>3 DEF FrameOK
<1>5. Become(t, frame) /\ tool' = tool
  BY <1>1 DEF Destroyed, bounds
<1>6. StacksOK' /\ OwnOK' /\ OwnGoes(t, "idle", "") /\ Own(t)' = frame
  BY <1>1, <1>2, <1>3, <1>4, <1>5, ToolMove
<1>7. mutex' \in [owner : Threads \cup {NoThread}, depth : Int]
  BY <1>1, MutexType DEF BasicOK
<1>8. TypesOK'
  BY <1>1, <1>6, <1>7 DEF BasicOK, TypesOK, sigs, names, bounds, Slots
<1>9. MutexOK'
  BY <1>1, <1>2, <1>6, MutexGiven DEF OwnGoes, HoldsAt, BasicOK
<1>. QED  BY <1>2, <1>3, <1>6, <1>8, <1>9 DEF BasicOK
-----------------------------------------------------------------------------
(* The handler's steps.                                                    *)

\* The tool's code and the files are as they were; only the stack of t has changed.
Quiet(t) ==
    /\ OwnStays /\ t \in tool.threads /\ \A u \in Threads \ {t} : stack'[u] = stack[u]
    /\ UNCHANGED <<tool, FilesToRemove, kept, late>>

LEMMA RestoredType ==
  ASSUME TypesOK
  PROVE  Restored \in [ToSet(AllSigs) -> Actions]
<1>1. DOMAIN disposition = ToSet(AllSigs)
  BY DEF TypesOK
<1>. DEFINE At_(s) == {i \in 0 .. Num - 1 : table[i].SigNo = s}
            Old(s) == CHOOSE i \in 0 .. Num - 1 : /\ table[i].SigNo = s
                                                  /\ \A j \in i + 1 .. Num - 1 : table[j].SigNo # s
<1>2. ASSUME NEW s \in ToSet(AllSigs), \E i \in 0 .. Num - 1 : table[i].SigNo = s
      PROVE  table[Old(s)].SA \in Actions
  <2>1. Num \in Nat /\ Num <= Len(AllSigs) /\ Len(AllSigs) \in Nat
    BY SignalNames DEF TypesOK
  <2>2. Num - 1 \in Nat /\ At_(s) \subseteq 0 .. Num - 1 /\ At_(s) # {}
    BY <1>2, <2>1
  <2>3. PICK i \in At_(s) : \A j \in At_(s) : j <= i
    BY <2>2, Greatest
  <2>4. \A j \in i + 1 .. Num - 1 : table[j].SigNo # s
    <3>1. SUFFICES ASSUME NEW j \in i + 1 .. Num - 1, table[j].SigNo = s PROVE FALSE
      OBVIOUS
    <3>2. i \in 0 .. Num - 1
      BY <2>3
    <3>3. j \in 0 .. Num - 1 /\ ~(j <= i)
      BY <2>1, <3>2
    <3>. QED  BY <2>3, <3>1, <3>3
  <2>5. \E k \in 0 .. Num - 1 : /\ table[k].SigNo = s
                                /\ \A j \in k + 1 .. Num - 1 : table[j].SigNo # s
    BY <2>3, <2>4
  <2>6. Old(s) \in 0 .. Num - 1
    BY <2>5
  <2>7. Old(s) \in Slots
    BY <2>1, <2>6 DEF Slots
  <2>. HIDE DEF Old
  <2>. QED  BY <2>7 DEF TypesOK
<1>3. \A s \in ToSet(AllSigs) : disposition[s] \in Actions
  BY DEF TypesOK
<1>4. Restored = [s \in ToSet(AllSigs) |->
         IF \E i \in 0 .. Num - 1 : table[i].SigNo = s THEN table[Old(s)].SA ELSE disposition[s]]
  BY <1>1 DEF Restored
<1>. HIDE DEF Old
<1>. QED  BY <1>2, <1>3, <1>4

\* A handler goes on at another place.
LEMMA HandlerMove ==
  ASSUME BasicOK, NEW t \in Threads, NEW pc \in HandlerPcs, At(t, pc), NEW to \in HandlerPcs,
         Goto(t, to), tool' = tool
  PROVE  /\ StacksOK' /\ OwnOK' /\ TopGoes(t, to) /\ OwnStays
         /\ t \in tool.threads /\ \A u \in Threads \ {t} : stack'[u] = stack[u]
<1>1. /\ StacksOK /\ Top(t).pc \in HandlerPcs /\ t \in tool.threads
  BY AtHandler
<1>2. StacksOK' /\ TopGoes(t, to) /\ OwnStays
  BY <1>1, HandlerGoto
<1>3. \A u \in Threads \ {t} : stack'[u] = stack[u]
  BY <1>2 DEF TopGoes
<1>4. OwnOK'
  BY <1>1, <1>2, <1>3, OwnSame DEF BasicOK
<1>. QED  BY <1>1, <1>2, <1>3, <1>4

LEMMA RestoreFacts ==
  ASSUME BasicOK, NEW t \in Threads, Restore(t)
  PROVE  BasicOK' /\ Quiet(t) /\ disk' = disk /\ TopGoes(t, "empty") /\ Top(t).pc = "restore"
<1>1. /\ At(t, "restore") /\ "restore" \in HandlerPcs /\ "empty" \in HandlerPcs
      /\ Goto(t, "empty") /\ disposition' = Restored /\ tool' = tool
      /\ UNCHANGED <<table, Num, names, bounds, Remaining>>
  BY DEF Restore, HandlerPcs, bounds
<1>2. StacksOK /\ Top(t).pc = "restore"
  BY <1>1, AtHandler
<1>3. /\ StacksOK' /\ OwnOK' /\ TopGoes(t, "empty") /\ OwnStays /\ t \in tool.threads
      /\ \A u \in Threads \ {t} : stack'[u] = stack[u]
  BY <1>1, HandlerMove
<1>4. disposition' \in [ToSet(AllSigs) -> Actions]
  BY <1>1, RestoredType DEF BasicOK
<1>5. TypesOK'
  BY <1>1, <1>3, <1>4 DEF BasicOK, TypesOK, names, bounds, Remaining, Slots
<1>6. MutexOK'
  BY <1>1, <1>2, <1>3, MutexGoes DEF HoldsAt, BasicOK, Remaining
<1>. QED  BY <1>1, <1>2, <1>3, <1>5, <1>6 DEF BasicOK, Quiet, names

LEMMA EmptyFacts ==
  ASSUME BasicOK, NEW t \in Threads, UnregisterHandlers(t)
  PROVE  BasicOK' /\ Quiet(t) /\ disk' = disk /\ TopGoes(t, "lock") /\ Top(t).pc = "empty"
<1>1. /\ At(t, "empty") /\ "empty" \in HandlerPcs /\ "lock" \in HandlerPcs
      /\ Goto(t, "lock") /\ Num' = 0 /\ tool' = tool
      /\ UNCHANGED <<disposition, table, names, bounds, Remaining>>
  BY DEF UnregisterHandlers, HandlerPcs, bounds
<1>2. StacksOK /\ Top(t).pc = "empty"
  BY <1>1, AtHandler
<1>3. /\ StacksOK' /\ OwnOK' /\ TopGoes(t, "lock") /\ OwnStays /\ t \in tool.threads
      /\ \A u \in Threads \ {t} : stack'[u] = stack[u]
  BY <1>1, HandlerMove
<1>4. 0 \in 0 .. Len(AllSigs)
  BY SignalNames
<1>5. TypesOK'
  BY <1>1, <1>3, <1>4 DEF BasicOK, TypesOK, names, bounds, Remaining, Slots
<1>6. MutexOK'
  BY <1>1, <1>2, <1>3, MutexGoes DEF HoldsAt, BasicOK, Remaining
<1>. QED  BY <1>1, <1>2, <1>3, <1>5, <1>6 DEF BasicOK, Quiet, names

LEMMA LockFacts ==
  ASSUME BasicOK, NEW t \in Threads, Lock(t)
  PROVE  BasicOK' /\ Quiet(t) /\ disk' = disk /\ TopGoes(t, "remove") /\ Top(t).pc = "lock"
<1>1. /\ At(t, "lock") /\ "lock" \in HandlerPcs /\ "remove" \in HandlerPcs
      /\ Goto(t, "remove") /\ acquire(t) /\ tool' = tool
      /\ UNCHANGED <<sigs, names, bounds, killed, InterruptFunction>>
  BY DEF Lock, HandlerPcs, bounds
<1>2. StacksOK /\ Top(t).pc = "lock"
  BY <1>1, AtHandler
<1>3. /\ StacksOK' /\ OwnOK' /\ TopGoes(t, "remove") /\ OwnStays /\ t \in tool.threads
      /\ \A u \in Threads \ {t} : stack'[u] = stack[u]
  BY <1>1, HandlerMove
<1>4. mutex' \in [owner : Threads \cup {NoThread}, depth : Int]
  BY <1>1, MutexType DEF BasicOK
<1>5. TypesOK'
  BY <1>1, <1>3, <1>4 DEF BasicOK, TypesOK, sigs, names, bounds, Slots
<1>6. MutexOK'
  BY <1>1, <1>2, <1>3, MutexTaken DEF HoldsAt, BasicOK
<1>. QED  BY <1>1, <1>2, <1>3, <1>5, <1>6 DEF BasicOK, Quiet, names

LEMMA DecideFacts ==
  ASSUME BasicOK, NEW t \in Threads, Decide(t)
  PROVE  /\ BasicOK' /\ Quiet(t) /\ disk' = disk /\ Top(t).pc = "decide"
         /\ \/ TopGoes(t, "fault") \/ TopGoes(t, "raise")
            \/ TopGoes(t, "call") /\ InterruptFunction
<1>1. PICK to : /\ Goto(t, to) /\ to \in {"fault", "call", "raise"}
                /\ to = "call" => InterruptFunction
  BY DEF Decide
<1>2. /\ At(t, "decide") /\ "decide" \in HandlerPcs /\ to \in HandlerPcs
      /\ release /\ tool' = tool
      /\ UNCHANGED <<sigs, names, bounds, killed, InterruptFunction>>
  BY <1>1 DEF Decide, HandlerPcs, bounds
<1>3. StacksOK /\ Top(t).pc = "decide"
  BY <1>2, AtHandler
<1>4. /\ StacksOK' /\ OwnOK' /\ TopGoes(t, to) /\ OwnStays /\ t \in tool.threads
      /\ \A u \in Threads \ {t} : stack'[u] = stack[u]
  BY <1>1, <1>2, HandlerMove
<1>5. mutex' \in [owner : Threads \cup {NoThread}, depth : Int]
  BY <1>2, MutexType DEF BasicOK
<1>6. TypesOK'
  BY <1>2, <1>4, <1>5 DEF BasicOK, TypesOK, sigs, names, bounds, Slots
<1>7. MutexOK'
  BY <1>1, <1>2, <1>3, <1>4, MutexGiven DEF HoldsAt, BasicOK
<1>. QED  BY <1>1, <1>2, <1>3, <1>4, <1>6, <1>7 DEF BasicOK, Quiet, names

LEMMA CallFacts ==
  ASSUME BasicOK, NEW t \in Threads, CallInterruptFunction(t)
  PROVE  BasicOK' /\ Quiet(t) /\ disk' = disk /\ TopGoes(t, "return") /\ Top(t).pc = "call"
<1>1. /\ At(t, "call") /\ "call" \in HandlerPcs /\ "return" \in HandlerPcs
      /\ Goto(t, "return") /\ InterruptFunction' = FALSE /\ tool' = tool
      /\ UNCHANGED <<sigs, names, bounds, killed, mutex>>
  BY DEF CallInterruptFunction, HandlerPcs, bounds
<1>2. StacksOK /\ Top(t).pc = "call"
  BY <1>1, AtHandler
<1>3. /\ StacksOK' /\ OwnOK' /\ TopGoes(t, "return") /\ OwnStays /\ t \in tool.threads
      /\ \A u \in Threads \ {t} : stack'[u] = stack[u]
  BY <1>1, HandlerMove
<1>4. TypesOK'
  BY <1>1, <1>3 DEF BasicOK, TypesOK, sigs, names, bounds, Slots
<1>5. MutexOK'
  BY <1>1, <1>2, <1>3, MutexGoes DEF HoldsAt, BasicOK
<1>. QED  BY <1>1, <1>2, <1>3, <1>4, <1>5 DEF BasicOK, Quiet, names

LEMMA RemoveFacts ==
  ASSUME BasicOK, NEW t \in Threads, RemoveFilesToRemove(t)
  PROVE  /\ BasicOK' /\ OwnStays /\ t \in tool.threads /\ Top(t).pc = "remove"
         /\ \A u \in Threads \ {t} : stack'[u] = stack[u]
         /\ UNCHANGED <<tool, kept, late>>
         /\ IF FilesToRemove = <<>>
            THEN TopGoes(t, "decide") /\ UNCHANGED <<disk, FilesToRemove>>
            ELSE /\ disk' = disk \ {Last(FilesToRemove)} /\ UNCHANGED stack
                 /\ FilesToRemove' = Front(FilesToRemove)
<1>1. /\ At(t, "remove") /\ "remove" \in HandlerPcs /\ "decide" \in HandlerPcs
      /\ UNCHANGED <<sigs, kept, late, bounds, Remaining>> /\ tool' = tool
  BY DEF RemoveFilesToRemove, HandlerPcs, bounds
<1>2. StacksOK /\ Top(t).pc = "remove" /\ t \in tool.threads
  BY <1>1, AtHandler
<1>3. CASE FilesToRemove = <<>>
  <2>1. Goto(t, "decide") /\ UNCHANGED <<disk, FilesToRemove>>
    BY <1>3 DEF RemoveFilesToRemove
  <2>2. /\ StacksOK' /\ OwnOK' /\ TopGoes(t, "decide") /\ OwnStays
        /\ \A u \in Threads \ {t} : stack'[u] = stack[u]
    BY <1>1, <2>1, HandlerMove
  <2>3. TypesOK'
    BY <1>1, <2>1, <2>2 DEF BasicOK, TypesOK, sigs, bounds, Remaining, Slots
  <2>4. MutexOK'
    BY <1>1, <1>2, <2>2, MutexGoes DEF HoldsAt, BasicOK, Remaining
  <2>. QED  BY <1>1, <1>2, <1>3, <2>1, <2>2, <2>3, <2>4 DEF BasicOK
<1>4. CASE FilesToRemove # <<>>
  <2>1. /\ disk' = disk \ {Last(FilesToRemove)} /\ stack' = stack
        /\ FilesToRemove' = Front(FilesToRemove)
    BY <1>4 DEF RemoveFilesToRemove
  <2>2. FilesToRemove' \in Seq(Files)
    BY <1>4, <2>1, Fronts DEF BasicOK, TypesOK
  <2>3. OwnStays /\ StacksOK'
    BY <1>2, <2>1 DEF OwnStays, Own, StacksOK
  <2>4. OwnOK'
    BY <1>1, <1>2, <2>1, <2>3, OwnSame DEF BasicOK
  <2>5. disk' \subseteq Files
    BY <2>1 DEF BasicOK, TypesOK
  <2>6. TypesOK'
    BY <1>1, <2>2, <2>3, <2>5 DEF BasicOK, TypesOK, sigs, bounds, Remaining, Slots
  <2>7. MutexOK'
    BY <1>1, <2>1, MutexSame DEF BasicOK, Remaining
  <2>. QED  BY <1>1, <1>2, <1>4, <2>1, <2>3, <2>4, <2>6, <2>7 DEF BasicOK
<1>. QED  BY <1>3, <1>4

\* A signal that comes, from outside or from the handler itself: it kills, or runs its
\* handler on top of what t was doing, which is left at pc.
Comes2(t, pc, s) ==
    \/ disposition[s] = "default" /\ killed' = TRUE /\ UNCHANGED <<stack, disposition>>
    \/ /\ disposition[s] # "default" /\ killed' = FALSE /\ HandlerRuns(t, pc, s)
       /\ disposition' = [disposition EXCEPT ![s] = "default"]

LEMMA SignalKeeps ==
  ASSUME BasicOK, NEW t \in Threads, t \in tool.threads, NEW pc, NEW s \in ToSet(AllSigs),
         HoldsAt(pc) <=> HoldsAt(Top(t).pc), StacksOK', OwnStays, Comes2(t, pc, s),
         signals' \in Int,
         UNCHANGED <<tool, table, Num, names, outputs, mutex, InterruptFunction>>
  PROVE  BasicOK' /\ Quiet(t) /\ disk' = disk
<1>1. \A u \in Threads \ {t} : stack'[u] = stack[u]
  BY DEF Comes2, HandlerRuns
<1>2. OwnOK'
  BY <1>1, OwnSame DEF BasicOK
<1>3. MutexOK'
  <2>1. CASE UNCHANGED stack
    BY <2>1, MutexSame DEF BasicOK
  <2>2. CASE HandlerRuns(t, pc, s)
    BY <2>2, MutexSame, HeldInterrupted DEF BasicOK, TypesOK
  <2>. QED  BY <2>1, <2>2 DEF Comes2
<1>4. killed' \in BOOLEAN
  <2>1. CASE killed' = TRUE
    BY <2>1
  <2>2. CASE killed' = FALSE
    BY <2>2
  <2>. QED  BY <2>1, <2>2 DEF Comes2
<1>5. disposition' \in [ToSet(AllSigs) -> Actions]
  BY DEF Comes2, BasicOK, TypesOK, Actions
<1>6. TypesOK'
  BY <1>4, <1>5 DEF BasicOK, TypesOK, names, Slots
<1>. QED  BY <1>1, <1>2, <1>3, <1>6 DEF BasicOK, Quiet, names

LEMMA RaiseFacts ==
  ASSUME BasicOK, NEW t \in Threads, Raise(t)
  PROVE  /\ BasicOK' /\ Quiet(t) /\ disk' = disk /\ Top(t).pc = "raise"
         /\ \E s \in ToSet(AllSigs) : Comes2(t, "return", s)
<1>1. PICK s : s = Top(t).sig
  OBVIOUS
<1>2. PICK frame : frame = [Top(t) EXCEPT !.pc = "return"]
  OBVIOUS
<1>3. /\ At(t, "raise") /\ "raise" \in HandlerPcs /\ Comes(t, s, frame)
      /\ UNCHANGED <<table, Num, names, bounds, mutex, InterruptFunction>>
  BY <1>1, <1>2 DEF Raise, HandlerPcs
<1>4. /\ StacksOK /\ Top(t).pc = "raise" /\ t \in tool.threads /\ s \in ToSet(AllSigs)
      /\ Top(t) \in HandlerFrames
  BY <1>1, <1>3, AtHandler
<1>5. frame.pc = "return"
  BY <1>2, <1>4 DEF HandlerFrames
<1>6. StacksOK' /\ OwnStays /\ Comes2(t, "return", s)
  <2>1. Top(t).pc \in HandlerPcs /\ frame = [Top(t) EXCEPT !.pc = "return"]
    BY <1>2, <1>3, <1>4
  <2>2. /\ StacksOK' /\ OwnStays /\ Comes2(t, frame.pc, s)
    BY <1>3, <1>4, <2>1, SignalComes DEF Comes2
  <2>. QED  BY <1>5, <2>2
<1>7. ~HoldsAt("return") /\ ~HoldsAt("raise")
  BY DEF HoldsAt
<1>8. /\ UNCHANGED <<tool, table, Num, names, outputs, mutex, InterruptFunction>>
      /\ signals' \in Int
  BY <1>3 DEF bounds, BasicOK, TypesOK
<1>. QED  BY <1>4, <1>6, <1>7, <1>8, SignalKeeps

LEMMA FaultFacts ==
  ASSUME BasicOK, NEW t \in Threads, Fault(t)
  PROVE  /\ BasicOK' /\ Quiet(t) /\ disk' = disk /\ Top(t).pc = "fault"
         /\ \E s \in ToSet(AllSigs) : Comes2(t, "fault", s)
<1>1. PICK s : s = Top(t).sig
  OBVIOUS
<1>2. PICK frame : frame = Top(t)
  OBVIOUS
<1>3. /\ At(t, "fault") /\ "fault" \in HandlerPcs /\ Comes(t, s, frame)
      /\ UNCHANGED <<table, Num, names, bounds, mutex, InterruptFunction>>
  BY <1>1, <1>2 DEF Fault, HandlerPcs
<1>4. StacksOK /\ Top(t).pc = "fault" /\ t \in tool.threads /\ s \in ToSet(AllSigs)
  BY <1>1, <1>3, AtHandler
<1>5. StacksOK' /\ OwnStays /\ Comes2(t, "fault", s)
  <2>1. Top(t).pc = "fault" /\ frame.pc = "fault" /\ frame = Top(t)
    BY <1>2, <1>4
  <2>2. /\ StacksOK' /\ OwnStays /\ Comes2(t, frame.pc, s)
    BY <1>3, <1>4, <2>1, SignalComes DEF Comes2
  <2>. QED  BY <2>1, <2>2
<1>6. /\ UNCHANGED <<tool, table, Num, names, outputs, mutex, InterruptFunction>>
      /\ signals' \in Int
  BY <1>3 DEF bounds, BasicOK, TypesOK
<1>. QED  BY <1>4, <1>5, <1>6, SignalKeeps

LEMMA SignalFacts ==
  ASSUME BasicOK, NEW t \in Threads, NEW s \in ToSet(AllSigs), Interrupt(t, s) \/ Crash(t, s)
  PROVE  /\ BasicOK' /\ Quiet(t) /\ disk' = disk /\ Comes2(t, Top(t).pc, s)
         /\ ~killed /\ signals > 0 /\ signals' = signals - 1
<1>1. /\ StacksOK' /\ OwnStays /\ ~killed /\ signals > 0 /\ signals' = signals - 1
      /\ t \in tool.threads \/ Own(t).pc = "work"
      /\ Comes2(t, Top(t).pc, s)
      /\ UNCHANGED <<tool, table, Num, names, outputs, mutex, InterruptFunction>>
  BY InterruptFacts DEF BasicOK, TypesOK, Comes2
<1>2. t \in tool.threads
  BY <1>1 DEF BasicOK, OwnOK
<1>3. signals' \in Int
  BY <1>1 DEF BasicOK, TypesOK
<1>. QED  BY <1>1, <1>2, <1>3, SignalKeeps

Returns(t) ==
    /\ Len(stack'[t]) = Len(stack[t]) - 1
    /\ \A i \in 1 .. Len(stack[t]) - 1 : stack'[t][i] = stack[t][i]
    /\ \A u \in Threads \ {t} : stack'[u] = stack[u]
LEMMA ReturnFacts ==
  ASSUME BasicOK, NEW t \in Threads, Return(t)
  PROVE  BasicOK' /\ Quiet(t) /\ disk' = disk /\ Top(t).pc = "return" /\ Returns(t)
<1>1. /\ At(t, "return") /\ "return" \in HandlerPcs /\ tool' = tool
      /\ stack' = [stack EXCEPT ![t] = Front(@)]
      /\ UNCHANGED <<sigs, names, bounds, Remaining>>
  BY DEF Return, HandlerPcs, bounds
<1>2. StacksOK /\ Top(t).pc = "return" /\ t \in tool.threads /\ Len(stack[t]) > 1
  BY <1>1, AtHandler
<1>3. StacksOK' /\ Returns(t) /\ OwnStays
  BY <1>1, <1>2, ReturnStack DEF Returns, OwnStays
<1>4. \A u \in Threads \ {t} : stack'[u] = stack[u]
  BY <1>3 DEF Returns
<1>5. OwnOK'
  BY <1>1, <1>2, <1>3, <1>4, OwnSame DEF BasicOK
<1>6. ~HoldsAt("return")
  BY DEF HoldsAt
<1>7. \A u \in Threads : HeldIn(stack'[u]) = HeldIn(stack[u])
  BY <1>2, <1>3, <1>6, HeldReturned DEF Returns
<1>8. MutexOK'
  BY <1>1, <1>7, MutexSame DEF BasicOK, Remaining
<1>9. TypesOK'
  BY <1>1, <1>3 DEF BasicOK, TypesOK, sigs, names, bounds, Remaining, Slots
<1>. QED  BY <1>1, <1>2, <1>3, <1>4, <1>5, <1>8, <1>9 DEF BasicOK, Quiet, names
-----------------------------------------------------------------------------
(* BasicOK is an invariant.                                                *)

LEMMA NothingChanges ==
  ASSUME BasicOK, UNCHANGED vars
  PROVE  BasicOK' /\ OwnStays
<1>1. \A t \in Threads : HeldIn(stack[t])' = HeldIn(stack[t]) /\ Own(t)' = Own(t)
  BY DEF vars, HeldIn, Own
<1>2. TypesOK'
  BY DEF vars, BasicOK, TypesOK, StacksOK, Slots
<1>. QED  BY <1>1, <1>2 DEF vars, BasicOK, OwnOK, MutexOK, OwnStays

\* The stacks when the tool starts.
LEMMA InitStacks ==
  ASSUME Init
  PROVE  /\ StacksOK /\ \A t \in Threads : Len(stack[t]) = 1 /\ HeldIn(stack[t]) = {}
         /\ \A t \in Threads : /\ Own(t).file = "" /\ Own(t).opened = FALSE
                               /\ FrameOK(Own(t)) /\ Own(t).pc \in {"set", "idle"}
                               /\ Own(t).pc = "set" => tool.Interruptible /\ t = Main
<1>1. \A t \in Threads : stack[t] = <<Tool(IF tool.Interruptible /\ t = Main THEN "set" ELSE "idle")>>
  BY DEF Init
<1>2. ASSUME NEW t \in Threads, NEW pc \in {"set", "idle"}
      PROVE  /\ Tool(pc) \in ToolFrames /\ FrameOK(Tool(pc)) /\ Tool(pc).pc = pc
             /\ Tool(pc).file = "" /\ Tool(pc).opened = FALSE
  <2>1. Tool(pc) = [pc |-> pc, file |-> "", keep |-> FALSE, opened |-> FALSE, i |-> 0,
                    next |-> "idle"]
    BY DEF Tool
  <2>2. "" \in MaybeFiles
    BY DEF MaybeFiles
  <2>3. 0 \in 0 .. Len(AllSigs)
    BY SignalNames
  <2>4. PICK frame : frame = [pc |-> pc, file |-> "", keep |-> FALSE, opened |-> FALSE,
                              i |-> 0, next |-> "idle"]
    OBVIOUS
  <2>5. /\ frame \in ToolFrames /\ frame.pc = pc /\ frame.file = "" /\ frame.opened = FALSE
    BY ONLY <2>2, <2>3, <2>4, pc \in {"set", "idle"} DEF ToolFrames
  <2>6. FrameOK(frame)
    BY ONLY <2>5, pc \in {"set", "idle"} DEF FrameOK
  <2>. QED  BY <2>1, <2>4, <2>5, <2>6
<1>3. ASSUME NEW t \in Threads
      PROVE  /\ stack[t] \in Seq(Frames) /\ stack[t] # <<>> /\ Len(stack[t]) = 1
             /\ Own(t) \in ToolFrames /\ FrameOK(Own(t)) /\ Own(t).pc \in {"set", "idle"}
             /\ Own(t).file = "" /\ Own(t).opened = FALSE
             /\ Own(t).pc = "set" => tool.Interruptible /\ t = Main
  <2>1. PICK pc \in {"set", "idle"} :
          stack[t] = <<Tool(pc)>> /\ (pc = "set" => tool.Interruptible /\ t = Main)
    BY <1>1
  <2>2. PICK frame : frame = Tool(pc)
    OBVIOUS
  <2>3. stack[t] = <<frame>> /\ frame \in Frames
    BY <1>2, <2>1, <2>2 DEF Frames
  <2>4. stack[t] \in Seq(Frames) /\ stack[t] # <<>> /\ Len(stack[t]) = 1 /\ stack[t][1] = frame
    BY ONLY <2>3
  <2>. QED  BY <1>2, <2>1, <2>2, <2>4 DEF Own
<1>4. \A i : i \notin 2 .. 1
  OBVIOUS
<1>5. stack \in [Threads -> Seq(Frames)]
  BY <1>3 DEF Init
<1>6. StacksOK
  BY <1>3, <1>4, <1>5 DEF StacksOK, Own
<1>7. ASSUME NEW t \in Threads PROVE HeldIn(stack[t]) = {}
  <2>1. \A i \in 1 .. Len(stack[t]) : i = 1
    <3>. PICK n : n = Len(stack[t]) /\ n = 1
      BY <1>3
    <3>1. \A i \in 1 .. n : i = 1
      BY ONLY n = 1
    <3>. QED  BY <3>1
  <2>2. ~HoldsAt(stack[t][1].pc)
    BY <1>3 DEF HoldsAt, Own
  <2>. QED  BY <2>1, <2>2 DEF HeldIn
<1>. QED  BY <1>3, <1>6, <1>7

LEMMA InitBasic == Init => BasicOK
<1>. SUFFICES ASSUME Init PROVE BasicOK
  OBVIOUS
<1>1. /\ AllSigs \in Seq(STRING) /\ Len(AllSigs) \in Nat \ {0}
      /\ \A i \in 1 .. Len(AllSigs) : AllSigs[i] \in ToSet(AllSigs)
  BY SignalNames
<1>2. \A i \in Slots : AllSigs[i + 1] \in ToSet(AllSigs)
  BY <1>1 DEF Slots
<1>3. table \in [Slots -> [SigNo : ToSet(AllSigs), SA : Actions]]
  BY <1>2 DEF Init, Actions
<1>4. disposition \in [ToSet(AllSigs) -> Actions]
  BY DEF Init, Actions
<1>5. tool \in Tools /\ tool.outputs \in Nat /\ tool.signals \in Nat /\ Main \in tool.threads
  BY SignalsAssumption DEF Init
<1>6. mutex \in [owner : Threads \cup {NoThread}, depth : Int]
  BY DEF Init
<1>7. TypesOK
  <2>1. FilesToRemove \in Seq(Files) /\ disk \subseteq Files /\ kept \subseteq Files
        /\ late \subseteq Files
    BY DEF Init
  <2>2. Num \in 0 .. Len(AllSigs)
    BY <1>1 DEF Init
  <2>3. outputs \in Int /\ signals \in Int
    BY <1>5 DEF Init
  <2>4. InterruptFunction \in BOOLEAN /\ killed \in BOOLEAN
    BY DEF Init
  <2>. QED  BY <1>3, <1>4, <1>5, <1>6, <2>1, <2>2, <2>3, <2>4, InitStacks DEF TypesOK
<1>8. OwnOK
  BY <1>5, InitStacks DEF OwnOK
<1>9. MutexOK
  BY InitStacks, SignalsAssumption DEF Init, MutexOK
<1>. QED  BY <1>7, <1>8, <1>9 DEF BasicOK
-----------------------------------------------------------------------------
(* The files: no two threads have the same one, one that is on the list is *)
(* there once and some thread has it, one that was kept is not on it.      *)

Busy == {"unlock", "register", "sigaction", "count", "open", "work", "erase", "forget"}
Distinct == \A t, u \in Threads : t # u /\ Own(t).file = Own(u).file => Own(t).file = ""
ListOK ==
    /\ OnceIn(FilesToRemove)
    /\ \A f \in ToSet(FilesToRemove) :
          f # "" /\ \E t \in Threads : Own(t).file = f /\ Own(t).pc \in Busy
KeptOK == \A f \in kept :
    /\ f # "" /\ f \in disk /\ f \notin ToSet(FilesToRemove)
    /\ \A t \in Threads : Own(t).file = f => Own(t).pc = "unlock at end"
FilesOK == Distinct /\ ListOK /\ KeptOK

\* A step of the tool's code that leaves its file as it is, on the list or not.
LEMMA FilesSame ==
  ASSUME FilesOK, NEW t \in Threads, NEW pc, OwnGoes(t, pc, Own(t).file),
         FilesToRemove' = FilesToRemove, kept' = kept, kept \subseteq disk',
         Own(t).pc \in Busy /\ Own(t).file # "" => pc \in Busy, Own(t).pc # "unlock at end"
  PROVE  FilesOK'
<1>1. /\ Own(t)'.pc = pc /\ Own(t)'.file = Own(t).file
      /\ \A u \in Threads \ {t} : Own(u)' = Own(u)
  BY DEF OwnGoes
<1>2. \A u \in Threads : Own(u)'.file = Own(u).file
  BY <1>1
<1>3. Distinct'
  BY <1>2 DEF FilesOK, Distinct
<1>4. ListOK'
  <2>1. ASSUME NEW f \in ToSet(FilesToRemove)
        PROVE  f # "" /\ \E u \in Threads : Own(u)'.file = f /\ Own(u)'.pc \in Busy
    <3>1. PICK u \in Threads : f # "" /\ Own(u).file = f /\ Own(u).pc \in Busy
      BY DEF FilesOK, ListOK
    <3>2. Own(u)'.pc \in Busy
      BY <1>1, <3>1
    <3>. QED  BY <1>2, <3>1, <3>2
  <2>. QED  BY <2>1 DEF FilesOK, ListOK, OnceIn
<1>5. KeptOK'
  BY <1>1, <1>2 DEF FilesOK, KeptOK
<1>. QED  BY <1>3, <1>4, <1>5 DEF FilesOK

\* One that leaves all the tool's code as it is.
LEMMA FilesQuiet ==
  ASSUME FilesOK, OwnStays, UNCHANGED <<FilesToRemove, kept, disk>>
  PROVE  FilesOK'
<1>1. ToSet(FilesToRemove') = ToSet(FilesToRemove) /\ (OnceIn(FilesToRemove') <=> OnceIn(FilesToRemove))
  OBVIOUS
<1>2. Distinct'
  BY DEF FilesOK, Distinct, OwnStays
<1>3. ListOK'
  BY <1>1 DEF FilesOK, ListOK, OwnStays
<1>4. KeptOK'
  BY <1>1 DEF FilesOK, KeptOK, OwnStays
<1>. QED  BY <1>2, <1>3, <1>4 DEF FilesOK

\* A step of the tool's code in t that takes another file, or none.
LEMMA DistinctMoves ==
  ASSUME Distinct, NEW t \in Threads, \A u \in Threads \ {t} : Own(u)' = Own(u),
         Own(t)'.file = "" \/ \A u \in Threads : Own(u).file # Own(t)'.file
  PROVE  Distinct'
<1>1. SUFFICES ASSUME NEW u \in Threads, NEW v \in Threads, u # v, Own(u)'.file = Own(v)'.file
               PROVE  Own(u)'.file = ""
  BY DEF Distinct
<1>2. CASE u = t
  <2>1. Own(v)' = Own(v)
    BY <1>1, <1>2
  <2>. QED  BY <1>1, <1>2, <2>1
<1>3. CASE v = t
  <2>1. Own(u)' = Own(u)
    BY <1>1, <1>3
  <2>. QED  BY <1>1, <1>3, <2>1
<1>4. CASE u # t /\ v # t
  <2>1. Own(u)' = Own(u) /\ Own(v)' = Own(v)
    BY <1>4
  <2>. QED  BY <1>1, <2>1 DEF Distinct
<1>. QED  BY <1>2, <1>3, <1>4

LEMMA FilesConstruct ==
  ASSUME BasicOK, FilesOK, NEW t \in Threads, NEW f \in Files, Construct(t, f)
  PROVE  FilesOK'
<1>1. /\ Own(t).pc = "idle" /\ Own(t)'.pc = "push" /\ Own(t)'.file = f
      /\ \A u \in Threads \ {t} : Own(u)' = Own(u)
      /\ \A u \in Threads : Own(u).file # f
      /\ kept' = kept \ {f} /\ disk' = disk /\ FilesToRemove' = FilesToRemove
  BY ConstructFacts DEF OwnGoes
<1>2. Own(t).file = ""
  BY <1>1 DEF BasicOK, OwnOK, FrameOK
<1>3. Distinct'
  <2>1. \A u \in Threads : Own(u).file # Own(t)'.file
    BY <1>1
  <2>. QED  BY <1>1, <2>1, DistinctMoves DEF FilesOK
<1>4. ListOK'
  <2>1. ASSUME NEW g \in ToSet(FilesToRemove)
        PROVE  g # "" /\ \E u \in Threads : Own(u)'.file = g /\ Own(u)'.pc \in Busy
    <3>1. PICK u \in Threads : g # "" /\ Own(u).file = g /\ Own(u).pc \in Busy
      BY DEF FilesOK, ListOK
    <3>2. u # t
      BY <1>2, <3>1
    <3>. QED  BY <1>1, <3>1, <3>2
  <2>. QED  BY <1>1, <2>1 DEF FilesOK, ListOK, OnceIn
<1>5. KeptOK'
  <2>1. ASSUME NEW g \in kept, g # f
        PROVE  /\ g # "" /\ g \in disk /\ g \notin ToSet(FilesToRemove)
               /\ \A u \in Threads : Own(u)'.file = g => Own(u)'.pc = "unlock at end"
    <3>1. /\ g # "" /\ g \in disk /\ g \notin ToSet(FilesToRemove)
          /\ \A u \in Threads : Own(u).file = g => Own(u).pc = "unlock at end"
      BY DEF FilesOK, KeptOK
    <3>2. ASSUME NEW u \in Threads, Own(u)'.file = g PROVE Own(u)'.pc = "unlock at end"
      <4>1. u # t
        BY <1>1, <2>1, <3>2
      <4>2. Own(u)' = Own(u)
        BY <1>1, <4>1
      <4>3. Own(u).file = g
        BY <3>2, <4>2
      <4>. QED  BY <3>1, <4>2, <4>3
    <3>. QED  BY <3>1, <3>2
  <2>. QED  BY <1>1, <2>1 DEF KeptOK
<1>. QED  BY <1>3, <1>4, <1>5 DEF FilesOK

LEMMA FilesPush ==
  ASSUME BasicOK, FilesOK, NEW t \in Threads, RemoveFileOnSignal(t)
  PROVE  FilesOK'
<1>. PICK f : f = Own(t).file
  OBVIOUS
<1>1. /\ Own(t).pc = "push" /\ Own(t)'.pc = "unlock" /\ Own(t)'.file = f
      /\ \A u \in Threads \ {t} : Own(u)' = Own(u)
      /\ f \in Files /\ FilesToRemove' = Append(FilesToRemove, f)
  BY PushFacts DEF OwnGoes
<1>2. kept' = kept /\ disk' = disk
  BY DEF RemoveFileOnSignal
<1>3. f # "" /\ "push" \notin Busy /\ "unlock" \in Busy
  BY <1>1 DEF BasicOK, OwnOK, FrameOK, Busy
<1>4. \A u \in Threads : Own(u)'.file = Own(u).file
  BY <1>1
<1>5. f \notin ToSet(FilesToRemove)
  <2>1. SUFFICES ASSUME f \in ToSet(FilesToRemove) PROVE FALSE
    OBVIOUS
  <2>2. PICK u \in Threads : Own(u).file = f /\ Own(u).pc \in Busy
    BY <2>1 DEF FilesOK, ListOK
  <2>3. u # t
    BY <1>1, <1>3, <2>2
  <2>. QED  BY <1>3, <2>2, <2>3 DEF FilesOK, Distinct
<1>6. PICK l \in Nat : l = Len(FilesToRemove)
  BY LenProperties DEF BasicOK, TypesOK
<1>7. /\ Len(FilesToRemove') = l + 1 /\ FilesToRemove'[l + 1] = f
      /\ \A i \in 1 .. l : FilesToRemove'[i] = FilesToRemove[i]
      /\ FilesToRemove' \in Seq(Files)
  BY <1>1, <1>6, AppendProperties DEF BasicOK, TypesOK
<1>8. /\ DOMAIN FilesToRemove = 1 .. l /\ DOMAIN FilesToRemove' = 1 .. l + 1
  BY <1>6, <1>7, LenProperties DEF BasicOK, TypesOK
<1>9. \A i \in 1 .. l + 1 : i \in 1 .. l \/ i = l + 1
  BY <1>6
<1>10. \A i \in 1 .. l : FilesToRemove[i] # f
  BY <1>5, <1>8 DEF ToSet
<1>11. OnceIn(FilesToRemove')
  <2>1. \A i, j \in 1 .. l : FilesToRemove[i] = FilesToRemove[j] => i = j
    BY <1>6 DEF FilesOK, ListOK, OnceIn
  <2>2. \A i, j \in 1 .. l + 1 : FilesToRemove'[i] = FilesToRemove'[j] => i = j
    BY <1>7, <1>9, <1>10, <2>1
  <2>. QED  BY <1>7, <2>2 DEF OnceIn
<1>12. \A g \in ToSet(FilesToRemove') : g = f \/ g \in ToSet(FilesToRemove)
  BY <1>7, <1>8, <1>9 DEF ToSet
<1>13. ListOK'
  <2>1. ASSUME NEW g \in ToSet(FilesToRemove')
        PROVE  g # "" /\ \E u \in Threads : Own(u)'.file = g /\ Own(u)'.pc \in Busy
    <3>1. CASE g = f
      BY <1>1, <1>3, <3>1
    <3>2. CASE g # f
      <4>1. PICK u \in Threads : g # "" /\ Own(u).file = g /\ Own(u).pc \in Busy
        BY <1>12, <3>2 DEF FilesOK, ListOK
      <4>. QED  BY <1>1, <3>2, <4>1
    <3>. QED  BY <3>1, <3>2
  <2>. QED  BY <1>11, <2>1 DEF ListOK
<1>14. Distinct'
  BY <1>4 DEF FilesOK, Distinct
<1>15. f \notin kept
  BY <1>1 DEF FilesOK, KeptOK
<1>16. KeptOK'
  <2>1. ASSUME NEW g \in kept
        PROVE  /\ g # "" /\ g \in disk' /\ g \notin ToSet(FilesToRemove')
               /\ \A u \in Threads : Own(u)'.file = g => Own(u)'.pc = "unlock at end"
    <3>1. /\ g # "" /\ g \in disk /\ g \notin ToSet(FilesToRemove)
          /\ \A u \in Threads : Own(u).file = g => Own(u).pc = "unlock at end"
      BY DEF FilesOK, KeptOK
    <3>2. g # f
      BY <1>15
    <3>3. g \in disk' /\ g \notin ToSet(FilesToRemove')
      BY <1>2, <1>12, <3>1, <3>2
    <3>4. ASSUME NEW u \in Threads, Own(u)'.file = g PROVE Own(u)'.pc = "unlock at end"
      <4>1. u # t
        BY <1>1, <3>2, <3>4
      <4>2. Own(u)' = Own(u)
        BY <1>1, <4>1
      <4>3. Own(u).file = g
        BY <3>4, <4>2
      <4>. QED  BY <3>1, <4>2, <4>3
    <3>. QED  BY <3>1, <3>3, <3>4
  <2>. QED  BY <1>2, <2>1 DEF KeptOK
<1>. QED  BY <1>13, <1>14, <1>16 DEF FilesOK

LEMMA FilesForget ==
  ASSUME BasicOK, FilesOK, NEW t \in Threads, DontRemoveFileOnSignal(t)
  PROVE  FilesOK'
<1>. PICK f : f = Own(t).file
  OBVIOUS
<1>1. /\ Own(t).pc = "forget" /\ Own(t)'.pc = "unlock at end" /\ Own(t)'.file = f
      /\ \A u \in Threads \ {t} : Own(u)' = Own(u)
      /\ disk' = disk /\ (kept' = kept \/ (f \in disk /\ kept' = kept \cup {f}))
      /\ OnceIn(FilesToRemove')
      /\ \A g : g \in ToSet(FilesToRemove') <=> g \in ToSet(FilesToRemove) /\ g # f
  BY ForgetFacts DEF OwnGoes, FilesOK, ListOK
<1>2. f # ""
  BY <1>1 DEF BasicOK, OwnOK, FrameOK
<1>3. \A u \in Threads : Own(u)'.file = Own(u).file
  BY <1>1
<1>4. Distinct'
  BY <1>3 DEF FilesOK, Distinct
<1>5. ListOK'
  <2>1. ASSUME NEW g \in ToSet(FilesToRemove')
        PROVE  g # "" /\ \E u \in Threads : Own(u)'.file = g /\ Own(u)'.pc \in Busy
    <3>1. PICK u \in Threads : g # "" /\ g # f /\ Own(u).file = g /\ Own(u).pc \in Busy
      BY <1>1 DEF FilesOK, ListOK
    <3>. QED  BY <1>1, <3>1
  <2>. QED  BY <1>1, <2>1 DEF ListOK
<1>6. \A u \in Threads \ {t} : Own(u).file # f
  BY <1>2 DEF FilesOK, Distinct
<1>7. KeptOK'
  <2>1. ASSUME NEW g \in kept'
        PROVE  /\ g # "" /\ g \in disk' /\ g \notin ToSet(FilesToRemove')
               /\ \A u \in Threads : Own(u)'.file = g => Own(u)'.pc = "unlock at end"
    <3>1. CASE g = f
      <4>1. g \in disk
        BY <1>1, <3>1 DEF FilesOK, KeptOK
      <4>. QED  BY <1>1, <1>2, <1>3, <1>6, <3>1, <4>1
    <3>2. CASE g # f
      <4>1. g \in kept
        BY <1>1, <3>2
      <4>2. /\ g # "" /\ g \in disk /\ g \notin ToSet(FilesToRemove)
            /\ \A u \in Threads : Own(u).file = g => Own(u).pc = "unlock at end"
        BY <4>1 DEF FilesOK, KeptOK
      <4>3. g \in disk' /\ g \notin ToSet(FilesToRemove')
        BY <1>1, <4>2
      <4>4. ASSUME NEW u \in Threads, Own(u)'.file = g PROVE Own(u)'.pc = "unlock at end"
        <5>1. u # t
          BY <1>1, <3>2, <4>4
        <5>2. Own(u)' = Own(u)
          BY <1>1, <5>1
        <5>3. Own(u).file = g
          BY <4>4, <5>2
        <5>. QED  BY <4>2, <5>2, <5>3
      <4>. QED  BY <4>2, <4>3, <4>4
    <3>. QED  BY <3>1, <3>2
  <2>. QED  BY <2>1 DEF KeptOK
<1>. QED  BY <1>4, <1>5, <1>7 DEF FilesOK

LEMMA FilesDestroyed ==
  ASSUME BasicOK, FilesOK, NEW t \in Threads, Destroyed(t)
  PROVE  FilesOK'
<1>1. /\ Own(t).pc = "unlock at end" /\ Own(t)'.pc = "idle" /\ Own(t)'.file = ""
      /\ \A u \in Threads \ {t} : Own(u)' = Own(u)
  BY DestroyedFacts DEF OwnGoes
<1>2. UNCHANGED <<FilesToRemove, kept, disk>>
  BY DEF Destroyed, names
<1>3. Distinct'
  BY <1>1, DistinctMoves DEF FilesOK
<1>4. ListOK'
  <2>1. ASSUME NEW g \in ToSet(FilesToRemove)
        PROVE  g # "" /\ \E u \in Threads : Own(u)'.file = g /\ Own(u)'.pc \in Busy
    <3>1. PICK u \in Threads : g # "" /\ Own(u).file = g /\ Own(u).pc \in Busy
      BY DEF FilesOK, ListOK
    <3>2. u # t
      BY <1>1, <3>1 DEF Busy
    <3>. QED  BY <1>1, <3>1, <3>2
  <2>. QED  BY <1>2, <2>1 DEF FilesOK, ListOK, OnceIn
<1>5. KeptOK'
  <2>1. ASSUME NEW g \in kept
        PROVE  /\ g # "" /\ g \in disk /\ g \notin ToSet(FilesToRemove)
               /\ \A u \in Threads : Own(u)'.file = g => Own(u)'.pc = "unlock at end"
    <3>1. /\ g # "" /\ g \in disk /\ g \notin ToSet(FilesToRemove)
          /\ \A u \in Threads : Own(u).file = g => Own(u).pc = "unlock at end"
      BY DEF FilesOK, KeptOK
    <3>2. ASSUME NEW u \in Threads, Own(u)'.file = g PROVE Own(u)'.pc = "unlock at end"
      <4>1. u # t
        BY <1>1, <3>1, <3>2
      <4>2. Own(u)' = Own(u)
        BY <1>1, <4>1
      <4>3. Own(u).file = g
        BY <3>2, <4>2
      <4>. QED  BY <3>1, <4>2, <4>3
    <3>. QED  BY <3>1, <3>2
  <2>. QED  BY <1>2, <2>1 DEF KeptOK
<1>. QED  BY <1>3, <1>4, <1>5 DEF FilesOK

\* A handler that removes a file removes one that is on the list.
LEMMA FilesRemoved ==
  ASSUME BasicOK, FilesOK, NEW t \in Threads, RemoveFilesToRemove(t)
  PROVE  FilesOK'
<1>1. CASE FilesToRemove = <<>>
  BY <1>1, RemoveFacts, FilesQuiet
<1>2. CASE FilesToRemove # <<>>
  <2>1. /\ OwnStays /\ kept' = kept /\ disk' = disk \ {Last(FilesToRemove)}
        /\ FilesToRemove' = Front(FilesToRemove)
    BY <1>2, RemoveFacts
  <2>2. FilesToRemove \in Seq(Files)
    BY DEF BasicOK, TypesOK
  <2>3. PICK l \in Nat \ {0} : l = Len(FilesToRemove)
    BY <1>2, <2>2, Fronts
  <2>4. /\ FilesToRemove' \in Seq(Files) /\ Len(FilesToRemove') = l - 1
        /\ \A i \in 1 .. l - 1 : FilesToRemove'[i] = FilesToRemove[i]
    BY <1>2, <2>1, <2>2, <2>3, Fronts
  <2>5. DOMAIN FilesToRemove = 1 .. l /\ DOMAIN FilesToRemove' = 1 .. l - 1
    BY <2>2, <2>3, <2>4, LenProperties
  <2>6. l \in 1 .. l /\ \A i \in 1 .. l - 1 : i \in 1 .. l
    OBVIOUS
  <2>7. Last(FilesToRemove) \in ToSet(FilesToRemove)
    BY <2>3, <2>5, <2>6 DEF Last, ToSet
  <2>8. \A g \in ToSet(FilesToRemove') : g \in ToSet(FilesToRemove)
    BY <2>4, <2>5, <2>6 DEF ToSet
  <2>9. \A i, j \in 1 .. l : FilesToRemove[i] = FilesToRemove[j] => i = j
    BY <2>3 DEF FilesOK, ListOK, OnceIn
  <2>10. OnceIn(FilesToRemove')
    BY <2>4, <2>6, <2>9 DEF OnceIn
  <2>11. ListOK'
    BY <2>1, <2>8, <2>10 DEF FilesOK, ListOK, OwnStays
  <2>12. Distinct'
    BY <2>1 DEF FilesOK, Distinct, OwnStays
  <2>13. KeptOK'
    BY <2>1, <2>7, <2>8 DEF FilesOK, KeptOK, OwnStays
  <2>. QED  BY <2>11, <2>12, <2>13 DEF FilesOK
<1>. QED  BY <1>1, <1>2
-----------------------------------------------------------------------------
(* Where no interrupt function is set, no handler returns: while every     *)
(* thread is in the tool's own code, and the tool runs, no signal has come.*)

Calm == \A t \in Threads : Len(stack[t]) = 1
CalmOK == ~tool.Interruptible =>
    /\ ~InterruptFunction
    /\ \A t \in Threads : /\ Own(t).pc # "set"
                          /\ stack[t][Len(stack[t])].pc \notin {"call", "return"}
    /\ Calm /\ ~killed => signals = tool.signals
    /\ Calm => \A t \in Threads : Own(t).pc \in {"work", "erase"} => Own(t).file \in disk

\* A step of the tool's code.
LEMMA CalmTool ==
  ASSUME BasicOK, CalmOK, NEW t \in Threads, NEW pc \in ToolPcs \ {"set"}, NEW file,
         OwnGoes(t, pc, file),
         tool' = tool, signals' = signals, killed' = killed,
         InterruptFunction' = InterruptFunction,
         ~tool.Interruptible /\ Calm /\ pc \in {"work", "erase"} => file \in disk',
         \A u \in Threads \ {t} :
            Own(u).pc \in {"work", "erase"} /\ Own(u).file \in disk => Own(u).file \in disk'
  PROVE  CalmOK'
<1>. SUFFICES ASSUME ~tool.Interruptible
              PROVE  /\ ~InterruptFunction'
                     /\ \A u \in Threads : /\ Own(u)'.pc # "set"
                                           /\ stack'[u][Len(stack'[u])].pc \notin {"call", "return"}
                     /\ Calm' /\ ~killed' => signals' = tool.signals
                     /\ Calm' => \A u \in Threads :
                                    Own(u)'.pc \in {"work", "erase"} => Own(u)'.file \in disk'
  BY DEF CalmOK
<1>1. /\ Len(stack[t]) = 1 /\ Len(stack'[t]) = Len(stack[t]) /\ stack'[t][Len(stack[t])].pc = pc
      /\ \A u \in Threads \ {t} : stack'[u] = stack[u] /\ Own(u)' = Own(u)
      /\ Own(t)'.pc = pc /\ Own(t)'.file = file
  BY DEF OwnGoes, TopGoes
<1>2. pc \notin {"call", "return"} /\ pc # "set"
  BY DEF ToolPcs
<1>3. Calm' => Calm
  BY <1>1 DEF Calm
<1>4. ASSUME NEW u \in Threads
      PROVE  Own(u)'.pc # "set" /\ stack'[u][Len(stack'[u])].pc \notin {"call", "return"}
  <2>1. CASE u = t
    BY <1>1, <1>2, <2>1
  <2>2. CASE u # t
    <3>1. stack'[u] = stack[u] /\ Own(u)' = Own(u)
      BY <1>1, <2>2
    <3>. QED  BY <3>1 DEF CalmOK
  <2>. QED  BY <2>1, <2>2
<1>5. ASSUME NEW u \in Threads, Calm', Own(u)'.pc \in {"work", "erase"}
      PROVE  Own(u)'.file \in disk'
  <2>1. CASE u = t
    BY <1>1, <1>3, <1>5, <2>1
  <2>2. CASE u # t
    <3>1. Own(u)' = Own(u)
      BY <1>1, <2>2
    <3>2. Own(u).pc \in {"work", "erase"} /\ Own(u).file \in disk
      BY <1>3, <1>5, <3>1 DEF CalmOK
    <3>. QED  BY <2>2, <3>1, <3>2
  <2>. QED  BY <2>1, <2>2
<1>. QED  BY <1>3, <1>4, <1>5 DEF CalmOK

\* A step of a handler that does not return, and a signal that runs one.
LEMMA CalmHandler ==
  ASSUME BasicOK, CalmOK, NEW t \in Threads, tool' = tool, OwnStays,
         ~tool.Interruptible => ~InterruptFunction',
         \A u \in Threads \ {t} : stack'[u] = stack[u],
         Len(stack'[t]) # 1, stack'[t][Len(stack'[t])].pc \notin {"call", "return"}
  PROVE  CalmOK'
<1>1. ~Calm'
  BY DEF Calm
<1>2. ASSUME NEW u \in Threads, ~tool.Interruptible
      PROVE  Own(u)'.pc # "set" /\ stack'[u][Len(stack'[u])].pc \notin {"call", "return"}
  <2>1. CASE u = t
    BY <1>2, <2>1 DEF CalmOK, OwnStays
  <2>2. CASE u # t
    <3>1. stack'[u] = stack[u] /\ Own(u)' = Own(u)
      BY <2>2 DEF OwnStays
    <3>. QED  BY <1>2, <3>1 DEF CalmOK
  <2>. QED  BY <2>1, <2>2
<1>. QED  BY <1>1, <1>2 DEF CalmOK

LEMMA CalmGoes ==
  ASSUME BasicOK, CalmOK, NEW t \in Threads, NEW pc \in HandlerPcs \ {"call", "return"},
         Top(t).pc \in HandlerPcs, TopGoes(t, pc), tool' = tool, OwnStays,
         InterruptFunction' = InterruptFunction
  PROVE  CalmOK'
<1>1. Len(stack[t]) # 1
  BY Places DEF BasicOK, TypesOK
<1>2. /\ Len(stack'[t]) # 1 /\ stack'[t][Len(stack'[t])].pc \notin {"call", "return"}
      /\ \A u \in Threads \ {t} : stack'[u] = stack[u]
  BY <1>1 DEF TopGoes
<1>3. ~tool.Interruptible => ~InterruptFunction'
  BY DEF CalmOK
<1>. QED  BY <1>2, <1>3, CalmHandler

LEMMA CalmSignal ==
  ASSUME BasicOK, CalmOK, NEW t \in Threads, NEW pc, NEW s \in ToSet(AllSigs), Comes2(t, pc, s),
         tool' = tool, OwnStays, InterruptFunction' = InterruptFunction, disk' = disk
  PROVE  CalmOK'
<1>1. CASE HandlerRuns(t, pc, s)
  <2>1. PICK n \in Nat \ {0} : n = Len(stack[t])
    BY TopFacts DEF BasicOK, TypesOK
  <2>2. n + 1 # 1
    OBVIOUS
  <2>3. /\ Len(stack'[t]) # 1 /\ stack'[t][Len(stack'[t])] = Handler(s)
        /\ \A u \in Threads \ {t} : stack'[u] = stack[u]
    BY <1>1, <2>1, <2>2 DEF HandlerRuns
  <2>4. Handler(s).pc \notin {"call", "return"}
    BY DEF Handler
  <2>5. ~tool.Interruptible => ~InterruptFunction'
    BY DEF CalmOK
  <2>. QED  BY <2>3, <2>4, <2>5, CalmHandler
<1>2. CASE killed' = TRUE /\ UNCHANGED stack
  BY <1>2 DEF CalmOK, OwnStays, Calm
<1>. QED  BY <1>1, <1>2 DEF Comes2

\* A step of the tool's code that leaves the disk as it is.
LEMMA CalmQuiet ==
  ASSUME BasicOK, CalmOK, NEW t \in Threads, NEW pc \in ToolPcs \ {"set", "work", "erase"},
         NEW file, OwnGoes(t, pc, file), disk' = disk,
         tool' = tool, signals' = signals, killed' = killed,
         InterruptFunction' = InterruptFunction
  PROVE  CalmOK'
BY CalmTool
-----------------------------------------------------------------------------
(* The invariant of the files, for every step.                             *)

FilesInv == BasicOK /\ FilesOK /\ CalmOK

LEMMA KeptThere == FilesOK => kept \subseteq disk
BY DEF FilesOK, KeptOK

LEMMA ToolInv ==
  ASSUME FilesInv, NEW t \in Threads, ToolStep(t) \/ \E f \in Files : Construct(t, f)
  PROVE  FilesInv'
<1>. USE DEF FilesInv
<1>p. /\ {"idle", "push", "unlock", "register", "sigaction", "count", "open", "forget",
          "unlock at end"} \subseteq ToolPcs \ {"set", "work", "erase"}
      /\ {"work", "erase"} \subseteq ToolPcs \ {"set"}
  BY DEF ToolPcs
<1>k. kept \subseteq disk
  BY KeptThere
<1>1. CASE SetInterruptFunction(t)
  <2>1. UNCHANGED <<FilesToRemove, kept, disk, tool>>
    BY <1>1 DEF SetInterruptFunction, names, bounds
  <2>2. BasicOK' /\ Own(t).pc = "set" /\ OwnGoes(t, "register", Own(t).file)
    BY <1>1, SetFacts
  <2>3. FilesOK'
    BY <1>k, <2>1, <2>2, FilesSame DEF Busy
  <2>4. t \in tool.threads /\ tool.Interruptible
    <3>1. ~(Own(t).pc = "set" /\ ~tool.Interruptible)
      BY DEF CalmOK
    <3>. QED  BY <2>2, <3>1 DEF BasicOK, OwnOK
  <2>. QED  BY <2>1, <2>2, <2>3, <2>4 DEF CalmOK
<1>2. CASE \E f \in Files : Construct(t, f)
  <2>1. PICK f \in Files : Construct(t, f)
    BY <1>2
  <2>2. BasicOK' /\ OwnGoes(t, "push", f) /\ UNCHANGED <<tool, disk, signals>>
    BY <2>1, ConstructFacts
  <2>3. UNCHANGED <<killed, InterruptFunction>>
    BY <2>1 DEF Construct, Remaining
  <2>4. CalmOK'
    BY <1>p, <2>2, <2>3, CalmQuiet
  <2>. QED  BY <2>1, <2>2, <2>4, FilesConstruct
<1>3. CASE RemoveFileOnSignal(t)
  <2>1. BasicOK' /\ OwnGoes(t, "unlock", Own(t).file)
    BY <1>3, PushFacts
  <2>2. UNCHANGED <<tool, disk, signals, killed, InterruptFunction>>
    BY <1>3 DEF RemoveFileOnSignal, bounds
  <2>3. CalmOK'
    BY <1>p, <2>1, <2>2, CalmQuiet
  <2>. QED  BY <1>3, <2>1, <2>3, FilesPush
<1>4. CASE Unlock(t)
  <2>1. BasicOK' /\ Own(t).pc = "unlock" /\ OwnGoes(t, "register", Own(t).file)
    BY <1>4, UnlockFacts
  <2>2. UNCHANGED <<tool, disk, FilesToRemove, kept, signals, killed, InterruptFunction>>
    BY <1>4 DEF Unlock, bounds, names
  <2>3. CalmOK'
    BY <1>p, <2>1, <2>2, CalmQuiet
  <2>4. FilesOK'
    BY <1>k, <2>1, <2>2, FilesSame DEF Busy
  <2>. QED  BY <2>1, <2>3, <2>4
<1>5. CASE RegisterHandlers(t)
  <2>1. PICK pc : /\ BasicOK' /\ Own(t).pc = "register" /\ OwnGoes(t, pc, Own(t).file)
                  /\ pc \in {"idle", "open", "sigaction"} /\ (Own(t).file # "" => pc # "idle")
    <3>1. /\ BasicOK' /\ RegisterGoes(t) /\ Own(t).next \in {"idle", "open"}
          /\ Own(t).next = "open" <=> Own(t).file # ""
      BY <1>5, RegisterFacts
    <3>2. Own(t).pc = "register"
      BY <1>5, RegisterFacts
    <3>3. CASE OwnGoes(t, Own(t).next, Own(t).file)
      <4>1. PICK pc : pc = Own(t).next
        OBVIOUS
      <4>2. pc \in {"idle", "open", "sigaction"} /\ (Own(t).file # "" => pc # "idle")
        BY <3>1, <4>1
      <4>3. OwnGoes(t, pc, Own(t).file)
        BY <3>3, <4>1
      <4>. QED  BY <3>1, <3>2, <4>2, <4>3
    <3>4. CASE OwnGoes(t, "sigaction", Own(t).file)
      <4>1. PICK pc : pc = "sigaction"
        OBVIOUS
      <4>2. pc \in {"idle", "open", "sigaction"} /\ pc # "idle"
        BY <4>1
      <4>3. OwnGoes(t, pc, Own(t).file)
        BY <3>4, <4>1
      <4>. QED  BY <3>1, <3>2, <4>2, <4>3
    <3>. QED  BY <3>1, <3>3, <3>4 DEF RegisterGoes
  <2>2. UNCHANGED <<tool, disk, FilesToRemove, kept, signals, killed, InterruptFunction>>
    BY <1>5 DEF RegisterHandlers, bounds, names, Remaining
  <2>3. CalmOK'
    BY <1>p, <2>1, <2>2, CalmQuiet
  <2>4. FilesOK'
    BY <1>k, <2>1, <2>2, FilesSame DEF Busy
  <2>. QED  BY <2>1, <2>3, <2>4
<1>6. CASE Sigaction(t)
  <2>1. BasicOK' /\ Own(t).pc = "sigaction" /\ OwnGoes(t, "count", Own(t).file)
    BY <1>6, SigactionFacts
  <2>2. UNCHANGED <<tool, disk, FilesToRemove, kept, signals, killed, InterruptFunction>>
    BY <1>6 DEF Sigaction, bounds, names, Remaining
  <2>3. CalmOK'
    BY <1>p, <2>1, <2>2, CalmQuiet
  <2>4. FilesOK'
    BY <1>k, <2>1, <2>2, FilesSame DEF Busy
  <2>. QED  BY <2>1, <2>3, <2>4
<1>7. CASE Count(t)
  <2>1. PICK pc : /\ BasicOK' /\ Own(t).pc = "count" /\ OwnGoes(t, pc, Own(t).file)
                  /\ pc \in {"idle", "open", "sigaction"} /\ (Own(t).file # "" => pc # "idle")
    <3>1. /\ BasicOK' /\ CountGoes(t) /\ Own(t).next \in {"idle", "open"}
          /\ Own(t).next = "open" <=> Own(t).file # ""
      BY <1>7, CountFacts
    <3>2. Own(t).pc = "count"
      BY <1>7, CountFacts
    <3>3. CASE OwnGoes(t, Own(t).next, Own(t).file)
      <4>1. PICK pc : pc = Own(t).next
        OBVIOUS
      <4>2. pc \in {"idle", "open", "sigaction"} /\ (Own(t).file # "" => pc # "idle")
        BY <3>1, <4>1
      <4>3. OwnGoes(t, pc, Own(t).file)
        BY <3>3, <4>1
      <4>. QED  BY <3>1, <3>2, <4>2, <4>3
    <3>4. CASE OwnGoes(t, "sigaction", Own(t).file)
      <4>1. PICK pc : pc = "sigaction"
        OBVIOUS
      <4>2. pc \in {"idle", "open", "sigaction"} /\ pc # "idle"
        BY <4>1
      <4>3. OwnGoes(t, pc, Own(t).file)
        BY <3>4, <4>1
      <4>. QED  BY <3>1, <3>2, <4>2, <4>3
    <3>. QED  BY <3>1, <3>3, <3>4 DEF CountGoes
  <2>2. UNCHANGED <<tool, disk, FilesToRemove, kept, signals, killed, InterruptFunction>>
    BY <1>7 DEF Count, bounds, names, Remaining
  <2>3. CalmOK'
    BY <1>p, <2>1, <2>2, CalmQuiet
  <2>4. FilesOK'
    BY <1>k, <2>1, <2>2, FilesSame DEF Busy
  <2>. QED  BY <2>1, <2>3, <2>4
<1>8. CASE Open(t)
  <2>1. /\ BasicOK' /\ Own(t).pc = "open" /\ OpenGoes(t)
    BY <1>8, OpenFacts
  <2>2. UNCHANGED <<tool, FilesToRemove, kept, signals, killed, InterruptFunction>>
    BY <1>8 DEF Open, bounds, Remaining
  <2>3. PICK pc : /\ OwnGoes(t, pc, Own(t).file) /\ disk \subseteq disk' /\ pc \in {"work", "forget"}
                  /\ pc = "work" => Own(t).file \in disk'
    BY <2>1 DEF OpenGoes
  <2>4. kept \subseteq disk'
    BY <1>k, <2>3
  <2>5. FilesOK'
    BY <2>1, <2>2, <2>3, <2>4, FilesSame DEF Busy
  <2>6. CalmOK'
    <3>1. pc \in ToolPcs \ {"set"}
      BY <1>p, <2>3
    <3>2. ~tool.Interruptible /\ Calm /\ pc \in {"work", "erase"} => Own(t).file \in disk'
      BY <2>3
    <3>3. \A u \in Threads \ {t} :
            Own(u).pc \in {"work", "erase"} /\ Own(u).file \in disk => Own(u).file \in disk'
      BY <2>3
    <3>. QED  BY <2>2, <2>3, <3>1, <3>2, <3>3, CalmTool
  <2>. QED  BY <2>1, <2>5, <2>6
<1>9. CASE Finish(t)
  <2>1. BasicOK' /\ Own(t).pc = "work" /\ OwnGoes(t, "erase", Own(t).file)
    BY <1>9, FinishFacts
  <2>2. UNCHANGED <<tool, disk, FilesToRemove, kept, signals, killed, InterruptFunction>>
    BY <1>9 DEF Finish, bounds, names, Remaining
  <2>3. CalmOK'
    <3>1. ~tool.Interruptible /\ Calm /\ "erase" \in {"work", "erase"} => Own(t).file \in disk'
      BY <2>1, <2>2 DEF CalmOK
    <3>2. \A u \in Threads \ {t} :
            Own(u).pc \in {"work", "erase"} /\ Own(u).file \in disk => Own(u).file \in disk'
      BY <2>2
    <3>3. "erase" \in ToolPcs \ {"set"}
      BY <1>p
    <3>. QED  BY <2>1, <2>2, <3>1, <3>2, <3>3, CalmTool
  <2>4. FilesOK'
    BY <1>k, <2>1, <2>2, FilesSame DEF Busy
  <2>. QED  BY <2>1, <2>3, <2>4
<1>10. CASE Erase(t)
  <2>1. /\ BasicOK' /\ Own(t).pc = "erase" /\ OwnGoes(t, "forget", Own(t).file)
        /\ (disk' = disk \/ disk' = disk \ {Own(t).file})
    BY <1>10, EraseFacts
  <2>2. UNCHANGED <<tool, FilesToRemove, kept, signals, killed, InterruptFunction>>
    BY <1>10 DEF Erase, bounds, Remaining
  <2>3. Own(t).file # "" /\ Own(t).file \notin kept
    BY <2>1 DEF BasicOK, OwnOK, FrameOK, FilesOK, KeptOK
  <2>4. kept \subseteq disk'
    BY <1>k, <2>1, <2>3
  <2>5. FilesOK'
    BY <2>1, <2>2, <2>4, FilesSame DEF Busy
  <2>6. CalmOK'
    <3>1. \A u \in Threads \ {t} : Own(u).file # Own(t).file
      BY <2>3 DEF FilesOK, Distinct
    <3>2. \A u \in Threads \ {t} :
            Own(u).pc \in {"work", "erase"} /\ Own(u).file \in disk => Own(u).file \in disk'
      BY <2>1, <3>1
    <3>3. "forget" \in ToolPcs \ {"set"} /\ "forget" \notin {"work", "erase"}
      BY <1>p
    <3>. QED  BY <2>1, <2>2, <3>2, <3>3, CalmTool
  <2>. QED  BY <2>1, <2>5, <2>6
<1>11. CASE DontRemoveFileOnSignal(t)
  <2>1. BasicOK' /\ OwnGoes(t, "unlock at end", Own(t).file)
    BY <1>11, ForgetFacts
  <2>2. UNCHANGED <<tool, disk, signals, killed, InterruptFunction>>
    BY <1>11 DEF DontRemoveFileOnSignal, bounds
  <2>3. CalmOK'
    BY <1>p, <2>1, <2>2, CalmQuiet
  <2>. QED  BY <1>11, <2>1, <2>3, FilesForget
<1>12. CASE Destroyed(t)
  <2>1. BasicOK' /\ OwnGoes(t, "idle", "")
    BY <1>12, DestroyedFacts
  <2>2. UNCHANGED <<tool, disk, signals, killed, InterruptFunction>>
    BY <1>12 DEF Destroyed, bounds, names
  <2>3. CalmOK'
    BY <1>p, <2>1, <2>2, CalmQuiet
  <2>. QED  BY <1>12, <2>1, <2>3, FilesDestroyed
<1>. QED  BY <1>1, <1>2, <1>3, <1>4, <1>5, <1>6, <1>7, <1>8, <1>9, <1>10, <1>11, <1>12 DEF ToolStep

LEMMA HandlerInv ==
  ASSUME FilesInv, NEW t \in Threads, HandlerStep(t)
  PROVE  FilesInv'
<1>. USE DEF FilesInv
<1>p. /\ {"empty", "lock", "remove", "decide", "fault", "raise"} \subseteq HandlerPcs \ {"call", "return"}
      /\ {"restore", "empty", "lock", "remove", "decide"} \subseteq HandlerPcs
  BY DEF HandlerPcs
<1>t. Top(t) = stack[t][Len(stack[t])]
  BY TopFacts DEF BasicOK, TypesOK
<1>1. CASE Restore(t)
  <2>1. /\ BasicOK' /\ Quiet(t) /\ disk' = disk /\ TopGoes(t, "empty") /\ Top(t).pc = "restore"
        /\ InterruptFunction' = InterruptFunction
    BY <1>1, RestoreFacts DEF Restore, Remaining
  <2>. QED  BY <1>p, <2>1, FilesQuiet, CalmGoes DEF Quiet
<1>2. CASE UnregisterHandlers(t)
  <2>1. /\ BasicOK' /\ Quiet(t) /\ disk' = disk /\ TopGoes(t, "lock") /\ Top(t).pc = "empty"
        /\ InterruptFunction' = InterruptFunction
    BY <1>2, EmptyFacts DEF UnregisterHandlers, Remaining
  <2>. QED  BY <1>p, <2>1, FilesQuiet, CalmGoes DEF Quiet
<1>3. CASE Lock(t)
  <2>1. /\ BasicOK' /\ Quiet(t) /\ disk' = disk /\ TopGoes(t, "remove") /\ Top(t).pc = "lock"
        /\ InterruptFunction' = InterruptFunction
    BY <1>3, LockFacts DEF Lock
  <2>. QED  BY <1>p, <2>1, FilesQuiet, CalmGoes DEF Quiet
<1>4. CASE RemoveFilesToRemove(t)
  <2>1. /\ BasicOK' /\ OwnStays /\ Top(t).pc = "remove" /\ tool' = tool
        /\ \A u \in Threads \ {t} : stack'[u] = stack[u]
        /\ TopGoes(t, "decide") \/ UNCHANGED stack
        /\ InterruptFunction' = InterruptFunction
    BY <1>4, RemoveFacts DEF RemoveFilesToRemove, Remaining
  <2>2. CalmOK'
    <3>1. CASE TopGoes(t, "decide")
      BY <1>p, <2>1, <3>1, CalmGoes
    <3>2. CASE UNCHANGED stack
      <4>1. Len(stack[t]) # 1
        BY <1>p, <2>1, Places DEF BasicOK, TypesOK
      <4>2. Len(stack'[t]) # 1 /\ stack'[t][Len(stack'[t])].pc \notin {"call", "return"}
        BY <1>t, <2>1, <3>2, <4>1
      <4>3. ~tool.Interruptible => ~InterruptFunction'
        BY <2>1 DEF CalmOK
      <4>. QED  BY <2>1, <4>2, <4>3, CalmHandler
    <3>. QED  BY <2>1, <3>1, <3>2
  <2>. QED  BY <1>4, <2>1, <2>2, FilesRemoved
<1>5. CASE Decide(t)
  <2>1. /\ BasicOK' /\ Quiet(t) /\ disk' = disk /\ Top(t).pc = "decide"
        /\ \/ TopGoes(t, "fault") \/ TopGoes(t, "raise")
           \/ TopGoes(t, "call") /\ InterruptFunction
        /\ InterruptFunction' = InterruptFunction
    BY <1>5, DecideFacts DEF Decide
  <2>2. CalmOK'
    <3>1. CASE TopGoes(t, "fault")
      BY <1>p, <2>1, <3>1, CalmGoes DEF Quiet
    <3>2. CASE TopGoes(t, "raise")
      BY <1>p, <2>1, <3>2, CalmGoes DEF Quiet
    <3>3. CASE InterruptFunction
      BY <2>1, <3>3 DEF CalmOK, Quiet
    <3>. QED  BY <2>1, <3>1, <3>2, <3>3
  <2>. QED  BY <2>1, <2>2, FilesQuiet DEF Quiet
<1>6. CASE CallInterruptFunction(t)
  <2>1. /\ BasicOK' /\ Quiet(t) /\ disk' = disk /\ Top(t).pc = "call"
    BY <1>6, CallFacts
  <2>2. tool.Interruptible
    BY <1>t, <2>1 DEF CalmOK
  <2>. QED  BY <2>1, <2>2, FilesQuiet DEF Quiet, CalmOK
<1>7. CASE Raise(t)
  <2>1. /\ BasicOK' /\ Quiet(t) /\ disk' = disk /\ \E s \in ToSet(AllSigs) : Comes2(t, "return", s)
        /\ InterruptFunction' = InterruptFunction
    BY <1>7, RaiseFacts DEF Raise
  <2>. QED  BY <2>1, FilesQuiet, CalmSignal DEF Quiet
<1>8. CASE Fault(t)
  <2>1. /\ BasicOK' /\ Quiet(t) /\ disk' = disk /\ \E s \in ToSet(AllSigs) : Comes2(t, "fault", s)
        /\ InterruptFunction' = InterruptFunction
    BY <1>8, FaultFacts DEF Fault
  <2>. QED  BY <2>1, FilesQuiet, CalmSignal DEF Quiet
<1>9. CASE Return(t)
  <2>1. /\ BasicOK' /\ Quiet(t) /\ disk' = disk /\ Top(t).pc = "return"
    BY <1>9, ReturnFacts
  <2>2. tool.Interruptible
    BY <1>t, <2>1 DEF CalmOK
  <2>. QED  BY <2>1, <2>2, FilesQuiet DEF Quiet, CalmOK
<1>. QED  BY <1>1, <1>2, <1>3, <1>4, <1>5, <1>6, <1>7, <1>8, <1>9 DEF HandlerStep

LEMMA SignalInv ==
  ASSUME FilesInv, NEW t \in Threads, NEW s \in ToSet(AllSigs), Interrupt(t, s) \/ Crash(t, s)
  PROVE  FilesInv'
<1>. USE DEF FilesInv
<1>1. /\ BasicOK' /\ Quiet(t) /\ disk' = disk /\ Comes2(t, Top(t).pc, s)
  BY SignalFacts
<1>2. InterruptFunction' = InterruptFunction
  BY DEF Interrupt, Crash
<1>3. CalmOK'
  BY <1>1, <1>2, CalmSignal DEF Quiet
<1>. QED  BY <1>1, <1>3, FilesQuiet DEF Quiet

LEMMA StopInv == FilesInv /\ UNCHANGED vars => FilesInv'
<1>. SUFFICES ASSUME FilesInv, UNCHANGED vars PROVE FilesInv'
  OBVIOUS
<1>1. BasicOK' /\ OwnStays
  BY NothingChanges DEF FilesInv
<1>2. FilesOK'
  BY <1>1, FilesQuiet DEF FilesInv, vars
<1>3. CalmOK'
  BY <1>1 DEF FilesInv, vars, CalmOK, Calm, OwnStays
<1>. QED  BY <1>1, <1>2, <1>3 DEF FilesInv

LEMMA InitFilesInv == Init => FilesInv
<1>. SUFFICES ASSUME Init PROVE FilesInv
  OBVIOUS
<1>1. BasicOK
  BY InitBasic
<1>2. FilesToRemove = <<>> /\ kept = {} /\ Len(<<>>) = 0 /\ ToSet(<<>>) = {}
  BY DEF Init, ToSet
<1>3. \A i : i \notin 1 .. 0
  OBVIOUS
<1>4. FilesOK
  BY <1>2, <1>3, InitStacks DEF FilesOK, Distinct, ListOK, KeptOK, OnceIn
<1>5. CalmOK
  <2>1. \A t \in Threads : /\ stack[t][Len(stack[t])].pc \in {"set", "idle"}
                           /\ Own(t).pc \in {"set", "idle"}
    BY InitStacks DEF Own
  <2>2. InterruptFunction = FALSE /\ signals = tool.signals
    BY DEF Init
  <2>. QED  BY <2>1, <2>2, InitStacks DEF CalmOK
<1>. QED  BY <1>1, <1>4, <1>5 DEF FilesInv

THEOREM AlwaysFilesInv == Spec => []FilesInv
<1>1. FilesInv /\ [Next]_vars => FilesInv'
  <2>. SUFFICES ASSUME FilesInv, [Next]_vars PROVE FilesInv'
    OBVIOUS
  <2>1. CASE UNCHANGED vars
    BY <2>1, StopInv
  <2>2. CASE Stop
    BY <2>2, StopInv DEF Stop
  <2>3. ASSUME NEW t \in Threads, HandlerStep(t) PROVE FilesInv'
    BY <2>3, HandlerInv
  <2>4. ASSUME NEW t \in Threads, ToolStep(t) \/ \E f \in Files : Construct(t, f) PROVE FilesInv'
    BY <2>4, ToolInv
  <2>5. ASSUME NEW t \in Threads, NEW s \in ToSet(AllSigs), Interrupt(t, s) \/ Crash(t, s)
        PROVE  FilesInv'
    BY <2>5, SignalInv
  <2>. QED  BY <2>1, <2>2, <2>3, <2>4, <2>5 DEF Next
<1>. QED  BY <1>1, InitFilesInv, PTL DEF Spec
-----------------------------------------------------------------------------
(* What the invariant says of the files.                                   *)

LEMMA OnceCounted ==
  ASSUME NEW S, NEW q \in Seq(S), OnceIn(q)
  PROVE  Cardinality(ToSet(q)) = Len(q)
<1>1. PICK l \in Nat : l = Len(q)
  BY LenProperties
<1>2. DOMAIN q = 1 .. l /\ q = [i \in 1 .. l |-> q[i]]
  BY <1>1, LenProperties
<1>3. IsFiniteSet(1 .. l) /\ Cardinality(1 .. l) = l
  BY FS_Interval
<1>4. \A i \in 1 .. l : q[i] \in ToSet(q)
  BY <1>2 DEF ToSet
<1>5. q \in [1 .. l -> ToSet(q)]
  BY <1>2, <1>4
<1>6. \A i, j \in 1 .. l : q[i] = q[j] => i = j
  BY <1>1 DEF OnceIn
<1>7. q \in Injection(1 .. l, ToSet(q))
  BY <1>5, <1>6 DEF Injection, IsInjective
<1>8. \A f \in ToSet(q) : \E i \in 1 .. l : q[i] = f
  BY <1>2 DEF ToSet
<1>9. q \in Surjection(1 .. l, ToSet(q))
  BY <1>5, <1>8 DEF Surjection
<1>10. q \in Bijection(1 .. l, ToSet(q))
  BY <1>7, <1>9 DEF Bijection
<1>11. ExistsBijection(1 .. l, ToSet(q))
  BY <1>10 DEF ExistsBijection
<1>. QED  BY <1>1, <1>3, <1>11, FS_Bijection

LEMMA TypesHold == FilesInv => TypeOK
<1>. SUFFICES ASSUME FilesInv PROVE TypeOK
  OBVIOUS
<1>1. TypesOK /\ StacksOK /\ FilesOK /\ MutexOK
  BY DEF FilesInv, BasicOK, TypesOK
<1>2. /\ FilesToRemove \in Seq(Files) /\ Cardinality(ToSet(FilesToRemove)) = Len(FilesToRemove)
  BY <1>1, OnceCounted DEF FilesOK, ListOK, TypesOK
<1>3. mutex.owner \in Threads \cup {NoThread} /\ mutex.depth \in Nat
      /\ (mutex.owner = NoThread <=> mutex.depth = 0)
  <2>1. mutex.owner \in Threads \cup {NoThread} /\ mutex.depth \in Int
    BY <1>1 DEF TypesOK
  <2>2. CASE mutex.owner = NoThread
    BY <1>1, <2>2 DEF MutexOK
  <2>3. CASE mutex.owner \in Threads
    <3>1. mutex.depth > 0 /\ mutex.owner # NoThread
      BY <1>1, <2>3, SignalsAssumption DEF MutexOK
    <3>. QED  BY <2>1, <3>1
  <2>. QED  BY <2>1, <2>2, <2>3
<1>4. ASSUME NEW t \in Threads
      PROVE  Head(stack[t]) \in ToolFrames /\ Tail(stack[t]) \in Seq(HandlerFrames)
  <2>1. /\ stack[t] \in Seq(Frames) /\ stack[t] # <<>> /\ Head(stack[t]) \in ToolFrames
    BY <1>1, TopFacts
  <2>2. PICK n \in Nat \ {0} : n = Len(stack[t])
    BY <1>1, TopFacts
  <2>3. PICK q : q = Tail(stack[t])
    OBVIOUS
  <2>4. /\ q \in Seq(Frames) /\ Len(q) = n - 1
        /\ \A i \in 1 .. Len(q) : q[i] = stack[t][i + 1]
    BY <2>1, <2>2, <2>3, HeadTailProperties
  <2>5. \A i \in 1 .. n - 1 : i + 1 \in 2 .. n
    BY ONLY n \in Nat \ {0}
  <2>6. \A i \in 1 .. n - 1 : q[i] \in HandlerFrames
    BY <1>1, <2>2, <2>4, <2>5 DEF StacksOK
  <2>7. q = [i \in 1 .. n - 1 |-> q[i]] /\ n - 1 \in Nat
    BY <2>4, LenProperties
  <2>8. q \in Seq(HandlerFrames)
    BY <2>6, <2>7, IsASeq
  <2>. QED  BY <2>1, <2>3, <2>8
<1>5. /\ tool \in Tools /\ disk \subseteq Files /\ kept \subseteq Files /\ late \subseteq Files
      /\ disposition \in [ToSet(AllSigs) -> {"default", "handler"}]
  BY <1>1 DEF TypesOK, Actions
<1>. QED  BY <1>2, <1>3, <1>4, <1>5 DEF TypeOK

LEMMA WrittenHold == FilesInv => WrittenFilesThere
<1>. SUFFICES ASSUME FilesInv, ~tool.Interruptible, \A t \in Threads : Len(stack[t]) = 1,
                     NEW t \in Threads, At(t, "work")
              PROVE  Top(t).file \in disk
  BY DEF WrittenFilesThere
<1>1. Top(t) = Own(t) /\ Own(t).pc = "work"
  BY AtTool DEF ToolPcs, FilesInv
<1>. QED  BY <1>1 DEF FilesInv, CalmOK, Calm

(***************************************************************************)
(* The list of files to remove names files once; a file that was kept when *)
(* its tool_output_file was destroyed stays, whatever signals come later;  *)
(* and a file that is being written is there unless a signal is ending the *)
(* tool.  However many threads write files, handlers interrupt them and    *)
(* one another: a handler takes a file off the disk only while it is on    *)
(* the list, and a file is on the list only while its owner is at work.    *)
(***************************************************************************)
THEOREM AlwaysFilesKept == Spec => []FilesKept
<1>1. FilesInv => FilesKept
  BY TypesHold, WrittenHold, KeptThere DEF FilesInv, FilesKept, KeptStays
<1>. QED  BY <1>1, AlwaysFilesInv, PTL
-----------------------------------------------------------------------------
(* Where one thread alone registers handlers, the table has space: what it *)
(* registers next comes after as many as are in the table.                 *)

SpaceOK == tool.threads = {Main} =>
    (Own(Main).pc \in {"sigaction", "count"} => Num < Own(Main).i)

LEMMA SpaceStep ==
  ASSUME BasicOK, SpaceOK, [Next]_vars
  PROVE  SpaceOK'
<1>. SUFFICES ASSUME tool'.threads = {Main}, Own(Main)'.pc \in {"sigaction", "count"}
              PROVE  Num' < Own(Main)'.i
  BY DEF SpaceOK
<1>m. Main \in Threads
  BY SignalsAssumption
<1>o. Own(Main).pc \in {"sigaction", "count"} => Own(Main).i \in Nat \ {0}
  <2>1. Own(Main) \in ToolFrames /\ FrameOK(Own(Main))
    BY <1>m DEF BasicOK, TypesOK, StacksOK, OwnOK, Own
  <2>2. Own(Main).i \in 0 .. Len(AllSigs)
    BY <2>1 DEF ToolFrames
  <2>3. ASSUME Own(Main).pc \in {"sigaction", "count"} PROVE Own(Main).i \in Nat \ {0}
    <3>1. Own(Main).i >= 1
      BY <2>1, <2>3 DEF FrameOK
    <3>2. PICK x \in Nat : x = Own(Main).i
      BY <2>2
    <3>3. x # 0
      BY <3>1, <3>2
    <3>. QED  BY <3>2, <3>3
  <2>. QED  BY <2>3
<1>n. Num \in Nat
  BY SignalNames DEF BasicOK, TypesOK
<1>1. CASE UNCHANGED vars
  BY <1>1, <1>m DEF vars, SpaceOK, Own
<1>2. CASE Stop
  BY <1>2, <1>m DEF Stop, vars, SpaceOK, Own
<1>3. ASSUME NEW t \in Threads, tool' = tool, OwnStays, Num' = Num \/ Num' = 0
      PROVE  Num' < Own(Main)'.i
  <2>1. Own(Main)' = Own(Main)
    BY <1>3, <1>m DEF OwnStays
  <2>2. Num < Own(Main).i /\ Own(Main).i \in Nat \ {0}
    BY <1>3, <1>o, <2>1 DEF SpaceOK
  <2>3. 0 < Own(Main).i
    BY <2>2
  <2>. QED  BY <1>3, <2>1, <2>2, <2>3
<1>4. ASSUME NEW t \in Threads, HandlerStep(t) PROVE Num' < Own(Main)'.i
  <2>1. tool' = tool /\ OwnStays
    BY <1>4, RestoreFacts, EmptyFacts, LockFacts, RemoveFacts, DecideFacts, CallFacts,
       RaiseFacts, FaultFacts, ReturnFacts DEF HandlerStep, Quiet
  <2>2. Num' = Num \/ Num' = 0
    BY <1>4 DEF HandlerStep, Restore, UnregisterHandlers, Lock, RemoveFilesToRemove, Decide,
       CallInterruptFunction, Raise, Fault, Return, sigs
  <2>. QED  BY <1>3, <2>1, <2>2
<1>5. ASSUME NEW t \in Threads, NEW s \in ToSet(AllSigs), Interrupt(t, s) \/ Crash(t, s)
      PROVE  Num' < Own(Main)'.i
  <2>1. tool' = tool /\ OwnStays
    BY <1>5, SignalFacts DEF Quiet
  <2>2. Num' = Num
    BY <1>5 DEF Interrupt, Crash
  <2>. QED  BY <1>3, <1>5, <2>1, <2>2
<1>6. ASSUME NEW t \in Threads, ToolStep(t) \/ \E f \in Files : Construct(t, f)
      PROVE  Num' < Own(Main)'.i
  <2>1. tool' = tool
    BY <1>6 DEF ToolStep, SetInterruptFunction, RemoveFileOnSignal, Unlock, RegisterHandlers,
       Sigaction, Count, Open, Finish, Erase, DontRemoveFileOnSignal, Destroyed, Construct, bounds
  <2>2. t = Main
    <3>1. t \in tool.threads
      <4>1. CASE \E f \in Files : Construct(t, f)
        BY <4>1 DEF Construct
      <4>2. CASE ToolStep(t)
        <5>1. Own(t).pc # "idle"
          BY <4>2, SetFacts, PushFacts, UnlockFacts, RegisterFacts, SigactionFacts, CountFacts,
             OpenFacts, FinishFacts, EraseFacts, ForgetFacts, DestroyedFacts DEF ToolStep
        <5>. QED  BY <5>1 DEF BasicOK, OwnOK
      <4>. QED  BY <1>6, <4>1, <4>2
    <3>. QED  BY <2>1, <3>1
  <2>3. CASE RegisterHandlers(t)
    <3>1. RegisterGoes(t) /\ Own(t).next \in {"idle", "open"} /\ Num' = Num
      BY <2>3, RegisterFacts DEF RegisterHandlers, sigs
    <3>2. Num = 0 /\ Own(t)'.i = 1
      BY <2>2, <3>1 DEF RegisterGoes, OwnGoes
    <3>. QED  BY <2>2, <3>1, <3>2
  <2>4. CASE Sigaction(t)
    <3>1. Own(t).pc = "sigaction" /\ Own(t)'.i = Own(t).i /\ Num' = Num
      BY <2>4, SigactionFacts DEF Sigaction
    <3>. QED  BY <2>1, <2>2, <3>1 DEF SpaceOK
  <2>5. CASE Count(t)
    <3>1. /\ Own(t).pc = "count" /\ Num' = Num + 1 /\ CountGoes(t)
          /\ Own(t).next \in {"idle", "open"}
      BY <2>5, CountFacts
    <3>2. Own(t)'.i = Own(t).i + 1
      BY <2>2, <3>1 DEF CountGoes, OwnGoes
    <3>3. Num < Own(t).i /\ Own(t).i \in Nat
      BY <1>o, <2>1, <2>2, <3>1 DEF SpaceOK
    <3>4. Num + 1 < Own(t).i + 1
      BY <1>n, <3>3
    <3>. QED  BY <2>2, <3>1, <3>2, <3>4
  <2>6. CASE ~(RegisterHandlers(t) \/ Sigaction(t) \/ Count(t))
    <3>1. Own(t)'.pc \notin {"sigaction", "count"}
      BY <1>6, <2>6, SetFacts, PushFacts, UnlockFacts, OpenFacts, FinishFacts, EraseFacts,
         ForgetFacts, DestroyedFacts, ConstructFacts DEF ToolStep, OwnGoes, OpenGoes
    <3>. QED  BY <2>2, <3>1
  <2>. QED  BY <2>3, <2>4, <2>5, <2>6
<1>. QED  BY <1>1, <1>2, <1>4, <1>5, <1>6 DEF Next

LEMMA SpaceHolds ==
  ASSUME BasicOK, SpaceOK, tool.threads = {Main}
  PROVE  TableHasSpace
<1>. SUFFICES ASSUME NEW t \in Threads, Top(t).pc = "sigaction" PROVE Num \in Slots
  BY DEF TableHasSpace
<1>1. Own(t).pc = "sigaction" /\ Own(t) \in ToolFrames
  <2>1. Top(t).pc \in ToolPcs
    BY DEF ToolPcs
  <2>. QED  BY <2>1, Places, TopFacts DEF BasicOK, TypesOK
<1>2. t = Main
  <2>1. t \in tool.threads
    BY <1>1 DEF BasicOK, OwnOK
  <2>. QED  BY <2>1
<1>3. Own(t).i \in 0 .. Len(AllSigs) /\ Num < Own(t).i
  BY <1>1, <1>2 DEF SpaceOK, ToolFrames
<1>4. Num \in Nat /\ Len(AllSigs) \in Nat
  BY SignalNames DEF BasicOK, TypesOK
<1>. QED  BY <1>3, <1>4 DEF Slots

(***************************************************************************)
(* Where the tool has one thread, RegisterHandler never runs out of space: *)
(* a handler may empty the table between any two steps of the loop it      *)
(* interrupts, but only the loop itself fills it.                          *)
(***************************************************************************)
THEOREM SpaceForOneThread == Spec => [](tool.threads = {Main} => TableHasSpace)
<1>1. Init => SpaceOK
  <2>. SUFFICES ASSUME Init PROVE Own(Main).pc \in {"set", "idle"}
    BY DEF SpaceOK
  <2>. QED  BY InitStacks, SignalsAssumption
<1>2. BasicOK /\ SpaceOK /\ [Next]_vars => SpaceOK'
  BY SpaceStep
<1>3. FilesInv => BasicOK
  BY DEF FilesInv
<1>4. BasicOK /\ SpaceOK => (tool.threads = {Main} => TableHasSpace)
  BY SpaceHolds
<1>. QED  BY <1>1, <1>2, <1>3, <1>4, AlwaysFilesInv, PTL DEF Spec
-----------------------------------------------------------------------------
(* As long as no signal has come: every file at work is on the list, and,  *)
(* where one thread alone registers handlers or main() has, every handler  *)
(* is there before a file is opened.                                       *)

Untouched == signals = tool.signals
Registering == {"sigaction", "count"}
AllSet == \A s \in ToSet(AllSigs) : disposition[s] = "handler"
\* How far Main has come with the loop.
LoopOK ==
    IF Own(Main).pc \in Registering
    THEN /\ Num = Own(Main).i - 1
         /\ \A j \in 1 .. Len(AllSigs) :
               j < Own(Main).i \/ (Own(Main).pc = "count" /\ j = Own(Main).i) =>
                  disposition[AllSigs[j]] = "handler"
    ELSE Num = 0
Registered == AllSet /\ Num = Len(AllSigs) /\ \A t \in Threads : Own(t).pc \notin Registering
NotYet ==
    /\ tool.threads = {Main} /\ ~Own(Main).opened /\ LoopOK
    /\ Own(Main).pc \notin {"open", "work", "erase", "forget", "unlock at end"}
Listed == \A t \in Threads :
    Own(t).pc \in Busy /\ Own(t).file # "" => Own(t).file \in ToSet(FilesToRemove)
SafeTool == tool.threads = {Main} \/ tool.StackTrace
UntouchedOK ==
    /\ signals <= tool.signals
    /\ Untouched => ~killed /\ Calm /\ Listed /\ (SafeTool => Registered \/ NotYet)

\* A step of the tool's code that keeps the file where it is.
LEMMA ListedSame ==
  ASSUME Listed, NEW t \in Threads, NEW pc, OwnGoes(t, pc, Own(t).file),
         FilesToRemove' = FilesToRemove,
         pc \in Busy /\ Own(t).file # "" => Own(t).pc \in Busy
  PROVE  Listed'
<1>1. SUFFICES ASSUME NEW u \in Threads, Own(u)'.pc \in Busy, Own(u)'.file # ""
               PROVE  Own(u)'.file \in ToSet(FilesToRemove)
  BY DEF Listed
<1>2. CASE u = t
  <2>1. Own(t)'.pc = pc /\ Own(t)'.file = Own(t).file
    BY DEF OwnGoes
  <2>. QED  BY <1>1, <1>2, <2>1 DEF Listed
<1>3. CASE u # t
  <2>1. Own(u)' = Own(u)
    BY <1>3 DEF OwnGoes
  <2>. QED  BY <1>1, <2>1 DEF Listed
<1>. QED  BY <1>2, <1>3

\* One that leaves the handlers and the table, and does not begin to open a file.
LEMMA RegisteredSame ==
  ASSUME Registered \/ NotYet, NEW t \in Threads, NEW pc, NEW file, OwnGoes(t, pc, file),
         disposition' = disposition, Num' = Num, tool' = tool,
         pc \notin Registering, Own(t).pc \notin Registering,
         Own(t)'.opened => Own(t).opened \/ Own(t).pc = "open",
         pc \in {"open", "work", "erase", "forget", "unlock at end"} =>
             Own(t).pc \in {"open", "work", "erase", "forget", "unlock at end"}
  PROVE  (Registered \/ NotYet)'
<1>1. Own(t)'.pc = pc /\ \A u \in Threads \ {t} : Own(u)' = Own(u)
  BY DEF OwnGoes
<1>2. CASE Registered
  <2>1. ASSUME NEW u \in Threads PROVE Own(u)'.pc \notin Registering
    <3>1. CASE u = t
      BY <1>1, <3>1
    <3>2. CASE u # t
      <4>1. Own(u)' = Own(u)
        BY <1>1, <3>2
      <4>. QED  BY <1>2, <4>1 DEF Registered
    <3>. QED  BY <3>1, <3>2
  <2>. QED  BY <1>2, <2>1 DEF Registered, AllSet
<1>3. CASE NotYet
  <2>1. CASE t = Main
    <3>1. Num = 0
      BY <1>3, <2>1 DEF NotYet, LoopOK
    <3>. QED  BY <1>1, <1>3, <2>1, <3>1 DEF NotYet, LoopOK
  <2>2. CASE t # Main
    <3>1. Own(Main)' = Own(Main)
      BY <1>1, <2>2, SignalsAssumption
    <3>2. LoopOK' <=> LoopOK
      BY <3>1 DEF LoopOK
    <3>. QED  BY <1>3, <3>1, <3>2 DEF NotYet
  <2>. QED  BY <2>1, <2>2
<1>. QED  BY <1>2, <1>3

\* A step of the tool's code, but for what it does with the list and the table.
LEMMA UntouchedTool ==
  ASSUME UntouchedOK, NEW t \in Threads, NEW pc, NEW file, OwnGoes(t, pc, file),
         tool' = tool, signals' = signals, killed' = killed,
         Untouched /\ Listed => Listed',
         Untouched /\ SafeTool /\ (Registered \/ NotYet) => (Registered \/ NotYet)'
  PROVE  UntouchedOK'
<1>1. Calm' <=> Calm
  BY DEF Calm, OwnGoes, TopGoes
<1>2. (Untouched' <=> Untouched) /\ (SafeTool' <=> SafeTool)
  BY DEF Untouched, SafeTool
<1>. QED  BY <1>1, <1>2 DEF UntouchedOK

\* A step of a handler: a signal has come.
LEMMA UntouchedHandler ==
  ASSUME BasicOK, UntouchedOK, NEW t \in Threads, Top(t).pc \in HandlerPcs,
         tool' = tool, signals' = signals
  PROVE  UntouchedOK'
<1>1. ~Calm
  BY Places DEF BasicOK, TypesOK, Calm
<1>. QED  BY <1>1 DEF UntouchedOK, Untouched

LEMMA UntouchedSignal ==
  ASSUME BasicOK, UntouchedOK, tool' = tool, signals' = signals - 1
  PROVE  UntouchedOK'
<1>1. signals \in Int /\ tool \in Tools
  BY DEF BasicOK, TypesOK
<1>2. tool.signals \in Nat
  BY <1>1, SignalsAssumption
<1>3. signals' < tool'.signals
  BY <1>1, <1>2 DEF UntouchedOK
<1>4. signals' <= tool'.signals /\ signals' # tool'.signals
  BY <1>1, <1>2, <1>3
<1>. QED  BY <1>4 DEF UntouchedOK, Untouched

\* The loop over the signals.
LEMMA LoopRegister ==
  ASSUME BasicOK, NEW t \in Threads, RegisterHandlers(t), Registered \/ NotYet
  PROVE  (Registered \/ NotYet)'
<1>1. /\ Own(t).pc = "register" /\ Own(t)'.opened = Own(t).opened
      /\ RegisterGoes(t) /\ Own(t).next \in {"idle", "open"}
  BY RegisterFacts
<1>2. UNCHANGED <<disposition, Num, tool>>
  BY DEF RegisterHandlers, sigs, bounds
<1>3. Len(AllSigs) \in Nat \ {0}
  BY SignalNames
<1>4. CASE Registered
  <2>1. Num # 0
    BY <1>3, <1>4 DEF Registered
  <2>2. OwnGoes(t, Own(t).next, Own(t).file)
    BY <1>1, <2>1 DEF RegisterGoes
  <2>3. ASSUME NEW u \in Threads PROVE Own(u)'.pc \notin Registering
    <3>1. CASE u = t
      BY <1>1, <2>2, <3>1 DEF OwnGoes, Registering
    <3>2. CASE u # t
      <4>1. Own(u)' = Own(u)
        BY <2>2, <3>2 DEF OwnGoes
      <4>. QED  BY <1>4, <4>1 DEF Registered
    <3>. QED  BY <3>1, <3>2
  <2>. QED  BY <1>2, <1>4, <2>3 DEF Registered, AllSet
<1>5. CASE NotYet
  <2>1. t = Main
    BY <1>1, <1>5 DEF NotYet, BasicOK, OwnOK
  <2>2. Num = 0
    BY <1>1, <1>5, <2>1 DEF NotYet, LoopOK, Registering
  <2>3. OwnGoes(t, "sigaction", Own(t).file) /\ Own(t)'.i = 1
    BY <1>1, <2>2 DEF RegisterGoes
  <2>4. Own(Main)'.pc = "sigaction"
    BY <2>1, <2>3 DEF OwnGoes
  <2>5. \A j \in 1 .. Len(AllSigs) : ~(j < 1)
    BY <1>3
  <2>6. LoopOK'
    BY <1>2, <2>1, <2>2, <2>3, <2>4, <2>5 DEF LoopOK, Registering
  <2>. QED  BY <1>1, <1>2, <1>5, <2>1, <2>4, <2>6 DEF NotYet
<1>. QED  BY <1>4, <1>5

LEMMA LoopSigaction ==
  ASSUME BasicOK, NEW t \in Threads, Sigaction(t), Registered \/ NotYet
  PROVE  (Registered \/ NotYet)'
<1>1. /\ Own(t).pc = "sigaction" /\ Own(t)'.opened = Own(t).opened
      /\ OwnGoes(t, "count", Own(t).file) /\ Own(t)'.i = Own(t).i
      /\ Own(t).i \in 1 .. Len(AllSigs) /\ AllSigs[Own(t).i] \in ToSet(AllSigs)
      /\ disposition' = [disposition EXCEPT ![AllSigs[Own(t).i]] = "handler"]
  BY SigactionFacts
<1>2. UNCHANGED <<Num, tool>>
  BY DEF Sigaction, bounds
<1>3. NotYet
  BY <1>1 DEF Registered, Registering
<1>4. t = Main
  BY <1>1, <1>3 DEF NotYet, BasicOK, OwnOK
<1>5. Own(Main)'.pc = "count"
  BY <1>1, <1>4 DEF OwnGoes
<1>6. \A j \in 1 .. Len(AllSigs) : AllSigs[j] \in ToSet(AllSigs)
  BY SignalNames
<1>7. DOMAIN disposition = ToSet(AllSigs)
  BY DEF BasicOK, TypesOK
<1>8. ASSUME NEW j \in 1 .. Len(AllSigs), j < Own(t).i \/ j = Own(t).i
      PROVE  disposition'[AllSigs[j]] = "handler"
  <2>1. CASE AllSigs[j] = AllSigs[Own(t).i]
    BY <1>1, <1>7, <2>1
  <2>2. CASE AllSigs[j] # AllSigs[Own(t).i]
    <3>1. j < Own(t).i
      BY <1>8, <2>2
    <3>2. disposition[AllSigs[j]] = "handler"
      BY <1>1, <1>3, <1>4, <3>1 DEF NotYet, LoopOK, Registering
    <3>. QED  BY <1>1, <1>6, <1>7, <2>2, <3>2
  <2>. QED  BY <2>1, <2>2
<1>9. LoopOK'
  BY <1>1, <1>2, <1>3, <1>4, <1>5, <1>8 DEF NotYet, LoopOK, Registering
<1>. QED  BY <1>1, <1>2, <1>3, <1>4, <1>5, <1>9 DEF NotYet

LEMMA LoopCount ==
  ASSUME BasicOK, NEW t \in Threads, Count(t), Registered \/ NotYet
  PROVE  (Registered \/ NotYet)'
<1>1. /\ Own(t).pc = "count" /\ Own(t)'.opened = Own(t).opened
      /\ Own(t).i \in 1 .. Len(AllSigs) /\ Num' = Num + 1 /\ disposition' = disposition
      /\ CountGoes(t) /\ Own(t).next \in {"idle", "open"}
  BY CountFacts
<1>2. tool' = tool
  BY DEF Count, bounds
<1>3. NotYet
  BY <1>1 DEF Registered, Registering
<1>4. t = Main
  BY <1>1, <1>3 DEF NotYet, BasicOK, OwnOK
<1>5. /\ Num = Own(t).i - 1
      /\ \A j \in 1 .. Len(AllSigs) : j < Own(t).i \/ j = Own(t).i =>
            disposition[AllSigs[j]] = "handler"
  BY <1>1, <1>3, <1>4 DEF NotYet, LoopOK, Registering
<1>l. PICK l \in Nat \ {0} : l = Len(AllSigs)
  BY SignalNames
<1>i. PICK i \in 1 .. l : i = Own(t).i
  BY <1>1, <1>l
<1>6. Num' = i
  <2>1. (i - 1) + 1 = i
    OBVIOUS
  <2>. QED  BY <1>1, <1>5, <1>i, <2>1
<1>7. CASE i = l
  <2>1. OwnGoes(t, Own(t).next, Own(t).file)
    BY <1>1, <1>7, <1>l, <1>i DEF CountGoes
  <2>2. \A j \in 1 .. l : j < i \/ j = i
    BY <1>7
  <2>3. \A j \in 1 .. Len(AllSigs) : disposition[AllSigs[j]] = "handler"
    BY <1>5, <1>l, <1>i, <2>2
  <2>4. AllSet'
    BY <1>1, <2>3, SignalNames DEF AllSet
  <2>5. ASSUME NEW u \in Threads PROVE Own(u)'.pc \notin Registering
    <3>1. CASE u = t
      BY <1>1, <2>1, <3>1 DEF OwnGoes, Registering
    <3>2. CASE u # t
      <4>1. u \notin tool.threads
        BY <1>3, <1>4, <3>2 DEF NotYet
      <4>2. Own(u)' = Own(u) /\ Own(u).pc = "idle"
        BY <2>1, <3>2, <4>1 DEF OwnGoes, BasicOK, OwnOK
      <4>. QED  BY <4>2 DEF Registering
    <3>. QED  BY <3>1, <3>2
  <2>. QED  BY <1>6, <1>7, <1>l, <2>4, <2>5 DEF Registered
<1>8. CASE i # l
  <2>1. OwnGoes(t, "sigaction", Own(t).file) /\ Own(t)'.i = i + 1
    BY <1>1, <1>8, <1>l, <1>i DEF CountGoes
  <2>2. Own(Main)'.pc = "sigaction"
    BY <1>4, <2>1 DEF OwnGoes
  <2>3. \A j \in 1 .. l : j < i + 1 => j < i \/ j = i
    OBVIOUS
  <2>4. \A j \in 1 .. Len(AllSigs) : j < Own(t)'.i => disposition[AllSigs[j]] = "handler"
    BY <1>5, <1>l, <1>i, <2>1, <2>3
  <2>5. Num' = Own(t)'.i - 1
    <3>1. (i + 1) - 1 = i
      OBVIOUS
    <3>. QED  BY <1>6, <2>1, <3>1
  <2>6. LoopOK'
    BY <1>1, <1>4, <2>2, <2>4, <2>5 DEF LoopOK, Registering
  <2>. QED  BY <1>1, <1>2, <1>3, <1>4, <2>2, <2>6 DEF NotYet
<1>. QED  BY <1>7, <1>8

LEMMA ListedConstruct ==
  ASSUME BasicOK, Listed, NEW t \in Threads, NEW f \in Files, Construct(t, f)
  PROVE  Listed'
<1>1. /\ Own(t)'.pc = "push" /\ \A u \in Threads \ {t} : Own(u)' = Own(u)
      /\ FilesToRemove' = FilesToRemove
  BY ConstructFacts DEF OwnGoes
<1>2. SUFFICES ASSUME NEW u \in Threads, Own(u)'.pc \in Busy, Own(u)'.file # ""
               PROVE  Own(u)'.file \in ToSet(FilesToRemove)
  BY <1>1 DEF Listed
<1>3. u # t
  BY <1>1, <1>2 DEF Busy
<1>4. Own(u)' = Own(u)
  BY <1>1, <1>3
<1>. QED  BY <1>2, <1>4 DEF Listed

\* A list that grows at its end.
LEMMA Appended ==
  ASSUME NEW q \in Seq(Files), NEW f \in Files
  PROVE  f \in ToSet(Append(q, f)) /\ \A g \in ToSet(q) : g \in ToSet(Append(q, f))
<1>1. PICK r : r = Append(q, f)
  OBVIOUS
<1>2. PICK l \in Nat : l = Len(q)
  BY LenProperties
<1>3. /\ r \in Seq(Files) /\ Len(r) = l + 1 /\ r[l + 1] = f
      /\ \A i \in 1 .. l : r[i] = q[i]
  BY <1>1, <1>2, AppendProperties
<1>4. DOMAIN q = 1 .. l /\ DOMAIN r = 1 .. l + 1
  BY <1>2, <1>3, LenProperties
<1>5. l + 1 \in 1 .. l + 1 /\ \A i \in 1 .. l : i \in 1 .. l + 1
  BY <1>2
<1>6. f \in ToSet(r) /\ \A g \in ToSet(q) : g \in ToSet(r)
  BY <1>3, <1>4, <1>5 DEF ToSet
<1>. QED  BY <1>1, <1>6

LEMMA ListedPush ==
  ASSUME BasicOK, Listed, NEW t \in Threads, RemoveFileOnSignal(t)
  PROVE  Listed'
<1>1. /\ Own(t)'.file = Own(t).file /\ \A u \in Threads \ {t} : Own(u)' = Own(u)
      /\ FilesToRemove' = Append(FilesToRemove, Own(t).file) /\ Own(t).file \in Files
  BY PushFacts DEF OwnGoes
<1>2. /\ Own(t).file \in ToSet(FilesToRemove')
      /\ \A g \in ToSet(FilesToRemove) : g \in ToSet(FilesToRemove')
  BY <1>1, Appended DEF BasicOK, TypesOK
<1>3. SUFFICES ASSUME NEW u \in Threads, Own(u)'.pc \in Busy, Own(u)'.file # ""
               PROVE  Own(u)'.file \in ToSet(FilesToRemove')
  BY DEF Listed
<1>4. CASE u = t
  BY <1>1, <1>2, <1>4
<1>5. CASE u # t
  <2>1. Own(u)' = Own(u)
    BY <1>1, <1>5
  <2>2. Own(u).file \in ToSet(FilesToRemove)
    BY <1>3, <2>1 DEF Listed
  <2>. QED  BY <1>2, <2>1, <2>2
<1>. QED  BY <1>4, <1>5

LEMMA ListedForget ==
  ASSUME BasicOK, FilesOK, Listed, NEW t \in Threads, DontRemoveFileOnSignal(t)
  PROVE  Listed'
<1>1. /\ Own(t).pc = "forget" /\ Own(t)'.pc = "unlock at end"
      /\ \A u \in Threads \ {t} : Own(u)' = Own(u)
      /\ \A g : g \in ToSet(FilesToRemove') <=> g \in ToSet(FilesToRemove) /\ g # Own(t).file
  BY ForgetFacts DEF OwnGoes, FilesOK, ListOK
<1>2. SUFFICES ASSUME NEW u \in Threads, Own(u)'.pc \in Busy, Own(u)'.file # ""
               PROVE  Own(u)'.file \in ToSet(FilesToRemove')
  BY DEF Listed
<1>3. u # t
  BY <1>1, <1>2 DEF Busy
<1>4. Own(u)' = Own(u)
  BY <1>1, <1>3
<1>5. Own(u).file \in ToSet(FilesToRemove) /\ Own(u).file # Own(t).file
  BY <1>2, <1>3, <1>4 DEF Listed, FilesOK, Distinct
<1>. QED  BY <1>1, <1>4, <1>5

LEMMA UntouchedToolStep ==
  ASSUME FilesInv, UntouchedOK, NEW t \in Threads,
         ToolStep(t) \/ \E f \in Files : Construct(t, f)
  PROVE  UntouchedOK'
<1>. USE DEF FilesInv
<1>1. CASE SetInterruptFunction(t)
  <2>1. /\ Own(t).pc = "set" /\ OwnGoes(t, "register", Own(t).file) /\ Own(t).file = ""
        /\ Own(t)'.opened = Own(t).opened
    BY <1>1, SetFacts DEF BasicOK, OwnOK, FrameOK
  <2>2. UNCHANGED <<tool, signals, killed, FilesToRemove, disposition, Num>>
    BY <1>1 DEF SetInterruptFunction, bounds, names, sigs
  <2>3. Listed => Listed'
    BY <2>1, <2>2, ListedSame
  <2>4. Registered \/ NotYet => (Registered \/ NotYet)'
    <3>1. "set" \notin Registering /\ "register" \notin Registering
      BY DEF Registering
    <3>2. Own(t)'.opened => Own(t).opened
      BY <2>1
    <3>. QED  BY <2>1, <2>2, <3>1, <3>2, RegisteredSame
  <2>. QED  BY <2>1, <2>2, <2>3, <2>4, UntouchedTool
<1>2. CASE \E f \in Files : Construct(t, f)
  <2>0. PICK f \in Files : Construct(t, f)
    BY <1>2
  <2>1. /\ Own(t).pc = "idle" /\ OwnGoes(t, "push", f) /\ Own(t)'.opened = FALSE
    BY <2>0, ConstructFacts
  <2>2. UNCHANGED <<tool, signals, killed, disposition, Num>>
    BY <2>0 DEF Construct, Remaining, sigs
  <2>3. Listed => Listed'
    BY <2>0, ListedConstruct
  <2>4. Registered \/ NotYet => (Registered \/ NotYet)'
    <3>1. "idle" \notin Registering /\ "push" \notin Registering
      BY DEF Registering
    <3>2. Own(t)'.opened => Own(t).opened
      BY <2>1
    <3>. QED  BY <2>1, <2>2, <3>1, <3>2, RegisteredSame
  <2>. QED  BY <2>1, <2>2, <2>3, <2>4, UntouchedTool
<1>3. CASE RemoveFileOnSignal(t)
  <2>1. /\ Own(t).pc = "push" /\ OwnGoes(t, "unlock", Own(t).file)
        /\ Own(t)'.opened = Own(t).opened
    BY <1>3, PushFacts
  <2>2. UNCHANGED <<tool, signals, killed, disposition, Num>>
    BY <1>3 DEF RemoveFileOnSignal, bounds, sigs
  <2>3. Listed => Listed'
    BY <1>3, ListedPush
  <2>4. Registered \/ NotYet => (Registered \/ NotYet)'
    <3>1. "push" \notin Registering /\ "unlock" \notin Registering
      BY DEF Registering
    <3>2. Own(t)'.opened => Own(t).opened
      BY <2>1
    <3>. QED  BY <2>1, <2>2, <3>1, <3>2, RegisteredSame
  <2>. QED  BY <2>1, <2>2, <2>3, <2>4, UntouchedTool
<1>4. CASE Unlock(t)
  <2>1. /\ Own(t).pc = "unlock" /\ OwnGoes(t, "register", Own(t).file)
        /\ Own(t)'.opened = Own(t).opened
    BY <1>4, UnlockFacts
  <2>2. UNCHANGED <<tool, signals, killed, FilesToRemove, disposition, Num>>
    BY <1>4 DEF Unlock, bounds, names, sigs
  <2>3. Listed => Listed'
    BY <2>1, <2>2, ListedSame DEF Busy
  <2>4. Registered \/ NotYet => (Registered \/ NotYet)'
    <3>1. "unlock" \notin Registering /\ "register" \notin Registering
      BY DEF Registering
    <3>2. Own(t)'.opened => Own(t).opened
      BY <2>1
    <3>. QED  BY <2>1, <2>2, <3>1, <3>2, RegisteredSame
  <2>. QED  BY <2>1, <2>2, <2>3, <2>4, UntouchedTool
<1>5. CASE RegisterHandlers(t)
  <2>1. PICK pc : Own(t).pc = "register" /\ OwnGoes(t, pc, Own(t).file)
    BY <1>5, RegisterFacts DEF RegisterGoes
  <2>2. UNCHANGED <<tool, signals, killed, FilesToRemove>>
    BY <1>5 DEF RegisterHandlers, bounds, names, Remaining
  <2>3. Listed => Listed'
    BY <2>1, <2>2, ListedSame DEF Busy
  <2>. QED  BY <1>5, <2>1, <2>2, <2>3, LoopRegister, UntouchedTool
<1>6. CASE Sigaction(t)
  <2>1. Own(t).pc = "sigaction" /\ OwnGoes(t, "count", Own(t).file)
    BY <1>6, SigactionFacts
  <2>2. UNCHANGED <<tool, signals, killed, FilesToRemove>>
    BY <1>6 DEF Sigaction, bounds, names, Remaining
  <2>3. Listed => Listed'
    BY <2>1, <2>2, ListedSame DEF Busy
  <2>. QED  BY <1>6, <2>1, <2>2, <2>3, LoopSigaction, UntouchedTool
<1>7. CASE Count(t)
  <2>1. PICK pc : Own(t).pc = "count" /\ OwnGoes(t, pc, Own(t).file)
    BY <1>7, CountFacts DEF CountGoes
  <2>2. UNCHANGED <<tool, signals, killed, FilesToRemove>>
    BY <1>7 DEF Count, bounds, names, Remaining
  <2>3. Listed => Listed'
    BY <2>1, <2>2, ListedSame DEF Busy
  <2>. QED  BY <1>7, <2>1, <2>2, <2>3, LoopCount, UntouchedTool
<1>8. CASE Open(t)
  <2>1. PICK pc : /\ Own(t).pc = "open" /\ OwnGoes(t, pc, Own(t).file) /\ pc \in {"work", "forget"}
    <3>1. Own(t).pc = "open" /\ OpenGoes(t)
      BY <1>8, OpenFacts
    <3>2. CASE OwnGoes(t, "work", Own(t).file)
      BY <3>1, <3>2
    <3>3. CASE OwnGoes(t, "forget", Own(t).file)
      BY <3>1, <3>3
    <3>. QED  BY <3>1, <3>2, <3>3 DEF OpenGoes
  <2>2. UNCHANGED <<tool, signals, killed, FilesToRemove, disposition, Num>>
    BY <1>8 DEF Open, bounds, sigs, Remaining
  <2>3. Listed => Listed'
    BY <2>1, <2>2, ListedSame DEF Busy
  <2>4. Registered \/ NotYet => (Registered \/ NotYet)'
    BY <2>1, <2>2, RegisteredSame DEF Registering
  <2>. QED  BY <2>1, <2>2, <2>3, <2>4, UntouchedTool
<1>9. CASE Finish(t)
  <2>1. /\ Own(t).pc = "work" /\ OwnGoes(t, "erase", Own(t).file)
        /\ Own(t)'.opened = Own(t).opened
    BY <1>9, FinishFacts
  <2>2. UNCHANGED <<tool, signals, killed, FilesToRemove, disposition, Num>>
    BY <1>9 DEF Finish, bounds, names, sigs, Remaining
  <2>3. Listed => Listed'
    BY <2>1, <2>2, ListedSame DEF Busy
  <2>4. Registered \/ NotYet => (Registered \/ NotYet)'
    <3>1. "work" \notin Registering /\ "erase" \notin Registering
      BY DEF Registering
    <3>2. Own(t)'.opened => Own(t).opened
      BY <2>1
    <3>. QED  BY <2>1, <2>2, <3>1, <3>2, RegisteredSame
  <2>. QED  BY <2>1, <2>2, <2>3, <2>4, UntouchedTool
<1>10. CASE Erase(t)
  <2>1. /\ Own(t).pc = "erase" /\ OwnGoes(t, "forget", Own(t).file)
        /\ Own(t)'.opened = Own(t).opened
    BY <1>10, EraseFacts
  <2>2. UNCHANGED <<tool, signals, killed, FilesToRemove, disposition, Num>>
    BY <1>10 DEF Erase, bounds, sigs, Remaining
  <2>3. Listed => Listed'
    BY <2>1, <2>2, ListedSame DEF Busy
  <2>4. Registered \/ NotYet => (Registered \/ NotYet)'
    <3>1. "erase" \notin Registering /\ "forget" \notin Registering
      BY DEF Registering
    <3>2. Own(t)'.opened => Own(t).opened
      BY <2>1
    <3>. QED  BY <2>1, <2>2, <3>1, <3>2, RegisteredSame
  <2>. QED  BY <2>1, <2>2, <2>3, <2>4, UntouchedTool
<1>11. CASE DontRemoveFileOnSignal(t)
  <2>1. /\ Own(t).pc = "forget" /\ OwnGoes(t, "unlock at end", Own(t).file)
        /\ ~Own(t)'.opened
    BY <1>11, ForgetFacts
  <2>2. UNCHANGED <<tool, signals, killed, disposition, Num>>
    BY <1>11 DEF DontRemoveFileOnSignal, bounds, sigs
  <2>3. Listed => Listed'
    BY <1>11, ListedForget
  <2>4. Registered \/ NotYet => (Registered \/ NotYet)'
    <3>1. "forget" \notin Registering /\ "unlock at end" \notin Registering
      BY DEF Registering
    <3>2. Own(t)'.opened => Own(t).opened
      BY <2>1
    <3>. QED  BY <2>1, <2>2, <3>1, <3>2, RegisteredSame
  <2>. QED  BY <2>1, <2>2, <2>3, <2>4, UntouchedTool
<1>12. CASE Destroyed(t)
  <2>1. /\ Own(t).pc = "unlock at end" /\ OwnGoes(t, "idle", "") /\ ~Own(t)'.opened
    BY <1>12, DestroyedFacts
  <2>2. UNCHANGED <<tool, signals, killed, FilesToRemove, disposition, Num>>
    BY <1>12 DEF Destroyed, bounds, names, sigs
  <2>3. Listed => Listed'
    <3>1. SUFFICES ASSUME Listed, NEW u \in Threads, Own(u)'.pc \in Busy, Own(u)'.file # ""
                   PROVE  Own(u)'.file \in ToSet(FilesToRemove)
      BY <2>2 DEF Listed
    <3>2. u # t
      BY <2>1, <3>1 DEF OwnGoes
    <3>3. Own(u)' = Own(u)
      BY <2>1, <3>2 DEF OwnGoes
    <3>. QED  BY <3>1, <3>3 DEF Listed
  <2>4. Registered \/ NotYet => (Registered \/ NotYet)'
    <3>1. "unlock at end" \notin Registering /\ "idle" \notin Registering
      BY DEF Registering
    <3>2. Own(t)'.opened => Own(t).opened
      BY <2>1
    <3>. QED  BY <2>1, <2>2, <3>1, <3>2, RegisteredSame
  <2>. QED  BY <2>1, <2>2, <2>3, <2>4, UntouchedTool
<1>. QED  BY <1>1, <1>2, <1>3, <1>4, <1>5, <1>6, <1>7, <1>8, <1>9, <1>10, <1>11, <1>12 DEF ToolStep

LEMMA UntouchedHandlerStep ==
  ASSUME FilesInv, UntouchedOK, NEW t \in Threads, HandlerStep(t)
  PROVE  UntouchedOK'
<1>1. Top(t).pc \in HandlerPcs
  BY DEF HandlerStep, Restore, UnregisterHandlers, Lock, RemoveFilesToRemove, Decide,
     CallInterruptFunction, Raise, Fault, Return, At, HandlerPcs
<1>2. tool' = tool /\ signals' = signals
  BY DEF HandlerStep, Restore, UnregisterHandlers, Lock, RemoveFilesToRemove, Decide,
     CallInterruptFunction, Raise, Fault, Return, bounds
<1>. QED  BY <1>1, <1>2, UntouchedHandler DEF FilesInv

LEMMA InitUntouched == Init => UntouchedOK
<1>. SUFFICES ASSUME Init PROVE UntouchedOK
  OBVIOUS
<1>1. /\ \A t \in Threads : /\ Own(t).file = "" /\ Own(t).opened = FALSE /\ Len(stack[t]) = 1
                            /\ Own(t).pc \in {"set", "idle"}
      /\ Main \in Threads /\ killed = FALSE /\ signals = tool.signals
      /\ tool \in Tools /\ tool.signals \in Nat /\ tool.StackTrace \in BOOLEAN
  BY InitStacks, SignalsAssumption DEF Init
<1>2. signals <= tool.signals
  <2>. PICK n \in Nat : n = signals /\ n = tool.signals
    BY <1>1
  <2>1. n <= n
    OBVIOUS
  <2>. QED  BY <2>1
<1>3. Calm /\ Listed
  BY <1>1 DEF Calm, Listed
<1>4. CASE tool.StackTrace
  <2>1. Registered
    BY <1>1, <1>4 DEF Init, Registered, AllSet, Registering
  <2>. QED  BY <1>1, <1>2, <1>3, <2>1 DEF UntouchedOK
<1>5. CASE ~tool.StackTrace
  <2>1. Num = 0
    BY <1>5 DEF Init
  <2>2. LoopOK
    BY <1>1, <2>1 DEF LoopOK, Registering
  <2>3. tool.threads = {Main} => NotYet
    BY <1>1, <2>2 DEF NotYet
  <2>. QED  BY <1>1, <1>2, <1>3, <1>5, <2>3 DEF UntouchedOK, SafeTool
<1>. QED  BY <1>4, <1>5
-----------------------------------------------------------------------------
(* A file that is open and there is on the list, or was opened late; once  *)
(* a handler has found the list empty, it was opened late.                 *)

LatePcs == {"decide", "raise", "fault", "call", "return"}
Decided == \E t \in Threads : \E i \in 1 .. Len(stack[t]) : stack[t][i].pc \in LatePcs
OpenThere(t) == Own(t).opened /\ Own(t).file \in disk
OpenedOK ==
    /\ \A t \in Threads :
          OpenThere(t) => Own(t).file \in late \/ Own(t).file \in ToSet(FilesToRemove)
    /\ Decided => \A t \in Threads : OpenThere(t) => Own(t).file \in late
    /\ ~tool.Interruptible /\ tool.threads = {Main} =>
          \A t \in Threads : Own(t).opened => Own(t).file \notin late
    /\ SafeTool /\ ~tool.Interruptible /\ killed /\ Calm => \A t \in Threads : ~Own(t).opened
SafeInv == FilesInv /\ UntouchedOK /\ OpenedOK

\* No step but one from "remove" lets a handler decide.
LEMMA DecidedGoes ==
  ASSUME StacksOK, NEW t \in Threads, NEW pc, TopGoes(t, pc), Decided',
         pc \in LatePcs => Top(t).pc \in LatePcs
  PROVE  Decided
<1>. PICK n \in Nat \ {0} : n = Len(stack[t]) /\ Top(t) = stack[t][n]
  BY TopFacts
<1>1. /\ Len(stack'[t]) = n /\ stack'[t][n].pc = pc
      /\ \A i \in 1 .. n - 1 : stack'[t][i] = stack[t][i]
      /\ \A u \in Threads \ {t} : stack'[u] = stack[u]
  BY DEF TopGoes
<1>2. PICK u \in Threads : \E i \in 1 .. Len(stack'[u]) : stack'[u][i].pc \in LatePcs
  BY DEF Decided
<1>3. CASE u # t
  <2>1. stack'[u] = stack[u]
    BY <1>1, <1>3
  <2>. QED  BY <1>2, <2>1 DEF Decided
<1>4. CASE u = t
  <2>1. PICK i \in 1 .. n : stack'[t][i].pc \in LatePcs
    BY <1>1, <1>2, <1>4
  <2>2. n \in 1 .. n /\ (i = n \/ i \in 1 .. n - 1)
    BY ONLY n \in Nat \ {0}, i \in 1 .. n
  <2>3. stack[t][i].pc \in LatePcs
    BY <1>1, <2>1, <2>2
  <2>. QED  BY <2>3 DEF Decided
<1>. QED  BY <1>3, <1>4

LEMMA DecidedSignal ==
  ASSUME StacksOK, NEW t \in Threads, NEW pc, NEW s \in ToSet(AllSigs), HandlerRuns(t, pc, s),
         Decided', pc \in LatePcs => Top(t).pc \in LatePcs
  PROVE  Decided
<1>. PICK n \in Nat \ {0} : n = Len(stack[t]) /\ Top(t) = stack[t][n]
  BY TopFacts
<1>1. /\ Len(stack'[t]) = n + 1 /\ stack'[t][n].pc = pc /\ stack'[t][n + 1] = Handler(s)
      /\ \A i \in 1 .. n - 1 : stack'[t][i] = stack[t][i]
      /\ \A u \in Threads \ {t} : stack'[u] = stack[u]
  BY DEF HandlerRuns
<1>2. PICK u \in Threads : \E i \in 1 .. Len(stack'[u]) : stack'[u][i].pc \in LatePcs
  BY DEF Decided
<1>3. CASE u # t
  <2>1. stack'[u] = stack[u]
    BY <1>1, <1>3
  <2>. QED  BY <1>2, <2>1 DEF Decided
<1>4. CASE u = t
  <2>1. PICK i \in 1 .. n + 1 : stack'[t][i].pc \in LatePcs
    BY <1>1, <1>2, <1>4
  <2>2. Handler(s).pc \notin LatePcs
    BY DEF Handler, LatePcs
  <2>3. i # n + 1
    BY <1>1, <2>1, <2>2
  <2>4. i \in 1 .. n /\ (i = n \/ i \in 1 .. n - 1)
    BY ONLY n \in Nat \ {0}, i \in 1 .. n + 1, <2>3
  <2>5. stack[t][i].pc \in LatePcs
    BY <1>1, <2>1, <2>4
  <2>. QED  BY <2>4, <2>5 DEF Decided
<1>. QED  BY <1>3, <1>4

LEMMA DecidedReturn ==
  ASSUME StacksOK, NEW t \in Threads, Returns(t), Decided'
  PROVE  Decided
<1>. PICK n \in Nat \ {0} : n = Len(stack[t])
  BY TopFacts
<1>1. /\ Len(stack'[t]) = n - 1 /\ \A i \in 1 .. n - 1 : stack'[t][i] = stack[t][i]
      /\ \A u \in Threads \ {t} : stack'[u] = stack[u]
  BY DEF Returns
<1>2. PICK u \in Threads : \E i \in 1 .. Len(stack'[u]) : stack'[u][i].pc \in LatePcs
  BY DEF Decided
<1>3. CASE u # t
  <2>1. stack'[u] = stack[u]
    BY <1>1, <1>3
  <2>. QED  BY <1>2, <2>1 DEF Decided
<1>4. CASE u = t
  <2>1. PICK i \in 1 .. n - 1 : stack'[t][i].pc \in LatePcs
    BY <1>1, <1>2, <1>4
  <2>2. i \in 1 .. n
    BY ONLY n \in Nat \ {0}, i \in 1 .. n - 1
  <2>3. stack[t][i].pc \in LatePcs
    BY <1>1, <2>1
  <2>. QED  BY <2>2, <2>3 DEF Decided
<1>. QED  BY <1>3, <1>4

\* While every thread is in the tool's own code no handler has decided anything.
LEMMA CalmUndecided ==
  ASSUME StacksOK, Calm
  PROVE  ~Decided
<1>. SUFFICES ASSUME NEW t \in Threads, NEW i \in 1 .. Len(stack[t]), stack[t][i].pc \in LatePcs
              PROVE  FALSE
  BY DEF Decided
<1>1. PICK n : n = Len(stack[t]) /\ n = 1 /\ i \in 1 .. n
  BY DEF Calm
<1>2. i = 1
  BY <1>1
<1>3. stack[t][1].pc \in ToolPcs
  BY TopFacts DEF Own, ToolFrames, ToolPcs
<1>. QED  BY <1>2, <1>3 DEF LatePcs, ToolPcs

\* A step of the tool's code that opens no file.
LEMMA OpenedTool ==
  ASSUME SafeInv, NEW t \in Threads, NEW pc \in ToolPcs, NEW file, OwnGoes(t, pc, file),
         ~killed', tool' = tool, late' = late, disk' \subseteq disk,
         Own(t)'.opened => Own(t).opened /\ file = Own(t).file,
         \A u \in Threads : Own(u)'.opened /\ Own(u).file \in ToSet(FilesToRemove) =>
                                Own(u).file \in ToSet(FilesToRemove')
  PROVE  OpenedOK'
<1>1. /\ Own(t)'.file = file /\ TopGoes(t, pc)
      /\ \A u \in Threads \ {t} : Own(u)' = Own(u)
  BY DEF OwnGoes
<1>2. ASSUME NEW u \in Threads, Own(u)'.opened
      PROVE  Own(u).opened /\ Own(u)'.file = Own(u).file
  <2>1. CASE u = t
    BY <1>1, <1>2, <2>1
  <2>2. CASE u # t
    <3>1. Own(u)' = Own(u)
      BY <1>1, <2>2
    <3>. QED  BY <1>2, <3>1
  <2>. QED  BY <2>1, <2>2
<1>3. ASSUME NEW u \in Threads, OpenThere(u)' PROVE OpenThere(u) /\ Own(u)'.file = Own(u).file
  BY <1>2, <1>3 DEF OpenThere
<1>4. pc \notin LatePcs
  BY DEF LatePcs, ToolPcs
<1>5. Decided' => Decided
  BY <1>1, <1>4, DecidedGoes DEF SafeInv, FilesInv, BasicOK, TypesOK
<1>6. ASSUME NEW u \in Threads, OpenThere(u)'
      PROVE  Own(u)'.file \in late' \/ Own(u)'.file \in ToSet(FilesToRemove')
  <2>1. Own(u)'.opened
    BY <1>6 DEF OpenThere
  <2>2. Own(u).file \in late \/ Own(u).file \in ToSet(FilesToRemove)
    BY <1>3, <1>6 DEF SafeInv, OpenedOK
  <2>. QED  BY <1>3, <1>6, <2>1, <2>2
<1>7. ASSUME Decided', NEW u \in Threads, OpenThere(u)' PROVE Own(u)'.file \in late'
  BY <1>3, <1>5, <1>7 DEF SafeInv, OpenedOK
<1>8. ASSUME ~tool.Interruptible, tool.threads = {Main}, NEW u \in Threads, Own(u)'.opened
      PROVE  Own(u)'.file \notin late'
  BY <1>2, <1>8 DEF SafeInv, OpenedOK
<1>. QED  BY <1>6, <1>7, <1>8 DEF OpenedOK

\* A step that leaves the tool's code and the files, and lets no handler decide.
LEMMA OpenedQuiet ==
  ASSUME SafeInv, tool' = tool, OwnStays, UNCHANGED <<FilesToRemove, late, disk>>,
         Decided' => Decided,
         SafeTool /\ ~tool.Interruptible /\ killed' /\ Calm' =>
             (killed /\ Calm) \/ \A t \in Threads : ~Own(t).opened
  PROVE  OpenedOK'
<1>1. \A u \in Threads : Own(u)' = Own(u) /\ (OpenThere(u)' <=> OpenThere(u))
  BY DEF OwnStays, OpenThere
<1>2. ToSet(FilesToRemove') = ToSet(FilesToRemove)
  OBVIOUS
<1>3. \A u \in Threads : OpenThere(u)' =>
          Own(u)'.file \in late' \/ Own(u)'.file \in ToSet(FilesToRemove')
  BY <1>1, <1>2 DEF SafeInv, OpenedOK
<1>4. Decided' => \A u \in Threads : OpenThere(u)' => Own(u)'.file \in late'
  BY <1>1 DEF SafeInv, OpenedOK
<1>5. ~tool.Interruptible /\ tool.threads = {Main} =>
          \A u \in Threads : Own(u)'.opened => Own(u)'.file \notin late'
  BY <1>1 DEF SafeInv, OpenedOK
<1>6. SafeTool /\ ~tool.Interruptible /\ killed' /\ Calm' => \A u \in Threads : ~Own(u)'.opened
  BY <1>1 DEF SafeInv, OpenedOK
<1>. QED  BY <1>3, <1>4, <1>5, <1>6 DEF OpenedOK, SafeTool

\* The constructor opens the file.
LEMMA OpenedOpen ==
  ASSUME SafeInv, NEW t \in Threads, Open(t), OwnGoes(t, "work", Own(t).file),
         disk' = disk \cup {Own(t).file},
         late' = IF signals = tool.signals THEN late \ {Own(t).file}
                 ELSE late \cup {Own(t).file}
  PROVE  OpenedOK'
<1>. USE DEF SafeInv, FilesInv
<1>1. /\ StacksOK /\ Own(t).pc = "open" /\ Own(t).file \in Files /\ Own(t).file # "" /\ ~killed
      /\ ~Own(t).opened /\ UNCHANGED <<tool, signals, killed, FilesToRemove>>
  <2>1. Own(t).pc = "open" /\ Own(t).file \in Files
    BY OpenFacts
  <2>2. FrameOK(Own(t)) /\ Own(t) \in ToolFrames /\ StacksOK
    BY TopFacts DEF BasicOK, TypesOK, OwnOK, Own
  <2>. QED  BY <2>1, <2>2 DEF FrameOK, ToolFrames, Open, At, bounds, Remaining
<1>2. /\ Own(t)'.file = Own(t).file /\ TopGoes(t, "work") /\ Len(stack[t]) = 1
      /\ \A u \in Threads \ {t} : Own(u)' = Own(u) /\ Own(u).file # Own(t).file
  BY <1>1 DEF OwnGoes, FilesOK, Distinct
<1>3. \A u \in Threads \ {t} : /\ OpenThere(u)' <=> OpenThere(u)
                               /\ Own(u)'.file \in late' <=> Own(u).file \in late
  BY <1>2 DEF OpenThere
<1>4. Decided' => Decided
  <2>1. "work" \notin LatePcs
    BY DEF LatePcs
  <2>. QED  BY <1>1, <1>2, <2>1, DecidedGoes
<1>5. Untouched => Own(t).file \in ToSet(FilesToRemove)
  BY <1>1 DEF UntouchedOK, Listed, Busy
<1>6. ~Untouched => Own(t).file \in late'
  BY DEF Untouched
<1>7. Decided => ~Untouched
  BY <1>1, CalmUndecided DEF UntouchedOK
<1>8. ASSUME NEW u \in Threads, OpenThere(u)'
      PROVE  Own(u)'.file \in late' \/ Own(u)'.file \in ToSet(FilesToRemove')
  <2>1. CASE u = t
    BY <1>1, <1>2, <1>5, <1>6, <2>1
  <2>2. CASE u # t
    <3>1. OpenThere(u) /\ Own(u)'.file = Own(u).file
      BY <1>2, <1>3, <1>8, <2>2
    <3>2. Own(u).file \in late \/ Own(u).file \in ToSet(FilesToRemove)
      BY <3>1 DEF OpenedOK
    <3>. QED  BY <1>1, <1>3, <2>2, <3>1, <3>2
  <2>. QED  BY <2>1, <2>2
<1>9. ASSUME Decided', NEW u \in Threads, OpenThere(u)' PROVE Own(u)'.file \in late'
  <2>1. CASE u = t
    BY <1>2, <1>4, <1>6, <1>7, <1>9, <2>1
  <2>2. CASE u # t
    <3>1. OpenThere(u)
      BY <1>3, <1>9, <2>2
    <3>2. Own(u).file \in late
      BY <1>4, <1>9, <3>1 DEF OpenedOK
    <3>. QED  BY <1>3, <2>2, <3>2
  <2>. QED  BY <2>1, <2>2
<1>10. ASSUME ~tool.Interruptible, tool.threads = {Main}, NEW u \in Threads, Own(u)'.opened
       PROVE  Own(u)'.file \notin late'
  <2>1. CASE u = t
    <3>1. \A v \in Threads : v # t => Len(stack[v]) = 1
      <4>1. t = Main
        BY <1>1, <1>10 DEF BasicOK, OwnOK
      <4>. QED  BY <1>10, <4>1 DEF BasicOK, OwnOK
    <3>2. Calm
      BY <1>2, <3>1 DEF Calm
    <3>3. Untouched
      BY <1>1, <1>10, <3>2 DEF CalmOK, Untouched
    <3>. QED  BY <1>2, <2>1, <3>3 DEF Untouched
  <2>2. CASE u # t
    <3>1. Own(u)' = Own(u)
      BY <1>2, <2>2
    <3>2. Own(u).file \notin late
      BY <1>10, <3>1 DEF OpenedOK
    <3>. QED  BY <1>3, <2>2, <3>2
  <2>. QED  BY <2>1, <2>2
<1>11. ~killed'
  BY <1>1
<1>. QED  BY <1>1, <1>8, <1>9, <1>10, <1>11 DEF OpenedOK

LEMMA OpenedToolStep ==
  ASSUME SafeInv, NEW t \in Threads, ToolStep(t) \/ \E f \in Files : Construct(t, f)
  PROVE  OpenedOK'
<1>. USE DEF SafeInv, FilesInv
<1>0. /\ \A pc \in {"set", "idle", "push", "unlock", "register", "sigaction", "count", "open",
                    "work", "erase", "forget", "unlock at end"} : pc \in ToolPcs
      /\ disk \subseteq disk
  BY DEF ToolPcs
<1>1. CASE SetInterruptFunction(t)
  <2>1. OwnGoes(t, "register", Own(t).file) /\ Own(t)'.opened = Own(t).opened
    BY <1>1, SetFacts
  <2>2. ~killed' /\ UNCHANGED <<tool, late, disk, FilesToRemove>>
    BY <1>1 DEF SetInterruptFunction, At, bounds, names
  <2>. QED  BY <1>0, <2>1, <2>2, OpenedTool
<1>2. CASE \E f \in Files : Construct(t, f)
  <2>0. PICK f \in Files : Construct(t, f)
    BY <1>2
  <2>1. /\ OwnGoes(t, "push", f) /\ Own(t)'.opened = FALSE
        /\ UNCHANGED <<tool, disk, FilesToRemove, late>>
    BY <2>0, ConstructFacts
  <2>2. ~killed'
    BY <2>0 DEF Construct, At, Remaining
  <2>. QED  BY <1>0, <2>1, <2>2, OpenedTool
<1>3. CASE RemoveFileOnSignal(t)
  <2>1. /\ OwnGoes(t, "unlock", Own(t).file) /\ Own(t)'.opened = Own(t).opened
        /\ Own(t).file \in Files /\ FilesToRemove' = Append(FilesToRemove, Own(t).file)
    BY <1>3, PushFacts
  <2>2. ~killed' /\ UNCHANGED <<tool, late, disk>>
    BY <1>3 DEF RemoveFileOnSignal, At, bounds
  <2>3. \A g \in ToSet(FilesToRemove) : g \in ToSet(FilesToRemove')
    BY <2>1, Appended DEF BasicOK, TypesOK
  <2>. QED  BY <1>0, <2>1, <2>2, <2>3, OpenedTool
<1>4. CASE Unlock(t)
  <2>1. OwnGoes(t, "register", Own(t).file) /\ Own(t)'.opened = Own(t).opened
    BY <1>4, UnlockFacts
  <2>2. ~killed' /\ UNCHANGED <<tool, late, disk, FilesToRemove>>
    BY <1>4 DEF Unlock, At, bounds, names
  <2>. QED  BY <1>0, <2>1, <2>2, OpenedTool
<1>5. CASE RegisterHandlers(t)
  <2>1. PICK pc \in ToolPcs : OwnGoes(t, pc, Own(t).file) /\ Own(t)'.opened = Own(t).opened
    <3>1. /\ RegisterGoes(t) /\ Own(t).next \in ToolPcs /\ "sigaction" \in ToolPcs
          /\ Own(t)'.opened = Own(t).opened
      BY <1>0, <1>5, RegisterFacts
    <3>. QED  BY <3>1 DEF RegisterGoes
  <2>2. ~killed' /\ UNCHANGED <<tool, late, disk, FilesToRemove>>
    BY <1>5 DEF RegisterHandlers, At, bounds, names, Remaining
  <2>. QED  BY <1>0, <2>1, <2>2, OpenedTool
<1>6. CASE Sigaction(t)
  <2>1. OwnGoes(t, "count", Own(t).file) /\ Own(t)'.opened = Own(t).opened
    BY <1>6, SigactionFacts
  <2>2. ~killed' /\ UNCHANGED <<tool, late, disk, FilesToRemove>>
    BY <1>6 DEF Sigaction, At, bounds, names, Remaining
  <2>. QED  BY <1>0, <2>1, <2>2, OpenedTool
<1>7. CASE Count(t)
  <2>1. PICK pc \in ToolPcs : OwnGoes(t, pc, Own(t).file) /\ Own(t)'.opened = Own(t).opened
    <3>1. /\ CountGoes(t) /\ Own(t).next \in ToolPcs /\ "sigaction" \in ToolPcs
          /\ Own(t)'.opened = Own(t).opened
      BY <1>0, <1>7, CountFacts
    <3>. QED  BY <3>1 DEF CountGoes
  <2>2. ~killed' /\ UNCHANGED <<tool, late, disk, FilesToRemove>>
    BY <1>7 DEF Count, At, bounds, names, Remaining
  <2>. QED  BY <1>0, <2>1, <2>2, OpenedTool
<1>8. CASE Open(t)
  <2>1. OpenGoes(t)
    BY <1>8, OpenFacts
  <2>2. ~killed' /\ UNCHANGED <<tool, FilesToRemove>>
    BY <1>8 DEF Open, At, bounds, Remaining
  <2>3. CASE OwnGoes(t, "forget", Own(t).file) /\ ~Own(t)'.opened /\ UNCHANGED <<disk, late>>
    BY <1>0, <2>2, <2>3, OpenedTool
  <2>. QED  BY <1>8, <2>1, <2>3, OpenedOpen DEF OpenGoes
<1>9. CASE Finish(t)
  <2>1. OwnGoes(t, "erase", Own(t).file) /\ Own(t)'.opened = Own(t).opened
    BY <1>9, FinishFacts
  <2>2. ~killed' /\ UNCHANGED <<tool, late, disk, FilesToRemove>>
    BY <1>9 DEF Finish, At, bounds, names, Remaining
  <2>. QED  BY <1>0, <2>1, <2>2, OpenedTool
<1>10. CASE Erase(t)
  <2>1. /\ OwnGoes(t, "forget", Own(t).file) /\ Own(t)'.opened = Own(t).opened
        /\ disk' \subseteq disk
    BY <1>10, EraseFacts
  <2>2. ~killed' /\ UNCHANGED <<tool, late, FilesToRemove>>
    BY <1>10 DEF Erase, At, bounds, Remaining
  <2>. QED  BY <1>0, <2>1, <2>2, OpenedTool
<1>11. CASE DontRemoveFileOnSignal(t)
  <2>1. /\ OwnGoes(t, "unlock at end", Own(t).file) /\ ~Own(t)'.opened /\ Own(t).pc = "forget"
        /\ disk' = disk /\ late' = late
        /\ \A g : g \in ToSet(FilesToRemove') <=> g \in ToSet(FilesToRemove) /\ g # Own(t).file
    BY <1>11, ForgetFacts DEF FilesOK, ListOK
  <2>2. ~killed' /\ UNCHANGED tool
    BY <1>11 DEF DontRemoveFileOnSignal, At, bounds
  <2>3. Own(t).file # ""
    BY <2>1 DEF BasicOK, OwnOK, FrameOK
  <2>4. ASSUME NEW u \in Threads, Own(u)'.opened, Own(u).file \in ToSet(FilesToRemove)
        PROVE  Own(u).file \in ToSet(FilesToRemove')
    <3>1. u # t
      BY <2>1, <2>4
    <3>2. Own(u).file # Own(t).file
      BY <2>3, <3>1 DEF FilesOK, Distinct
    <3>. QED  BY <2>1, <2>4, <3>2
  <2>. QED  BY <1>0, <2>1, <2>2, <2>4, OpenedTool
<1>12. CASE Destroyed(t)
  <2>1. OwnGoes(t, "idle", "") /\ ~Own(t)'.opened
    BY <1>12, DestroyedFacts
  <2>2. ~killed' /\ UNCHANGED <<tool, late, disk, FilesToRemove>>
    BY <1>12 DEF Destroyed, At, bounds, names
  <2>. QED  BY <1>0, <2>1, <2>2, OpenedTool
<1>. QED  BY <1>1, <1>2, <1>3, <1>4, <1>5, <1>6, <1>7, <1>8, <1>9, <1>10, <1>11, <1>12 DEF ToolStep

\* What is in a sequence is its last element, or among those before.
LEMMA FrontOrLast ==
  ASSUME NEW S, NEW q \in Seq(S), q # <<>>, NEW f \in ToSet(q)
  PROVE  f = Last(q) \/ f \in ToSet(Front(q))
<1>1. /\ Front(q) \in Seq(S) /\ Len(Front(q)) = Len(q) - 1 /\ Len(q) \in Nat \ {0}
      /\ \A i \in 1 .. Len(q) - 1 : Front(q)[i] = q[i]
  BY Fronts
<1>2. PICK n \in Nat \ {0} : n = Len(q)
  BY <1>1
<1>3. DOMAIN q = 1 .. n /\ DOMAIN Front(q) = 1 .. n - 1
  BY <1>1, <1>2, LenProperties
<1>4. PICK i \in 1 .. n : q[i] = f
  BY <1>3 DEF ToSet
<1>5. CASE i = n
  BY <1>2, <1>4, <1>5 DEF Last
<1>6. CASE i # n
  <2>1. i \in 1 .. n - 1
    BY <1>6
  <2>. QED  BY <1>1, <1>2, <1>3, <1>4, <2>1 DEF ToSet
<1>. QED  BY <1>5, <1>6

\* A signal that comes, or comes again.
LEMMA OpenedComes ==
  ASSUME SafeInv, NEW t \in Threads, NEW pc, NEW s \in ToSet(AllSigs), Comes2(t, pc, s),
         Quiet(t), disk' = disk, pc \in LatePcs => Top(t).pc \in LatePcs,
         SafeTool /\ ~tool.Interruptible /\ disposition[s] = "default" /\ Calm =>
             \A u \in Threads : ~Own(u).opened
  PROVE  OpenedOK'
<1>1. StacksOK
  BY DEF SafeInv, FilesInv, BasicOK, TypesOK
<1>2. CASE disposition[s] = "default" /\ killed' = TRUE /\ UNCHANGED stack
  <2>1. (Decided' => Decided) /\ (Calm' => Calm)
    BY <1>2 DEF Decided, Calm
  <2>. QED  BY <1>2, <2>1, OpenedQuiet DEF Quiet
<1>3. CASE killed' = FALSE /\ HandlerRuns(t, pc, s)
  <2>1. Decided' => Decided
    BY <1>1, <1>3, DecidedSignal
  <2>. QED  BY <1>3, <2>1, OpenedQuiet DEF Quiet
<1>. QED  BY <1>2, <1>3 DEF Comes2

\* A tool that has registered its handlers is not killed by the first signal; one
\* that has not, has no file open.
LEMMA OpenedSignal ==
  ASSUME SafeInv, NEW t \in Threads, NEW s \in ToSet(AllSigs), Interrupt(t, s) \/ Crash(t, s)
  PROVE  OpenedOK'
<1>. USE DEF SafeInv, FilesInv
<1>1. Quiet(t) /\ disk' = disk /\ Comes2(t, Top(t).pc, s) /\ ~killed
  BY SignalFacts
<1>2. ASSUME SafeTool, ~tool.Interruptible, disposition[s] = "default", Calm, NEW u \in Threads
      PROVE  ~Own(u).opened
  <2>1. Registered \/ NotYet
    BY <1>1, <1>2 DEF CalmOK, UntouchedOK, Untouched
  <2>2. NotYet
    BY <1>2, <2>1 DEF Registered, AllSet
  <2>3. CASE u = Main
    BY <2>2, <2>3 DEF NotYet
  <2>4. CASE u # Main
    <3>1. Own(u).pc = "idle" /\ FrameOK(Own(u))
      BY <2>2, <2>4 DEF NotYet, BasicOK, OwnOK
    <3>. QED  BY <3>1 DEF FrameOK
  <2>. QED  BY <2>3, <2>4
<1>. QED  BY <1>1, <1>2, OpenedComes

\* A step of a handler that leaves the files.
LEMMA OpenedGoes ==
  ASSUME SafeInv, NEW t \in Threads, NEW pc, TopGoes(t, pc), Top(t).pc \in HandlerPcs,
         Quiet(t), disk' = disk, pc \in LatePcs => Top(t).pc \in LatePcs
  PROVE  OpenedOK'
<1>1. StacksOK
  BY DEF SafeInv, FilesInv, BasicOK, TypesOK
<1>2. Decided' => Decided
  BY <1>1, DecidedGoes
<1>3. ~Calm'
  <2>1. Len(stack[t]) # 1
    BY <1>1, Places
  <2>. QED  BY <2>1 DEF TopGoes, Calm
<1>. QED  BY <1>2, <1>3, OpenedQuiet DEF Quiet

\* The handler that removes the files: when the list is empty, none is left that was
\* opened before the first signal.
LEMMA OpenedRemove ==
  ASSUME SafeInv, NEW t \in Threads, RemoveFilesToRemove(t)
  PROVE  OpenedOK'
<1>. USE DEF SafeInv, FilesInv
<1>1. /\ StacksOK /\ OwnStays /\ Top(t).pc = "remove" /\ UNCHANGED <<tool, late, killed>>
      /\ IF FilesToRemove = <<>>
         THEN TopGoes(t, "decide") /\ UNCHANGED <<disk, FilesToRemove>>
         ELSE /\ disk' = disk \ {Last(FilesToRemove)} /\ UNCHANGED stack
              /\ FilesToRemove' = Front(FilesToRemove)
      /\ ~killed
  BY RemoveFacts DEF BasicOK, TypesOK, RemoveFilesToRemove, At, Remaining
<1>2. \A u \in Threads : Own(u)' = Own(u)
  BY <1>1 DEF OwnStays
<1>3. CASE FilesToRemove = <<>>
  <2>1. \A f : f \notin ToSet(FilesToRemove)
    <3>1. PICK q : q = FilesToRemove /\ q = <<>>
      BY <1>3
    <3>2. Len(q) = 0 /\ DOMAIN q = 1 .. 0 /\ \A i : i \notin 1 .. 0
      BY <3>1
    <3>. QED  BY <3>1, <3>2 DEF ToSet
  <2>2. \A u \in Threads : OpenThere(u)' => OpenThere(u)
    BY <1>1, <1>2, <1>3 DEF OpenThere
  <2>3. \A u \in Threads : OpenThere(u)' => Own(u)'.file \in late'
    BY <1>1, <1>2, <2>1, <2>2 DEF OpenedOK
  <2>4. ~tool.Interruptible /\ tool.threads = {Main} =>
            \A u \in Threads : Own(u)'.opened => Own(u)'.file \notin late'
    BY <1>1, <1>2 DEF OpenedOK
  <2>. QED  BY <1>1, <2>3, <2>4 DEF OpenedOK
<1>4. CASE FilesToRemove # <<>>
  <2>1. /\ disk' = disk \ {Last(FilesToRemove)} /\ UNCHANGED stack
        /\ FilesToRemove' = Front(FilesToRemove)
    BY <1>1, <1>4
  <2>2. \A f \in ToSet(FilesToRemove) : f = Last(FilesToRemove) \/ f \in ToSet(FilesToRemove')
    BY <1>4, <2>1, FrontOrLast DEF BasicOK, TypesOK
  <2>3. \A u \in Threads : OpenThere(u)' => OpenThere(u) /\ Own(u).file # Last(FilesToRemove)
    BY <1>2, <2>1 DEF OpenThere
  <2>4. Decided' => Decided
    BY <2>1 DEF Decided
  <2>5. \A u \in Threads : OpenThere(u)' =>
            Own(u)'.file \in late' \/ Own(u)'.file \in ToSet(FilesToRemove')
    BY <1>1, <1>2, <2>2, <2>3 DEF OpenedOK
  <2>6. Decided' => \A u \in Threads : OpenThere(u)' => Own(u)'.file \in late'
    BY <1>1, <1>2, <2>3, <2>4 DEF OpenedOK
  <2>7. ~tool.Interruptible /\ tool.threads = {Main} =>
            \A u \in Threads : Own(u)'.opened => Own(u)'.file \notin late'
    BY <1>1, <1>2 DEF OpenedOK
  <2>. QED  BY <1>1, <2>5, <2>6, <2>7 DEF OpenedOK
<1>. QED  BY <1>3, <1>4

LEMMA OpenedHandlerStep ==
  ASSUME SafeInv, NEW t \in Threads, HandlerStep(t)
  PROVE  OpenedOK'
<1>. USE DEF SafeInv, FilesInv
<1>0. /\ \A pc \in {"restore", "empty", "lock", "remove", "decide", "call", "raise", "fault",
                    "return"} : pc \in HandlerPcs
      /\ \A pc \in {"empty", "lock", "remove"} : pc \notin LatePcs
      /\ \A pc \in {"decide", "raise", "fault", "call", "return"} : pc \in LatePcs
      /\ StacksOK
  BY DEF HandlerPcs, LatePcs, BasicOK, TypesOK
<1>1. CASE Restore(t)
  BY <1>0, <1>1, RestoreFacts, OpenedGoes
<1>2. CASE UnregisterHandlers(t)
  BY <1>0, <1>2, EmptyFacts, OpenedGoes
<1>3. CASE Lock(t)
  BY <1>0, <1>3, LockFacts, OpenedGoes
<1>4. CASE RemoveFilesToRemove(t)
  BY <1>4, OpenedRemove
<1>5. CASE Decide(t)
  <2>1. PICK pc \in LatePcs : TopGoes(t, pc)
    BY <1>0, <1>5, DecideFacts
  <2>. QED  BY <1>0, <1>5, <2>1, DecideFacts, OpenedGoes
<1>6. CASE CallInterruptFunction(t)
  BY <1>0, <1>6, CallFacts, OpenedGoes
<1>7. ASSUME Top(t).pc \in LatePcs, Top(t).pc \in HandlerPcs, Quiet(t), disk' = disk,
             NEW pc, NEW s \in ToSet(AllSigs), Comes2(t, pc, s)
      PROVE  OpenedOK'
  <2>1. ~Calm
    BY <1>0, <1>7, Places DEF Calm
  <2>. QED  BY <1>7, <2>1, OpenedComes
<1>8. CASE Raise(t)
  BY <1>0, <1>7, <1>8, RaiseFacts
<1>9. CASE Fault(t)
  BY <1>0, <1>7, <1>9, FaultFacts
<1>10. CASE Return(t)
  <2>1. Quiet(t) /\ disk' = disk /\ Returns(t)
    BY <1>10, ReturnFacts
  <2>2. ~killed'
    BY <1>10 DEF Return, At, Remaining
  <2>3. Decided' => Decided
    BY <1>0, <2>1, DecidedReturn
  <2>. QED  BY <2>1, <2>2, <2>3, OpenedQuiet DEF Quiet
<1>. QED  BY <1>1, <1>2, <1>3, <1>4, <1>5, <1>6, <1>8, <1>9, <1>10 DEF HandlerStep

LEMMA SafeStep == SafeInv /\ [Next]_vars => SafeInv'
<1>. SUFFICES ASSUME SafeInv, [Next]_vars PROVE SafeInv'
  OBVIOUS
<1>. USE DEF SafeInv
<1>1. ASSUME UNCHANGED vars PROVE SafeInv'
  <2>1. FilesInv' /\ OwnStays
    BY <1>1, StopInv, NothingChanges DEF FilesInv
  <2>2. UNCHANGED <<tool, stack, killed, signals, FilesToRemove, late, disk, disposition, Num>>
    BY <1>1 DEF vars
  <2>3. (Calm' <=> Calm) /\ (Decided' <=> Decided)
    BY <2>2 DEF Calm, Decided
  <2>4. UntouchedOK'
    <3>1. \A u \in Threads : Own(u)' = Own(u)
      BY <2>1 DEF OwnStays
    <3>2. Listed' <=> Listed
      BY <2>2, <3>1 DEF Listed
    <3>3. Registered' <=> Registered
      BY <2>2, <3>1 DEF Registered, AllSet
    <3>4. LoopOK' <=> LoopOK
      BY <2>2, <3>1, SignalsAssumption DEF LoopOK
    <3>5. NotYet' <=> NotYet
      BY <2>2, <3>1, <3>4, SignalsAssumption DEF NotYet
    <3>. QED  BY <2>2, <2>3, <3>2, <3>3, <3>5 DEF UntouchedOK, Untouched, SafeTool
  <2>5. OpenedOK'
    BY <2>1, <2>2, <2>3, OpenedQuiet
  <2>. QED  BY <2>1, <2>4, <2>5
<1>2. ASSUME NEW t \in Threads, HandlerStep(t) PROVE SafeInv'
  BY <1>2, HandlerInv, UntouchedHandlerStep, OpenedHandlerStep
<1>3. ASSUME NEW t \in Threads, ToolStep(t) \/ \E f \in Files : Construct(t, f) PROVE SafeInv'
  BY <1>3, ToolInv, UntouchedToolStep, OpenedToolStep
<1>4. ASSUME NEW t \in Threads, NEW s \in ToSet(AllSigs), Interrupt(t, s) \/ Crash(t, s)
      PROVE  SafeInv'
  <2>1. FilesInv' /\ tool' = tool /\ signals' = signals - 1
    BY <1>4, SignalInv DEF Interrupt, Crash
  <2>2. UntouchedOK'
    BY <2>1, UntouchedSignal DEF FilesInv
  <2>. QED  BY <1>4, <2>1, <2>2, OpenedSignal
<1>5. CASE Stop
  BY <1>1, <1>5 DEF Stop
<1>. QED  BY <1>1, <1>2, <1>3, <1>4, <1>5 DEF Next

LEMMA InitSafe == Init => SafeInv
<1>. SUFFICES ASSUME Init PROVE SafeInv
  OBVIOUS
<1>1. FilesInv /\ UntouchedOK
  BY InitFilesInv, InitUntouched
<1>2. \A t \in Threads : ~Own(t).opened
  BY InitStacks
<1>3. Calm
  BY InitStacks DEF Calm
<1>4. ~Decided
  BY <1>1, <1>3, CalmUndecided DEF FilesInv, BasicOK, TypesOK
<1>. QED  BY <1>1, <1>2, <1>4 DEF SafeInv, OpenedOK, OpenThere

LEMMA HandledHolds ==
  ASSUME SafeInv, SafeTool
  PROVE  HandledLeavesNoFile
<1>. USE DEF SafeInv, FilesInv
<1>1. SUFFICES ASSUME killed, HandlersDone, ~tool.Interruptible, NEW f \in disk \cap Unfinished
               PROVE  f \in late /\ Cardinality(tool.threads) > 1
  BY DEF HandledLeavesNoFile
<1>2. StacksOK
  BY DEF BasicOK, TypesOK
<1>3. PICK t \in Threads : Own(t).file = f /\ Own(t).opened /\ OpenThere(t)
  <2>1. PICK t \in Threads : Head(stack[t]).file = f /\ Head(stack[t]).opened
    BY <1>1 DEF Unfinished
  <2>2. Head(stack[t]) = Own(t)
    BY <1>2, TopFacts
  <2>. QED  BY <1>1, <2>1, <2>2 DEF OpenThere
<1>4. ~Calm
  BY <1>1, <1>3 DEF OpenedOK
<1>5. PICK u \in Threads : Len(stack[u]) # 1
  BY <1>4 DEF Calm
<1>6. Decided
  <2>1. Top(u).pc \in LatePcs
    BY <1>1, <1>5 DEF HandlersDone, LatePcs
  <2>2. PICK n \in Nat \ {0} : n = Len(stack[u]) /\ Top(u) = stack[u][n]
    BY <1>2, TopFacts
  <2>3. n \in 1 .. Len(stack[u])
    BY <2>2
  <2>. QED  BY <2>1, <2>2, <2>3 DEF Decided
<1>7. f \in late
  BY <1>3, <1>6 DEF OpenedOK
<1>8. tool.threads # {Main}
  BY <1>1, <1>3, <1>7 DEF OpenedOK
<1>9. Cardinality(tool.threads) > 1
  <2>1. Main \in tool.threads /\ IsFiniteSet(tool.threads)
    BY SignalsAssumption, FS_Subset DEF BasicOK, TypesOK
  <2>2. PICK v \in tool.threads : v # Main
    BY <1>8, <2>1
  <2>3. {Main, v} \subseteq tool.threads /\ Cardinality({Main, v}) = 2
    <3>1. Cardinality({Main}) = 1 /\ IsFiniteSet({Main})
      BY FS_Singleton
    <3>2. {Main, v} = {Main} \cup {v} /\ v \notin {Main}
      BY <2>2
    <3>3. Cardinality({Main} \cup {v}) = 1 + 1
      BY <3>1, <3>2, FS_AddElement
    <3>. QED  BY <2>1, <2>2, <3>2, <3>3
  <2>4. 2 <= Cardinality(tool.threads) /\ Cardinality(tool.threads) \in Nat
    BY <2>1, <2>3, FS_Subset, FS_CardinalityType
  <2>. QED  BY <2>4
<1>. QED  BY <1>7, <1>9

(***************************************************************************)
(* Where no interrupt function is set, a signal whose handling is not cut  *)
(* short leaves no unfinished file of a tool with one thread, and of one   *)
(* with several whose main() has registered the handlers first none but    *)
(* those opened after the first signal came.  (Of a tool whose threads may *)
(* register the handlers at the same time it is false: RegisterHandlers()  *)
(* tests NumRegisteredSignals without the mutex.)                          *)
(***************************************************************************)
THEOREM SafeToolLeavesNoFile == Spec => [](SafeTool => HandledLeavesNoFile)
<1>1. SafeInv => (SafeTool => HandledLeavesNoFile)
  BY HandledHolds
<1>. QED  BY <1>1, InitSafe, SafeStep, PTL DEF Spec
=============================================================================
