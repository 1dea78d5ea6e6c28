------------------------ MODULE ManagedStatics_proofs ------------------------
(***************************************************************************)
(* What holds of lazily constructed globals whatever the number of threads *)
(* and statics, what their constructors and destructors use, and the order *)
(* in which stores reach other threads.                                    *)
(*                                                                         *)
(* The argument, in five layers, each kept by every step given those       *)
(* before it.  StackOK: under the top of a thread's stack there are only   *)
(* constructors, and at its bottom perhaps a destructor, of Main's.        *)
(* Visible: a thread hides stores only between construction and release of *)
(* the lock (PendingOK), so that whoever sees a pointer finds its object   *)
(* (SeenOK, TopsOK).  LockOK: the lock is held as often as there are       *)
(* operators on the holder's stack that have taken it.  OnceOK: what is    *)
(* being made ranks below what is being made around it and is not on the   *)
(* list, and a thread that has looked under the lock saw all that is.      *)
(* OrderOK: what anybody sees is on the list or on its way on or off it,   *)
(* and what a constructor has dereferenced is on the list before it is.    *)
(***************************************************************************)
EXTENDS ManagedStatics, SequenceTheorems, TLAPS

\* An element put in front of a sequence.
LEMMA Pushed ==
  ASSUME NEW S, NEW f \in S
  PROVE  LET q == <<f>> \o <<>>
         IN  q \in Seq(S) /\ Len(q) = 1 /\ q[1] = f /\ Head(q) = f /\ q # <<>>
<1>. <<f>> \in Seq(S) /\ Len(<<f>>) = 1  OBVIOUS
<1>. QED  BY ConcatEmptySeq

\* A sequence without its first element.
LEMMA Popped ==
  ASSUME NEW S, NEW s \in Seq(S), s # <<>>
  PROVE  /\ Tail(s) \in Seq(S) /\ Len(Tail(s)) = Len(s) - 1
         /\ Len(s) \in Nat \ {0}
         /\ \A i \in 1 .. Len(Tail(s)) : Tail(s)[i] = s[i + 1]
         /\ Tail(s) # <<>> => Len(s) > 1 /\ Head(Tail(s)) = s[2]
  BY HeadTailProperties, EmptySeq

\* A sequence whose first element has been replaced.
LEMMA Stepped ==
  ASSUME NEW S, NEW s \in Seq(S), s # <<>>, NEW f \in S
  PROVE  LET q == <<f>> \o Tail(s)
         IN  /\ q \in Seq(S) /\ q # <<>> /\ Len(q) = Len(s) /\ Len(q) \in Nat \ {0}
             /\ q[1] = f /\ Head(q) = f
             /\ \A i \in 2 .. Len(s) : q[i] = s[i]
<1> DEFINE q == <<f>> \o Tail(s)
<1>1. <<f>> \in Seq(S) /\ Len(<<f>>) = 1 /\ <<f>>[1] = f  OBVIOUS
<1>2. Tail(s) \in Seq(S) /\ Len(Tail(s)) = Len(s) - 1 /\ Len(s) \in Nat \ {0}
      /\ \A i \in 1 .. Len(Tail(s)) : Tail(s)[i] = s[i + 1]
  BY Popped
<1>3. q \in Seq(S) /\ Len(q) = 1 + Len(Tail(s))
      /\ \A i \in 1 .. 1 + Len(Tail(s)) : q[i] = IF i <= 1 THEN <<f>>[i] ELSE Tail(s)[i - 1]
  BY <1>1, <1>2, ConcatProperties
<1>4. Len(q) = Len(s) /\ q # <<>>
  BY <1>2, <1>3
<1>5. q[1] = f /\ Head(q) = f
  BY <1>1, <1>2, <1>3
<1>6. ASSUME NEW i \in 2 .. Len(s) PROVE q[i] = s[i]
  <2>1. i - 1 \in 1 .. Len(Tail(s)) /\ i \in 1 .. 1 + Len(Tail(s)) /\ ~(i <= 1) /\ (i - 1) + 1 = i
    BY <1>2
  <2>. QED  BY <1>2, <1>3, <2>1
<1>. QED  BY <1>2, <1>3, <1>4, <1>5, <1>6

\* A sequence whose first element has been replaced by two.
LEMMA NestedIn ==
  ASSUME NEW S, NEW s \in Seq(S), s # <<>>, NEW f \in S, NEW g \in S
  PROVE  LET q == <<f, g>> \o Tail(s)
         IN  /\ q \in Seq(S) /\ q # <<>> /\ Len(q) = Len(s) + 1 /\ Len(s) \in Nat \ {0}
             /\ q[1] = f /\ Head(q) = f /\ q[2] = g
             /\ \A i \in 3 .. Len(s) + 1 : q[i] = s[i - 1]
<1> DEFINE q == <<f, g>> \o Tail(s)
<1>1. <<f, g>> \in Seq(S) /\ Len(<<f, g>>) = 2 /\ <<f, g>>[1] = f /\ <<f, g>>[2] = g  OBVIOUS
<1>2. Tail(s) \in Seq(S) /\ Len(Tail(s)) = Len(s) - 1 /\ Len(s) \in Nat \ {0}
      /\ \A i \in 1 .. Len(Tail(s)) : Tail(s)[i] = s[i + 1]
  BY Popped
<1>3. q \in Seq(S) /\ Len(q) = 2 + Len(Tail(s))
      /\ \A i \in 1 .. 2 + Len(Tail(s)) : q[i] = IF i <= 2 THEN <<f, g>>[i] ELSE Tail(s)[i - 2]
  BY <1>1, <1>2, ConcatProperties
<1>4. Len(q) = Len(s) + 1 /\ q # <<>>
  BY <1>2, <1>3
<1>5. q[1] = f /\ Head(q) = f /\ q[2] = g
  BY <1>1, <1>2, <1>3
<1>6. ASSUME NEW i \in 3 .. Len(s) + 1 PROVE q[i] = s[i - 1]
  <2>1. i - 2 \in 1 .. Len(Tail(s)) /\ i \in 1 .. 2 + Len(Tail(s)) /\ ~(i <= 2) /\ (i - 2) + 1 = i - 1
    BY <1>2
  <2>. QED  BY <1>2, <1>3, <2>1
<1>. QED  BY <1>2, <1>3, <1>4, <1>5, <1>6
-----------------------------------------------------------------------------
(* Types, and what a thread's stack of operators looks like.               *)

TypesOK ==
    /\ multithreaded_mode \in BOOLEAN
    /\ holder \in Threads \cup {None} /\ depth \in Int
    /\ Ptr \in [Statics -> BOOLEAN] /\ built \in [Statics -> BOOLEAN]
    /\ pending \in [Threads -> SUBSET Stores]
    /\ StaticList \in Seq(Statics)
    /\ stack \in [Threads -> Seq(Frames)]
    /\ session \in [phase : {"on", "off", "shutdown"}, number : 1 .. MaxStarts]

\* Below the top there are only creators, and at the bottom a deleter, of Main.
\* Places that are about the lock are only reached in multithreaded mode.
FrameOK(t, i, frame) ==
    /\ frame.left \subseteq Uses[frame.of] \cup DeleterUses[frame.of]
    /\ i > 1 => frame.at \in {"create", "delete"}
    /\ frame.at = "delete" => i = Len(stack[t]) /\ t = Main /\ session.phase = "shutdown"
    /\ frame.at \in {"acquire", "check", "fence", "release"} => multithreaded_mode
    /\ ~multithreaded_mode \/ session.phase # "on" => t = Main
    /\ session.phase # "off"
StackOK == \A t \in Threads : \A i \in 1 .. Len(stack[t]) : FrameOK(t, i, stack[t][i])

\* The fields of a frame.
LEMMA FrameType ==
  ASSUME NEW s \in Statics, NEW at \in Places, NEW left \in SUBSET Statics
  PROVE  /\ Frame(s, at, left) \in Frames
         /\ Frame(s, at, left).of = s /\ Frame(s, at, left).at = at /\ Frame(s, at, left).left = left
  BY DEF Frame, Frames

\* The innermost operator of a thread that executes one.
LEMMA TopFacts ==
  ASSUME TypesOK, NEW t \in Threads, ~Idle(t)
  PROVE  /\ stack[t] \in Seq(Frames) /\ stack[t] # <<>>
         /\ Len(stack[t]) \in Nat \ {0} /\ 1 \in 1 .. Len(stack[t])
         /\ Head(stack[t]) = stack[t][1] /\ Head(stack[t]) \in Frames
         /\ Of(t) \in Statics /\ Left(t) \in SUBSET Statics /\ stack[t][1].at \in Places
         /\ \A at : At(t, at) <=> stack[t][1].at = at
<1>1. stack[t] \in Seq(Frames) /\ stack[t] # <<>>
  BY DEF TypesOK, Idle
<1>2. Len(stack[t]) \in Nat \ {0}
  BY <1>1, EmptySeq
<1>3. Head(stack[t]) \in Frames /\ Head(stack[t]) = stack[t][1]
  BY <1>1, HeadTailProperties
<1>. QED  BY <1>1, <1>2, <1>3 DEF Of, Left, At, Frames, Idle

\* What Step, Pop, Push and a nested dereference make of the stacks.
LEMMA StepShape ==
  ASSUME TypesOK, NEW t \in Threads, ~Idle(t),
         NEW at \in Places, NEW left \in SUBSET Statics, Step(t, at, left)
  PROVE  /\ stack' \in [Threads -> Seq(Frames)] /\ stack'[t] # <<>>
         /\ \A u \in Threads \ {t} : stack'[u] = stack[u]
         /\ Len(stack'[t]) = Len(stack[t]) /\ Head(stack'[t]) = Frame(Of(t), at, left)
         /\ stack'[t][1] = Frame(Of(t), at, left)
         /\ \A i \in 2 .. Len(stack[t]) : stack'[t][i] = stack[t][i]
<1>1. Frame(Of(t), at, left) \in Frames
  BY TopFacts, FrameType
<1>2. stack[t] \in Seq(Frames) /\ stack[t] # <<>>
  BY TopFacts
<1>3. stack' = [stack EXCEPT ![t] = <<Frame(Of(t), at, left)>> \o Tail(stack[t])]
  BY DEF Step
<1>. DEFINE q == <<Frame(Of(t), at, left)>> \o Tail(stack[t])
<1>4. q \in Seq(Frames) /\ q # <<>> /\ Len(q) = Len(stack[t]) /\ Head(q) = Frame(Of(t), at, left)
      /\ q[1] = Frame(Of(t), at, left) /\ \A i \in 2 .. Len(stack[t]) : q[i] = stack[t][i]
  BY <1>1, <1>2, Stepped
<1>5. stack'[t] = q /\ \A u \in Threads \ {t} : stack'[u] = stack[u]
  BY <1>3 DEF TypesOK
<1>6. stack' \in [Threads -> Seq(Frames)]
  <2>. HIDE DEF q
  <2>. QED  BY <1>3, <1>4, <1>5 DEF TypesOK
<1>. HIDE DEF q
<1>. QED  BY <1>4, <1>5, <1>6

\* A return takes the innermost operator off; the others move up.
LEMMA PopShape ==
  ASSUME TypesOK, NEW t \in Threads, ~Idle(t), Pop(t)
  PROVE  /\ stack' \in [Threads -> Seq(Frames)]
         /\ \A u \in Threads \ {t} : stack'[u] = stack[u]
         /\ Len(stack'[t]) = Len(stack[t]) - 1
         /\ \A i \in 1 .. Len(stack[t]) - 1 : stack'[t][i] = stack[t][i + 1]
         /\ stack'[t] # <<>> => Len(stack[t]) > 1 /\ Head(stack'[t]) = stack[t][2]
<1>1. stack[t] \in Seq(Frames) /\ stack[t] # <<>>
  BY TopFacts
<1>2. stack'[t] = Tail(stack[t]) /\ \A u \in Threads \ {t} : stack'[u] = stack[u]
  BY DEF Pop, TypesOK
<1>3. stack' \in [Threads -> Seq(Frames)]
  BY <1>1, <1>2, Popped DEF Pop, TypesOK
<1>. QED  BY <1>1, <1>2, <1>3, Popped

\* A thread that was idle executes one operator.
LEMMA PushShape ==
  ASSUME TypesOK, NEW t \in Threads, Idle(t), NEW frame \in Frames, Push(t, frame)
  PROVE  /\ stack' \in [Threads -> Seq(Frames)] /\ stack'[t] # <<>>
         /\ \A u \in Threads \ {t} : stack'[u] = stack[u]
         /\ Len(stack'[t]) = 1 /\ stack'[t][1] = frame /\ Head(stack'[t]) = frame
<1>1. stack'[t] = <<frame>> \o <<>> /\ \A u \in Threads \ {t} : stack'[u] = stack[u]
  BY DEF Push, TypesOK, Idle
<1>2. stack' \in [Threads -> Seq(Frames)]
  BY <1>1, Pushed DEF Push, TypesOK
<1>. QED  BY <1>1, <1>2, Pushed

\* The innermost operator gets another one inside; the outer ones move down.
LEMMA NestedShape ==
  ASSUME TypesOK, NEW t \in Threads, ~Idle(t), NEW u \in Left(t),
         stack' = [stack EXCEPT ![t] =
              <<Frame(u, "read", {}), Frame(Of(t), Head(@).at, Left(t) \ {u})>> \o Tail(@)]
  PROVE  /\ stack' \in [Threads -> Seq(Frames)] /\ stack'[t] # <<>>
         /\ \A x \in Threads \ {t} : stack'[x] = stack[x]
         /\ Len(stack'[t]) = Len(stack[t]) + 1
         /\ Head(stack'[t]) = Frame(u, "read", {})
         /\ stack'[t][1] = Frame(u, "read", {})
         /\ stack'[t][2] = Frame(Of(t), stack[t][1].at, Left(t) \ {u})
         /\ \A i \in 3 .. Len(stack[t]) + 1 : stack'[t][i] = stack[t][i - 1]
<1>. DEFINE f == Frame(u, "read", {})
            g == Frame(Of(t), Head(stack[t]).at, Left(t) \ {u})
            q == <<f, g>> \o Tail(stack[t])
<1>1. stack[t] \in Seq(Frames) /\ stack[t] # <<>> /\ Head(stack[t]) = stack[t][1]
  BY TopFacts
<1>2. u \in Statics /\ "read" \in Places /\ {} \in SUBSET Statics
  BY TopFacts DEF Places
<1>3. f \in Frames /\ g \in Frames
  BY <1>1, <1>2, TopFacts, FrameType
<1>4. q \in Seq(Frames) /\ q # <<>> /\ Len(q) = Len(stack[t]) + 1 /\ Head(q) = f
      /\ q[1] = f /\ q[2] = g /\ \A i \in 3 .. Len(stack[t]) + 1 : q[i] = stack[t][i - 1]
  <2>. HIDE DEF f, g
  <2>. QED  BY <1>1, <1>3, NestedIn
<1>5. stack'[t] = q /\ \A x \in Threads \ {t} : stack'[x] = stack[x]
  BY DEF TypesOK
<1>6. stack' \in [Threads -> Seq(Frames)]
  <2>1. stack' = [stack EXCEPT ![t] = q]
    OBVIOUS
  <2>. HIDE DEF q
  <2>. QED  BY <2>1, <1>4 DEF TypesOK
<1>7. g = Frame(Of(t), stack[t][1].at, Left(t) \ {u})
  BY <1>1
<1>. HIDE DEF q, g
<1>. QED  BY <1>4, <1>5, <1>6, <1>7

\* What of StackOK is about the top frame, and about those below.
LEMMA TopOK ==
  ASSUME TypesOK, StackOK, NEW t \in Threads, ~Idle(t)
  PROVE  FrameOK(t, 1, stack[t][1])
  BY TopFacts DEF StackOK

\* A stack keeps its shape when its top moves on,
LEMMA StepStack ==
  ASSUME TypesOK, StackOK, NEW t \in Threads, ~Idle(t),
         NEW at \in Places \ {"delete"}, NEW left \in SUBSET Statics, Step(t, at, left),
         left \subseteq Uses[Of(t)] \cup DeleterUses[Of(t)],
         at \in {"acquire", "check", "fence", "release"} => multithreaded_mode,
         UNCHANGED <<multithreaded_mode, session>>
  PROVE  StackOK'
<1>. SUFFICES ASSUME NEW u \in Threads, NEW i \in 1 .. Len(stack'[u])
              PROVE  FrameOK(u, i, stack[u][i])'
  BY DEF StackOK
<1>1. CASE u # t
  BY <1>1, StepShape DEF StackOK, FrameOK
<1>2. CASE u = t /\ i = 1
  <2>1. FrameOK(t, 1, stack[t][1])
    BY TopOK
  <2>2. stack'[t][1] = Frame(Of(t), at, left) /\ Of(t) \in Statics
    BY StepShape, TopFacts
  <2>. QED  BY <1>2, <2>1, <2>2, FrameType DEF FrameOK
<1>3. CASE u = t /\ i # 1
  <2>1. Len(stack[t]) \in Nat /\ Len(stack'[t]) = Len(stack[t])
    BY TopFacts, StepShape
  <2>2. i \in 2 .. Len(stack[t]) /\ i \in 1 .. Len(stack[t])
    BY <1>3, <2>1
  <2>3. stack'[t][i] = stack[t][i] /\ FrameOK(t, i, stack[t][i])
    BY <2>2, StepShape DEF StackOK
  <2>. QED  BY <1>3, <2>1, <2>3 DEF FrameOK
<1>. QED  BY <1>1, <1>2, <1>3

\* when the innermost operator returns,
LEMMA PopStack ==
  ASSUME TypesOK, StackOK, NEW t \in Threads, ~Idle(t), Pop(t),
         UNCHANGED <<multithreaded_mode, session>>
  PROVE  StackOK'
<1>. SUFFICES ASSUME NEW u \in Threads, NEW i \in 1 .. Len(stack'[u])
              PROVE  FrameOK(u, i, stack[u][i])'
  BY DEF StackOK
<1>1. CASE u # t
  <2>1. stack'[u] = stack[u]
    BY <1>1, PopShape
  <2>. QED  BY <2>1 DEF StackOK, FrameOK
<1>2. CASE u = t
  <2>1. Len(stack[t]) \in Nat \ {0} /\ Len(stack'[t]) = Len(stack[t]) - 1
    BY TopFacts, PopShape
  <2>2. i \in 1 .. Len(stack[t]) - 1 /\ i + 1 \in 1 .. Len(stack[t]) /\ i + 1 > 1
    BY <1>2, <2>1
  <2>3. stack'[t][i] = stack[t][i + 1] /\ FrameOK(t, i + 1, stack[t][i + 1])
    BY <2>2, PopShape DEF StackOK
  <2>. QED  BY <1>2, <2>1, <2>2, <2>3 DEF FrameOK
<1>. QED  BY <1>1, <1>2

\* when an idle thread starts one,
LEMMA PushStack ==
  ASSUME TypesOK, StackOK, NEW t \in Threads, Idle(t), NEW frame \in Frames, Push(t, frame),
         UNCHANGED <<multithreaded_mode, session>>,
         frame.left \subseteq Uses[frame.of] \cup DeleterUses[frame.of],
         frame.at = "read" \/ (frame.at = "delete" /\ t = Main /\ session.phase = "shutdown"),
         ~multithreaded_mode \/ session.phase # "on" => t = Main, session.phase # "off"
  PROVE  StackOK'
<1>. SUFFICES ASSUME NEW u \in Threads, NEW i \in 1 .. Len(stack'[u])
              PROVE  FrameOK(u, i, stack[u][i])'
  BY DEF StackOK
<1>1. CASE u # t
  BY <1>1, PushShape DEF StackOK, FrameOK
<1>2. CASE u = t
  <2>1. Len(stack'[t]) = 1 /\ stack'[t][1] = frame
    BY PushShape
  <2>2. i = 1
    BY <1>2, <2>1
  <2>. QED  BY <1>2, <2>1, <2>2 DEF FrameOK
<1>. QED  BY <1>1, <1>2

\* and when a creator or deleter does.
LEMMA NestedStack ==
  ASSUME TypesOK, StackOK, NEW t \in Threads, Nested(t)
  PROVE  StackOK' /\ stack' \in [Threads -> Seq(Frames)]
<1>1. ~Idle(t) /\ stack[t][1].at \in {"create", "delete"}
  <2>1. ~Idle(t)
    BY DEF Nested, At
  <2>. QED  BY <2>1, TopFacts DEF Nested
<1>2. PICK w \in Left(t) : stack' = [stack EXCEPT ![t] =
              <<Frame(w, "read", {}), Frame(Of(t), Head(@).at, Left(t) \ {w})>> \o Tail(@)]
  BY DEF Nested
<1>3. UNCHANGED <<multithreaded_mode, session>>
  BY DEF Nested
<1>4. /\ stack' \in [Threads -> Seq(Frames)]
      /\ \A x \in Threads \ {t} : stack'[x] = stack[x]
      /\ Len(stack'[t]) = Len(stack[t]) + 1
      /\ stack'[t][1] = Frame(w, "read", {})
      /\ stack'[t][2] = Frame(Of(t), stack[t][1].at, Left(t) \ {w})
      /\ \A i \in 3 .. Len(stack[t]) + 1 : stack'[t][i] = stack[t][i - 1]
  BY <1>1, <1>2, NestedShape
<1>5. /\ Len(stack[t]) \in Nat \ {0} /\ Of(t) \in Statics /\ Left(t) \in SUBSET Statics
      /\ stack[t][1].at \in Places /\ Head(stack[t]) = stack[t][1]
  BY <1>1, TopFacts
<1>6. FrameOK(t, 1, stack[t][1]) /\ stack[t][1].left = Left(t) /\ stack[t][1].of = Of(t)
  BY <1>1, <1>5, TopOK DEF Left, Of
<1>. SUFFICES ASSUME NEW u \in Threads, NEW i \in 1 .. Len(stack'[u])
              PROVE  FrameOK(u, i, stack[u][i])'
  BY <1>4 DEF StackOK
<1>7. CASE u # t
  BY <1>3, <1>4, <1>7 DEF StackOK, FrameOK
<1>8. CASE u = t /\ i = 1
  <2>1. w \in Statics /\ "read" \in Places /\ {} \in SUBSET Statics
    BY <1>5 DEF Places
  <2>2. Frame(w, "read", {}).at = "read" /\ Frame(w, "read", {}).left = {}
    BY <2>1, FrameType
  <2>. QED  BY <1>3, <1>4, <1>6, <1>8, <2>2 DEF FrameOK
<1>9. CASE u = t /\ i = 2
  <2>1. Left(t) \ {w} \in SUBSET Statics
    BY <1>5
  <2>2. /\ stack'[t][2].at = stack[t][1].at /\ stack'[t][2].of = Of(t)
        /\ stack'[t][2].left = Left(t) \ {w}
    <3>. DEFINE g == Frame(Of(t), stack[t][1].at, Left(t) \ {w})
    <3>1. g.at = stack[t][1].at /\ g.of = Of(t) /\ g.left = Left(t) \ {w}
      BY <1>5, <2>1, FrameType
    <3>. QED  BY <1>4, <3>1
  <2>3. stack[t][1].at = "delete" => 2 = Len(stack'[t]) /\ t = Main /\ session.phase = "shutdown"
    BY <1>4, <1>5, <1>6 DEF FrameOK
  <2>4. /\ stack[t][1].at \notin {"acquire", "check", "fence", "release"}
        /\ Left(t) \ {w} \subseteq Uses[Of(t)] \cup DeleterUses[Of(t)]
        /\ ~multithreaded_mode \/ session.phase # "on" => t = Main
        /\ session.phase # "off"
    BY <1>1, <1>6 DEF FrameOK
  <2>. HIDE DEF TypesOK, StackOK
  <2>. QED  BY <1>1, <1>3, <1>9, <2>2, <2>3, <2>4 DEF FrameOK
<1>10. CASE u = t /\ i \notin {1, 2}
  <2>1. i \in 3 .. Len(stack[t]) + 1 /\ i - 1 \in 1 .. Len(stack[t]) /\ i - 1 > 1
    BY <1>4, <1>5, <1>10
  <2>2. stack'[t][i] = stack[t][i - 1] /\ FrameOK(t, i - 1, stack[t][i - 1])
    BY <1>4, <2>1 DEF StackOK
  <2>. QED  BY <1>3, <1>4, <1>5, <1>10, <2>1, <2>2 DEF FrameOK
<1>. QED  BY <1>7, <1>8, <1>9, <1>10

\* What is assumed of the constants, one by one.
LEMMA ConstantTypes ==
  /\ Main \in Threads /\ None \notin Threads /\ MaxStarts \in Nat \ {0}
  /\ \A s \in Statics : Uses[s] \in SUBSET Statics /\ DeleterUses[s] \in SUBSET Statics
  BY StaticsAssumption

\* The memory keeps its type when all stores of a thread reach it.
LEMMA DrainTypes ==
  ASSUME TypesOK, NEW t \in Threads, Drain(t)
  PROVE  /\ Ptr' \in [Statics -> BOOLEAN] /\ built' \in [Statics -> BOOLEAN]
         /\ pending' \in [Threads -> SUBSET Stores]
  BY DEF TypesOK, Drain, PtrSeen, BuiltSeen

\* The two stores that publish a static.
LEMMA PtrStore == \A s \in Statics : Store("ptr", s) \in Stores /\ Store("built", s) \in Stores
  BY DEF Store, Stores

\* A step of an operator keeps the types and the shape of the stacks.
LEMMA OperatorStack ==
  ASSUME TypesOK, StackOK, NEW t \in Threads, Operator(t)
  PROVE  TypesOK' /\ StackOK'
<1>1. ~Idle(t)
  BY DEF Operator, ReadPtr, Acquire, Check, Nested, Create, MemoryFence, Publish, Release, Use, At
<1>2. /\ Of(t) \in Statics /\ Left(t) \in SUBSET Statics /\ {} \in SUBSET Statics
      /\ Uses[Of(t)] \in SUBSET Statics
      /\ {"use", "acquire", "create", "check", "release", "fence", "publish"}
            \subseteq Places \ {"delete"}
      /\ Main \in Threads
  BY <1>1, TopFacts, ConstantTypes DEF Places
<1>3. FrameOK(t, 1, stack[t][1]) /\ \A at : At(t, at) <=> stack[t][1].at = at
  BY <1>1, TopOK, TopFacts
<1>4. ASSUME NEW at \in Places \ {"delete"}, NEW left \in SUBSET Statics, Step(t, at, left)
      PROVE  stack' \in [Threads -> Seq(Frames)]
  BY <1>1, <1>4, StepShape
<1>5. CASE ReadPtr(t)
  <2>. DEFINE at == IF PtrSeen(t, Of(t)) THEN "use"
                    ELSE IF multithreaded_mode THEN "acquire" ELSE "create"
              left == IF PtrSeen(t, Of(t)) \/ multithreaded_mode THEN {} ELSE Uses[Of(t)]
  <2>1. /\ at \in Places \ {"delete"} /\ left \in SUBSET Statics /\ Step(t, at, left)
        /\ left \subseteq Uses[Of(t)] \cup DeleterUses[Of(t)]
        /\ at \in {"acquire", "check", "fence", "release"} => multithreaded_mode
        /\ UNCHANGED <<multithreaded_mode, session>>
    BY <1>2, <1>5 DEF ReadPtr
  <2>2. StackOK' /\ stack' \in [Threads -> Seq(Frames)]
    <3>. HIDE DEF at, left
    <3>. QED  BY <1>1, <1>4, <2>1, StepStack
  <2>. QED  BY <1>5, <2>2, DrainTypes DEF ReadPtr, TypesOK, lockVars, memVars
<1>6. CASE Acquire(t)
  <2>1. StackOK' /\ stack' \in [Threads -> Seq(Frames)]
    BY <1>1, <1>2, <1>3, <1>4, <1>6, StepStack DEF Acquire, FrameOK
  <2>. QED  BY <1>6, <2>1 DEF Acquire, TypesOK, memVars
<1>7. CASE Check(t)
  <2>1. StackOK' /\ stack' \in [Threads -> Seq(Frames)]
    <3>1. CASE PtrSeen(t, Of(t))
      BY <1>1, <1>2, <1>3, <1>4, <1>7, <3>1, StepStack DEF Check, FrameOK
    <3>2. CASE ~PtrSeen(t, Of(t))
      BY <1>1, <1>2, <1>3, <1>4, <1>7, <3>2, StepStack DEF Check, FrameOK
    <3>. QED  BY <3>1, <3>2
  <2>. QED  BY <1>7, <2>1 DEF Check, TypesOK, lockVars, memVars
<1>8. CASE Nested(t)
  <2>1. StackOK' /\ stack' \in [Threads -> Seq(Frames)]
    BY <1>8, NestedStack
  <2>. QED  BY <1>8, <2>1 DEF Nested, TypesOK, lockVars, memVars
<1>9. CASE Create(t)
  <2>1. StackOK' /\ stack' \in [Threads -> Seq(Frames)]
    <3>1. CASE multithreaded_mode
      BY <1>1, <1>2, <1>4, <1>9, <3>1, StepStack DEF Create
    <3>2. CASE ~multithreaded_mode
      BY <1>1, <1>2, <1>4, <1>9, <3>2, StepStack DEF Create
    <3>. QED  BY <3>1, <3>2
  <2>. QED  BY <1>2, <1>9, <2>1, PtrStore DEF Create, TypesOK, lockVars
<1>10. CASE MemoryFence(t)
  <2>1. StackOK' /\ stack' \in [Threads -> Seq(Frames)]
    BY <1>1, <1>2, <1>4, <1>10, StepStack DEF MemoryFence
  <2>. QED  BY <1>10, <2>1, DrainTypes DEF MemoryFence, TypesOK, lockVars
<1>11. CASE Publish(t)
  <2>1. StackOK' /\ stack' \in [Threads -> Seq(Frames)]
    <3>1. CASE multithreaded_mode
      BY <1>1, <1>2, <1>4, <1>11, <3>1, StepStack DEF Publish
    <3>2. CASE ~multithreaded_mode
      BY <1>1, <1>2, <1>4, <1>11, <3>2, StepStack DEF Publish
    <3>. QED  BY <3>1, <3>2
  <2>2. StaticList' \in Seq(Statics)
    <3>1. <<Of(t)>> \in Seq(Statics)
      BY <1>2
    <3>. QED  BY <1>11, <3>1, ConcatProperties DEF Publish, TypesOK
  <2>. QED  BY <1>2, <1>11, <2>1, <2>2, PtrStore DEF Publish, TypesOK, lockVars
<1>12. CASE Release(t)
  <2>1. StackOK' /\ stack' \in [Threads -> Seq(Frames)]
    BY <1>1, <1>2, <1>4, <1>12, StepStack DEF Release
  <2>. QED  BY <1>12, <2>1, DrainTypes DEF Release, TypesOK
<1>13. CASE Use(t)
  <2>1. StackOK' /\ stack' \in [Threads -> Seq(Frames)]
    BY <1>1, <1>13, PopStack, PopShape DEF Use
  <2>. QED  BY <1>13, <2>1 DEF Use, TypesOK, lockVars, memVars
<1>. QED  BY <1>5, <1>6, <1>7, <1>8, <1>9, <1>10, <1>11, <1>12, <1>13 DEF Operator

\* So does every other step.
LEMMA NextStack ==
  ASSUME TypesOK, StackOK, [Next]_vars
  PROVE  TypesOK' /\ StackOK'
<1>1. ASSUME NEW t \in Threads, Reach(t) PROVE TypesOK' /\ StackOK'
  <2>1. TypesOK'
    BY <1>1 DEF Reach, TypesOK, lockVars, Stores
  <2>. QED  BY <1>1, <2>1 DEF Reach, StackOK, FrameOK
<1>2. ASSUME NEW t \in Threads, NEW s \in Statics, Dereference(t, s) PROVE TypesOK' /\ StackOK'
  <2>1. Frame(s, "read", {}) \in Frames /\ Frame(s, "read", {}).at = "read"
        /\ Frame(s, "read", {}).left = {}
    BY FrameType DEF Places
  <2>2. StackOK' /\ stack' \in [Threads -> Seq(Frames)]
    BY <1>2, <2>1, PushStack, PushShape DEF Dereference
  <2>. QED  BY <1>2, <2>2 DEF Dereference, TypesOK, lockVars, memVars
<1>3. CASE llvm_start_multithreaded
  <2>1. \A t \in Threads : Len(stack'[t]) = 0
    BY <1>3 DEF llvm_start_multithreaded, AllIdle, Idle
  <2>. QED  BY <1>3, <2>1, DrainTypes, ConstantTypes DEF llvm_start_multithreaded, TypesOK, StackOK
<1>4. CASE llvm_shutdown
  <2>1. \A t \in Threads : Len(stack'[t]) = 0
    BY <1>4 DEF llvm_shutdown, AllIdle, Idle
  <2>. QED  BY <1>4, <2>1 DEF llvm_shutdown, TypesOK, StackOK, lockVars, memVars
<1>5. CASE Restart
  <2>1. \A t \in Threads : Len(stack[t]) \in Nat /\ (1 \in 1 .. Len(stack[t]) => session.phase # "off")
    BY EmptySeq DEF TypesOK, StackOK, FrameOK
  <2>2. \A t \in Threads : Len(stack'[t]) = 0
    BY <1>5, <2>1 DEF Restart
  <2>3. session' \in [phase : {"on", "off", "shutdown"}, number : 1 .. MaxStarts]
    BY <1>5, ConstantTypes DEF Restart, TypesOK
  <2>. QED  BY <1>5, <2>2, <2>3 DEF Restart, TypesOK, StackOK, lockVars, memVars
<1>6. CASE Destroy
  <2>1. Head(StaticList) \in Statics /\ StaticList' \in Seq(Statics)
    BY <1>6, HeadTailProperties DEF Destroy, TypesOK
  <2>. DEFINE fr == Frame(Head(StaticList), "delete", DeleterUses[Head(StaticList)])
  <2>2. fr \in Frames /\ fr.at = "delete" /\ fr.of = Head(StaticList)
        /\ fr.left = DeleterUses[Head(StaticList)]
    BY <2>1, FrameType, ConstantTypes DEF Places
  <2>3. StackOK' /\ stack' \in [Threads -> Seq(Frames)]
    <3>1. Push(Main, fr) /\ Idle(Main) /\ session.phase = "shutdown"
          /\ UNCHANGED <<multithreaded_mode, session>>
      BY <1>6 DEF Destroy
    <3>. HIDE DEF fr
    <3>. QED  BY <2>2, <3>1, PushStack, PushShape, ConstantTypes
  <2>. QED  BY <1>6, <2>1, <2>3 DEF Destroy, TypesOK, lockVars, memVars
<1>7. CASE Destroyed
  <2>1. StackOK' /\ stack' \in [Threads -> Seq(Frames)]
    BY <1>7, PopStack, PopShape, ConstantTypes DEF Destroyed, At
  <2>. QED  BY <1>7, <2>1 DEF Destroyed, TypesOK, lockVars
<1>8. CASE llvm_stop_multithreaded
  <2>1. \A t \in Threads : Len(stack[t]) \in Nat /\ (1 \in 1 .. Len(stack[t]) => t = Main)
    BY <1>8, EmptySeq DEF TypesOK, StackOK, FrameOK, llvm_stop_multithreaded
  <2>2. \A t \in Threads : Len(stack'[t]) = 0
    BY <1>8, <2>1, EmptySeq, ConstantTypes DEF llvm_stop_multithreaded, Idle
  <2>3. session' \in [phase : {"on", "off", "shutdown"}, number : 1 .. MaxStarts]
    BY <1>8 DEF llvm_stop_multithreaded, TypesOK
  <2>4. /\ Ptr' \in [Statics -> BOOLEAN] /\ built' \in [Statics -> BOOLEAN]
        /\ pending' \in [Threads -> SUBSET Stores]
    BY <1>8, DrainTypes, ConstantTypes DEF llvm_stop_multithreaded
  <2>5. StackOK'
    BY <2>2 DEF StackOK
  <2>6. UNCHANGED <<holder, depth, StaticList, stack>> /\ multithreaded_mode' = FALSE
    BY <1>8 DEF llvm_stop_multithreaded, lockVars
  <2>. QED  BY <2>3, <2>4, <2>5, <2>6 DEF TypesOK
<1>9. CASE UNCHANGED vars
  BY <1>9 DEF vars, TypesOK, StackOK, FrameOK, lockVars, memVars
<1>. QED  BY <1>1, <1>2, <1>3, <1>4, <1>5, <1>6, <1>7, <1>8, <1>9, OperatorStack
          DEF Next, Shutdown, Finished
-----------------------------------------------------------------------------
(* What a thread sees.                                                     *)

\* Between constructing an object and releasing the lock a thread has stores that
\* others do not see; without threads Main may have some at any time.
PendingOK ==
    \A t \in Threads : pending[t] # {} =>
        IF multithreaded_mode THEN At(t, "fence") \/ At(t, "release") ELSE t = Main
\* Who sees a pointer finds the object: in memory, when there are other threads.
SeenOK ==
    IF multithreaded_mode THEN \A t \in Threads, s \in Statics : PtrSeen(t, s) => built[s]
                          ELSE \A s \in Statics : PtrSeen(Main, s) => BuiltSeen(Main, s)
TopsOK ==
    \A t \in Threads :
        /\ At(t, "use") \/ At(t, "release") => PtrSeen(t, Of(t))
        /\ At(t, "fence") => BuiltSeen(t, Of(t))
        /\ At(t, "publish") => IF multithreaded_mode THEN built[Of(t)] ELSE BuiltSeen(t, Of(t))
Visible == PendingOK /\ SeenOK /\ TopsOK

\* Nothing that a thread saw is gone.
Grows ==
    \A u \in Threads, s \in Statics :
        /\ PtrSeen(u, s) => PtrSeen(u, s)'
        /\ BuiltSeen(u, s) => BuiltSeen(u, s)'
        /\ built[s] => built'[s]

\* All stores of t reach memory: t sees what it saw, the others no less.
LEMMA DrainSeen ==
  ASSUME TypesOK, NEW t \in Threads, Drain(t)
  PROVE  /\ \A s \in Statics : /\ Ptr'[s] <=> PtrSeen(t, s)
                               /\ built'[s] <=> BuiltSeen(t, s)
                               /\ PtrSeen(t, s)' <=> PtrSeen(t, s)
                               /\ BuiltSeen(t, s)' <=> BuiltSeen(t, s)
         /\ pending'[t] = {} /\ \A u \in Threads \ {t} : pending'[u] = pending[u]
         /\ Grows
  BY DEF TypesOK, Drain, PtrSeen, BuiltSeen, Grows

\* Where the threads are after a change of t's stack.
LEMMA StepTop ==
  ASSUME TypesOK, NEW t \in Threads, ~Idle(t),
         NEW at \in Places, NEW left \in SUBSET Statics, Step(t, at, left)
  PROVE  /\ \A x : At(t, x)' <=> x = at
         /\ Of(t)' = Of(t) /\ ~Idle(t)'
         /\ \A u \in Threads \ {t} : Of(u)' = Of(u) /\ \A x : At(u, x)' <=> At(u, x)
<1>1. Of(t) \in Statics
  BY TopFacts
<1>2. Frame(Of(t), at, left).of = Of(t) /\ Frame(Of(t), at, left).at = at
  BY <1>1, FrameType
<1>3. Head(stack'[t]) = Frame(Of(t), at, left) /\ stack'[t] # <<>>
      /\ \A u \in Threads \ {t} : stack'[u] = stack[u]
  BY StepShape
<1>. QED  BY <1>2, <1>3 DEF At, Of, Idle

\* Below the innermost operator there are only creators and deleters.
LEMMA PopTop ==
  ASSUME TypesOK, StackOK, NEW t \in Threads, ~Idle(t), Pop(t)
  PROVE  /\ \A x : At(t, x)' => x \in {"create", "delete"}
         /\ \A u \in Threads \ {t} : Of(u)' = Of(u) /\ \A x : At(u, x)' <=> At(u, x)
<1>1. stack'[t] # <<>> => Len(stack[t]) > 1 /\ Head(stack'[t]) = stack[t][2]
  BY PopShape
<1>2. \A u \in Threads \ {t} : stack'[u] = stack[u]
  BY PopShape
<1>3. Len(stack[t]) \in Nat
  BY TopFacts
<1>4. Len(stack[t]) > 1 => stack[t][2].at \in {"create", "delete"}
  BY <1>3 DEF StackOK, FrameOK
<1>. QED  BY <1>1, <1>2, <1>4 DEF At, Of, Idle

\* The operator an idle thread starts becomes its top.
LEMMA PushTop ==
  ASSUME TypesOK, NEW t \in Threads, Idle(t), NEW frame \in Frames, Push(t, frame)
  PROVE  /\ \A x : At(t, x)' <=> x = frame.at
         /\ \A u \in Threads \ {t} : Of(u)' = Of(u) /\ \A x : At(u, x)' <=> At(u, x)
<1>1. Head(stack'[t]) = frame /\ stack'[t] # <<>> /\ \A u \in Threads \ {t} : stack'[u] = stack[u]
  BY PushShape
<1>. QED  BY <1>1 DEF At, Of, Idle

\* So does the one that a creator or deleter starts.
LEMMA NestedTop ==
  ASSUME TypesOK, NEW t \in Threads, Nested(t)
  PROVE  /\ \A x : At(t, x)' <=> x = "read"
         /\ \A u \in Threads \ {t} : Of(u)' = Of(u) /\ \A x : At(u, x)' <=> At(u, x)
<1>1. ~Idle(t)
  BY DEF Nested, At
<1>2. PICK w \in Left(t) : stack' = [stack EXCEPT ![t] =
              <<Frame(w, "read", {}), Frame(Of(t), Head(@).at, Left(t) \ {w})>> \o Tail(@)]
  BY DEF Nested
<1>3. Head(stack'[t]) = Frame(w, "read", {}) /\ stack'[t] # <<>>
      /\ \A u \in Threads \ {t} : stack'[u] = stack[u]
  BY <1>1, <1>2, NestedShape
<1>4. Frame(w, "read", {}).at = "read"
  BY <1>1, TopFacts, FrameType DEF Places
<1>. QED  BY <1>3, <1>4 DEF At, Of, Idle

\* Where nothing that t sees changes, the other threads' part stays as it was.
LEMMA OthersTops ==
  ASSUME TypesOK, TopsOK, Grows, NEW t \in Threads, multithreaded_mode' = multithreaded_mode,
         \A u \in Threads : ~Idle(u) => Of(u) \in Statics,
         \A u \in Threads \ {t} : Of(u)' = Of(u) /\ \A x : At(u, x)' <=> At(u, x),
         /\ At(t, "use")' \/ At(t, "release")' => PtrSeen(t, Of(t))'
         /\ At(t, "fence")' => BuiltSeen(t, Of(t))'
         /\ At(t, "publish")' => IF multithreaded_mode THEN built'[Of(t)'] ELSE BuiltSeen(t, Of(t))'
  PROVE  TopsOK'
<1>. SUFFICES ASSUME NEW u \in Threads
              PROVE  /\ At(u, "use")' \/ At(u, "release")' => PtrSeen(u, Of(u))'
                     /\ At(u, "fence")' => BuiltSeen(u, Of(u))'
                     /\ At(u, "publish")' => IF multithreaded_mode' THEN built'[Of(u)']
                                                                    ELSE BuiltSeen(u, Of(u))'
  BY DEF TopsOK
<1>1. CASE u = t
  BY <1>1
<1>2. CASE u # t
  <2>1. Of(u)' = Of(u) /\ \A x : At(u, x)' <=> At(u, x)
    BY <1>2
  <2>2. \A x : At(u, x) => Of(u) \in Statics
    BY DEF At
  <2>3. \A s \in Statics : /\ PtrSeen(u, s) => PtrSeen(u, s)'
                           /\ BuiltSeen(u, s) => BuiltSeen(u, s)'
                           /\ built[s] => built'[s]
    BY DEF Grows
  <2>4. PtrSeen(u, Of(u))' <=> Ptr'[Of(u)'] \/ Store("ptr", Of(u)') \in pending'[u]
    BY DEF PtrSeen
  <2>5. BuiltSeen(u, Of(u))' <=> built'[Of(u)'] \/ Store("built", Of(u)') \in pending'[u]
    BY DEF BuiltSeen
  <2>6. /\ At(u, "use") \/ At(u, "release") => PtrSeen(u, Of(u))
        /\ At(u, "fence") => BuiltSeen(u, Of(u))
        /\ At(u, "publish") => IF multithreaded_mode THEN built[Of(u)] ELSE BuiltSeen(u, Of(u))
    BY DEF TopsOK
  <2>7. \A s \in Statics : /\ PtrSeen(u, s) => Ptr'[s] \/ Store("ptr", s) \in pending'[u]
                           /\ BuiltSeen(u, s) => built'[s] \/ Store("built", s) \in pending'[u]
    BY <2>3 DEF PtrSeen, BuiltSeen
  <2>. QED  BY <2>1, <2>2, <2>3, <2>4, <2>5, <2>6, <2>7
<1>. QED  BY <1>1, <1>2

\* A step that changes no memory makes nothing visible or invisible.
LEMMA SameMemory ==
  ASSUME TypesOK, UNCHANGED memVars
  PROVE  /\ Grows
         /\ SeenOK /\ multithreaded_mode' = multithreaded_mode => SeenOK'
         /\ \A u \in Threads, s \in Statics : /\ PtrSeen(u, s)' <=> PtrSeen(u, s)
                                              /\ BuiltSeen(u, s)' <=> BuiltSeen(u, s)
  BY DEF memVars, Grows, SeenOK, PtrSeen, BuiltSeen

\* A store more that only t sees.
LEMMA OneMoreStore ==
  ASSUME TypesOK, NEW t \in Threads, NEW st \in Stores, UNCHANGED <<Ptr, built>>,
         pending' = [pending EXCEPT ![t] = @ \cup {st}]
  PROVE  /\ Grows
         /\ pending'[t] = pending[t] \cup {st}
         /\ \A u \in Threads \ {t} : pending'[u] = pending[u]
  BY DEF TypesOK, Grows, PtrSeen, BuiltSeen

\* No step of an operator shows a thread a pointer without its object.
LEMMA OperatorVisible ==
  ASSUME TypesOK, StackOK, Visible, NEW t \in Threads, Operator(t)
  PROVE  Visible'
<1>1. ~Idle(t)
  BY DEF Operator, ReadPtr, Acquire, Check, Nested, Create, MemoryFence, Publish, Release, Use, At
<1>2. /\ Of(t) \in Statics /\ {} \in SUBSET Statics /\ Uses[Of(t)] \in SUBSET Statics
      /\ {"use", "acquire", "create", "check", "release", "fence", "publish"} \subseteq Places
  BY <1>1, TopFacts, ConstantTypes DEF Places
<1>3. ~multithreaded_mode => t = Main
  BY <1>1, TopOK DEF FrameOK
<1>4. \A u \in Threads : ~Idle(u) => Of(u) \in Statics
  BY TopFacts
<1>5. \A x, y : At(t, x) /\ At(t, y) => x = y
  BY DEF At
<1>6. PendingOK /\ SeenOK /\ TopsOK /\ multithreaded_mode' = multithreaded_mode
  BY DEF Visible, Operator, ReadPtr, Acquire, Check, Nested, Create, MemoryFence, Publish,
         Release, Use
<1>7. /\ At(t, "use") \/ At(t, "release") => PtrSeen(t, Of(t))
      /\ At(t, "fence") => BuiltSeen(t, Of(t))
      /\ At(t, "publish") => IF multithreaded_mode THEN built[Of(t)] ELSE BuiltSeen(t, Of(t))
  BY <1>6 DEF TopsOK
<1>. DEFINE Others == \A u \in Threads \ {t} : Of(u)' = Of(u) /\ \A x : At(u, x)' <=> At(u, x)
\* Where t gets to, at, and what it then sees.
<1>8. ASSUME NEW at \in Places, NEW left \in SUBSET Statics, Step(t, at, left), Grows,
             at \in {"use", "release"} => Ptr'[Of(t)] \/ Store("ptr", Of(t)) \in pending'[t],
             at = "fence" => built'[Of(t)] \/ Store("built", Of(t)) \in pending'[t],
             at = "publish" => \/ built'[Of(t)]
                               \/ ~multithreaded_mode /\ Store("built", Of(t)) \in pending'[t]
      PROVE  TopsOK' /\ Others /\ \A x : At(t, x)' <=> x = at
  <2>1. /\ \A x : At(t, x)' <=> x = at
        /\ Of(t)' = Of(t) /\ ~Idle(t)' /\ Others
    BY <1>1, <1>8, StepTop
  <2>2. PtrSeen(t, Of(t))' <=> Ptr'[Of(t)'] \/ Store("ptr", Of(t)') \in pending'[t]
    BY DEF PtrSeen
  <2>3. BuiltSeen(t, Of(t))' <=> built'[Of(t)'] \/ Store("built", Of(t)') \in pending'[t]
    BY DEF BuiltSeen
  <2>4. /\ At(t, "use")' \/ At(t, "release")' => PtrSeen(t, Of(t))'
        /\ At(t, "fence")' => BuiltSeen(t, Of(t))'
        /\ At(t, "publish")' => IF multithreaded_mode THEN built'[Of(t)'] ELSE BuiltSeen(t, Of(t))'
    BY <1>8, <2>1, <2>2, <2>3
  <2>. QED  BY <1>4, <1>6, <1>8, <2>1, <2>4, OthersTops
\* The memory is left alone and t was at a place where it has no stores.
<1>9. ASSUME UNCHANGED memVars, Others, multithreaded_mode => ~At(t, "fence") /\ ~At(t, "release")
      PROVE  PendingOK' /\ SeenOK'
  <2>1. SeenOK'
    BY <1>6, <1>9, SameMemory
  <2>2. PendingOK'
    BY <1>6, <1>9 DEF PendingOK, memVars
  <2>. QED  BY <2>1, <2>2
\* All stores of t reach memory.
<1>10. ASSUME Drain(t), Others
       PROVE  PendingOK' /\ SeenOK'
  <2>1. /\ \A s \in Statics : /\ Ptr'[s] <=> PtrSeen(t, s)
                              /\ built'[s] <=> BuiltSeen(t, s)
                              /\ PtrSeen(t, s)' <=> PtrSeen(t, s)
                              /\ BuiltSeen(t, s)' <=> BuiltSeen(t, s)
        /\ pending'[t] = {} /\ \A u \in Threads \ {t} : pending'[u] = pending[u]
        /\ Grows
    BY <1>10, DrainSeen
  <2>2. PendingOK'
    BY <1>6, <1>10, <2>1 DEF PendingOK
  <2>3. SeenOK'
    <3>1. CASE multithreaded_mode
      <4>1. ASSUME NEW u \in Threads, NEW s \in Statics,
                   Ptr'[s] \/ Store("ptr", s) \in pending'[u]
            PROVE  built'[s]
        <5>1. PtrSeen(t, s) \/ PtrSeen(u, s)
          BY <2>1, <4>1 DEF PtrSeen
        <5>2. built[s]
          BY <1>6, <3>1, <5>1 DEF SeenOK
        <5>. QED  BY <5>2, <2>1 DEF Grows
      <4>. QED  BY <1>6, <3>1, <4>1 DEF SeenOK, PtrSeen
    <3>2. CASE ~multithreaded_mode
      BY <1>3, <1>6, <2>1, <3>2 DEF SeenOK, PtrSeen, BuiltSeen
    <3>. QED  BY <3>1, <3>2
  <2>. QED  BY <2>2, <2>3
<1>11. CASE ReadPtr(t)
  <2>. DEFINE at == IF PtrSeen(t, Of(t)) THEN "use"
                    ELSE IF multithreaded_mode THEN "acquire" ELSE "create"
              left == IF PtrSeen(t, Of(t)) \/ multithreaded_mode THEN {} ELSE Uses[Of(t)]
  <2>1. at \in Places /\ left \in SUBSET Statics /\ Step(t, at, left)
    BY <1>2, <1>11 DEF ReadPtr
  <2>2. at = "use" => PtrSeen(t, Of(t))
    OBVIOUS
  <2>3. at \notin {"release", "fence", "publish"}
    OBVIOUS
  <2>4. CASE multithreaded_mode
    <3>1. Drain(t) /\ Grows /\ (at = "use" => Ptr'[Of(t)])
      BY <1>2, <1>11, <2>2, <2>4, DrainSeen DEF ReadPtr
    <3>. HIDE DEF at, left
    <3>2. TopsOK' /\ Others
      BY <1>8, <2>1, <2>3, <3>1
    <3>. QED  BY <1>10, <3>1, <3>2 DEF Visible
  <2>5. CASE ~multithreaded_mode
    <3>1. UNCHANGED memVars /\ Grows
      BY <1>11, <2>5, SameMemory DEF ReadPtr
    <3>2. at = "use" => Ptr'[Of(t)] \/ Store("ptr", Of(t)) \in pending'[t]
      BY <2>2, <3>1 DEF memVars, PtrSeen
    <3>. HIDE DEF at, left
    <3>3. TopsOK' /\ Others
      BY <1>8, <2>1, <2>3, <3>1, <3>2
    <3>. QED  BY <1>9, <2>5, <3>1, <3>3 DEF Visible
  <2>. QED  BY <2>4, <2>5
<1>12. CASE Acquire(t)
  <2>1. Step(t, "check", {}) /\ UNCHANGED memVars /\ Grows /\ At(t, "acquire")
    BY <1>12, SameMemory DEF Acquire
  <2>2. TopsOK' /\ Others
    BY <1>2, <1>8, <2>1
  <2>. QED  BY <1>5, <1>9, <2>1, <2>2 DEF Visible
<1>13. CASE Check(t)
  <2>1. UNCHANGED memVars /\ Grows /\ At(t, "check")
    BY <1>13, SameMemory DEF Check
  <2>2. CASE PtrSeen(t, Of(t))
    <3>1. Step(t, "release", {}) /\ (Ptr'[Of(t)] \/ Store("ptr", Of(t)) \in pending'[t])
      BY <1>13, <2>1, <2>2 DEF Check, memVars, PtrSeen
    <3>2. TopsOK' /\ Others
      BY <1>2, <1>8, <2>1, <3>1
    <3>. QED  BY <1>5, <1>9, <2>1, <3>2 DEF Visible
  <2>3. CASE ~PtrSeen(t, Of(t))
    <3>1. Step(t, "create", Uses[Of(t)])
      BY <1>13, <2>3 DEF Check
    <3>2. TopsOK' /\ Others
      BY <1>2, <1>8, <2>1, <3>1
    <3>. QED  BY <1>5, <1>9, <2>1, <3>2 DEF Visible
  <2>. QED  BY <2>2, <2>3
<1>14. CASE Nested(t)
  <2>1. UNCHANGED memVars /\ Grows /\ (At(t, "create") \/ At(t, "delete"))
    BY <1>14, SameMemory DEF Nested
  <2>2. Others /\ \A x : At(t, x)' <=> x = "read"
    BY <1>14, NestedTop
  <2>3. TopsOK'
    BY <1>4, <1>6, <2>1, <2>2, OthersTops
  <2>. QED  BY <1>5, <1>9, <2>1, <2>2, <2>3 DEF Visible
<1>15. CASE Create(t)
  <2>. DEFINE st == Store("built", Of(t))
              at == IF multithreaded_mode THEN "fence" ELSE "publish"
  <2>1. st \in Stores /\ UNCHANGED <<Ptr, built>> /\ pending' = [pending EXCEPT ![t] = @ \cup {st}]
        /\ Step(t, at, {}) /\ at \in Places
    BY <1>2, <1>15, PtrStore DEF Create
  <2>2. Grows /\ pending'[t] = pending[t] \cup {st} /\ \A u \in Threads \ {t} : pending'[u] = pending[u]
    <3>. HIDE DEF st
    <3>. QED  BY <2>1, OneMoreStore
  <2>3. TopsOK' /\ Others /\ \A x : At(t, x)' <=> x = at
    <3>1. Store("built", Of(t)) \in pending'[t]
      BY <2>2
    <3>. QED  BY <1>2, <1>8, <2>1, <2>2, <3>1
  <2>4. PendingOK'
    BY <1>3, <1>6, <2>2, <2>3 DEF PendingOK
  <2>5. SeenOK'
    <3>1. \A u \in Threads, s \in Statics : Store("ptr", s) \in pending'[u] => Store("ptr", s) \in pending[u]
      BY <2>2 DEF Store
    <3>2. CASE multithreaded_mode
      BY <1>6, <2>1, <3>1, <3>2 DEF SeenOK, PtrSeen
    <3>3. CASE ~multithreaded_mode
      <4>1. \A s \in Statics : BuiltSeen(Main, s) => built'[s] \/ Store("built", s) \in pending'[Main]
        BY <2>2, ConstantTypes DEF Grows, BuiltSeen
      <4>. QED  BY <1>6, <2>1, <3>1, <3>3, <4>1, ConstantTypes DEF SeenOK, PtrSeen, BuiltSeen
    <3>. QED  BY <3>2, <3>3
  <2>. QED  BY <2>3, <2>4, <2>5 DEF Visible
<1>16. CASE MemoryFence(t)
  <2>1. Step(t, "publish", {}) /\ Drain(t) /\ At(t, "fence")
    BY <1>16 DEF MemoryFence
  <2>2. Grows /\ built'[Of(t)]
    BY <1>2, <1>7, <2>1, DrainSeen
  <2>3. TopsOK' /\ Others
    BY <1>2, <1>8, <2>1, <2>2
  <2>. QED  BY <1>10, <2>1, <2>3 DEF Visible
<1>17. CASE Publish(t)
  <2>. DEFINE st == Store("ptr", Of(t))
              at == IF multithreaded_mode THEN "release" ELSE "use"
  <2>1. st \in Stores /\ UNCHANGED <<Ptr, built>> /\ pending' = [pending EXCEPT ![t] = @ \cup {st}]
        /\ Step(t, at, {}) /\ at \in Places /\ At(t, "publish")
    BY <1>2, <1>17, PtrStore DEF Publish
  <2>2. Grows /\ pending'[t] = pending[t] \cup {st} /\ \A u \in Threads \ {t} : pending'[u] = pending[u]
    <3>. HIDE DEF st
    <3>. QED  BY <2>1, OneMoreStore
  <2>3. TopsOK' /\ Others /\ \A x : At(t, x)' <=> x = at
    <3>1. Store("ptr", Of(t)) \in pending'[t]
      BY <2>2
    <3>. QED  BY <1>2, <1>8, <2>1, <2>2, <3>1
  <2>4. PendingOK'
    BY <1>3, <1>6, <2>2, <2>3 DEF PendingOK
  <2>5. SeenOK'
    <3>1. \A u \in Threads, s \in Statics :
              Store("ptr", s) \in pending'[u] => Store("ptr", s) \in pending[u] \/ s = Of(t)
      BY <2>2 DEF Store
    <3>2. CASE multithreaded_mode
      BY <1>6, <1>7, <2>1, <3>1, <3>2 DEF SeenOK, PtrSeen
    <3>3. CASE ~multithreaded_mode
      <4>1. \A s \in Statics : BuiltSeen(Main, s) => built'[s] \/ Store("built", s) \in pending'[Main]
        BY <2>2, ConstantTypes DEF Grows, BuiltSeen
      <4>2. BuiltSeen(Main, Of(t))
        BY <1>3, <1>7, <2>1, <3>3
      <4>. QED  BY <1>2, <1>6, <2>1, <3>1, <3>3, <4>1, <4>2, ConstantTypes DEF SeenOK, PtrSeen, BuiltSeen
    <3>. QED  BY <3>2, <3>3
  <2>. QED  BY <2>3, <2>4, <2>5 DEF Visible
<1>18. CASE Release(t)
  <2>1. Step(t, "use", {}) /\ Drain(t) /\ At(t, "release")
    BY <1>18 DEF Release
  <2>2. Grows /\ Ptr'[Of(t)]
    BY <1>2, <1>7, <2>1, DrainSeen
  <2>3. TopsOK' /\ Others
    BY <1>2, <1>8, <2>1, <2>2
  <2>. QED  BY <1>10, <2>1, <2>3 DEF Visible
<1>19. CASE Use(t)
  <2>1. UNCHANGED memVars /\ Grows /\ At(t, "use") /\ Pop(t)
    BY <1>19, SameMemory DEF Use
  <2>2. Others /\ \A x : At(t, x)' => x \in {"create", "delete"}
    BY <1>1, <2>1, PopTop
  <2>3. TopsOK'
    BY <1>4, <1>6, <2>1, <2>2, OthersTops
  <2>. QED  BY <1>5, <1>9, <2>1, <2>2, <2>3 DEF Visible
<1>. QED  BY <1>11, <1>12, <1>13, <1>14, <1>15, <1>16, <1>17, <1>18, <1>19 DEF Operator

\* When Main alone is active nobody else has a store that others do not see.
LEMMA MainAlone ==
  ASSUME TypesOK, StackOK, PendingOK,
         ~multithreaded_mode \/ session.phase # "on" \/ AllIdle
  PROVE  \A t \in Threads \ {Main} : Idle(t) /\ pending[t] = {}
<1>. SUFFICES ASSUME NEW t \in Threads \ {Main} PROVE Idle(t) /\ pending[t] = {}
  OBVIOUS
<1>1. Idle(t)
  <2>1. CASE AllIdle
    BY <2>1 DEF AllIdle
  <2>2. CASE ~multithreaded_mode \/ session.phase # "on"
    BY <2>2, TopOK DEF FrameOK
  <2>. QED  BY <2>1, <2>2
<1>. QED  BY <1>1 DEF PendingOK, At

\* An idle thread is at no place.
LEMMA IdleTops ==
  ASSUME NEW t, Idle(t)
  PROVE  \A x : ~At(t, x)
  BY DEF At

\* Nothing is half visible after any step.
LEMMA NextVisible ==
  ASSUME TypesOK, StackOK, Visible, [Next]_vars
  PROVE  Visible'
<1>. USE DEF Visible
<1>1. \A u \in Threads : ~Idle(u) => Of(u) \in Statics
  BY TopFacts
<1>2. ASSUME NEW t \in Threads, Reach(t) PROVE Visible'
  <2>1. PICK st \in pending[t] :
          /\ pending' = [pending EXCEPT ![t] = @ \ {st}]
          /\ Ptr' = IF st.what = "ptr" THEN [Ptr EXCEPT ![st.of] = TRUE] ELSE Ptr
          /\ built' = IF st.what = "built" THEN [built EXCEPT ![st.of] = TRUE] ELSE built
    BY <1>2 DEF Reach
  <2>2. st \in Stores /\ st.of \in Statics /\ st = Store(st.what, st.of)
    BY <2>1 DEF TypesOK, Stores, Store
  <2>3. pending'[t] = pending[t] \ {st} /\ \A u \in Threads \ {t} : pending'[u] = pending[u]
    BY <2>1 DEF TypesOK
  <2>4. \A s \in Statics : /\ Ptr'[s] <=> Ptr[s] \/ st = Store("ptr", s)
                           /\ built'[s] <=> built[s] \/ st = Store("built", s)
    BY <2>1, <2>2 DEF TypesOK, Stores, Store
  <2>5. Grows
    BY <2>3, <2>4 DEF Grows, PtrSeen, BuiltSeen
  <2>6. UNCHANGED <<multithreaded_mode, session, stack>>
    BY <1>2 DEF Reach
  <2>7. \A u \in Threads : Of(u)' = Of(u) /\ (Idle(u)' <=> Idle(u)) /\ \A x : At(u, x)' <=> At(u, x)
    BY <2>6 DEF Of, At, Idle
  <2>8. PendingOK'
    BY <2>3, <2>6, <2>7 DEF PendingOK
  <2>9. \A u \in Threads, s \in Statics :
            Ptr'[s] \/ Store("ptr", s) \in pending'[u] => PtrSeen(u, s) \/ PtrSeen(t, s)
    BY <2>1, <2>3, <2>4 DEF PtrSeen
  <2>10. SeenOK'
    <3>1. CASE multithreaded_mode
      BY <2>4, <2>6, <2>9, <3>1 DEF SeenOK, PtrSeen
    <3>2. CASE ~multithreaded_mode
      <4>1. t = Main
        BY <2>1, <3>2 DEF PendingOK
      <4>2. \A s \in Statics : BuiltSeen(Main, s) => built'[s] \/ Store("built", s) \in pending'[Main]
        BY <2>5, ConstantTypes DEF Grows, BuiltSeen
      <4>. QED  BY <2>6, <2>9, <3>2, <4>1, <4>2, ConstantTypes DEF SeenOK, PtrSeen, BuiltSeen
    <3>. QED  BY <3>1, <3>2
  <2>11. TopsOK'
    <3>1. /\ At(t, "use") \/ At(t, "release") => PtrSeen(t, Of(t))
          /\ At(t, "fence") => BuiltSeen(t, Of(t))
          /\ At(t, "publish") => IF multithreaded_mode THEN built[Of(t)] ELSE BuiltSeen(t, Of(t))
          /\ \A x : At(t, x) => Of(t) \in Statics
      BY <1>1 DEF TopsOK, At
    <3>2. \A s \in Statics : /\ PtrSeen(t, s) => Ptr'[s] \/ Store("ptr", s) \in pending'[t]
                             /\ BuiltSeen(t, s) => built'[s] \/ Store("built", s) \in pending'[t]
                             /\ built[s] => built'[s]
      BY <2>5 DEF Grows, PtrSeen, BuiltSeen
    <3>3. PtrSeen(t, Of(t))' <=> Ptr'[Of(t)'] \/ Store("ptr", Of(t)') \in pending'[t]
      BY DEF PtrSeen
    <3>4. BuiltSeen(t, Of(t))' <=> built'[Of(t)'] \/ Store("built", Of(t)') \in pending'[t]
      BY DEF BuiltSeen
    <3>5. /\ At(t, "use")' \/ At(t, "release")' => PtrSeen(t, Of(t))'
          /\ At(t, "fence")' => BuiltSeen(t, Of(t))'
          /\ At(t, "publish")' => IF multithreaded_mode THEN built'[Of(t)'] ELSE BuiltSeen(t, Of(t))'
      BY <2>7, <3>1, <3>2, <3>3, <3>4
    <3>. QED  BY <1>1, <2>5, <2>6, <2>7, <3>5, OthersTops
  <2>. QED  BY <2>8, <2>10, <2>11
<1>3. ASSUME NEW t \in Threads, NEW s \in Statics, Dereference(t, s) PROVE Visible'
  <2>1. Frame(s, "read", {}) \in Frames /\ Frame(s, "read", {}).at = "read"
    BY FrameType DEF Places
  <2>2. Idle(t) /\ UNCHANGED memVars /\ multithreaded_mode' = multithreaded_mode /\ Grows
    BY <1>3, SameMemory DEF Dereference
  <2>3. /\ \A x : At(t, x)' <=> x = "read"
        /\ \A u \in Threads \ {t} : Of(u)' = Of(u) /\ \A x : At(u, x)' <=> At(u, x)
    BY <1>3, <2>1, PushTop DEF Dereference
  <2>4. TopsOK'
    BY <1>1, <2>2, <2>3, OthersTops
  <2>5. SeenOK'
    BY <2>2, SameMemory
  <2>6. PendingOK'
    BY <2>2, <2>3, IdleTops DEF PendingOK, memVars
  <2>. QED  BY <2>4, <2>5, <2>6
\* All stores of Main reach memory, and nobody else has any.
<1>4. ASSUME Drain(Main), \A t \in Threads : Idle(t)' , \A t \in Threads \ {Main} : pending[t] = {}
      PROVE  Visible'
  <2>1. /\ \A s \in Statics : (Ptr'[s] <=> PtrSeen(Main, s)) /\ (built'[s] <=> BuiltSeen(Main, s))
        /\ \A t \in Threads : pending'[t] = {}
    BY <1>4, DrainSeen, ConstantTypes
  <2>2. PendingOK'
    BY <2>1 DEF PendingOK
  <2>3. SeenOK'
    <3>1. \A s \in Statics : PtrSeen(Main, s) => BuiltSeen(Main, s)
      BY ConstantTypes DEF SeenOK, BuiltSeen
    <3>. QED  BY <2>1, <3>1, ConstantTypes DEF SeenOK, PtrSeen, BuiltSeen
  <2>4. TopsOK'
    BY <1>4 DEF TopsOK, At
  <2>. QED  BY <2>2, <2>3, <2>4
<1>5. CASE llvm_start_multithreaded
  BY <1>4, <1>5, MainAlone DEF llvm_start_multithreaded, AllIdle, Idle
<1>6. CASE llvm_stop_multithreaded
  <2>1. \A t \in Threads \ {Main} : Idle(t) /\ pending[t] = {}
    BY <1>6, MainAlone DEF llvm_stop_multithreaded
  <2>. QED  BY <1>4, <1>6, <2>1 DEF llvm_stop_multithreaded, Idle
<1>7. CASE llvm_shutdown \/ Restart \/ Finished \/ UNCHANGED vars
  <2>1. UNCHANGED <<memVars, stack, multithreaded_mode>>
    BY <1>7 DEF llvm_shutdown, Restart, Finished, vars, memVars
  <2>. QED
    BY <2>1 DEF PendingOK, SeenOK, TopsOK, memVars, At, Of, PtrSeen, BuiltSeen, Idle
<1>8. CASE Destroy
  <2>. DEFINE fr == Frame(Head(StaticList), "delete", DeleterUses[Head(StaticList)])
  <2>1. fr \in Frames /\ fr.at = "delete"
    <3>1. Head(StaticList) \in Statics
      BY <1>8, HeadTailProperties DEF Destroy, TypesOK
    <3>. QED  BY <3>1, FrameType, ConstantTypes DEF Places
  <2>2. Idle(Main) /\ Push(Main, fr) /\ UNCHANGED memVars
        /\ multithreaded_mode' = multithreaded_mode /\ Grows
    BY <1>8, SameMemory DEF Destroy
  <2>. HIDE DEF fr
  <2>3. /\ \A x : At(Main, x)' <=> x = "delete"
        /\ \A u \in Threads \ {Main} : Of(u)' = Of(u) /\ \A x : At(u, x)' <=> At(u, x)
    BY <2>1, <2>2, PushTop, ConstantTypes
  <2>4. TopsOK'
    BY <1>1, <2>2, <2>3, OthersTops, ConstantTypes
  <2>5. SeenOK'
    BY <2>2, SameMemory
  <2>6. PendingOK'
    BY <2>2, <2>3, IdleTops, ConstantTypes DEF PendingOK, memVars
  <2>. QED  BY <2>4, <2>5, <2>6
\* A static goes with all that anybody could see of it.
<1>9. CASE Destroyed
  <2>1. /\ At(Main, "delete") /\ ~Idle(Main) /\ Pop(Main)
        /\ Ptr' = [Ptr EXCEPT ![Of(Main)] = FALSE]
        /\ built' = [built EXCEPT ![Of(Main)] = FALSE]
        /\ pending' = [pending EXCEPT ![Main] = {st \in @ : st.of # Of(Main)}]
        /\ multithreaded_mode' = multithreaded_mode
    BY <1>9 DEF Destroyed, At
  <2>2. Of(Main) \in Statics /\ session.phase = "shutdown"
    BY <2>1, TopFacts, TopOK, ConstantTypes DEF FrameOK
  <2>3. \A t \in Threads \ {Main} : Idle(t) /\ pending[t] = {}
    BY <2>2, MainAlone
  <2>4. /\ \A x : At(Main, x)' => x \in {"create", "delete"}
        /\ \A u \in Threads \ {Main} : Of(u)' = Of(u) /\ \A x : At(u, x)' <=> At(u, x)
    BY <2>1, PopTop, ConstantTypes
  <2>5. TopsOK'
    BY <2>3, <2>4, IdleTops DEF TopsOK
  <2>6. /\ pending'[Main] = {st \in pending[Main] : st.of # Of(Main)}
        /\ \A u \in Threads \ {Main} : pending'[u] = {}
    BY <2>1, <2>3, ConstantTypes DEF TypesOK
  <2>7. PendingOK'
    <3>1. multithreaded_mode => pending[Main] = {}
      BY <2>1, ConstantTypes DEF PendingOK, At
    <3>. QED  BY <2>1, <2>6, <3>1 DEF PendingOK
  <2>8. SeenOK'
    <3>1. \A s \in Statics : /\ Ptr'[s] <=> Ptr[s] /\ s # Of(Main)
                             /\ built'[s] <=> built[s] /\ s # Of(Main)
      BY <2>1, <2>2 DEF TypesOK
    <3>2. \A s \in Statics : \A w : Store(w, s) \in pending'[Main] <=> Store(w, s) \in pending[Main] /\ s # Of(Main)
      BY <2>6 DEF Store
    <3>3. CASE multithreaded_mode
      BY <2>1, <2>6, <3>1, <3>2, <3>3, ConstantTypes DEF SeenOK, PtrSeen
    <3>4. CASE ~multithreaded_mode
      BY <2>1, <3>1, <3>2, <3>4, ConstantTypes DEF SeenOK, PtrSeen, BuiltSeen
    <3>. QED  BY <3>3, <3>4
  <2>. QED  BY <2>5, <2>7, <2>8
<1>. QED  BY <1>2, <1>3, <1>5, <1>6, <1>7, <1>8, <1>9, OperatorVisible DEF Next, Shutdown

\* LLVM starts with nothing constructed and nobody inside an operator.
LEMMA InitVisible == Init => TypesOK /\ StackOK /\ Visible
<1>. SUFFICES ASSUME Init PROVE TypesOK /\ StackOK /\ Visible
  OBVIOUS
<1>1. \A t \in Threads : stack[t] = <<>> /\ pending[t] = {}
  BY DEF Init
<1>2. TypesOK
  <2>1. 1 \in 1 .. MaxStarts
    BY ConstantTypes
  <2>2. session \in [phase : {"on", "off", "shutdown"}, number : 1 .. MaxStarts]
    BY <2>1 DEF Init
  <2>3. stack \in [Threads -> Seq(Frames)] /\ StaticList \in Seq(Statics)
        /\ pending \in [Threads -> SUBSET Stores]
    BY EmptySeq DEF Init
  <2>4. Ptr \in [Statics -> BOOLEAN] /\ built \in [Statics -> BOOLEAN]
        /\ multithreaded_mode \in BOOLEAN
    BY DEF Init
  <2>5. holder \in Threads \cup {None} /\ depth \in Int
    BY DEF Init
  <2>. QED  BY <2>2, <2>3, <2>4, <2>5 DEF TypesOK
<1>3. StackOK
  BY <1>1 DEF StackOK
<1>4. Visible
  BY <1>1, ConstantTypes DEF Init, Visible, PendingOK, SeenOK, TopsOK, PtrSeen, BuiltSeen, At, Idle
<1>. QED  BY <1>2, <1>3, <1>4

\* A thread that uses a static sees the whole object behind its pointer, for any
\* number of threads and statics, although operator-> looks at Ptr without a lock.
THEOREM AlwaysNeverHalfBuilt == Spec => []NeverHalfBuilt
<1>1. TypesOK /\ StackOK /\ Visible /\ [Next]_vars => (TypesOK /\ StackOK /\ Visible)'
  BY NextStack, NextVisible
<1>2. TypesOK /\ StackOK /\ Visible => NeverHalfBuilt
  <2>. SUFFICES ASSUME TypesOK, StackOK, Visible, NEW t \in Threads, At(t, "use")
                PROVE  PtrSeen(t, Of(t)) /\ BuiltSeen(t, Of(t))
    BY DEF NeverHalfBuilt
  <2>1. Of(t) \in Statics /\ (~multithreaded_mode => t = Main)
    BY TopFacts, TopOK DEF At, FrameOK
  <2>. QED  BY <2>1 DEF Visible, TopsOK, SeenOK, BuiltSeen
<1>. QED  BY InitVisible, <1>1, <1>2, PTL DEF Spec
-----------------------------------------------------------------------------
(* The lock, and how often its holder has taken it.                        *)

Locked == {"check", "create", "fence", "publish", "release"}
\* All frames of a stack but the deleter at the bottom and a top that does not have
\* the lock yet, or no longer.
HeldBy(n, top, bottom) ==
    n - (IF top \in Locked THEN 0 ELSE 1) - (IF n > 1 /\ bottom = "delete" THEN 1 ELSE 0)
HeldIn(frames) ==
    IF frames = <<>> THEN 0 ELSE HeldBy(Len(frames), frames[1].at, frames[Len(frames)].at)
LockOK ==
    IF multithreaded_mode
    THEN /\ holder = None => depth = 0
         /\ \A t \in Threads : IF holder = t THEN depth = HeldIn(stack[t]) /\ depth > 0
                                             ELSE HeldIn(stack[t]) = 0
    ELSE holder = None /\ depth = 0

\* The lock counts change with the top's need of the lock only,
LEMMA HeldStep ==
  ASSUME TypesOK, StackOK, NEW t \in Threads, ~Idle(t), ~At(t, "delete"),
         NEW at \in Places \ {"delete"}, NEW left \in SUBSET Statics, Step(t, at, left)
  PROVE  /\ HeldIn(stack'[t]) = HeldIn(stack[t]) + (IF at \in Locked THEN 1 ELSE 0)
                                   - (IF stack[t][1].at \in Locked THEN 1 ELSE 0)
         /\ \A u \in Threads \ {t} : HeldIn(stack'[u]) = HeldIn(stack[u])
         /\ HeldIn(stack[t]) \in Int
<1>1. /\ stack'[t] # <<>> /\ Len(stack'[t]) = Len(stack[t])
      /\ stack'[t][1] = Frame(Of(t), at, left)
      /\ \A i \in 2 .. Len(stack[t]) : stack'[t][i] = stack[t][i]
      /\ \A u \in Threads \ {t} : stack'[u] = stack[u]
  BY StepShape
<1>2. /\ Len(stack[t]) \in Nat \ {0} /\ stack[t] # <<>> /\ Of(t) \in Statics
      /\ stack[t][1].at # "delete"
  BY TopFacts
<1>3. Frame(Of(t), at, left).at = at
  BY <1>2, FrameType
<1>4. Len(stack[t]) > 1 => stack'[t][Len(stack[t])] = stack[t][Len(stack[t])]
  BY <1>1, <1>2
<1>5. PICK n \in Nat \ {0} : n = Len(stack[t])
  BY <1>2
<1>6. PICK b, c : b = stack[t][n].at /\ c = stack'[t][n].at
  OBVIOUS
<1>7. /\ HeldIn(stack'[t]) = HeldBy(n, at, c)
      /\ HeldIn(stack[t]) = HeldBy(n, stack[t][1].at, b)
      /\ \A u \in Threads \ {t} : HeldIn(stack'[u]) = HeldIn(stack[u])
  BY <1>1, <1>2, <1>3, <1>5, <1>6 DEF HeldIn
<1>8. /\ HeldBy(n, at, c) = HeldBy(n, stack[t][1].at, b)
            + (IF at \in Locked THEN 1 ELSE 0) - (IF stack[t][1].at \in Locked THEN 1 ELSE 0)
      /\ HeldBy(n, stack[t][1].at, b) \in Int
  <2>1. n > 1 => b = c
    BY <1>4, <1>5, <1>6
  <2>. QED  BY <2>1 DEF HeldBy
<1>. QED  BY <1>7, <1>8

\* not when a creator or deleter dereferences another static,
LEMMA HeldNested ==
  ASSUME TypesOK, StackOK, NEW t \in Threads, Nested(t)
  PROVE  \A u \in Threads : HeldIn(stack'[u]) = HeldIn(stack[u])
<1>1. ~Idle(t)
  BY DEF Nested, At
<1>2. PICK w \in Left(t) : stack' = [stack EXCEPT ![t] =
              <<Frame(w, "read", {}), Frame(Of(t), Head(@).at, Left(t) \ {w})>> \o Tail(@)]
  BY DEF Nested
<1>3. /\ stack'[t] # <<>> /\ Len(stack'[t]) = Len(stack[t]) + 1
      /\ stack'[t][1] = Frame(w, "read", {})
      /\ stack'[t][2] = Frame(Of(t), stack[t][1].at, Left(t) \ {w})
      /\ \A i \in 3 .. Len(stack[t]) + 1 : stack'[t][i] = stack[t][i - 1]
      /\ \A u \in Threads \ {t} : stack'[u] = stack[u]
  BY <1>1, <1>2, NestedShape
<1>4. /\ Len(stack[t]) \in Nat \ {0} /\ stack[t] # <<>> /\ Of(t) \in Statics
      /\ Left(t) \in SUBSET Statics /\ stack[t][1].at \in Places
      /\ stack[t][1].at \in {"create", "delete"}
  BY <1>1, TopFacts DEF Nested
<1>5. stack'[t][1].at = "read" /\ stack'[t][2].at = stack[t][1].at
  <2>1. w \in Statics /\ Left(t) \ {w} \in SUBSET Statics /\ "read" \in Places
    BY <1>4 DEF Places
  <2>2. Frame(w, "read", {}).at = "read"
    BY <2>1, FrameType
  <2>. DEFINE at == stack[t][1].at
  <2>3. Frame(Of(t), at, Left(t) \ {w}).at = at
    <3>1. at \in Places  BY <1>4
    <3>. HIDE DEF at
    <3>. QED  BY <1>4, <2>1, <3>1, FrameType
  <2>. QED  BY <1>3, <2>2, <2>3
<1>6. stack[t][1].at = "delete" => Len(stack[t]) = 1
  BY <1>1, TopOK DEF FrameOK
<1>7. Len(stack[t]) > 1 => stack'[t][Len(stack[t]) + 1] = stack[t][Len(stack[t])]
  <2>1. Len(stack[t]) > 1 => Len(stack[t]) + 1 \in 3 .. Len(stack[t]) + 1
    BY <1>4
  <2>. QED  BY <1>3, <1>4, <2>1
<1>8. HeldIn(stack'[t]) = HeldIn(stack[t])
  <2>1. PICK n \in Nat \ {0} : n = Len(stack[t])
    BY <1>4
  <2>2. PICK top, b, c : top = stack[t][1].at /\ b = stack[t][n].at /\ c = stack'[t][n + 1].at
    OBVIOUS
  <2>3. HeldIn(stack'[t]) = HeldBy(n + 1, "read", c) /\ HeldIn(stack[t]) = HeldBy(n, top, b)
    BY <1>3, <1>4, <1>5, <2>1, <2>2 DEF HeldIn
  <2>4. top \in {"create", "delete"} /\ (top = "delete" => n = 1) /\ (n > 1 => b = c)
        /\ (n = 1 => c = top)
    BY <1>4, <1>5, <1>6, <1>7, <2>1, <2>2
  <2>5. HeldBy(n + 1, "read", c) = HeldBy(n, top, b)
    BY <2>4 DEF HeldBy, Locked
  <2>. QED  BY <2>3, <2>5
<1>. QED  BY <1>3, <1>8

\* nor when an operator that has released the lock returns,
LEMMA HeldPop ==
  ASSUME TypesOK, StackOK, NEW t \in Threads, At(t, "use") \/ At(t, "delete"), Pop(t)
  PROVE  \A u \in Threads : HeldIn(stack'[u]) = HeldIn(stack[u])
<1>1. ~Idle(t)
  BY DEF At
<1>2. /\ Len(stack'[t]) = Len(stack[t]) - 1 /\ stack'[t] \in Seq(Frames)
      /\ \A i \in 1 .. Len(stack[t]) - 1 : stack'[t][i] = stack[t][i + 1]
      /\ \A u \in Threads \ {t} : stack'[u] = stack[u]
  BY <1>1, PopShape
<1>3. /\ Len(stack[t]) \in Nat \ {0} /\ stack[t] # <<>> /\ stack[t][1].at \in {"use", "delete"}
  BY <1>1, TopFacts
<1>4. stack[t][1].at = "delete" => Len(stack[t]) = 1
  BY <1>1, TopOK DEF FrameOK
<1>5. PICK n \in Nat \ {0} : n = Len(stack[t])
  BY <1>3
<1>6. CASE n = 1
  <2>1. stack'[t] = <<>>
    BY <1>2, <1>5, <1>6, EmptySeq
  <2>2. PICK top, b : top = stack[t][1].at /\ b = stack[t][n].at
    OBVIOUS
  <2>3. HeldIn(stack'[t]) = 0 /\ HeldIn(stack[t]) = HeldBy(1, top, b) /\ top \notin Locked
    BY <1>3, <1>5, <1>6, <2>1, <2>2 DEF HeldIn, Locked
  <2>4. HeldBy(1, top, b) = 0
    BY <2>3 DEF HeldBy
  <2>. QED  BY <1>2, <2>3, <2>4
<1>7. CASE n > 1
  <2>1. /\ 1 \in 1 .. n - 1 /\ n - 1 \in 1 .. n - 1 /\ (n - 1) + 1 = n /\ 1 + 1 = 2
        /\ 2 \in 1 .. n /\ 2 > 1
    BY <1>7
  <2>2. stack'[t][1] = stack[t][2] /\ stack'[t][n - 1] = stack[t][n]
    BY <1>2, <1>5, <2>1
  <2>3. FrameOK(t, 2, stack[t][2])
    BY <1>5, <2>1 DEF StackOK
  <2>4. stack[t][2].at \in {"create", "delete"} /\ (stack[t][2].at = "delete" => n = 2)
    BY <1>5, <2>1, <2>3 DEF FrameOK
  <2>5. PICK top, next, b : top = stack[t][1].at /\ next = stack[t][2].at /\ b = stack[t][n].at
    OBVIOUS
  <2>6. stack'[t] # <<>>
    BY <1>2, <1>5, <1>7, EmptySeq
  <2>7. HeldIn(stack'[t]) = HeldBy(n - 1, next, b) /\ HeldIn(stack[t]) = HeldBy(n, top, b)
    BY <1>2, <1>3, <1>5, <2>2, <2>5, <2>6 DEF HeldIn
  <2>8. top = "use" /\ next \in {"create", "delete"} /\ (next = "delete" => n = 2)
        /\ (n = 2 => b = next)
    BY <1>3, <1>4, <1>5, <1>7, <2>4, <2>5
  <2>9. HeldBy(n - 1, next, b) = HeldBy(n, top, b)
    BY <1>7, <2>8 DEF HeldBy, Locked
  <2>. QED  BY <1>2, <2>7, <2>9
<1>. QED  BY <1>6, <1>7

\* nor when an idle thread starts one.
LEMMA HeldPush ==
  ASSUME TypesOK, NEW t \in Threads, Idle(t), NEW frame \in Frames, Push(t, frame),
         frame.at \in {"read", "delete"}
  PROVE  \A u \in Threads : HeldIn(stack'[u]) = HeldIn(stack[u])
<1>1. stack'[t] # <<>> /\ Len(stack'[t]) = 1 /\ stack'[t][1] = frame /\ stack[t] = <<>>
      /\ \A u \in Threads \ {t} : stack'[u] = stack[u]
  BY PushShape DEF Idle
<1>2. HeldBy(1, frame.at, frame.at) = 0
  BY DEF HeldBy, Locked
<1>3. HeldIn(stack'[t]) = HeldBy(1, frame.at, frame.at) /\ HeldIn(stack[t]) = 0
  BY <1>1 DEF HeldIn
<1>. QED  BY <1>1, <1>2, <1>3

\* The lock is held exactly as often as frames say.
LEMMA NextLock ==
  ASSUME TypesOK, StackOK, LockOK, [Next]_vars
  PROVE  LockOK'
<1>1. ASSUME \A u \in Threads : HeldIn(stack'[u]) = HeldIn(stack[u]),
             UNCHANGED <<multithreaded_mode, lockVars>>
      PROVE  LockOK'
  BY <1>1 DEF LockOK, lockVars
<1>2. None \notin Threads /\ Main \in Threads
  BY ConstantTypes
<1>3. ASSUME NEW t \in Threads, Operator(t) PROVE LockOK'
  <2>1. ~Idle(t)
    BY <1>3 DEF Operator, ReadPtr, Acquire, Check, Nested, Create, MemoryFence, Publish, Release, Use, At
  <2>2. /\ Of(t) \in Statics /\ {} \in SUBSET Statics /\ Uses[Of(t)] \in SUBSET Statics
        /\ {"use", "acquire", "create", "check", "release", "fence", "publish"}
              \subseteq Places \ {"delete"}
    BY <2>1, TopFacts, ConstantTypes DEF Places
  <2>3. \A x : At(t, x) <=> stack[t][1].at = x
    BY <2>1, TopFacts
  <2>4. ~multithreaded_mode => stack[t][1].at \notin {"acquire", "check", "fence", "release"}
    BY <2>1, TopOK DEF FrameOK
  <2>5. ASSUME NEW at \in Places \ {"delete"}, NEW left \in SUBSET Statics, Step(t, at, left),
               ~At(t, "delete"), at \in Locked <=> stack[t][1].at \in Locked,
               UNCHANGED <<multithreaded_mode, lockVars>>
        PROVE  LockOK'
    <3>1. \A u \in Threads : HeldIn(stack'[u]) = HeldIn(stack[u])
      BY <2>1, <2>5, HeldStep
    <3>. QED  BY <1>1, <2>5, <3>1
  <2>6. CASE ReadPtr(t)
    <3>. DEFINE at == IF PtrSeen(t, Of(t)) THEN "use"
                      ELSE IF multithreaded_mode THEN "acquire" ELSE "create"
                left == IF PtrSeen(t, Of(t)) \/ multithreaded_mode THEN {} ELSE Uses[Of(t)]
    <3>1. at \in Places \ {"delete"} /\ left \in SUBSET Statics /\ Step(t, at, left)
          /\ At(t, "read") /\ (multithreaded_mode => at \notin Locked)
          /\ UNCHANGED <<multithreaded_mode, lockVars>>
      BY <2>2, <2>6 DEF ReadPtr, Locked
    <3>2. CASE multithreaded_mode
      <4>. HIDE DEF at, left
      <4>. QED  BY <2>3, <2>5, <3>1, <3>2 DEF Locked
    <3>3. CASE ~multithreaded_mode
      BY <3>1, <3>3 DEF LockOK, lockVars
    <3>. QED  BY <3>2, <3>3
  <2>7. CASE Acquire(t)
    <3>1. /\ HeldIn(stack'[t]) = HeldIn(stack[t]) + 1 /\ HeldIn(stack[t]) \in Int
          /\ \A u \in Threads \ {t} : HeldIn(stack'[u]) = HeldIn(stack[u])
      BY <2>1, <2>2, <2>3, <2>7, HeldStep DEF Acquire, Locked
    <3>2. multithreaded_mode /\ multithreaded_mode' /\ holder \in {None, t}
          /\ holder' = t /\ depth' = depth + 1
      BY <2>3, <2>4, <2>7 DEF Acquire
    <3>. QED  BY <1>2, <3>1, <3>2 DEF LockOK
  <2>8. CASE Check(t)
    <3>1. CASE PtrSeen(t, Of(t))
      BY <2>2, <2>3, <2>5, <2>8, <3>1 DEF Check, Locked
    <3>2. CASE ~PtrSeen(t, Of(t))
      BY <2>2, <2>3, <2>5, <2>8, <3>2 DEF Check, Locked
    <3>. QED  BY <3>1, <3>2
  <2>9. CASE Nested(t)
    BY <1>1, <2>9, HeldNested DEF Nested
  <2>10. CASE Create(t)
    <3>1. CASE multithreaded_mode
      BY <2>2, <2>3, <2>5, <2>10, <3>1 DEF Create, Locked
    <3>2. CASE ~multithreaded_mode
      BY <2>10, <3>2 DEF Create, LockOK, lockVars
    <3>. QED  BY <3>1, <3>2
  <2>11. CASE MemoryFence(t)
    BY <2>2, <2>3, <2>5, <2>11 DEF MemoryFence, Locked
  <2>12. CASE Publish(t)
    <3>1. CASE multithreaded_mode
      BY <2>2, <2>3, <2>5, <2>12, <3>1 DEF Publish, Locked
    <3>2. CASE ~multithreaded_mode
      BY <2>12, <3>2 DEF Publish, LockOK, lockVars
    <3>. QED  BY <3>1, <3>2
  <2>13. CASE Release(t)
    <3>1. /\ HeldIn(stack'[t]) = HeldIn(stack[t]) - 1 /\ HeldIn(stack[t]) \in Int
          /\ \A u \in Threads \ {t} : HeldIn(stack'[u]) = HeldIn(stack[u])
      BY <2>1, <2>2, <2>3, <2>13, HeldStep DEF Release, Locked
    <3>2. multithreaded_mode /\ multithreaded_mode' /\ depth' = depth - 1
          /\ holder' = IF depth = 1 THEN None ELSE t
      BY <2>3, <2>4, <2>13 DEF Release
    <3>3. holder = t
      <4>1. HeldIn(stack[t]) # 0
        <5>1. stack[t] # <<>> /\ Len(stack[t]) \in Nat \ {0} /\ stack[t][1].at = "release"
          BY <2>1, <2>3, <2>13, TopFacts DEF Release
        <5>2. PICK n \in Nat \ {0} : n = Len(stack[t])
          BY <5>1
        <5>3. PICK b : b = stack[t][n].at
          OBVIOUS
        <5>4. HeldIn(stack[t]) = HeldBy(n, "release", b) /\ HeldBy(n, "release", b) # 0
          BY <5>1, <5>2, <5>3 DEF HeldIn, HeldBy, Locked
        <5>. QED  BY <5>4
      <4>. QED  BY <3>2, <4>1 DEF LockOK
    <3>. QED  BY <1>2, <3>1, <3>2, <3>3 DEF LockOK
  <2>14. CASE Use(t)
    BY <1>1, <2>14, HeldPop DEF Use
  <2>. QED  BY <1>3, <2>6, <2>7, <2>8, <2>9, <2>10, <2>11, <2>12, <2>13, <2>14 DEF Operator
<1>4. ASSUME NEW t \in Threads, NEW s \in Statics, Dereference(t, s) PROVE LockOK'
  <2>1. Frame(s, "read", {}) \in Frames /\ Frame(s, "read", {}).at = "read"
    BY FrameType DEF Places
  <2>. QED  BY <1>1, <1>4, <2>1, HeldPush DEF Dereference
<1>5. CASE llvm_start_multithreaded
  <2>1. \A t \in Threads : HeldIn(stack'[t]) = 0 /\ multithreaded_mode' /\ holder' = None /\ depth' = 0
    BY <1>5 DEF llvm_start_multithreaded, AllIdle, Idle, HeldIn
  <2>. QED  BY <1>2, <1>5, <2>1 DEF LockOK, llvm_start_multithreaded
<1>6. CASE llvm_stop_multithreaded
  <2>1. \A t \in Threads : Idle(t)
    <3>1. ASSUME NEW t \in Threads, ~Idle(t) PROVE t = Main
      BY <1>6, <3>1, TopOK DEF FrameOK, llvm_stop_multithreaded
    <3>. QED  BY <1>6, <3>1 DEF llvm_stop_multithreaded
  <2>2. holder = None /\ depth = 0
    BY <2>1, <1>2 DEF LockOK, HeldIn, Idle, TypesOK
  <2>. QED  BY <1>6, <2>2 DEF LockOK, llvm_stop_multithreaded, lockVars
<1>7. CASE Destroy
  <2>. DEFINE fr == Frame(Head(StaticList), "delete", DeleterUses[Head(StaticList)])
  <2>1. fr \in Frames /\ fr.at = "delete"
    <3>1. Head(StaticList) \in Statics
      BY <1>7, HeadTailProperties DEF Destroy, TypesOK
    <3>. QED  BY <3>1, FrameType, ConstantTypes DEF Places
  <2>2. Idle(Main) /\ Push(Main, fr) /\ UNCHANGED <<multithreaded_mode, lockVars>>
    BY <1>7 DEF Destroy
  <2>. HIDE DEF fr
  <2>. QED  BY <1>1, <1>2, <2>1, <2>2, HeldPush
<1>8. CASE Destroyed
  BY <1>1, <1>2, <1>8, HeldPop DEF Destroyed
<1>9. CASE (\E t \in Threads : Reach(t)) \/ llvm_shutdown \/ Restart \/ Finished \/ UNCHANGED vars
  BY <1>1, <1>9 DEF Reach, llvm_shutdown, Restart, Finished, vars, lockVars
<1>. QED  BY <1>3, <1>4, <1>5, <1>6, <1>7, <1>8, <1>9 DEF Next, Shutdown

\* The variables of the lazily constructed globals keep their types, and the global
\* lock has a holder exactly while it has been taken more often than released.
THEOREM AlwaysTypeOK == Spec => []TypeOK
<1>1. Init => LockOK
  BY DEF Init, LockOK
<1>2. TypesOK /\ StackOK /\ LockOK => TypeOK
  BY ConstantTypes DEF TypesOK, LockOK, TypeOK
<1>3. TypesOK /\ StackOK /\ LockOK /\ [Next]_vars => (TypesOK /\ StackOK /\ LockOK)'
  BY NextStack, NextLock
<1>. QED  BY InitVisible, <1>1, <1>2, <1>3, PTL DEF Spec
-----------------------------------------------------------------------------
(* No static is constructed twice.                                         *)

\* A static is above all that its creator and deleter dereference.
Rank == CHOOSE rank \in [Statics -> 0 .. Cardinality(Statics)] :
            \A s \in Statics : \A u \in Uses[s] \cup DeleterUses[s] : rank[u] < rank[s]
RankOK ==
    \A t \in Threads : \A i, j \in 1 .. Len(stack[t]) :
        i < j => Rank[stack[t][i].of] < Rank[stack[t][j].of]

\* What is being made or deleted is not on the list; what is on it is seen.
Making == {"create", "fence", "publish", "delete"}
MakingOK ==
    \A t \in Threads : \A i \in 1 .. Len(stack[t]) :
        stack[t][i].at \in Making => stack[t][i].of \notin OnList
ListedOK == \A s \in OnList : \E t \in Threads : PtrSeen(t, s)
OnceOK == RankOK /\ MakingOK /\ ListedOK /\ BuiltOnce

\* The order that the constants are assumed to have.
LEMMA RankFacts ==
  /\ \A s \in Statics : Rank[s] \in Int
  /\ \A s \in Statics : \A u \in Uses[s] \cup DeleterUses[s] : Rank[u] < Rank[s]
<1>1. \E rank \in [Statics -> 0 .. Cardinality(Statics)] :
          \A s \in Statics : \A u \in Uses[s] \cup DeleterUses[s] : rank[u] < rank[s]
  BY StaticsAssumption
<1>2. /\ Rank \in [Statics -> 0 .. Cardinality(Statics)]
      /\ \A s \in Statics : \A u \in Uses[s] \cup DeleterUses[s] : Rank[u] < Rank[s]
  BY <1>1 DEF Rank
<1>. QED  BY <1>2

\* Any operator of a thread that executes one.
LEMMA FrameOf ==
  ASSUME TypesOK, NEW t \in Threads, NEW i \in 1 .. Len(stack[t])
  PROVE  stack[t][i] \in Frames /\ stack[t][i].of \in Statics /\ ~Idle(t) /\ Len(stack[t]) \in Nat \ {0}
<1>1. stack[t] \in Seq(Frames)
  BY DEF TypesOK
<1>2. stack[t][i] \in Frames
  BY <1>1, ElementOfSeq
<1>. QED  BY <1>1, <1>2, EmptySeq DEF Frames, Idle

\* After t's top frame has moved on.
LEMMA OnceStep ==
  ASSUME TypesOK, RankOK, NEW t \in Threads, ~Idle(t),
         NEW at \in Places, NEW left \in SUBSET Statics, Step(t, at, left),
         at \in Making => Of(t) \notin OnList',
         \A u \in Threads : \A i \in 1 .. Len(stack[u]) :
            (u # t \/ i > 1) /\ stack[u][i].at \in Making => stack[u][i].of \notin OnList'
  PROVE  RankOK' /\ MakingOK'
<1>1. /\ Len(stack'[t]) = Len(stack[t]) /\ stack'[t][1] = Frame(Of(t), at, left)
      /\ \A i \in 2 .. Len(stack[t]) : stack'[t][i] = stack[t][i]
      /\ \A u \in Threads \ {t} : stack'[u] = stack[u]
  BY StepShape
<1>2. /\ Len(stack[t]) \in Nat \ {0} /\ Of(t) \in Statics /\ Of(t) = stack[t][1].of
  BY TopFacts DEF Of
<1>3. Frame(Of(t), at, left).at = at /\ Frame(Of(t), at, left).of = Of(t)
  BY <1>2, FrameType
<1>4. \A i \in 1 .. Len(stack[t]) : stack'[t][i].of = stack[t][i].of
  <2>. TAKE i \in 1 .. Len(stack[t])
  <2>1. CASE i = 1  BY <1>1, <1>2, <1>3, <2>1
  <2>2. CASE i # 1
    <3>1. i \in 2 .. Len(stack[t])  BY <1>2, <2>2
    <3>. QED  BY <1>1, <3>1
  <2>. QED  BY <2>1, <2>2
<1>5. RankOK'
  <2>. SUFFICES ASSUME NEW u \in Threads, NEW i \in 1 .. Len(stack'[u]),
                       NEW j \in 1 .. Len(stack'[u]), i < j
                PROVE  Rank[stack'[u][i].of] < Rank[stack'[u][j].of]
    BY DEF RankOK, Rank
  <2>1. CASE u = t  BY <1>1, <1>4, <2>1 DEF RankOK
  <2>2. CASE u # t  BY <1>1, <2>2 DEF RankOK
  <2>. QED  BY <2>1, <2>2
<1>6. MakingOK'
  <2>. SUFFICES ASSUME NEW u \in Threads, NEW i \in 1 .. Len(stack'[u]), stack'[u][i].at \in Making
                PROVE  stack'[u][i].of \notin OnList'
    BY DEF MakingOK, Making
  <2>1. CASE u # t  BY <1>1, <2>1
  <2>2. CASE u = t /\ i = 1  BY <1>1, <1>3, <2>2
  <2>3. CASE u = t /\ i # 1
    <3>1. i \in 2 .. Len(stack[t]) /\ i \in 1 .. Len(stack[t]) /\ i > 1  BY <1>1, <1>2, <2>3
    <3>. QED  BY <1>1, <2>3, <3>1
  <2>. QED  BY <2>1, <2>2, <2>3
<1>. QED  BY <1>5, <1>6

\* Ranks keep rising, and what is made stays off the list, when an operator returns,
LEMMA OncePop ==
  ASSUME TypesOK, RankOK, MakingOK, NEW t \in Threads, ~Idle(t), Pop(t), OnList' = OnList
  PROVE  RankOK' /\ MakingOK'
<1>1. /\ Len(stack'[t]) = Len(stack[t]) - 1 /\ Len(stack[t]) \in Nat \ {0}
      /\ \A i \in 1 .. Len(stack[t]) - 1 : stack'[t][i] = stack[t][i + 1]
      /\ \A u \in Threads \ {t} : stack'[u] = stack[u]
  BY PopShape, TopFacts
<1>2. \A i \in 1 .. Len(stack[t]) - 1 : i + 1 \in 1 .. Len(stack[t])
  BY <1>1
<1>3. RankOK'
  <2>. SUFFICES ASSUME NEW u \in Threads, NEW i \in 1 .. Len(stack'[u]),
                       NEW j \in 1 .. Len(stack'[u]), i < j
                PROVE  Rank[stack'[u][i].of] < Rank[stack'[u][j].of]
    BY DEF RankOK, Rank
  <2>1. CASE u = t
    <3>1. /\ i \in 1 .. Len(stack[t]) - 1 /\ j \in 1 .. Len(stack[t]) - 1
          /\ i + 1 < j + 1
      BY <1>1, <2>1
    <3>. QED  BY <1>1, <1>2, <2>1, <3>1 DEF RankOK
  <2>2. CASE u # t  BY <1>1, <2>2 DEF RankOK
  <2>. QED  BY <2>1, <2>2
<1>4. MakingOK'
  <2>. SUFFICES ASSUME NEW u \in Threads, NEW i \in 1 .. Len(stack'[u]), stack'[u][i].at \in Making
                PROVE  stack'[u][i].of \notin OnList
    BY DEF MakingOK, Making
  <2>1. CASE u # t  BY <1>1, <2>1 DEF MakingOK
  <2>2. CASE u = t
    <3>1. i \in 1 .. Len(stack[t]) - 1  BY <1>1, <2>2
    <3>. QED  BY <1>1, <1>2, <2>2, <3>1 DEF MakingOK
  <2>. QED  BY <2>1, <2>2
<1>. QED  BY <1>3, <1>4

\* when an idle thread starts one,
LEMMA OncePush ==
  ASSUME TypesOK, RankOK, MakingOK, NEW t \in Threads, Idle(t), NEW frame \in Frames, Push(t, frame),
         \A s : s \in OnList' => s \in OnList, frame.at \in Making => frame.of \notin OnList'
  PROVE  RankOK' /\ MakingOK'
<1>1. /\ Len(stack'[t]) = 1 /\ stack'[t][1] = frame
      /\ \A u \in Threads \ {t} : stack'[u] = stack[u]
  BY PushShape
<1>2. \A i \in 1 .. Len(stack'[t]) : i = 1
  BY <1>1
<1>3. RankOK'
  <2>. SUFFICES ASSUME NEW u \in Threads, NEW i \in 1 .. Len(stack'[u]),
                       NEW j \in 1 .. Len(stack'[u]), i < j
                PROVE  Rank[stack'[u][i].of] < Rank[stack'[u][j].of]
    BY DEF RankOK, Rank
  <2>1. CASE u = t  BY <1>2, <2>1
  <2>2. CASE u # t  BY <1>1, <2>2 DEF RankOK
  <2>. QED  BY <2>1, <2>2
<1>4. MakingOK'
  <2>. SUFFICES ASSUME NEW u \in Threads, NEW i \in 1 .. Len(stack'[u]), stack'[u][i].at \in Making
                PROVE  stack'[u][i].of \notin OnList'
    BY DEF MakingOK, Making
  <2>1. CASE u # t  BY <1>1, <2>1 DEF MakingOK
  <2>2. CASE u = t  BY <1>1, <1>2, <2>2
  <2>. QED  BY <2>1, <2>2
<1>. QED  BY <1>3, <1>4

\* and when a creator or deleter does: what it dereferences ranks below it.
LEMMA OnceNested ==
  ASSUME TypesOK, StackOK, RankOK, MakingOK, NEW t \in Threads, Nested(t)
  PROVE  RankOK' /\ MakingOK'
<1>1. ~Idle(t)
  BY DEF Nested, At
<1>2. PICK w \in Left(t) : stack' = [stack EXCEPT ![t] =
              <<Frame(w, "read", {}), Frame(Of(t), Head(@).at, Left(t) \ {w})>> \o Tail(@)]
  BY DEF Nested
<1>3. /\ Len(stack'[t]) = Len(stack[t]) + 1
      /\ stack'[t][1] = Frame(w, "read", {})
      /\ stack'[t][2] = Frame(Of(t), stack[t][1].at, Left(t) \ {w})
      /\ \A i \in 3 .. Len(stack[t]) + 1 : stack'[t][i] = stack[t][i - 1]
      /\ \A u \in Threads \ {t} : stack'[u] = stack[u]
  BY <1>1, <1>2, NestedShape
<1>4. /\ Len(stack[t]) \in Nat \ {0} /\ Of(t) \in Statics /\ Of(t) = stack[t][1].of
      /\ Left(t) \in SUBSET Statics /\ stack[t][1].at \in Places
      /\ Left(t) = stack[t][1].left
  BY <1>1, TopFacts DEF Of, Left
<1>5. stack'[t][1].at = "read" /\ stack'[t][1].of = w /\ w \in Statics
  <2>1. w \in Statics /\ "read" \in Places  BY <1>4 DEF Places
  <2>2. Frame(w, "read", {}).at = "read" /\ Frame(w, "read", {}).of = w  BY <2>1, FrameType
  <2>. QED  BY <1>3, <2>1, <2>2
<1>6. stack'[t][2].at = stack[t][1].at /\ stack'[t][2].of = stack[t][1].of
  <2>. DEFINE at == stack[t][1].at
  <2>1. at \in Places /\ Left(t) \ {w} \in SUBSET Statics  BY <1>4
  <2>. HIDE DEF at
  <2>2. Frame(Of(t), at, Left(t) \ {w}).at = at /\ Frame(Of(t), at, Left(t) \ {w}).of = Of(t)
    BY <1>4, <2>1, FrameType
  <2>3. stack'[t][2] = Frame(Of(t), at, Left(t) \ {w})
    BY <1>3 DEF at
  <2>4. stack'[t][2].at = at /\ stack'[t][2].of = stack[t][1].of
    BY <1>4, <2>2, <2>3
  <2>. QED  BY <2>4 DEF at
<1>7. \A i \in 2 .. Len(stack[t]) + 1 :
         /\ i - 1 \in 1 .. Len(stack[t])
         /\ stack'[t][i].at = stack[t][i - 1].at /\ stack'[t][i].of = stack[t][i - 1].of
  <2>. TAKE i \in 2 .. Len(stack[t]) + 1
  <2>1. i - 1 \in 1 .. Len(stack[t])  BY <1>4
  <2>2. CASE i = 2  BY <1>6, <2>1, <2>2
  <2>3. CASE i # 2
    <3>1. i \in 3 .. Len(stack[t]) + 1  BY <1>4, <2>3
    <3>. QED  BY <1>3, <2>1, <3>1
  <2>. QED  BY <2>2, <2>3
<1>8. RankOK'
  <2>. SUFFICES ASSUME NEW u \in Threads, NEW i \in 1 .. Len(stack'[u]),
                       NEW j \in 1 .. Len(stack'[u]), i < j
                PROVE  Rank[stack'[u][i].of] < Rank[stack'[u][j].of]
    BY DEF RankOK, Rank
  <2>1. CASE u # t  BY <1>3, <2>1 DEF RankOK
  <2>2. CASE u = t /\ i = 1
    <3>1. j \in 2 .. Len(stack[t]) + 1  BY <1>3, <1>4, <2>2
    <3>2. j - 1 \in 1 .. Len(stack[t]) /\ stack'[t][j].of = stack[t][j - 1].of
      BY <1>7, <3>1
    <3>3. Rank[w] < Rank[Of(t)]
      <4>1. FrameOK(t, 1, stack[t][1])  BY <1>1, TopOK
      <4>2. w \in Uses[Of(t)] \cup DeleterUses[Of(t)]  BY <1>4, <4>1 DEF FrameOK
      <4>. QED  BY <1>4, <4>2, RankFacts
    <3>4. stack[t][j - 1].of \in Statics
      BY <3>2, FrameOf
    <3>5. Rank[w] \in Int /\ Rank[Of(t)] \in Int /\ Rank[stack[t][j - 1].of] \in Int
      BY <1>4, <1>5, <3>4, RankFacts
    <3>6. j - 1 = 1 \/ Rank[Of(t)] < Rank[stack[t][j - 1].of]
      <4>1. 1 \in 1 .. Len(stack[t]) /\ (j - 1 = 1 \/ 1 < j - 1)  BY <1>4, <3>2
      <4>. QED  BY <1>4, <3>2, <4>1 DEF RankOK
    <3>7. Rank[w] < Rank[stack[t][j - 1].of]
      BY <1>4, <3>3, <3>5, <3>6
    <3>. QED  BY <1>5, <2>2, <3>2, <3>7
  <2>3. CASE u = t /\ i # 1
    <3>1. i \in 2 .. Len(stack[t]) + 1 /\ j \in 2 .. Len(stack[t]) + 1 /\ i - 1 < j - 1
      BY <1>3, <1>4, <2>3
    <3>2. /\ i - 1 \in 1 .. Len(stack[t]) /\ stack'[t][i].of = stack[t][i - 1].of
          /\ j - 1 \in 1 .. Len(stack[t]) /\ stack'[t][j].of = stack[t][j - 1].of
      BY <1>7, <3>1
    <3>. QED  BY <2>3, <3>1, <3>2 DEF RankOK
  <2>. QED  BY <2>1, <2>2, <2>3
<1>9. MakingOK'
  <2>1. OnList' = OnList
    BY DEF Nested, OnList
  <2>. SUFFICES ASSUME NEW u \in Threads, NEW i \in 1 .. Len(stack'[u]), stack'[u][i].at \in Making
                PROVE  stack'[u][i].of \notin OnList
    BY <2>1 DEF MakingOK, Making
  <2>2. CASE u # t  BY <1>3, <2>2 DEF MakingOK
  <2>3. CASE u = t
    <3>1. i # 1  BY <1>5, <2>3 DEF Making
    <3>2. i \in 2 .. Len(stack[t]) + 1  BY <1>3, <1>4, <2>3, <3>1
    <3>. QED  BY <1>7, <2>3, <3>2 DEF MakingOK
  <2>. QED  BY <2>2, <2>3
<1>. QED  BY <1>8, <1>9

\* Who has a frame that needs the lock holds it.
LEMMA HolderAlone ==
  ASSUME TypesOK, StackOK, LockOK, multithreaded_mode,
         NEW t \in Threads, NEW i \in 1 .. Len(stack[t]), stack[t][i].at \in Locked
  PROVE  holder = t
<1>1. Len(stack[t]) \in Nat \ {0} /\ stack[t] # <<>>
  BY FrameOf DEF Idle
<1>2. PICK n \in Nat \ {0} : n = Len(stack[t])
  BY <1>1
<1>3. PICK top, b : top = stack[t][1].at /\ b = stack[t][n].at
  OBVIOUS
<1>4. HeldIn(stack[t]) = HeldBy(n, top, b)
  BY <1>1, <1>2, <1>3 DEF HeldIn
<1>5. HeldBy(n, top, b) # 0
  <2>1. CASE i = 1
    BY <1>2, <1>3, <2>1 DEF HeldBy
  <2>2. CASE i # 1 /\ i = n
    <3>1. b # "delete" /\ n > 1
      <4>1. b \in Locked  BY <1>3, <2>2
      <4>2. i \in 1 .. n  BY <1>2
      <4>. QED  BY <2>2, <4>1, <4>2 DEF Locked
    <3>. QED  BY <3>1 DEF HeldBy
  <2>3. CASE i # 1 /\ i # n
    <3>1. n > 2  BY <1>2, <2>3
    <3>. QED  BY <3>1 DEF HeldBy
  <2>. QED  BY <2>1, <2>2, <2>3
<1>. QED  BY <1>4, <1>5 DEF LockOK

\* While a static is published nobody else makes or deletes one.
LEMMA MakingAlone ==
  ASSUME TypesOK, StackOK, LockOK, NEW t \in Threads, At(t, "publish"),
         NEW u \in Threads \ {t}, NEW i \in 1 .. Len(stack[u])
  PROVE  stack[u][i].at \notin Making
<1>1. ~Idle(t) /\ ~Idle(u)
  BY FrameOf DEF At
<1>2. /\ stack[t][1].at = "publish" /\ 1 \in 1 .. Len(stack[t]) /\ 1 \in 1 .. Len(stack[u])
      /\ FrameOK(t, 1, stack[t][1]) /\ FrameOK(u, 1, stack[u][1])
  BY <1>1, TopFacts, TopOK
<1>3. multithreaded_mode /\ session.phase = "on"
  BY <1>2 DEF FrameOK
<1>4. stack[u][i].at # "delete"
  BY <1>3 DEF StackOK, FrameOK
<1>5. holder = t
  BY <1>2, <1>3, HolderAlone DEF Locked
<1>6. stack[u][i].at \notin Locked
  BY <1>3, <1>5, HolderAlone
<1>. QED  BY <1>4, <1>6 DEF Making, Locked

\* Who finds Ptr null in the second look, or alone, may construct.
LEMMA UnseenUnlisted ==
  ASSUME TypesOK, StackOK, LockOK, PendingOK, ListedOK, NEW t \in Threads, ~PtrSeen(t, Of(t)),
         At(t, "check") \/ (~multithreaded_mode /\ ~Idle(t))
  PROVE  Of(t) \notin OnList
<1>. SUFFICES ASSUME Of(t) \in OnList PROVE FALSE
  OBVIOUS
<1>1. PICK u \in Threads : PtrSeen(u, Of(t))
  BY DEF ListedOK
<1>2. ~Idle(t) /\ u # t /\ pending[u] # {}
  BY <1>1 DEF At, PtrSeen
<1>3. 1 \in 1 .. Len(stack[t]) /\ FrameOK(t, 1, stack[t][1]) /\ \A x : At(t, x) <=> stack[t][1].at = x
  BY <1>2, TopFacts, TopOK
<1>4. CASE multithreaded_mode
  <2>1. At(u, "fence") \/ At(u, "release")
    BY <1>2, <1>4 DEF PendingOK
  <2>2. ~Idle(u)
    BY <2>1 DEF At
  <2>3. 1 \in 1 .. Len(stack[u]) /\ stack[u][1].at \in Locked
    BY <2>1, <2>2, TopFacts DEF Locked
  <2>4. stack[t][1].at \in Locked
    BY <1>3, <1>4 DEF Locked
  <2>. QED  BY <1>2, <1>3, <1>4, <2>3, <2>4, HolderAlone
<1>5. CASE ~multithreaded_mode
  <2>1. u = Main /\ t = Main
    BY <1>2, <1>3, <1>5 DEF PendingOK, FrameOK
  <2>. QED  BY <1>2, <2>1
<1>. QED  BY <1>4, <1>5

\* Publishing puts the new static before all others on the list.
LEMMA PublishList ==
  ASSUME TypesOK, NEW s \in Statics, StaticList' = <<s>> \o StaticList
  PROVE  /\ \A x : x \in OnList' <=> x \in OnList \/ x = s
         /\ BuiltOnce /\ s \notin OnList => BuiltOnce'
<1>1. <<s>> \in Seq(Statics) /\ Len(<<s>>) = 1 /\ <<s>>[1] = s  OBVIOUS
<1>2. StaticList \in Seq(Statics) /\ Len(StaticList) \in Nat
  BY LenProperties DEF TypesOK
<1>3. /\ Len(StaticList') = 1 + Len(StaticList)
      /\ \A i \in 1 .. 1 + Len(StaticList) :
            StaticList'[i] = IF i <= 1 THEN <<s>>[i] ELSE StaticList[i - 1]
  BY <1>1, <1>2, ConcatProperties
<1>4. StaticList'[1] = s /\ 1 \in 1 .. Len(StaticList')
  BY <1>1, <1>2, <1>3
<1>5. \A i \in 2 .. Len(StaticList') : StaticList'[i] = StaticList[i - 1] /\ i - 1 \in 1 .. Len(StaticList)
  <2>. TAKE i \in 2 .. Len(StaticList')
  <2>1. i \in 1 .. 1 + Len(StaticList) /\ ~(i <= 1) /\ i - 1 \in 1 .. Len(StaticList)
    BY <1>2, <1>3
  <2>. QED  BY <1>3, <2>1
<1>6. \A i \in 1 .. Len(StaticList) : StaticList'[i + 1] = StaticList[i] /\ i + 1 \in 1 .. Len(StaticList')
  <2>. TAKE i \in 1 .. Len(StaticList)
  <2>1. i + 1 \in 2 .. Len(StaticList') /\ (i + 1) - 1 = i /\ i + 1 \in 1 .. Len(StaticList')
    BY <1>2, <1>3
  <2>. QED  BY <1>5, <2>1
<1>7. \A i \in 1 .. Len(StaticList') : i = 1 \/ i \in 2 .. Len(StaticList')
  BY <1>2, <1>3
<1>8. \A x : x \in OnList' <=> x \in OnList \/ x = s
  BY <1>4, <1>5, <1>6, <1>7 DEF OnList
<1>9. ASSUME BuiltOnce, s \notin OnList PROVE BuiltOnce'
  <2>. SUFFICES ASSUME NEW i \in 1 .. Len(StaticList'), NEW j \in 1 .. Len(StaticList'),
                       StaticList'[i] = StaticList'[j]
                PROVE  i = j
    BY DEF BuiltOnce
  <2>1. \A k \in 2 .. Len(StaticList') : StaticList'[k] # s
    BY <1>5, <1>9 DEF OnList
  <2>2. CASE i = 1 \/ j = 1
    BY <1>4, <1>7, <2>1, <2>2
  <2>3. CASE i # 1 /\ j # 1
    <3>1. i \in 2 .. Len(StaticList') /\ j \in 2 .. Len(StaticList')
      BY <1>7, <2>3
    <3>2. i - 1 = j - 1
      BY <1>5, <1>9, <3>1 DEF BuiltOnce
    <3>. QED  BY <1>2, <1>3, <3>1, <3>2
  <2>. QED  BY <2>2, <2>3
<1>. QED  BY <1>8, <1>9

\* The newest static leaves the list for good.
LEMMA DestroyList ==
  ASSUME TypesOK, BuiltOnce, StaticList # <<>>, StaticList' = Tail(StaticList)
  PROVE  /\ \A x : x \in OnList' => x \in OnList
         /\ BuiltOnce' /\ Head(StaticList) \notin OnList'
<1>1. /\ StaticList \in Seq(Statics) /\ Len(StaticList) \in Nat \ {0}
      /\ Len(StaticList') = Len(StaticList) - 1
      /\ \A i \in 1 .. Len(StaticList') : StaticList'[i] = StaticList[i + 1]
      /\ Head(StaticList) = StaticList[1]
  BY HeadTailProperties, EmptySeq DEF TypesOK
<1>2. \A i \in 1 .. Len(StaticList') : i + 1 \in 1 .. Len(StaticList) /\ i + 1 # 1
  BY <1>1
<1>3. 1 \in 1 .. Len(StaticList)
  BY <1>1
<1>4. \A x : x \in OnList' => x \in OnList
  BY <1>1, <1>2 DEF OnList
<1>5. Head(StaticList) \notin OnList'
  BY <1>1, <1>2, <1>3 DEF OnList, BuiltOnce
<1>6. BuiltOnce'
  <2>. SUFFICES ASSUME NEW i \in 1 .. Len(StaticList'), NEW j \in 1 .. Len(StaticList'),
                       StaticList'[i] = StaticList'[j]
                PROVE  i = j
    BY DEF BuiltOnce
  <2>1. i + 1 = j + 1
    BY <1>1, <1>2 DEF BuiltOnce
  <2>. QED  BY <1>1, <2>1
<1>. QED  BY <1>4, <1>5, <1>6

\* What is on the list stays in sight when nothing is forgotten.
LEMMA ListedGrows ==
  ASSUME TypesOK, ListedOK, Grows, \A x : x \in OnList' => x \in OnList
  PROVE  ListedOK'
<1>1. \A x \in OnList : x \in Statics
  BY ElementOfSeq DEF OnList, TypesOK
<1>2. \A x \in OnList' : \E u \in Threads : Ptr'[x] \/ Store("ptr", x) \in pending'[u]
  BY <1>1 DEF ListedOK, Grows, PtrSeen
<1>. QED  BY <1>2 DEF ListedOK, PtrSeen

\* No step of an operator constructs what is there.
LEMMA OperatorOnce ==
  ASSUME TypesOK, StackOK, PendingOK, LockOK, OnceOK, NEW t \in Threads, Operator(t)
  PROVE  OnceOK'
<1>. USE DEF OnceOK
<1>1. ~Idle(t)
  BY DEF Operator, ReadPtr, Acquire, Check, Nested, Create, MemoryFence, Publish, Release, Use, At
<1>2. /\ Of(t) \in Statics /\ {} \in SUBSET Statics /\ Uses[Of(t)] \in SUBSET Statics
      /\ {"use", "acquire", "create", "check", "release", "fence", "publish"} \subseteq Places
  BY <1>1, TopFacts, ConstantTypes DEF Places
<1>3. 1 \in 1 .. Len(stack[t]) /\ Of(t) = stack[t][1].of /\ \A x : At(t, x) <=> stack[t][1].at = x
  BY <1>1, TopFacts DEF Of
<1>4. \A x \in Making : At(t, x) => Of(t) \notin OnList
  BY <1>3 DEF MakingOK
\* Steps that leave the list alone.
<1>5. ASSUME NEW at \in Places, NEW left \in SUBSET Statics, Step(t, at, left), Grows,
             StaticList' = StaticList, at \in Making => Of(t) \notin OnList
      PROVE  OnceOK'
  <2>1. OnList' = OnList /\ BuiltOnce'
    BY <1>5 DEF OnList, BuiltOnce
  <2>2. RankOK' /\ MakingOK'
    BY <1>1, <1>5, <2>1, OnceStep DEF MakingOK
  <2>. QED  BY <1>5, <2>1, <2>2, ListedGrows
<1>6. CASE ReadPtr(t)
  <2>. DEFINE at == IF PtrSeen(t, Of(t)) THEN "use"
                    ELSE IF multithreaded_mode THEN "acquire" ELSE "create"
              left == IF PtrSeen(t, Of(t)) \/ multithreaded_mode THEN {} ELSE Uses[Of(t)]
  <2>1. at \in Places /\ left \in SUBSET Statics /\ Step(t, at, left) /\ StaticList' = StaticList
    BY <1>2, <1>6 DEF ReadPtr
  <2>2. Grows
    BY <1>6, DrainSeen, SameMemory DEF ReadPtr
  <2>3. at \in Making => Of(t) \notin OnList
    BY <1>1, UnseenUnlisted DEF Making
  <2>. HIDE DEF at, left
  <2>. QED  BY <1>5, <2>1, <2>2, <2>3
<1>7. CASE Acquire(t)
  BY <1>2, <1>5, <1>7, SameMemory DEF Acquire, Making
<1>8. CASE Check(t)
  <2>1. Grows /\ StaticList' = StaticList
    BY <1>8, SameMemory DEF Check
  <2>2. CASE PtrSeen(t, Of(t))
    BY <1>2, <1>5, <1>8, <2>1, <2>2 DEF Check, Making
  <2>3. CASE ~PtrSeen(t, Of(t))
    <3>1. Of(t) \notin OnList
      BY <1>8, <2>3, UnseenUnlisted DEF Check
    <3>. QED  BY <1>2, <1>5, <1>8, <2>1, <2>3, <3>1 DEF Check
  <2>. QED  BY <2>2, <2>3
<1>9. CASE Nested(t)
  <2>1. Grows /\ OnList' = OnList /\ BuiltOnce'
    BY <1>9, SameMemory DEF Nested, OnList, BuiltOnce
  <2>. QED  BY <1>9, <2>1, OnceNested, ListedGrows
<1>10. CASE Create(t)
  <2>1. Store("built", Of(t)) \in Stores
    BY <1>2, PtrStore
  <2>2. Grows /\ StaticList' = StaticList /\ Of(t) \notin OnList
    BY <1>4, <1>10, <2>1, OneMoreStore DEF Create, Making
  <2>3. CASE multithreaded_mode
    BY <1>2, <1>5, <1>10, <2>2, <2>3 DEF Create
  <2>4. CASE ~multithreaded_mode
    BY <1>2, <1>5, <1>10, <2>2, <2>4 DEF Create
  <2>. QED  BY <2>3, <2>4
<1>11. CASE MemoryFence(t)
  BY <1>2, <1>4, <1>5, <1>11, DrainSeen DEF MemoryFence, Making
<1>12. CASE Publish(t)
  <2>. DEFINE at == IF multithreaded_mode THEN "release" ELSE "use"
  <2>1. /\ Store("ptr", Of(t)) \in Stores /\ UNCHANGED <<Ptr, built>>
        /\ pending' = [pending EXCEPT ![t] = @ \cup {Store("ptr", Of(t))}]
        /\ StaticList' = <<Of(t)>> \o StaticList /\ Step(t, at, {})
        /\ at \in Places /\ at \notin Making /\ At(t, "publish")
    BY <1>2, <1>12, PtrStore DEF Publish, Making
  <2>. HIDE DEF at
  <2>2. /\ \A x : x \in OnList' <=> x \in OnList \/ x = Of(t)
        /\ BuiltOnce'
    BY <1>2, <1>4, <2>1, PublishList DEF Making
  <2>3. ASSUME NEW u \in Threads, NEW i \in 1 .. Len(stack[u]), u # t \/ i > 1,
               stack[u][i].at \in Making
        PROVE  stack[u][i].of \notin OnList'
    <3>1. u = t
      BY <2>1, <2>3, MakingAlone
    <3>2. 1 < i /\ Rank[Of(t)] < Rank[stack[u][i].of]
      BY <1>3, <2>3, <3>1 DEF RankOK
    <3>3. Rank[Of(t)] \in Int
      BY <1>2, RankFacts
    <3>4. stack[u][i].of # Of(t)
      BY <3>2, <3>3
    <3>. QED  BY <2>2, <2>3, <3>4 DEF MakingOK
  <2>4. RankOK' /\ MakingOK'
    BY <1>1, <1>2, <2>1, <2>3, OnceStep
  <2>5. ListedOK'
    <3>. DEFINE st == Store("ptr", Of(t))
    <3>1. st \in Stores /\ pending' = [pending EXCEPT ![t] = @ \cup {st}] /\ UNCHANGED <<Ptr, built>>
      BY <2>1
    <3>. HIDE DEF st
    <3>2. Grows /\ st \in pending'[t]
      <4>1. Grows /\ pending'[t] = pending[t] \cup {st}
        BY <3>1, OneMoreStore
      <4>. QED  BY <4>1
    <3>. USE DEF st
    <3>3. \A x \in OnList : x \in Statics
      BY ElementOfSeq DEF OnList, TypesOK
    <3>4. \A x \in OnList' : \E u \in Threads : Ptr'[x] \/ Store("ptr", x) \in pending'[u]
      BY <2>2, <3>2, <3>3 DEF ListedOK, Grows, PtrSeen
    <3>. QED  BY <3>4 DEF ListedOK, PtrSeen
  <2>. QED  BY <2>2, <2>4, <2>5
<1>13. CASE Release(t)
  BY <1>2, <1>5, <1>13, DrainSeen DEF Release, Making
<1>14. CASE Use(t)
  <2>1. Grows /\ OnList' = OnList /\ BuiltOnce' /\ Pop(t)
    BY <1>14, SameMemory DEF Use, OnList, BuiltOnce
  <2>. QED  BY <1>1, <2>1, OncePop, ListedGrows
<1>. QED  BY <1>6, <1>7, <1>8, <1>9, <1>10, <1>11, <1>12, <1>13, <1>14 DEF Operator

\* Nor does any other step.
LEMMA NextOnce ==
  ASSUME TypesOK, StackOK, PendingOK, LockOK, OnceOK, [Next]_vars
  PROVE  OnceOK'
\* Steps that leave the list and the stacks alone.
<1>1. ASSUME Grows, UNCHANGED <<StaticList, stack>> PROVE OnceOK'
  <2>1. OnList' = OnList /\ BuiltOnce'
    BY <1>1 DEF OnList, BuiltOnce, OnceOK
  <2>2. ListedOK'
    BY <1>1, <2>1, ListedGrows DEF OnceOK
  <2>3. RankOK' /\ MakingOK'
    BY <1>1, <2>1 DEF RankOK, MakingOK, OnceOK, Rank, Making
  <2>. QED  BY <2>1, <2>2, <2>3 DEF OnceOK
<1>2. ASSUME NEW t \in Threads, Reach(t) PROVE OnceOK'
  <2>1. PICK st \in pending[t] :
          /\ pending' = [pending EXCEPT ![t] = @ \ {st}]
          /\ Ptr' = IF st.what = "ptr" THEN [Ptr EXCEPT ![st.of] = TRUE] ELSE Ptr
          /\ built' = IF st.what = "built" THEN [built EXCEPT ![st.of] = TRUE] ELSE built
    BY <1>2 DEF Reach
  <2>2. st \in Stores /\ st.of \in Statics /\ st = Store(st.what, st.of)
    BY <2>1 DEF TypesOK, Stores, Store
  <2>3. pending'[t] = pending[t] \ {st} /\ \A u \in Threads \ {t} : pending'[u] = pending[u]
    BY <2>1 DEF TypesOK
  <2>4. \A s \in Statics : /\ Ptr'[s] <=> Ptr[s] \/ st = Store("ptr", s)
                           /\ built'[s] <=> built[s] \/ st = Store("built", s)
    BY <2>1, <2>2 DEF TypesOK, Stores, Store
  <2>5. Grows
    BY <2>3, <2>4 DEF Grows, PtrSeen, BuiltSeen
  <2>. QED  BY <1>1, <1>2, <2>5 DEF Reach
<1>3. ASSUME NEW t \in Threads, NEW s \in Statics, Dereference(t, s) PROVE OnceOK'
  <2>. DEFINE fr == Frame(s, "read", {})
  <2>1. fr \in Frames /\ fr.at = "read"
    BY FrameType DEF Places
  <2>2. Idle(t) /\ Push(t, fr) /\ StaticList' = StaticList /\ Grows
    BY <1>3, SameMemory DEF Dereference
  <2>. HIDE DEF fr
  <2>3. OnList' = OnList /\ BuiltOnce'
    BY <2>2 DEF OnList, BuiltOnce, OnceOK
  <2>4. RankOK' /\ MakingOK'
    BY <2>1, <2>2, <2>3, OncePush DEF Making, OnceOK
  <2>5. ListedOK'
    BY <2>2, <2>3, ListedGrows DEF OnceOK
  <2>. QED  BY <2>3, <2>4, <2>5 DEF OnceOK
<1>4. CASE llvm_start_multithreaded \/ llvm_stop_multithreaded
  <2>1. Drain(Main) /\ UNCHANGED <<StaticList, stack>>
    BY <1>4 DEF llvm_start_multithreaded, llvm_stop_multithreaded
  <2>. QED  BY <1>1, <2>1, DrainSeen, ConstantTypes
<1>5. CASE llvm_shutdown \/ Restart \/ Finished \/ UNCHANGED vars
  <2>1. UNCHANGED <<memVars, StaticList, stack>>
    BY <1>5 DEF llvm_shutdown, Restart, Finished, vars, memVars
  <2>. QED  BY <1>1, <2>1, SameMemory
<1>6. CASE Destroy
  <2>. DEFINE fr == Frame(Head(StaticList), "delete", DeleterUses[Head(StaticList)])
  <2>1. fr \in Frames /\ fr.of = Head(StaticList)
    <3>1. Head(StaticList) \in Statics
      BY <1>6, HeadTailProperties DEF Destroy, TypesOK
    <3>. QED  BY <3>1, FrameType, ConstantTypes DEF Places
  <2>2. /\ Idle(Main) /\ Push(Main, fr) /\ Grows
        /\ StaticList # <<>> /\ StaticList' = Tail(StaticList)
    BY <1>6, SameMemory DEF Destroy
  <2>. HIDE DEF fr
  <2>3. /\ \A x : x \in OnList' => x \in OnList
        /\ BuiltOnce' /\ fr.of \notin OnList'
    BY <2>1, <2>2, DestroyList DEF OnceOK
  <2>4. RankOK' /\ MakingOK'
    BY <2>1, <2>2, <2>3, OncePush, ConstantTypes DEF OnceOK
  <2>5. ListedOK'
    BY <2>2, <2>3, ListedGrows DEF OnceOK
  <2>. QED  BY <2>3, <2>4, <2>5 DEF OnceOK
\* What is forgotten is not on the list.
<1>7. CASE Destroyed
  <2>1. /\ At(Main, "delete") /\ ~Idle(Main) /\ Pop(Main)
        /\ Ptr' = [Ptr EXCEPT ![Of(Main)] = FALSE]
        /\ pending' = [pending EXCEPT ![Main] = {st \in @ : st.of # Of(Main)}]
        /\ StaticList' = StaticList
    BY <1>7 DEF Destroyed, At
  <2>2. OnList' = OnList /\ BuiltOnce'
    BY <2>1 DEF OnList, BuiltOnce, OnceOK
  <2>3. RankOK' /\ MakingOK'
    BY <2>1, <2>2, OncePop, ConstantTypes DEF OnceOK
  <2>4. Of(Main) \in Statics /\ Of(Main) \notin OnList
    <3>1. stack[Main][1].at = "delete" /\ 1 \in 1 .. Len(stack[Main]) /\ Of(Main) = stack[Main][1].of
          /\ Of(Main) \in Statics
      BY <2>1, TopFacts, ConstantTypes DEF Of
    <3>. QED  BY <3>1, ConstantTypes DEF OnceOK, MakingOK, Making
  <2>5. ASSUME NEW x \in OnList PROVE \E t \in Threads : Ptr'[x] \/ Store("ptr", x) \in pending'[t]
    <3>1. x \in Statics /\ x # Of(Main)
      BY <2>4, <2>5, ElementOfSeq DEF OnList, TypesOK
    <3>2. PICK t \in Threads : Ptr[x] \/ Store("ptr", x) \in pending[t]
      BY <2>5 DEF OnceOK, ListedOK, PtrSeen
    <3>3. Ptr'[x] = Ptr[x]
      BY <2>1, <2>4, <3>1 DEF TypesOK
    <3>4. Store("ptr", x) \in pending[t] => Store("ptr", x) \in pending'[t]
      <4>1. Store("ptr", x).of = x
        BY DEF Store
      <4>2. pending'[t] = IF t = Main THEN {st \in pending[Main] : st.of # Of(Main)} ELSE pending[t]
        BY <2>1, ConstantTypes DEF TypesOK
      <4>. QED  BY <3>1, <4>1, <4>2
    <3>. QED  BY <3>2, <3>3, <3>4
  <2>6. ListedOK'
    BY <2>2, <2>5 DEF ListedOK, PtrSeen
  <2>. QED  BY <2>2, <2>3, <2>6 DEF OnceOK
<1>. QED  BY <1>2, <1>3, <1>4, <1>5, <1>6, <1>7, OperatorOnce DEF Next, Shutdown

\* No static is ever on the list twice, for any number of threads, statics and
\* sessions: whoever constructs one holds the lock and has looked at Ptr since.
THEOREM AlwaysBuiltOnce == Spec => []BuiltOnce
<1>1. Init => LockOK /\ OnceOK
  <2>. SUFFICES ASSUME Init PROVE LockOK /\ OnceOK
    OBVIOUS
  <2>1. Len(StaticList) = 0 /\ \A t \in Threads : Len(stack[t]) = 0
    BY DEF Init
  <2>2. LockOK
    BY DEF Init, LockOK
  <2>3. OnList = {}
    BY <2>1 DEF OnList
  <2>. QED  BY <2>1, <2>2, <2>3 DEF OnceOK, RankOK, MakingOK, ListedOK, BuiltOnce
<1>2. /\ TypesOK /\ StackOK /\ Visible /\ LockOK /\ OnceOK /\ [Next]_vars
      => (TypesOK /\ StackOK /\ Visible /\ LockOK /\ OnceOK)'
  BY NextStack, NextVisible, NextLock, NextOnce DEF Visible
<1>3. OnceOK => BuiltOnce
  BY DEF OnceOK
<1>. QED  BY InitVisible, <1>1, <1>2, <1>3, PTL DEF Spec
-----------------------------------------------------------------------------
(* Users are destroyed before what they use, and everything is.            *)

Deleting(s) == \E i \in 1 .. Len(stack[Main]) :
                  stack[Main][i].at = "delete" /\ stack[Main][i].of = s
Arising(s) == \E t \in Threads : (At(t, "fence") \/ At(t, "publish")) /\ Of(t) = s

\* What anybody sees is on the list, is being deleted, or has just been constructed.
SeenListed == \A t \in Threads, s \in Statics : PtrSeen(t, s) => s \in OnList \/ Deleting(s)
BuiltListed ==
    \A t \in Threads, s \in Statics :
        BuiltSeen(t, s) => s \in OnList \/ Deleting(s) \/ Arising(s)

\* What a creator has dereferenced is on the list, or the operator it waits for will
\* put it there.
UsesOK(t, i) ==
    /\ stack[t][i].at = "create" =>
          \A u \in Uses[stack[t][i].of] \ stack[t][i].left :
              u \in OnList \/ (i > 1 /\ u = stack[t][i - 1].of)
    /\ stack[t][i].at \in {"fence", "publish"} => Uses[stack[t][i].of] \subseteq OnList
MadeOK == \A t \in Threads : \A i \in 1 .. Len(stack[t]) : UsesOK(t, i)

OffOK == session.phase = "off" => StaticList = <<>> /\ ~multithreaded_mode
OrderOK == SeenListed /\ BuiltListed /\ MadeOK /\ OffOK /\ UsersDestroyedFirst

\* A new static goes before the others with all it uses among them,
LEMMA PublishUsers ==
  ASSUME TypesOK, UsersDestroyedFirst, NEW s \in Statics, StaticList' = <<s>> \o StaticList,
         Uses[s] \subseteq OnList
  PROVE  UsersDestroyedFirst'
<1>1. <<s>> \in Seq(Statics) /\ Len(<<s>>) = 1 /\ <<s>>[1] = s  OBVIOUS
<1>2. StaticList \in Seq(Statics) /\ Len(StaticList) \in Nat
  BY LenProperties DEF TypesOK
<1>3. /\ Len(StaticList') = 1 + Len(StaticList)
      /\ \A i \in 1 .. 1 + Len(StaticList) :
            StaticList'[i] = IF i <= 1 THEN <<s>>[i] ELSE StaticList[i - 1]
  BY <1>1, <1>2, ConcatProperties
<1>4. \A j \in 1 .. Len(StaticList) : StaticList'[j + 1] = StaticList[j]
  <2>. TAKE j \in 1 .. Len(StaticList)
  <2>1. j + 1 \in 1 .. 1 + Len(StaticList) /\ ~(j + 1 <= 1) /\ (j + 1) - 1 = j  BY <1>2
  <2>. QED  BY <1>3, <2>1
<1>. SUFFICES ASSUME NEW i \in 1 .. Len(StaticList'), NEW u \in Uses[StaticList'[i]]
              PROVE  \E j \in i + 1 .. Len(StaticList') : StaticList'[j] = u
  BY DEF UsersDestroyedFirst
<1>5. CASE i = 1
  <2>1. StaticList'[i] = s  BY <1>1, <1>2, <1>3, <1>5
  <2>2. PICK j \in 1 .. Len(StaticList) : StaticList[j] = u
    BY <2>1 DEF OnList
  <2>3. j + 1 \in i + 1 .. Len(StaticList')  BY <1>2, <1>3, <1>5
  <2>. QED  BY <1>4, <2>2, <2>3
<1>6. CASE i # 1
  <2>1. i - 1 \in 1 .. Len(StaticList) /\ i \in 1 .. 1 + Len(StaticList) /\ ~(i <= 1)
    BY <1>2, <1>3, <1>6
  <2>2. StaticList'[i] = StaticList[i - 1]  BY <1>3, <2>1
  <2>3. PICK j \in (i - 1) + 1 .. Len(StaticList) : StaticList[j] = u
    BY <2>1, <2>2 DEF UsersDestroyedFirst
  <2>4. j \in 1 .. Len(StaticList) /\ j + 1 \in i + 1 .. Len(StaticList')
    BY <1>2, <1>3, <2>1
  <2>. QED  BY <1>4, <2>3, <2>4
<1>. QED  BY <1>5, <1>6

\* and the rest of the list keeps its order when the newest static leaves it.
LEMMA DestroyUsers ==
  ASSUME TypesOK, UsersDestroyedFirst, StaticList # <<>>, StaticList' = Tail(StaticList)
  PROVE  UsersDestroyedFirst'
<1>1. /\ StaticList \in Seq(Statics) /\ Len(StaticList) \in Nat \ {0}
      /\ Len(StaticList') = Len(StaticList) - 1
      /\ \A i \in 1 .. Len(StaticList') : StaticList'[i] = StaticList[i + 1]
  BY HeadTailProperties, EmptySeq DEF TypesOK
<1>. SUFFICES ASSUME NEW i \in 1 .. Len(StaticList'), NEW u \in Uses[StaticList'[i]]
              PROVE  \E j \in i + 1 .. Len(StaticList') : StaticList'[j] = u
  BY DEF UsersDestroyedFirst
<1>2. i + 1 \in 1 .. Len(StaticList) /\ StaticList'[i] = StaticList[i + 1]  BY <1>1
<1>3. PICK j \in (i + 1) + 1 .. Len(StaticList) : StaticList[j] = u
  BY <1>2 DEF UsersDestroyedFirst
<1>4. /\ j - 1 \in i + 1 .. Len(StaticList') /\ j - 1 \in 1 .. Len(StaticList')
      /\ (j - 1) + 1 = j
  BY <1>1, <1>2
<1>5. StaticList'[j - 1] = u  BY <1>1, <1>3, <1>4
<1>. QED  BY <1>4, <1>5

\* What creators have dereferenced stays on the list when t's top moves on,
LEMMA MadeStep ==
  ASSUME TypesOK, MadeOK, NEW t \in Threads, ~Idle(t),
         NEW at \in Places, NEW left \in SUBSET Statics, Step(t, at, left),
         \A x \in OnList : x \in OnList',
         at = "create" => \A u \in Uses[Of(t)] \ left : u \in OnList',
         at \in {"fence", "publish"} => Uses[Of(t)] \subseteq OnList'
  PROVE  MadeOK'
<1>1. /\ Len(stack'[t]) = Len(stack[t]) /\ stack'[t][1] = Frame(Of(t), at, left)
      /\ \A i \in 2 .. Len(stack[t]) : stack'[t][i] = stack[t][i]
      /\ \A u \in Threads \ {t} : stack'[u] = stack[u]
  BY StepShape
<1>2. /\ Len(stack[t]) \in Nat \ {0} /\ Of(t) \in Statics /\ Of(t) = stack[t][1].of
  BY TopFacts DEF Of
<1>3. /\ Frame(Of(t), at, left).at = at /\ Frame(Of(t), at, left).of = Of(t)
      /\ Frame(Of(t), at, left).left = left
  BY <1>2, FrameType
<1>. SUFFICES ASSUME NEW u \in Threads, NEW i \in 1 .. Len(stack'[u]) PROVE UsesOK(u, i)'
  BY DEF MadeOK
<1>4. CASE u # t
  BY <1>1, <1>4 DEF MadeOK, UsesOK
<1>5. CASE u = t /\ i = 1
  BY <1>1, <1>3, <1>5 DEF UsesOK
<1>6. CASE u = t /\ i # 1
  <2>1. i \in 2 .. Len(stack[t]) /\ i \in 1 .. Len(stack[t]) /\ i > 1
        /\ (i - 1 = 1 \/ i - 1 \in 2 .. Len(stack[t]))
    BY <1>1, <1>2, <1>6
  <2>2. stack'[t][i] = stack[t][i]  BY <1>1, <2>1
  <2>3. stack'[t][i - 1].of = stack[t][i - 1].of
    BY <1>1, <1>2, <1>3, <2>1
  <2>4. UsesOK(t, i)  BY <2>1 DEF MadeOK
  <2>. QED  BY <1>6, <2>2, <2>3, <2>4 DEF UsesOK
<1>. QED  BY <1>4, <1>5, <1>6

\* when an operator on a static that is on the list returns,
LEMMA MadePop ==
  ASSUME TypesOK, MadeOK, NEW t \in Threads, ~Idle(t), Pop(t), OnList' = OnList,
         Of(t) \in OnList \/ Len(stack[t]) = 1
  PROVE  MadeOK'
<1>1. /\ Len(stack'[t]) = Len(stack[t]) - 1 /\ Len(stack[t]) \in Nat \ {0}
      /\ \A i \in 1 .. Len(stack[t]) - 1 : stack'[t][i] = stack[t][i + 1]
      /\ \A u \in Threads \ {t} : stack'[u] = stack[u]
      /\ Of(t) = stack[t][1].of
  BY PopShape, TopFacts DEF Of
<1>. SUFFICES ASSUME NEW u \in Threads, NEW i \in 1 .. Len(stack'[u]) PROVE UsesOK(u, i)'
  BY DEF MadeOK
<1>2. CASE u # t
  BY <1>1, <1>2 DEF MadeOK, UsesOK
<1>3. CASE u = t
  <2>1. /\ i \in 1 .. Len(stack[t]) - 1 /\ i + 1 \in 1 .. Len(stack[t]) /\ i + 1 > 1
        /\ (i + 1) - 1 = i /\ Len(stack[t]) # 1
        /\ i = 1 \/ (i > 1 /\ i - 1 \in 1 .. Len(stack[t]) - 1 /\ (i - 1) + 1 = i)
    BY <1>1, <1>3
  <2>2. stack'[t][i] = stack[t][i + 1] /\ UsesOK(t, i + 1)
    BY <1>1, <2>1 DEF MadeOK
  <2>3. i > 1 => stack'[t][i - 1] = stack[t][i]
    <3>1. \A j \in 1 .. Len(stack[t]) - 1 : stack'[t][j] = stack[t][j + 1]
      BY <1>1
    <3>2. \/ i = 1
          \/ i - 1 \in 1 .. Len(stack[t]) - 1 /\ (i - 1) + 1 = i
      BY <2>1
    <3>3. CASE i = 1
      BY ONLY <3>3
    <3>4. CASE i - 1 \in 1 .. Len(stack[t]) - 1 /\ (i - 1) + 1 = i
      <4>. PICK k \in 1 .. Len(stack[t]) - 1 : k = i - 1 /\ k + 1 = i
        BY ONLY <3>4
      <4>1. stack'[t][k] = stack[t][k + 1]
        BY ONLY <3>1
      <4>. QED  BY ONLY <4>1, k = i - 1, k + 1 = i
    <3>. QED  BY ONLY <3>2, <3>3, <3>4
  <2>4. i = 1 => stack[t][i].of \in OnList
    BY <1>1, <2>1
  <2>. QED  BY <1>3, <2>1, <2>2, <2>3, <2>4 DEF UsesOK
<1>. QED  BY <1>2, <1>3

\* when an idle thread starts one,
LEMMA MadePush ==
  ASSUME TypesOK, MadeOK, NEW t \in Threads, Idle(t), NEW frame \in Frames, Push(t, frame),
         frame.at \in {"read", "delete"},
         OnList' = OnList \/ \A u \in Threads \ {t} : Idle(u)
  PROVE  MadeOK'
<1>1. /\ Len(stack'[t]) = 1 /\ stack'[t][1] = frame
      /\ \A u \in Threads \ {t} : stack'[u] = stack[u]
  BY PushShape
<1>. SUFFICES ASSUME NEW u \in Threads, NEW i \in 1 .. Len(stack'[u]) PROVE UsesOK(u, i)'
  BY DEF MadeOK
<1>2. CASE u # t
  <2>1. i \in 1 .. Len(stack[u])  BY <1>1, <1>2
  <2>2. OnList' = OnList  BY <1>2, <2>1, FrameOf
  <2>. QED  BY <1>1, <1>2, <2>1, <2>2 DEF MadeOK, UsesOK
<1>3. CASE u = t
  <2>1. Len(stack'[u]) = 1  BY <1>1, <1>3
  <2>2. i = 1  BY ONLY <2>1, i \in 1 .. Len(stack'[u])
  <2>. QED  BY <1>1, <1>3, <2>2 DEF UsesOK
<1>. QED  BY <1>2, <1>3

\* and when a creator or deleter does.
LEMMA MadeNested ==
  ASSUME TypesOK, MadeOK, NEW t \in Threads, Nested(t)
  PROVE  MadeOK'
<1>1. ~Idle(t) /\ OnList' = OnList
  BY DEF Nested, At, OnList
<1>2. PICK w \in Left(t) : stack' = [stack EXCEPT ![t] =
              <<Frame(w, "read", {}), Frame(Of(t), Head(@).at, Left(t) \ {w})>> \o Tail(@)]
  BY DEF Nested
<1>3. /\ Len(stack'[t]) = Len(stack[t]) + 1
      /\ stack'[t][1] = Frame(w, "read", {})
      /\ stack'[t][2] = Frame(Of(t), stack[t][1].at, Left(t) \ {w})
      /\ \A i \in 3 .. Len(stack[t]) + 1 : stack'[t][i] = stack[t][i - 1]
      /\ \A u \in Threads \ {t} : stack'[u] = stack[u]
  BY <1>1, <1>2, NestedShape
<1>4. /\ Len(stack[t]) \in Nat \ {0} /\ Of(t) \in Statics /\ Of(t) = stack[t][1].of
      /\ Left(t) \in SUBSET Statics /\ stack[t][1].at \in Places
      /\ Left(t) = stack[t][1].left
      /\ At(t, "create") <=> stack[t][1].at = "create"
  BY <1>1, TopFacts DEF Of, Left
<1>5. stack'[t][1].at = "read" /\ stack'[t][1].of = w
  <2>1. w \in Statics /\ "read" \in Places  BY <1>4 DEF Places
  <2>2. Frame(w, "read", {}).at = "read" /\ Frame(w, "read", {}).of = w  BY <2>1, FrameType
  <2>. QED  BY <1>3, <2>2
<1>6. /\ stack'[t][2].at = stack[t][1].at /\ stack'[t][2].of = Of(t)
      /\ stack'[t][2].left = Left(t) \ {w}
  <2>. DEFINE at == stack[t][1].at
              g == Frame(Of(t), at, Left(t) \ {w})
  <2>1. at \in Places /\ Left(t) \ {w} \in SUBSET Statics  BY <1>4
  <2>2. stack'[t][2] = g  BY <1>3
  <2>. HIDE DEF at
  <2>3. g.at = at /\ g.of = Of(t) /\ g.left = Left(t) \ {w}
    BY <1>4, <2>1, FrameType
  <2>. HIDE DEF g
  <2>. QED  BY <2>2, <2>3 DEF at
<1>. SUFFICES ASSUME NEW u \in Threads, NEW i \in 1 .. Len(stack'[u]) PROVE UsesOK(u, i)'
  BY DEF MadeOK
<1>7. CASE u # t
  BY <1>1, <1>3, <1>7 DEF MadeOK, UsesOK
<1>8. CASE u = t /\ i = 1
  BY <1>5, <1>8 DEF UsesOK
<1>9. CASE u = t /\ i = 2
  <2>1. UsesOK(t, 1) /\ stack[t][1].at \notin {"fence", "publish"}
    BY <1>1, <1>4, TopFacts DEF MadeOK, Nested
  <2>2. i > 1 /\ stack'[t][i - 1].of = w  BY <1>5, <1>9
  <2>. QED  BY <1>1, <1>4, <1>6, <1>9, <2>1, <2>2 DEF UsesOK
<1>10. CASE u = t /\ i \notin {1, 2}
  <2>1. /\ i \in 3 .. Len(stack[t]) + 1 /\ i - 1 \in 1 .. Len(stack[t]) /\ i - 1 > 1 /\ i > 1
        /\ i - 1 = 2 \/ i - 1 \in 3 .. Len(stack[t]) + 1
    BY <1>3, <1>4, <1>10
  <2>2. stack'[t][i] = stack[t][i - 1] /\ UsesOK(t, i - 1)
    BY <1>3, <2>1 DEF MadeOK
  <2>3. stack'[t][i - 1].of = stack[t][(i - 1) - 1].of
    <3>1. CASE i - 1 = 2
      <4>1. (i - 1) - 1 = 1  BY <3>1
      <4>. QED  BY <1>4, <1>6, <3>1, <4>1
    <3>2. CASE i - 1 # 2
      BY <1>3, <2>1, <3>2
    <3>. QED  BY <3>1, <3>2
  <2>. QED  BY <1>1, <1>10, <2>1, <2>2, <2>3 DEF UsesOK
<1>. QED  BY <1>7, <1>8, <1>9, <1>10

\* What is being deleted still is when the top, no deleter, moves on or returns,
LEMMA DeletingStays ==
  ASSUME TypesOK, NEW t \in Threads, ~Idle(t), ~At(t, "delete"),
         \/ Pop(t)
         \/ \E at \in Places, left \in SUBSET Statics : Step(t, at, left)
  PROVE  \A s : Deleting(s) => Deleting(s)'
<1>. SUFFICES ASSUME NEW s, NEW i \in 1 .. Len(stack[Main]),
                     stack[Main][i].at = "delete", stack[Main][i].of = s
              PROVE  \E j \in 1 .. Len(stack'[Main]) :
                        stack'[Main][j].at = "delete" /\ stack'[Main][j].of = s
  BY DEF Deleting
<1>1. Main \in Threads /\ stack[t][1].at # "delete" /\ Len(stack[t]) \in Nat \ {0}
  BY ConstantTypes, TopFacts
<1>2. CASE t # Main
  <2>1. stack'[Main] = stack[Main]
    BY <1>1, <1>2, PopShape, StepShape
  <2>. QED  BY <2>1
<1>3. CASE t = Main
  <2>1. i \in 2 .. Len(stack[t])
    BY <1>1, <1>3
  <2>2. CASE Pop(t)
    <3>1. /\ Len(stack'[t]) = Len(stack[t]) - 1
          /\ \A j \in 1 .. Len(stack[t]) - 1 : stack'[t][j] = stack[t][j + 1]
      BY <2>2, PopShape
    <3>2. i - 1 \in 1 .. Len(stack[t]) - 1 /\ (i - 1) + 1 = i
      BY <1>1, <2>1
    <3>. QED  BY <1>3, <3>1, <3>2
  <2>3. CASE \E at \in Places, left \in SUBSET Statics : Step(t, at, left)
    <3>1. Len(stack'[t]) = Len(stack[t]) /\ \A j \in 2 .. Len(stack[t]) : stack'[t][j] = stack[t][j]
      BY <2>3, StepShape
    <3>. QED  BY <1>3, <2>1, <3>1
  <2>. QED  BY <2>2, <2>3
<1>. QED  BY <1>2, <1>3

\* and when it or a deleter dereferences another static.
LEMMA DeletingNested ==
  ASSUME TypesOK, NEW t \in Threads, Nested(t)
  PROVE  \A s : Deleting(s) => Deleting(s)'
<1>. SUFFICES ASSUME NEW s, NEW i \in 1 .. Len(stack[Main]),
                     stack[Main][i].at = "delete", stack[Main][i].of = s
              PROVE  \E j \in 1 .. Len(stack'[Main]) :
                        stack'[Main][j].at = "delete" /\ stack'[Main][j].of = s
  BY DEF Deleting
<1>1. ~Idle(t) /\ Main \in Threads
  BY ConstantTypes DEF Nested, At
<1>2. PICK w \in Left(t) : stack' = [stack EXCEPT ![t] =
              <<Frame(w, "read", {}), Frame(Of(t), Head(@).at, Left(t) \ {w})>> \o Tail(@)]
  BY DEF Nested
<1>3. /\ Len(stack'[t]) = Len(stack[t]) + 1
      /\ stack'[t][2] = Frame(Of(t), stack[t][1].at, Left(t) \ {w})
      /\ \A j \in 3 .. Len(stack[t]) + 1 : stack'[t][j] = stack[t][j - 1]
      /\ \A u \in Threads \ {t} : stack'[u] = stack[u]
  BY <1>1, <1>2, NestedShape
<1>4. /\ Len(stack[t]) \in Nat \ {0} /\ Of(t) \in Statics /\ Of(t) = stack[t][1].of
      /\ Left(t) \ {w} \in SUBSET Statics /\ stack[t][1].at \in Places
  BY <1>1, TopFacts DEF Of
<1>5. CASE t # Main
  BY <1>1, <1>3, <1>5
<1>6. CASE t = Main /\ i = 1
  <2>. DEFINE at == stack[t][1].at
              g == Frame(Of(t), at, Left(t) \ {w})
  <2>1. stack'[t][2] = g  BY <1>3
  <2>2. at \in Places /\ at = "delete"  BY <1>4, <1>6
  <2>. HIDE DEF at
  <2>3. g.at = at /\ g.of = Of(t)  BY <1>4, <2>2, FrameType
  <2>. HIDE DEF g
  <2>4. 2 \in 1 .. Len(stack'[t])  BY <1>3, <1>4
  <2>. QED  BY <1>4, <1>6, <2>1, <2>2, <2>3, <2>4
<1>7. CASE t = Main /\ i # 1
  <2>1. i + 1 \in 3 .. Len(stack[t]) + 1 /\ i + 1 \in 1 .. Len(stack'[t]) /\ (i + 1) - 1 = i
    BY <1>3, <1>4, <1>7
  <2>. QED  BY <1>3, <1>7, <2>1
<1>. QED  BY <1>5, <1>6, <1>7

\* Nobody sees more than somebody saw before.
NoNews ==
    \A u \in Threads, s \in Statics :
        /\ Ptr'[s] \/ Store("ptr", s) \in pending'[u] => \E v \in Threads : PtrSeen(v, s)
        /\ built'[s] \/ Store("built", s) \in pending'[u] => \E v \in Threads : BuiltSeen(v, s)

LEMMA QuietMemory ==
  ASSUME TypesOK, NEW t \in Threads, UNCHANGED memVars \/ Drain(t)
  PROVE  NoNews
<1>1. CASE UNCHANGED memVars
  BY <1>1 DEF NoNews, memVars, PtrSeen, BuiltSeen
<1>2. CASE Drain(t)
  <2>1. /\ \A s \in Statics : (Ptr'[s] <=> PtrSeen(t, s)) /\ (built'[s] <=> BuiltSeen(t, s))
        /\ pending'[t] = {} /\ \A u \in Threads \ {t} : pending'[u] = pending[u]
    BY <1>2, DrainSeen
  <2>. QED  BY <2>1 DEF NoNews, PtrSeen, BuiltSeen
<1>. QED  BY <1>1, <1>2

\* What is seen stays listed in a step that shows nothing, and takes nothing off the list
\* but to delete it.
LEMMA SightKept ==
  ASSUME TypesOK, SeenListed, BuiltListed, NoNews, NEW t \in Threads,
         \A s : s \in OnList \/ Deleting(s) => s \in OnList' \/ Deleting(s)',
         \A u \in Threads \ {t} : Of(u)' = Of(u) /\ \A x : At(u, x)' <=> At(u, x),
         At(t, "fence") \/ At(t, "publish") =>
            Of(t)' = Of(t) /\ (At(t, "fence")' \/ At(t, "publish")')
  PROVE  SeenListed' /\ BuiltListed'
<1>1. ASSUME NEW u \in Threads, NEW s \in Statics, Ptr'[s] \/ Store("ptr", s) \in pending'[u]
      PROVE  s \in OnList' \/ Deleting(s)'
  BY <1>1 DEF NoNews, SeenListed
<1>2. \A s : Arising(s) =>
          \E v \in Threads : (At(v, "fence")' \/ At(v, "publish")') /\ Of(v)' = s
  BY DEF Arising
<1>3. ASSUME NEW u \in Threads, NEW s \in Statics, built'[s] \/ Store("built", s) \in pending'[u]
      PROVE  \/ s \in OnList' \/ Deleting(s)'
             \/ \E v \in Threads : (At(v, "fence")' \/ At(v, "publish")') /\ Of(v)' = s
  BY <1>2, <1>3 DEF NoNews, BuiltListed
<1>4. SeenListed'
  BY <1>1 DEF SeenListed, PtrSeen
<1>5. BuiltListed'
  BY <1>3 DEF BuiltListed, BuiltSeen, Arising
<1>. QED  BY <1>4, <1>5

\* No step of an operator breaks the order.
LEMMA OperatorOrder ==
  ASSUME TypesOK, StackOK, Visible, LockOK, OnceOK, OrderOK, NEW t \in Threads, Operator(t)
  PROVE  OrderOK'
<1>1. ~Idle(t)
  BY DEF Operator, ReadPtr, Acquire, Check, Nested, Create, MemoryFence, Publish, Release, Use, At
<1>2. /\ Of(t) \in Statics /\ {} \in SUBSET Statics /\ Uses[Of(t)] \in SUBSET Statics
      /\ {"use", "acquire", "create", "check", "release", "fence", "publish"}
            \subseteq Places \ {"delete"}
      /\ Main \in Threads
  BY <1>1, TopFacts, ConstantTypes DEF Places
<1>3. /\ 1 \in 1 .. Len(stack[t]) /\ Of(t) = stack[t][1].of /\ Left(t) = stack[t][1].left
      /\ \A x : At(t, x) <=> stack[t][1].at = x
  BY <1>1, TopFacts DEF Of, Left
<1>4. FrameOK(t, 1, stack[t][1]) /\ session.phase # "off"
  BY <1>1, TopOK DEF FrameOK
<1>5. session' = session
  BY DEF Operator, ReadPtr, Acquire, Check, Nested, Create, MemoryFence, Publish, Release, Use
<1>6. OffOK'
  BY <1>4, <1>5 DEF OffOK
<1>7. UsesOK(t, 1)
  BY <1>3 DEF OrderOK, MadeOK
<1>8. ASSUME StaticList' = StaticList PROVE OnList' = OnList /\ UsersDestroyedFirst'
  BY <1>8 DEF OnList, OrderOK, UsersDestroyedFirst
\* Steps that change neither the list nor what is seen.
<1>9. ASSUME NEW at \in Places \ {"delete"}, NEW left \in SUBSET Statics, Step(t, at, left),
             ~At(t, "delete"), StaticList' = StaticList, UNCHANGED memVars \/ Drain(t),
             At(t, "fence") => at = "publish", ~At(t, "publish"), at # "fence",
             at = "create" => left = Uses[Of(t)],
             at = "publish" => At(t, "fence")
      PROVE  OrderOK'
  <2>1. NoNews
    BY <1>9, QuietMemory
  <2>2. \A s : Deleting(s) => Deleting(s)'
    BY <1>1, <1>9, DeletingStays
  <2>3. /\ \A x : At(t, x)' <=> x = at
        /\ Of(t)' = Of(t)
        /\ \A u \in Threads \ {t} : Of(u)' = Of(u) /\ \A x : At(u, x)' <=> At(u, x)
    BY <1>1, <1>9, StepTop
  <2>4. SeenListed' /\ BuiltListed'
    BY <1>8, <1>9, <2>1, <2>2, <2>3, SightKept DEF OrderOK
  <2>5. at = "publish" => Uses[Of(t)] \subseteq OnList
    BY <1>3, <1>7, <1>9 DEF UsesOK
  <2>6. MadeOK'
    BY <1>1, <1>8, <1>9, <2>5, MadeStep DEF OrderOK
  <2>. QED  BY <1>6, <1>8, <1>9, <2>4, <2>6 DEF OrderOK
<1>10. CASE ReadPtr(t)
  <2>. DEFINE at == IF PtrSeen(t, Of(t)) THEN "use"
                    ELSE IF multithreaded_mode THEN "acquire" ELSE "create"
              left == IF PtrSeen(t, Of(t)) \/ multithreaded_mode THEN {} ELSE Uses[Of(t)]
  <2>1. /\ at \in Places \ {"delete"} /\ left \in SUBSET Statics /\ Step(t, at, left)
        /\ ~At(t, "delete") /\ StaticList' = StaticList /\ ~At(t, "fence") /\ ~At(t, "publish")
        /\ at # "fence" /\ at # "publish"
        /\ at = "create" => left = Uses[Of(t)]
    BY <1>2, <1>3, <1>10 DEF ReadPtr
  <2>2. UNCHANGED memVars \/ Drain(t)
    BY <1>10 DEF ReadPtr
  <2>. HIDE DEF at, left
  <2>. QED  BY <1>9, <2>1, <2>2
<1>11. CASE Acquire(t)
  BY <1>2, <1>3, <1>9, <1>11 DEF Acquire
<1>12. CASE Check(t)
  <2>1. ~At(t, "delete") /\ ~At(t, "fence") /\ ~At(t, "publish")
        /\ StaticList' = StaticList /\ UNCHANGED memVars
    BY <1>3, <1>12 DEF Check
  <2>2. CASE PtrSeen(t, Of(t))
    BY <1>2, <1>9, <1>12, <2>1, <2>2 DEF Check
  <2>3. CASE ~PtrSeen(t, Of(t))
    BY <1>2, <1>9, <1>12, <2>1, <2>3 DEF Check
  <2>. QED  BY <2>2, <2>3
<1>13. CASE Nested(t)
  <2>1. ~At(t, "fence") /\ ~At(t, "publish") /\ StaticList' = StaticList /\ UNCHANGED memVars
    BY <1>3, <1>13 DEF Nested
  <2>2. NoNews /\ MadeOK' /\ \A s : Deleting(s) => Deleting(s)'
    BY <1>13, <2>1, QuietMemory, MadeNested, DeletingNested DEF OrderOK
  <2>3. \A u \in Threads \ {t} : Of(u)' = Of(u) /\ \A x : At(u, x)' <=> At(u, x)
    BY <1>13, NestedTop
  <2>4. SeenListed' /\ BuiltListed'
    BY <1>8, <2>1, <2>2, <2>3, SightKept DEF OrderOK
  <2>. QED  BY <1>6, <1>8, <2>1, <2>2, <2>4 DEF OrderOK
\* The new object is known of while its constructor is at the fence or publishes it.
<1>14. CASE Create(t)
  <2>. DEFINE at == IF multithreaded_mode THEN "fence" ELSE "publish"
  <2>1. /\ at \in Places \ {"delete"} /\ at \in {"fence", "publish"} /\ Step(t, at, {})
        /\ stack[t][1].at = "create" /\ stack[t][1].left = {} /\ StaticList' = StaticList
        /\ pending' = [pending EXCEPT ![t] = @ \cup {Store("built", Of(t))}]
        /\ Ptr' = Ptr /\ built' = built
    BY <1>2, <1>3, <1>14 DEF Create
  <2>. HIDE DEF at
  <2>2. Uses[Of(t)] \subseteq OnList
    BY <1>3, <1>7, <2>1 DEF UsesOK
  <2>3. \A s : Deleting(s) => Deleting(s)'
    BY <1>1, <1>2, <1>3, <2>1, DeletingStays
  <2>4. /\ \A x : At(t, x)' <=> x = at
        /\ Of(t)' = Of(t)
        /\ \A u \in Threads \ {t} : Of(u)' = Of(u) /\ \A x : At(u, x)' <=> At(u, x)
    BY <1>1, <1>2, <2>1, StepTop
  <2>5. MadeOK'
    BY <1>1, <1>2, <1>8, <2>1, <2>2, MadeStep DEF OrderOK
  <2>6. /\ pending'[t] = pending[t] \cup {Store("built", Of(t))}
        /\ \A u \in Threads \ {t} : pending'[u] = pending[u]
    BY <2>1 DEF TypesOK
  <2>7. SeenListed'
    <3>. SUFFICES ASSUME NEW u \in Threads, NEW s \in Statics, PtrSeen(u, s)'
                  PROVE  s \in OnList' \/ Deleting(s)'
      BY DEF SeenListed
    <3>1. PtrSeen(u, s)
      BY <2>1, <2>6 DEF PtrSeen, Store
    <3>. QED  BY <1>8, <2>1, <2>3, <3>1 DEF OrderOK, SeenListed
  <2>8. BuiltListed'
    <3>. SUFFICES ASSUME NEW u \in Threads, NEW s \in Statics, BuiltSeen(u, s)'
                  PROVE  s \in OnList' \/ Deleting(s)' \/ Arising(s)'
      BY DEF BuiltListed
    <3>1. CASE BuiltSeen(u, s)
      <4>1. s \in OnList \/ Deleting(s) \/ Arising(s)
        BY <3>1 DEF OrderOK, BuiltListed
      <4>2. Arising(s) => Arising(s)'
        BY <1>3, <2>1, <2>4 DEF Arising
      <4>. QED  BY <1>8, <2>1, <2>3, <4>1, <4>2
    <3>2. CASE ~BuiltSeen(u, s)
      <4>1. s = Of(t)
        BY <2>1, <2>6, <3>2 DEF BuiltSeen, Store
      <4>. QED  BY <2>1, <2>4, <4>1 DEF Arising
    <3>. QED  BY <3>1, <3>2
  <2>. QED  BY <1>6, <1>8, <2>1, <2>5, <2>7, <2>8 DEF OrderOK
<1>15. CASE MemoryFence(t)
  BY <1>2, <1>3, <1>9, <1>15 DEF MemoryFence
\* What is published is on the list.
<1>16. CASE Publish(t)
  <2>. DEFINE at == IF multithreaded_mode THEN "release" ELSE "use"
  <2>1. /\ at \in Places \ {"delete"} /\ at \in {"release", "use"} /\ Step(t, at, {})
        /\ stack[t][1].at = "publish" /\ StaticList' = <<Of(t)>> \o StaticList
        /\ pending' = [pending EXCEPT ![t] = @ \cup {Store("ptr", Of(t))}]
        /\ Ptr' = Ptr /\ built' = built
    BY <1>2, <1>3, <1>16 DEF Publish
  <2>. HIDE DEF at
  <2>2. Uses[Of(t)] \subseteq OnList
    BY <1>3, <1>7, <2>1 DEF UsesOK
  <2>3. \A x : x \in OnList' <=> x \in OnList \/ x = Of(t)
    BY <1>2, <2>1, PublishList
  <2>4. UsersDestroyedFirst'
    BY <1>2, <2>1, <2>2, PublishUsers DEF OrderOK
  <2>5. \A s : Deleting(s) => Deleting(s)'
    BY <1>1, <1>2, <1>3, <2>1, DeletingStays
  <2>6. \A u \in Threads \ {t} : Of(u)' = Of(u) /\ \A x : At(u, x)' <=> At(u, x)
    BY <1>1, <1>2, <2>1, StepTop
  <2>7. MadeOK'
    BY <1>1, <1>2, <2>1, <2>3, MadeStep DEF OrderOK
  <2>8. /\ pending'[t] = pending[t] \cup {Store("ptr", Of(t))}
        /\ \A u \in Threads \ {t} : pending'[u] = pending[u]
    BY <2>1 DEF TypesOK
  <2>9. SeenListed'
    <3>. SUFFICES ASSUME NEW u \in Threads, NEW s \in Statics, PtrSeen(u, s)'
                  PROVE  s \in OnList' \/ Deleting(s)'
      BY DEF SeenListed
    <3>1. PtrSeen(u, s) \/ s = Of(t)
      BY <2>1, <2>8 DEF PtrSeen, Store
    <3>. QED  BY <2>3, <2>5, <3>1 DEF OrderOK, SeenListed
  <2>10. BuiltListed'
    <3>. SUFFICES ASSUME NEW u \in Threads, NEW s \in Statics, BuiltSeen(u, s)'
                  PROVE  s \in OnList' \/ Deleting(s)' \/ Arising(s)'
      BY DEF BuiltListed
    <3>1. BuiltSeen(u, s)
      BY <2>1, <2>8 DEF BuiltSeen, Store
    <3>2. s \in OnList \/ Deleting(s) \/ Arising(s)
      BY <3>1 DEF OrderOK, BuiltListed
    <3>3. Arising(s) => s = Of(t) \/ Arising(s)'
      BY <2>6 DEF Arising
    <3>. QED  BY <2>3, <2>5, <3>2, <3>3
  <2>. QED  BY <1>6, <2>4, <2>7, <2>9, <2>10 DEF OrderOK
<1>17. CASE Release(t)
  BY <1>2, <1>3, <1>9, <1>17 DEF Release
\* An operator on what is being destroyed cannot be inside its destructor.
<1>18. CASE Use(t)
  <2>1. At(t, "use") /\ Pop(t) /\ StaticList' = StaticList /\ UNCHANGED memVars
    BY <1>18 DEF Use
  <2>2. Of(t) \in OnList
    <3>1. PtrSeen(t, Of(t))
      BY <2>1 DEF Visible, TopsOK
    <3>2. ASSUME Deleting(Of(t)) PROVE FALSE
      <4>1. PICK i \in 1 .. Len(stack[Main]) :
               stack[Main][i].at = "delete" /\ stack[Main][i].of = Of(t)
        BY <3>2 DEF Deleting
      <4>2. session.phase = "shutdown"
        BY <1>2, <4>1 DEF StackOK, FrameOK
      <4>3. t = Main
        BY <1>4, <4>2 DEF FrameOK
      <4>4. 1 < i
        BY <1>3, <2>1, <4>1, <4>3
      <4>5. Rank[stack[t][1].of] < Rank[stack[t][i].of]
        BY <1>3, <4>1, <4>3, <4>4 DEF OnceOK, RankOK
      <4>6. Rank[Of(t)] \in Int
        BY <1>2, RankFacts
      <4>. QED  BY <1>3, <4>1, <4>3, <4>5, <4>6
    <3>. QED  BY <1>2, <3>1, <3>2 DEF OrderOK, SeenListed
  <2>3. MadeOK'
    BY <1>1, <1>8, <2>1, <2>2, MadePop DEF OrderOK
  <2>4. ~At(t, "delete") /\ ~At(t, "fence") /\ ~At(t, "publish")
    BY <1>3, <2>1
  <2>5. NoNews /\ \A s : Deleting(s) => Deleting(s)'
    BY <1>1, <2>1, <2>4, QuietMemory, DeletingStays
  <2>6. \A u \in Threads \ {t} : Of(u)' = Of(u) /\ \A x : At(u, x)' <=> At(u, x)
    BY <1>1, <2>1, PopTop
  <2>7. SeenListed' /\ BuiltListed'
    BY <1>8, <2>1, <2>4, <2>5, <2>6, SightKept DEF OrderOK
  <2>. QED  BY <1>6, <1>8, <2>1, <2>3, <2>7 DEF OrderOK
<1>. QED  BY <1>10, <1>11, <1>12, <1>13, <1>14, <1>15, <1>16, <1>17, <1>18 DEF Operator

\* Nor does any other step.
LEMMA NextOrder ==
  ASSUME TypesOK, StackOK, Visible, LockOK, OnceOK, OrderOK, [Next]_vars
  PROVE  OrderOK'
<1>1. Main \in Threads
  BY ConstantTypes
<1>2. ASSUME StaticList' = StaticList PROVE OnList' = OnList /\ UsersDestroyedFirst'
  BY <1>2 DEF OnList, OrderOK, UsersDestroyedFirst
\* Steps that leave list and stacks alone.
<1>3. ASSUME NoNews, StaticList' = StaticList, stack' = stack PROVE SeenListed' /\ BuiltListed' /\ MadeOK'
  <2>1. OnList' = OnList /\ \A s : Deleting(s) => Deleting(s)'
    BY <1>2, <1>3 DEF Deleting
  <2>2. \A u \in Threads : Of(u)' = Of(u) /\ \A x : At(u, x)' <=> At(u, x)
    BY <1>3 DEF Of, At, Idle
  <2>3. SeenListed' /\ BuiltListed'
    BY <1>1, <1>3, <2>1, <2>2, SightKept DEF OrderOK
  <2>4. MadeOK'
    BY <1>3, <2>1 DEF OrderOK, MadeOK, UsesOK
  <2>. QED  BY <2>3, <2>4
<1>4. ASSUME NEW t \in Threads, Reach(t) PROVE OrderOK'
  <2>1. PICK st \in pending[t] :
          /\ pending' = [pending EXCEPT ![t] = @ \ {st}]
          /\ Ptr' = IF st.what = "ptr" THEN [Ptr EXCEPT ![st.of] = TRUE] ELSE Ptr
          /\ built' = IF st.what = "built" THEN [built EXCEPT ![st.of] = TRUE] ELSE built
    BY <1>4 DEF Reach
  <2>2. st \in Stores /\ st.of \in Statics /\ st = Store(st.what, st.of)
    BY <2>1 DEF TypesOK, Stores, Store
  <2>3. pending'[t] = pending[t] \ {st} /\ \A u \in Threads \ {t} : pending'[u] = pending[u]
    BY <2>1 DEF TypesOK
  <2>4. \A s \in Statics : /\ Ptr'[s] <=> Ptr[s] \/ st = Store("ptr", s)
                           /\ built'[s] <=> built[s] \/ st = Store("built", s)
    BY <2>1, <2>2 DEF TypesOK, Stores, Store
  <2>5. NoNews
    BY <2>1, <2>3, <2>4 DEF NoNews, PtrSeen, BuiltSeen
  <2>6. UNCHANGED <<multithreaded_mode, session, StaticList, stack>>
    BY <1>4 DEF Reach
  <2>. QED  BY <1>2, <1>3, <2>5, <2>6 DEF OrderOK, OffOK
<1>5. ASSUME NEW t \in Threads, NEW s \in Statics, Dereference(t, s) PROVE OrderOK'
  <2>1. Frame(s, "read", {}) \in Frames /\ Frame(s, "read", {}).at = "read"
    BY FrameType DEF Places
  <2>2. /\ Idle(t) /\ Push(t, Frame(s, "read", {})) /\ StaticList' = StaticList
        /\ UNCHANGED memVars /\ OffOK'
    BY <1>5 DEF Dereference, OffOK
  <2>3. MadeOK' /\ \A u \in Threads \ {t} : Of(u)' = Of(u) /\ \A x : At(u, x)' <=> At(u, x)
    <3>. DEFINE fr == Frame(s, "read", {})
    <3>1. fr \in Frames /\ fr.at \in {"read", "delete"} /\ Push(t, fr)
      BY <2>1, <2>2
    <3>. HIDE DEF fr
    <3>. QED  BY <1>2, <2>2, <3>1, MadePush, PushTop DEF OrderOK
  <2>4. \A x : Deleting(x) => Deleting(x)'
    <3>1. t = Main => \A x : ~Deleting(x)
      BY <2>2, FrameOf DEF Deleting
    <3>2. t # Main => stack'[Main] = stack[Main]
      BY <1>1, <2>1, <2>2, PushShape
    <3>. QED  BY <3>1, <3>2 DEF Deleting
  <2>5. ~At(t, "fence") /\ ~At(t, "publish")
    BY <2>2, IdleTops
  <2>6. SeenListed' /\ BuiltListed'
    BY <1>2, <2>2, <2>3, <2>4, <2>5, QuietMemory, SightKept DEF OrderOK
  <2>. QED  BY <1>2, <2>2, <2>3, <2>6 DEF OrderOK
<1>6. CASE llvm_start_multithreaded
  <2>1. NoNews /\ StaticList' = StaticList /\ stack' = stack /\ OffOK'
    BY <1>1, <1>6, QuietMemory DEF llvm_start_multithreaded, OffOK
  <2>. QED  BY <1>2, <1>3, <2>1 DEF OrderOK
<1>7. CASE llvm_shutdown
  <2>1. session'.phase # "off"
    BY <1>7 DEF llvm_shutdown, TypesOK
  <2>2. NoNews /\ StaticList' = StaticList /\ stack' = stack /\ OffOK'
    BY <1>1, <1>7, <2>1, QuietMemory DEF llvm_shutdown, OffOK
  <2>. QED  BY <1>2, <1>3, <2>2 DEF OrderOK
<1>8. CASE Restart
  <2>1. NoNews /\ StaticList' = StaticList /\ stack' = stack /\ OffOK'
    BY <1>1, <1>8, QuietMemory DEF Restart, OffOK
  <2>. QED  BY <1>2, <1>3, <2>1 DEF OrderOK
\* The newest static goes from the list to the bottom of Main's stack.
<1>9. CASE Destroy
  <2>1. PICK h \in Statics : h = Head(StaticList)
    BY <1>9, HeadTailProperties DEF Destroy, TypesOK
  <2>. DEFINE fr == Frame(h, "delete", DeleterUses[h])
  <2>2. fr \in Frames /\ fr.at = "delete" /\ fr.of = h
    BY <2>1, FrameType, ConstantTypes DEF Places
  <2>3. /\ session.phase = "shutdown" /\ Idle(Main) /\ StaticList # <<>> /\ Push(Main, fr)
        /\ StaticList' = Tail(StaticList) /\ UNCHANGED memVars /\ OffOK'
    BY <1>9, <2>1 DEF Destroy, OffOK
  <2>4. \A u \in Threads \ {Main} : Idle(u)
    BY <2>3, MainAlone DEF Visible
  <2>. HIDE DEF fr
  <2>5. Len(stack'[Main]) = 1 /\ stack'[Main][1] = fr
    BY <1>1, <2>2, <2>3, PushShape
  <2>6. MadeOK' /\ \A u \in Threads \ {Main} : Of(u)' = Of(u) /\ \A x : At(u, x)' <=> At(u, x)
    BY <1>1, <2>2, <2>3, <2>4, MadePush, PushTop DEF OrderOK
  <2>7. \A x : ~Deleting(x)
    BY <1>1, <2>3, FrameOf DEF Deleting
  <2>8. Deleting(h)'
    <3>1. 1 \in 1 .. Len(stack'[Main])
      BY <2>5
    <3>. QED  BY <2>2, <2>5, <3>1 DEF Deleting
  <2>9. \A x : x \in OnList => x = h \/ x \in OnList'
    <3>1. /\ StaticList \in Seq(Statics) /\ Len(StaticList) \in Nat \ {0}
          /\ Len(StaticList') = Len(StaticList) - 1
          /\ \A i \in 1 .. Len(StaticList') : StaticList'[i] = StaticList[i + 1]
          /\ h = StaticList[1]
      BY <2>1, <2>3, HeadTailProperties, EmptySeq DEF TypesOK
    <3>. SUFFICES ASSUME NEW i \in 1 .. Len(StaticList), StaticList[i] # h
                  PROVE  \E j \in 1 .. Len(StaticList') : StaticList'[j] = StaticList[i]
      BY DEF OnList
    <3>2. i - 1 \in 1 .. Len(StaticList') /\ (i - 1) + 1 = i
      BY <3>1
    <3>. QED  BY <3>1, <3>2
  <2>10. ~At(Main, "fence") /\ ~At(Main, "publish")
    BY <2>3, IdleTops
  <2>11. \A x : x \in OnList \/ Deleting(x) => x \in OnList' \/ Deleting(x)'
    BY <2>7, <2>8, <2>9
  <2>12. SeenListed' /\ BuiltListed'
    BY <1>1, <2>3, <2>6, <2>10, <2>11, QuietMemory, SightKept DEF OrderOK
  <2>13. UsersDestroyedFirst'
    BY <2>3, DestroyUsers DEF OrderOK
  <2>. QED  BY <2>3, <2>6, <2>12, <2>13 DEF OrderOK
\* Of the static that has been destroyed nobody sees anything any more.
<1>10. CASE Destroyed
  <2>1. /\ At(Main, "delete") /\ ~Idle(Main) /\ Pop(Main)
        /\ Ptr' = [Ptr EXCEPT ![Of(Main)] = FALSE]
        /\ built' = [built EXCEPT ![Of(Main)] = FALSE]
        /\ pending' = [pending EXCEPT ![Main] = {st \in @ : st.of # Of(Main)}]
        /\ StaticList' = StaticList /\ UNCHANGED <<multithreaded_mode, session>>
    BY <1>10 DEF Destroyed, At
  <2>2. /\ stack[Main][1].at = "delete" /\ 1 \in 1 .. Len(stack[Main])
        /\ Of(Main) = stack[Main][1].of /\ Of(Main) \in Statics
    BY <1>1, <2>1, TopFacts DEF Of
  <2>3. Len(stack[Main]) = 1 /\ session.phase = "shutdown"
    BY <1>1, <2>1, <2>2, TopOK DEF FrameOK
  <2>4. \A u \in Threads \ {Main} : Idle(u) /\ pending[u] = {}
    BY <2>3, MainAlone DEF Visible
  <2>5. \A x : Deleting(x) => x = Of(Main)
    BY <2>2, <2>3 DEF Deleting
  <2>6. \A x : ~Arising(x)
    <3>1. ~At(Main, "fence") /\ ~At(Main, "publish")
      BY <2>1 DEF At
    <3>. QED  BY <2>4, <3>1, IdleTops DEF Arising
  <2>7. \A u \in Threads : pending'[u] = IF u = Main THEN {st \in pending[Main] : st.of # Of(Main)}
                                                     ELSE pending[u]
    BY <1>1, <2>1 DEF TypesOK
  <2>8. \A u \in Threads, s \in Statics :
            /\ Ptr'[s] \/ Store("ptr", s) \in pending'[u] => s # Of(Main) /\ PtrSeen(u, s)
            /\ built'[s] \/ Store("built", s) \in pending'[u] => s # Of(Main) /\ BuiltSeen(u, s)
    <3>. TAKE u \in Threads, s \in Statics
    <3>1. Ptr'[s] = (s # Of(Main) /\ Ptr[s]) /\ built'[s] = (s # Of(Main) /\ built[s])
      BY <2>1, <2>2 DEF TypesOK
    <3>2. Store("ptr", s).of = s /\ Store("built", s).of = s
      BY DEF Store
    <3>3. \A st \in pending'[u] : st \in pending[u] /\ st.of # Of(Main)
      BY <2>4, <2>7
    <3>. QED  BY <3>1, <3>2, <3>3 DEF PtrSeen, BuiltSeen
  <2>9. SeenListed' /\ BuiltListed'
    <3>1. OnList' = OnList
      BY <1>2, <2>1
    <3>2. SeenListed'
      BY <2>5, <2>8, <3>1 DEF OrderOK, SeenListed, PtrSeen
    <3>3. BuiltListed'
      BY <2>5, <2>6, <2>8, <3>1 DEF OrderOK, BuiltListed, BuiltSeen
    <3>. QED  BY <3>2, <3>3
  <2>10. MadeOK'
    BY <1>1, <1>2, <2>1, <2>3, MadePop DEF OrderOK
  <2>. QED  BY <1>2, <2>1, <2>9, <2>10 DEF OrderOK, OffOK
<1>11. CASE llvm_stop_multithreaded
  <2>1. NoNews /\ StaticList' = StaticList /\ stack' = stack /\ OffOK'
    BY <1>1, <1>11, QuietMemory DEF llvm_stop_multithreaded, OffOK
  <2>. QED  BY <1>2, <1>3, <2>1 DEF OrderOK
<1>12. CASE Finished \/ UNCHANGED vars
  <2>1. UNCHANGED vars
    BY <1>12 DEF Finished
  <2>2. NoNews /\ StaticList' = StaticList /\ stack' = stack /\ OffOK'
    BY <1>1, <2>1, QuietMemory DEF vars, memVars, OffOK, OrderOK
  <2>. QED  BY <1>2, <1>3, <2>2 DEF OrderOK
<1>. QED  BY <1>4, <1>5, <1>6, <1>7, <1>8, <1>9, <1>10, <1>11, <1>12, OperatorOrder DEF Next, Shutdown

\* A static is always newer than all it used while it was constructed, so that
\* llvm_shutdown() destroys it first; and when it is over nothing is left, in memory or
\* on the list, for any number of threads, statics and sessions, whatever constructors
\* and destructors dereference.
THEOREM AlwaysShutdownInOrder == Spec => []ShutdownInOrder
<1>1. Init => LockOK /\ OnceOK /\ OrderOK
  <2>. SUFFICES ASSUME Init PROVE LockOK /\ OnceOK /\ OrderOK
    OBVIOUS
  <2>1. Len(StaticList) = 0 /\ \A t \in Threads : Len(stack[t]) = 0
    BY DEF Init
  <2>2. LockOK
    BY DEF Init, LockOK
  <2>3. OnList = {}
    BY <2>1 DEF OnList
  <2>4. OnceOK
    BY <2>1, <2>3 DEF OnceOK, RankOK, MakingOK, ListedOK, BuiltOnce
  <2>5. \A t \in Threads, s \in Statics : ~PtrSeen(t, s) /\ ~BuiltSeen(t, s)
    BY DEF Init, PtrSeen, BuiltSeen
  <2>6. MadeOK /\ UsersDestroyedFirst
    BY <2>1 DEF MadeOK, UsersDestroyedFirst
  <2>7. OffOK
    BY DEF Init, OffOK
  <2>. QED  BY <2>2, <2>4, <2>5, <2>6, <2>7 DEF OrderOK, SeenListed, BuiltListed
<1>2. /\ TypesOK /\ StackOK /\ Visible /\ LockOK /\ OnceOK /\ OrderOK /\ [Next]_vars
      => (TypesOK /\ StackOK /\ Visible /\ LockOK /\ OnceOK /\ OrderOK)'
  BY NextStack, NextVisible, NextLock, NextOnce, NextOrder DEF Visible
<1>3. TypesOK /\ StackOK /\ LockOK /\ OrderOK => ShutdownInOrder
  <2>. SUFFICES ASSUME TypesOK, StackOK, LockOK, OrderOK, session.phase = "off"
                PROVE  /\ OnList = {} /\ holder = None
                       /\ \A s \in Statics : ~Ptr[s] /\ ~built[s]
    BY DEF ShutdownInOrder, NothingSurvives, OrderOK
  <2>1. OnList = {} /\ holder = None
    BY DEF OrderOK, OffOK, OnList, LockOK
  <2>2. \A t \in Threads : Idle(t) /\ ~(1 \in 1 .. Len(stack[t]))
    BY TopOK, FrameOf DEF FrameOK
  <2>3. \A s : ~Deleting(s) /\ ~Arising(s)
    <3>1. \A s : ~Deleting(s)
      BY <2>2, FrameOf, ConstantTypes DEF Deleting
    <3>. QED  BY <2>2, <3>1, IdleTops DEF Arising
  <2>. QED  BY <2>1, <2>3, ConstantTypes DEF OrderOK, SeenListed, BuiltListed, PtrSeen, BuiltSeen
<1>. QED  BY InitVisible, <1>1, <1>2, <1>3, PTL DEF Spec
=============================================================================
