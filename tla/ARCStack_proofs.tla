-------------------------- MODULE ARCStack_proofs ---------------------------
(***************************************************************************)
(* Proofs about ARCStack.  Inv says that SP, FP, the registers, the words  *)
(* every activation relies on (FrameClaims) and those of the arguments are *)
(* as the place has it, and that the activations are stacked one below the *)
(* other.  A store then goes to a word nobody else claims, and what is     *)
(* below SP is claimed by none.  From Inv follow the module's invariants   *)
(* and, by the mapping AbsStack, that it implements ProcedureStack.        *)
(***************************************************************************)
EXTENDS ARCStackFrames_proofs

(***************************************************************************)
(* The invariant.                                                          *)
(***************************************************************************)
\* c has called d.
CallLink(c, d) ==
    /\ d.sp = Bottom(c)
    /\ d.ret = Ret(c.fn, d.fn)
    /\ \E s \in Code[c.fn].calls : s.fn = d.fn /\ s.nargs = d.nargs
    /\ \A r \in Registers :
          (\A j \in 1 .. SpillCount(Code[c.fn]) : Code[c.fn].csi[j].reg # r) =>
              d.keep[r] = c.keep[r]
FirstSound(as) ==
    /\ as[1].fn \in Mains /\ as[1].sp = StackTop /\ as[1].nargs = 0
    /\ as[1].ret = Ret(Halt, as[1].fn) /\ Len(as) <= MaxDepth[as[1].fn]

\* The activations as, each called by the one before.
Stacked(as) ==
    /\ as \in Seq(Activations)
    /\ as # <<>> => FirstSound(as)
    /\ \A k \in 1 .. Len(as) : ActivationSound(as[k])
    /\ \A k \in 1 .. Len(as) - 1 : CallLink(as[k], as[k + 1])
    /\ \A k \in 1 .. Len(as), l \in 1 .. Len(as) : k <= l => as[l].sp <= as[k].sp
    /\ \A k \in 1 .. Len(as) : (MaxDepth[as[1].fn] - k + 1) * StackBytes <= as[k].sp

CallerFP(as, k) == IF k = 1 THEN StackTop ELSE FPOf(as[k - 1])

StackInv ==
    /\ Stacked(acts)
    /\ fn = IF acts = <<>> THEN Halt ELSE acts[depth].fn

PointersInv ==
    IF acts = <<>> THEN SP = StackTop /\ FP = StackTop /\ part = "entry" /\ at = 1
    ELSE /\ PlaceSound(acts[depth], part, at)
         /\ SP = SPAt(acts[depth], part, at)
         /\ FP = FPAt(acts[depth], CallerFP(acts, depth), part, at)
         /\ LinkKept(Frame(depth), part, at) => BLINK = acts[depth].ret
RegistersInv ==
    /\ regs \in [Registers -> RegisterValues]
    /\ acts # <<>> =>
          \A r \in Registers :
              RegisterKept(Frame(depth), part, at, r) => regs[r] = acts[depth].keep[r]

CallInv ==
    pend # NoCall =>
        /\ acts # <<>> /\ AtBody(Frame(depth), part, at)
        /\ depth < MaxDepth[acts[1].fn]
        /\ \E s \in Frame(depth).calls : s.fn = pend.fn /\ s.nargs = pend.nargs
        /\ pend = [fn |-> pend.fn, nargs |-> pend.nargs, next |-> pend.next]
        /\ pend.next \in Nat /\ pend.next >= NumArgRegs + 1
        /\ pend.next = NumArgRegs + 1 \/ pend.next <= pend.nargs + 1

\* An activation that waits for a call is in its body.
WaitingClaims(as, k) ==
    FrameClaims(k, as[k], CallerFP(as, k), "entry", EntryEnd(Code[as[k].fn]) + 1)
        \cup ArgClaims(k, as[k].sp, as[k].nargs)
OuterClaims(as) ==
    (UNION {WaitingClaims(as, k) : k \in 1 .. Len(as) - 1})
        \cup ArgClaims(Len(as), as[Len(as)].sp, as[Len(as)].nargs)
TopClaims == FrameClaims(depth, acts[depth], CallerFP(acts, depth), part, at)
PendClaims == ArgClaims(depth + 1, SP, IF pend = NoCall THEN 0 ELSE pend.next - 1)

MemoryInv ==
    /\ DOMAIN mem = Words
    /\ acts # <<>> =>
          \A x \in OuterClaims(acts) \cup TopClaims \cup PendClaims : mem[x[1]] = x[2]

Inv == StackInv /\ PointersInv /\ RegistersInv /\ CallInv /\ MemoryInv

(***************************************************************************)
(* The stack of activations.                                               *)
(***************************************************************************)
LEMMA ActivationFacts ==
  ASSUME NEW c, ActivationSound(c)
  PROVE  /\ c.fn \in Functions /\ c.sp \in Int /\ c.sp % 4 = 0 /\ c.sp <= StackTop
         /\ c.nargs \in Nat /\ c.ret \in ReturnAddresses
         /\ c.keep \in [Registers -> RegisterValues]
         /\ c.dyn \in Nat /\ c.dyn % 4 = 0 /\ c.dyn <= MaxDynamic
         /\ c.dyn > 0 => Code[c.fn].hasVarSized
         /\ WrittenInside(c)
  BY DEF ActivationSound, Activations, UNITS_PER_WORD

LEMMA WaitingPlaced ==
  ASSUME NEW c, ActivationSound(c)
  PROVE  Placed(c, "entry", EntryEnd(Code[c.fn]) + 1)
  <1>1. /\ c.fn \in Functions /\ c.sp \in Int /\ c.sp % 4 = 0
        /\ c.dyn \in Nat /\ c.dyn % 4 = 0
        /\ c.dyn > 0 => Code[c.fn].hasVarSized
        /\ WrittenInside(c)
    BY ActivationFacts
  <1>2. EntryEnd(Code[c.fn]) \in Nat  BY <1>1, PlaceNumbers DEF Ends
  <1>3. EntryEnd(Code[c.fn]) + 1 \in 1 .. End(Code[c.fn], "entry") + 1  BY <1>2 DEF End
  <1>4. Standing(c, "entry", EntryEnd(Code[c.fn]) + 1)
    BY <1>1, <1>2, <1>3 DEF Standing
  <1> QED  BY <1>1, <1>4 DEF Placed, AtBody

LEMMA TopPlaced ==
  ASSUME NEW c, ActivationSound(c), NEW p, NEW n, PlaceSound(c, p, n)
  PROVE  Placed(c, p, n) /\ n \in Nat /\ n >= 1
  <1>1. /\ c.fn \in Functions /\ c.sp \in Int /\ c.sp % 4 = 0
        /\ c.dyn \in Nat /\ c.dyn % 4 = 0
        /\ c.dyn > 0 => Code[c.fn].hasVarSized
        /\ WrittenInside(c)
    BY ActivationFacts
  <1>2. EntryEnd(Code[c.fn]) \in Nat /\ ExitEnd(Code[c.fn]) \in Nat
    BY <1>1, PlaceNumbers DEF Ends
  <1>3. End(Code[c.fn], p) \in Nat  BY <1>2 DEF End
  <1>4. Standing(c, p, n)  BY <1>1 DEF Standing, PlaceSound
  <1>5. n \in Nat /\ n >= 1  BY <1>3 DEF PlaceSound
  <1> QED  BY <1>1, <1>4, <1>5 DEF Placed, PlaceSound

LEMMA AtLeast ==
  ASSUME NEW m \in Nat, NEW b \in Nat, m >= 1
  PROVE  m * b >= b /\ m * b = (m - 1) * b + b /\ (m - 1) * b >= 0
  <1>1. PICK k \in Nat : m = k + 1
    <2>1. m - 1 \in Nat /\ m = (m - 1) + 1  OBVIOUS
    <2> QED  BY <2>1
  <1>2. k * b \in Nat  OBVIOUS
  <1>3. (k + 1) * b = k * b + b  OBVIOUS
  <1>4. m - 1 = k  BY <1>1
  <1> QED  BY <1>1, <1>2, <1>3, <1>4

LEMMA InRange ==
  ASSUME NEW l \in Nat
  PROVE  /\ l # 0 => l >= 1 /\ l \in 1 .. l /\ 1 \in 1 .. l
         /\ \A k \in 1 .. l : k \in Nat /\ 1 <= k /\ k <= l /\ l >= 1
         /\ \A k \in 1 .. l - 1 :
               k \in 1 .. l /\ k + 1 \in 1 .. l /\ k + 1 <= l /\ k <= l /\ k \in Nat
         /\ \A k \in 1 .. l : k # l => k \in 1 .. l - 1
         /\ \A k \in 1 .. l : k # 1 => k - 1 \in 1 .. l /\ k - 1 \in 1 .. l - 1 /\ (k - 1) + 1 = k
  OBVIOUS

LEMMA Lengths ==
  ASSUME NEW as, Stacked(as)
  PROVE  /\ Len(as) \in Nat /\ as \in Seq(Activations)
         /\ as # <<>> => Len(as) # 0
         /\ as # <<>> => Len(as) >= 1 /\ Len(as) \in 1 .. Len(as) /\ 1 \in 1 .. Len(as)
         /\ \A k \in 1 .. Len(as) : k \in Nat /\ 1 <= k /\ k <= Len(as) /\ Len(as) >= 1
         /\ \A k \in 1 .. Len(as) : as # <<>>
         /\ \A k \in 1 .. Len(as) - 1 :
               /\ k \in 1 .. Len(as) /\ k + 1 \in 1 .. Len(as)
               /\ k + 1 <= Len(as) /\ k <= Len(as) /\ k \in Nat
         /\ \A k \in 1 .. Len(as) : k # 1 =>
               k - 1 \in 1 .. Len(as) /\ k - 1 \in 1 .. Len(as) - 1 /\ (k - 1) + 1 = k
  <1>1. as \in Seq(Activations)  BY DEF Stacked
  <1>2. Len(as) \in Nat  BY <1>1, LenProperties
  <1>3. as # <<>> => Len(as) # 0  BY <1>1, EmptySeq
  <1>4. \A k \in 1 .. Len(as) : as # <<>>
    <2>1. Len(<<>>) = 0  OBVIOUS
    <2>2. \A k : k \notin 1 .. 0  OBVIOUS
    <2> QED  BY ONLY <2>1, <2>2
  <1> QED  BY ONLY <1>1, <1>2, <1>3, <1>4, InRange

\* Below every activation there is room for those that may still come.
LEMMA Room ==
  ASSUME NEW as, Stacked(as), NEW k \in 1 .. Len(as)
  PROVE  /\ Bottom(as[k]) \in Int /\ 0 <= Bottom(as[k])
         /\ (MaxDepth[as[1].fn] - k) * StackBytes <= Bottom(as[k])
         /\ MaxDepth[as[1].fn] \in Nat /\ Len(as) \in Nat /\ Len(as) <= MaxDepth[as[1].fn]
  <1>1. Len(as) \in Nat /\ Len(as) >= 1 /\ as # <<>> /\ k \in Nat /\ 1 <= k /\ k <= Len(as)
    BY Lengths
  <1>2. FirstSound(as) /\ ActivationSound(as[k])  BY <1>1 DEF Stacked
  <1>3. as[1].fn \in Mains /\ Len(as) <= MaxDepth[as[1].fn]  BY <1>2 DEF FirstSound
  <1>4. MaxDepth[as[1].fn] \in Nat  BY <1>3, StackAssumption
  <1>5. PICK m \in Nat : m = MaxDepth[as[1].fn]  BY <1>4
  <1>6. k \in Nat /\ 1 <= k /\ k <= m
    <2>1. PICK l \in Nat : l = Len(as)  BY <1>1
    <2>2. 1 <= k /\ k <= l /\ l <= m /\ k \in Nat  BY <1>1, <1>3, <1>5, <2>1
    <2> QED  BY <2>2
  <1>7. /\ as[k].fn \in Functions /\ as[k].sp \in Int /\ as[k].sp % 4 = 0
        /\ as[k].dyn \in Nat /\ as[k].dyn % 4 = 0 /\ as[k].dyn <= MaxDynamic
    BY <1>2, ActivationFacts
  <1>8. StackBytes \in Nat /\ as[k].sp - Bottom(as[k]) <= StackBytes
    BY <1>7, RoomForFrame
  <1>9. Bottom(as[k]) \in Int  BY <1>7, BottomOfFrame
  <1>10. (m - k + 1) * StackBytes <= as[k].sp  BY <1>5 DEF Stacked
  <1>11. /\ (m - k + 1) * StackBytes = (m - k + 1 - 1) * StackBytes + StackBytes
         /\ (m - k + 1 - 1) * StackBytes >= 0
    BY <1>6, <1>8, AtLeast
  <1>12. m - k + 1 - 1 = m - k  BY <1>6
  <1>13. PICK z \in Int : z = (m - k) * StackBytes  BY <1>6, <1>8
  <1>14. z >= 0 /\ z + StackBytes <= as[k].sp  BY <1>10, <1>11, <1>12, <1>13
  <1>15. PICK s \in Int : s = as[k].sp  BY <1>7
  <1>16. PICK y \in Int : y = Bottom(as[k])  BY <1>9
  <1>17. z <= y /\ 0 <= y
    <2>1. s - y <= StackBytes /\ z + StackBytes <= s /\ z >= 0  BY <1>8, <1>14, <1>15, <1>16
    <2> QED  BY ONLY <2>1, <1>8, z \in Int, y \in Int, s \in Int
  <1>18. 0 <= Bottom(as[k])  BY <1>16, <1>17
  <1>19. (MaxDepth[as[1].fn] - k) * StackBytes <= Bottom(as[k])
    BY <1>5, <1>13, <1>16, <1>17
  <1> QED  BY <1>1, <1>3, <1>4, <1>9, <1>18, <1>19

\* The arguments of an activation are where its caller put them.
LEMMA ArgsPlaced ==
  ASSUME NEW as, Stacked(as), NEW k \in 1 .. Len(as),
         NEW x \in ArgClaims(k, as[k].sp, as[k].nargs)
  PROVE  x[1] \in Words /\ x[1] >= as[k].sp
  <1>1. Len(as) \in Nat /\ Len(as) >= 1 /\ as # <<>> /\ k \in Nat /\ 1 <= k /\ k <= Len(as)
    BY Lengths
  <1>2. PICK a \in NumArgRegs + 1 .. as[k].nargs : x = <<as[k].sp + LocMemOffset(a), Arg(k, a)>>
    BY DEF ArgClaims
  <1>3. x[1] = as[k].sp + LocMemOffset(a)  BY <1>2
  <1>4. k # 1
    <2>1. SUFFICES ASSUME k = 1 PROVE FALSE  OBVIOUS
    <2>2. as[k].nargs = 0  BY <1>1, <2>1 DEF Stacked, FirstSound
    <2> QED  BY <1>2, <2>2 DEF NumArgRegs
  <1>5. k \in Nat /\ k - 1 \in 1 .. Len(as) /\ k - 1 \in 1 .. Len(as) - 1 /\ (k - 1) + 1 = k
    BY <1>1, <1>4, Lengths
  <1>6. PICK b : b = as[k - 1]  OBVIOUS
  <1>7. CallLink(b, as[k]) /\ ActivationSound(b)
    BY <1>5, <1>6 DEF Stacked
  <1>8. as[k].sp = Bottom(b)  BY <1>7 DEF CallLink
  <1>9. PICK s \in Code[b.fn].calls : s.nargs = as[k].nargs  BY <1>7 DEF CallLink
  <1>10. /\ b.fn \in Functions /\ b.sp \in Int /\ b.sp % 4 = 0 /\ b.sp <= StackTop
         /\ b.dyn \in Nat /\ b.dyn % 4 = 0 /\ WrittenInside(b)
         /\ b.dyn > 0 => Code[b.fn].hasVarSized
    BY <1>7, ActivationFacts
  <1>11. /\ Bottom(b) + LocMemOffset(a) \in Int /\ (Bottom(b) + LocMemOffset(a)) % 4 = 0
         /\ Bottom(b) <= Bottom(b) + LocMemOffset(a)
         /\ Bottom(b) + LocMemOffset(a) + 4 <= FPOf(b)
    BY <1>2, <1>9, <1>10, OutgoingFresh
  <1>12. FPOf(b) \in Int /\ FPOf(b) + 4 <= b.sp  BY <1>10, BottomOfFrame
  <1>13. 0 <= Bottom(b) /\ Bottom(b) \in Int  BY <1>5, <1>6, Room
  <1>14. StackTop \in Nat  BY StackAssumption
  <1>15. PICK w \in Int : w = Bottom(b) + LocMemOffset(a)  BY <1>11
  <1>16. 0 <= w /\ w < StackTop /\ w % 4 = 0 /\ w >= Bottom(b)
    BY <1>10, <1>11, <1>12, <1>13, <1>14, <1>15
  <1>17. w \in Words  BY <1>16, WordAddresses
  <1> QED  BY <1>3, <1>8, <1>15, <1>16, <1>17

\* What the callers rely on lies above the running activation.
LEMMA OuterPlaced ==
  ASSUME NEW as, Stacked(as), as # <<>>, NEW x \in OuterClaims(as)
  PROVE  x[1] \in Words /\ x[1] >= as[Len(as)].sp
  <1>1. Len(as) \in Nat /\ Len(as) >= 1 /\ Len(as) \in 1 .. Len(as)
    BY Lengths
  <1>2. CASE x \in ArgClaims(Len(as), as[Len(as)].sp, as[Len(as)].nargs)
    BY <1>1, <1>2, ArgsPlaced
  <1>3. ASSUME NEW k \in 1 .. Len(as) - 1, x \in WaitingClaims(as, k)
        PROVE  x[1] \in Words /\ x[1] >= as[Len(as)].sp
    <2>1. k \in 1 .. Len(as) /\ k + 1 \in 1 .. Len(as) /\ k + 1 <= Len(as) /\ k <= Len(as)
      BY Lengths
    <2>2. ActivationSound(as[k]) /\ ActivationSound(as[Len(as)]) /\ CallLink(as[k], as[k + 1])
      BY <1>1, <2>1 DEF Stacked
    <2>3. as[Len(as)].sp <= as[k + 1].sp /\ as[Len(as)].sp <= as[k].sp
      BY <1>1, <2>1 DEF Stacked
    <2>4. as[k + 1].sp = Bottom(as[k])  BY <2>2 DEF CallLink
    <2>5. as[k].sp \in Int /\ as[k].sp <= StackTop /\ as[Len(as)].sp \in Int /\ as[k].fn \in Functions
      BY <2>2, ActivationFacts
    <2>6. CASE x \in ArgClaims(k, as[k].sp, as[k].nargs)
      <3>1. x[1] \in Words /\ x[1] >= as[k].sp  BY <2>1, <2>6, ArgsPlaced
      <3>2. x[1] \in Int  BY <3>1, WordAddresses
      <3>3. PICK s \in Int : s = as[k].sp  BY <2>5
      <3>4. PICK t \in Int : t = as[Len(as)].sp  BY <2>5
      <3>5. x[1] >= s /\ t <= s  BY <2>3, <3>1, <3>3, <3>4
      <3>6. x[1] >= t  BY <3>2, <3>5
      <3> QED  BY <3>1, <3>4, <3>6
    <2>7. CASE x \in FrameClaims(k, as[k], CallerFP(as, k), "entry", EntryEnd(Code[as[k].fn]) + 1)
      <3>1. Placed(as[k], "entry", EntryEnd(Code[as[k].fn]) + 1)  BY <2>2, WaitingPlaced
      <3>2. ClaimInside(x, as[k], "entry", EntryEnd(Code[as[k].fn]) + 1)
        BY <2>7, <3>1, FrameClaimsInside
      <3>3. SPAt(as[k], "entry", EntryEnd(Code[as[k].fn]) + 1) = Bottom(as[k])
        BY <2>2, ActivationFacts, PointersInBody
      <3>4. x[1] \in Int /\ x[1] % 4 = 0 /\ Bottom(as[k]) <= x[1] /\ x[1] < as[k].sp
        BY <3>2, <3>3 DEF ClaimInside
      <3>5. 0 <= Bottom(as[k]) /\ Bottom(as[k]) \in Int  BY <2>1, Room
      <3>6. StackTop \in Nat  BY StackAssumption
      <3>7. PICK s \in Int : s = as[k].sp  BY <2>5
      <3>8. PICK t \in Int : t = as[Len(as)].sp  BY <2>5
      <3>9. PICK y \in Int : y = Bottom(as[k])  BY <3>5
      <3>10. y <= x[1] /\ x[1] < s /\ s <= StackTop /\ 0 <= y /\ t <= y
        BY <2>3, <2>4, <2>5, <3>4, <3>5, <3>7, <3>8, <3>9
      <3>11. 0 <= x[1] /\ x[1] < StackTop /\ x[1] >= t  BY <3>4, <3>6, <3>10
      <3>12. x[1] \in Words  BY <3>4, <3>11, WordAddresses
      <3> QED  BY <3>8, <3>11, <3>12
    <2> QED  BY <1>3, <2>6, <2>7 DEF WaitingClaims
  <1>4. \/ \E k \in 1 .. Len(as) - 1 : x \in WaitingClaims(as, k)
        \/ x \in ArgClaims(Len(as), as[Len(as)].sp, as[Len(as)].nargs)
    <2>1. \/ x \in UNION {WaitingClaims(as, k) : k \in 1 .. Len(as) - 1}
          \/ x \in ArgClaims(Len(as), as[Len(as)].sp, as[Len(as)].nargs)
      BY DEF OuterClaims
    <2>2. CASE x \in UNION {WaitingClaims(as, k) : k \in 1 .. Len(as) - 1}
      <3>1. PICK y \in {WaitingClaims(as, k) : k \in 1 .. Len(as) - 1} : x \in y  BY <2>2
      <3> QED  BY <3>1
    <2> QED  BY <2>1, <2>2
  <1> QED  BY <1>2, <1>3, <1>4

\* What the running activation relies on lies between SP and its caller's SP.
LEMMA TopClaimsPlaced ==
  ASSUME NEW as, Stacked(as), as # <<>>, NEW c, c = as[Len(as)],
         NEW p, NEW n, PlaceSound(c, p, n)
  PROVE  /\ SPAt(c, p, n) \in Int /\ SPAt(c, p, n) % 4 = 0
         /\ 0 <= Bottom(c) /\ Bottom(c) \in Int
         /\ Bottom(c) <= SPAt(c, p, n) /\ SPAt(c, p, n) <= c.sp
         /\ \A k, up : \A x \in FrameClaims(k, c, up, p, n) :
               x[1] \in Words /\ SPAt(c, p, n) <= x[1] /\ x[1] < c.sp
  <1>1. Len(as) \in Nat /\ Len(as) >= 1 /\ Len(as) \in 1 .. Len(as)
    BY Lengths
  <1>2. ActivationSound(c)  BY <1>1 DEF Stacked
  <1>3. Placed(c, p, n)  BY <1>2, TopPlaced
  <1>4. Standing(c, p, n)  BY <1>3 DEF Placed
  <1>5. /\ SPAt(c, p, n) \in Int /\ SPAt(c, p, n) % 4 = 0
        /\ Bottom(c) <= SPAt(c, p, n) /\ SPAt(c, p, n) <= c.sp
    BY <1>4, StageBounds
  <1>6. 0 <= Bottom(c) /\ Bottom(c) \in Int  BY <1>1, Room
  <1>7. c.sp \in Int /\ c.sp <= StackTop /\ StackTop \in Nat
    BY <1>2, ActivationFacts, StackAssumption
  <1>8. ASSUME NEW k, NEW up, NEW x \in FrameClaims(k, c, up, p, n)
        PROVE  x[1] \in Words /\ SPAt(c, p, n) <= x[1] /\ x[1] < c.sp
    <2>1. ClaimInside(x, c, p, n)  BY <1>3, FrameClaimsInside
    <2>2. x[1] \in Int /\ x[1] % 4 = 0 /\ SPAt(c, p, n) <= x[1] /\ x[1] < c.sp
      BY <2>1 DEF ClaimInside
    <2>3. PICK s \in Int : s = c.sp  BY <1>7
    <2>4. PICK y \in Int : y = SPAt(c, p, n)  BY <1>5
    <2>5. 0 <= x[1] /\ x[1] < StackTop
      <3>1. PICK b \in Int : b = Bottom(c)  BY <1>6
      <3>2. 0 <= b /\ b <= y  BY <1>5, <1>6, <2>4, <3>1
      <3>3. y <= x[1] /\ x[1] < s /\ s <= StackTop  BY <1>7, <2>2, <2>3, <2>4
      <3> QED  BY <2>2, <3>2, <3>3, <1>7
    <2>6. x[1] \in Words  BY <2>2, <2>5, WordAddresses
    <2> QED  BY <2>2, <2>6
  <1> QED  BY <1>5, <1>6, <1>8

(***************************************************************************)
(* One instruction of an entry or an exit.                                 *)
(***************************************************************************)
LEMMA NoArgClaims ==
  \A k, sp : ArgClaims(k, sp, 0) = {}
  BY DEF ArgClaims, NumArgRegs

LEMMA TopFacts ==
  ASSUME Inv, acts # <<>>
  PROVE  /\ Stacked(acts) /\ depth \in Nat /\ depth >= 1 /\ depth \in 1 .. Len(acts)
         /\ ActivationSound(acts[depth]) /\ fn = acts[depth].fn
         /\ fn \in Functions /\ fn # Halt
         /\ PlaceSound(acts[depth], part, at)
         /\ SP = SPAt(acts[depth], part, at)
         /\ FP = FPAt(acts[depth], CallerFP(acts, depth), part, at)
         /\ LinkKept(Code[fn], part, at) => BLINK = acts[depth].ret
         /\ \A r \in Registers :
               RegisterKept(Code[fn], part, at, r) => regs[r] = acts[depth].keep[r]
         /\ \A x \in OuterClaims(acts) \cup TopClaims \cup PendClaims : mem[x[1]] = x[2]
  <1>1. Stacked(acts) /\ fn = acts[depth].fn  BY DEF Inv, StackInv
  <1>2. depth \in Nat /\ depth >= 1 /\ depth \in 1 .. Len(acts)  BY <1>1, Lengths DEF depth
  <1>3. ActivationSound(acts[depth])  BY <1>1, <1>2 DEF Stacked
  <1>4. fn \in Functions  BY <1>1, <1>3, ActivationFacts
  <1>5. fn # Halt  BY <1>4, CodeAssumption
  <1>6. /\ PlaceSound(acts[depth], part, at)
        /\ SP = SPAt(acts[depth], part, at)
        /\ FP = FPAt(acts[depth], CallerFP(acts, depth), part, at)
        /\ LinkKept(Code[fn], part, at) => BLINK = acts[depth].ret
    BY <1>1 DEF Inv, PointersInv, Frame
  <1>7. \A r \in Registers :
           RegisterKept(Code[fn], part, at, r) => regs[r] = acts[depth].keep[r]
    BY <1>1 DEF Inv, RegistersInv, Frame
  <1>8. \A x \in OuterClaims(acts) \cup TopClaims \cup PendClaims : mem[x[1]] = x[2]
    BY DEF Inv, MemoryInv
  <1> QED  BY <1>1, <1>2, <1>3, <1>4, <1>5, <1>6, <1>7, <1>8

LEMMA InstructionFacts ==
  ASSUME Inv, NEW op, Fetch(op)
  PROVE  /\ acts # <<>> /\ pend = NoCall /\ acts[depth].written = {}
         /\ at' = at + 1 /\ acts' = acts /\ part' = part /\ fn' = fn /\ pend' = NoCall
         /\ ins.op = op /\ at \in Nat
         /\ \/ /\ part = "entry" /\ at \in 1 .. EntryEnd(Code[fn])
               /\ ins = EntryCode[fn][at] /\ acts[depth].dyn = 0
               /\ op \in {"SUBrsi", "STrri_a", "MOVrr", "STrri", "STva"}
            \/ /\ part = "exit" /\ at \in 1 .. ExitEnd(Code[fn])
               /\ ins = ExitCode[fn][at]
               /\ op \in {"LDri", "ADDrsi", "MOVrr", "LDri_ab"}
         /\ PlaceSound(acts[depth], part, at + 1)
  <1>1. /\ fn # Halt /\ at <= Len(Instructions) /\ Instructions[at].op = op
        /\ at' = at + 1 /\ acts' = acts /\ part' = part /\ fn' = fn /\ pend' = pend
    BY DEF Fetch
  <1>2. acts # <<>>  BY <1>1 DEF Inv, StackInv
  <1>3. fn = acts[depth].fn /\ fn \in Functions /\ PlaceSound(acts[depth], part, at)
    BY <1>2, TopFacts
  <1> DEFINE f == Code[fn]
  <1>4. part \in {"entry", "exit"} /\ at \in 1 .. End(f, part) + 1
    BY <1>3 DEF PlaceSound
  <1>5. EntryEnd(f) \in Nat /\ ExitEnd(f) \in Nat  BY <1>3, PlaceNumbers DEF Ends
  <1>6. Len(EntryCode[fn]) = EntryEnd(f) /\ Len(ExitCode[fn]) = ExitEnd(f)
    BY <1>3, EntryAt, ExitAt
  <1>7. /\ at <= End(f, part) /\ at \in 1 .. End(f, part)
        /\ ins = IF part = "entry" THEN EntryCode[fn][at] ELSE ExitCode[fn][at]
    BY <1>1, <1>4, <1>5, <1>6 DEF Instructions, ins, End
  <1>8. ~AtBody(f, part, at) /\ at \in Nat  BY <1>5, <1>7 DEF AtBody, End
  <1>9. pend = NoCall  BY <1>2, <1>3, <1>8 DEF Inv, CallInv, Frame
  <1>10. acts[depth].written = {}  BY <1>3, <1>8 DEF PlaceSound
  <1>11. ins.op = op  BY <1>1 DEF ins
  <1>12. ASSUME part = "entry"
         PROVE  /\ at \in 1 .. EntryEnd(f) /\ ins = EntryCode[fn][at] /\ acts[depth].dyn = 0
                /\ op \in {"SUBrsi", "STrri_a", "MOVrr", "STrri", "STva"}
    <2>1. at \in 1 .. EntryEnd(f) /\ ins = EntryCode[fn][at]  BY <1>7, <1>12 DEF End
    <2>2. at <= EntryEnd(f)  BY <1>5, <2>1
    <2>3. acts[depth].dyn = 0  BY <1>3, <1>12, <2>2 DEF PlaceSound
    <2>4. op \in {"SUBrsi", "STrri_a", "MOVrr", "STrri", "STva"}
      BY <1>3, <1>11, <2>1, EntryOps
    <2> QED  BY <1>12, <2>1, <2>3, <2>4
  <1>13. ASSUME part = "exit"
         PROVE  /\ at \in 1 .. ExitEnd(f) /\ ins = ExitCode[fn][at]
                /\ op \in {"LDri", "ADDrsi", "MOVrr", "LDri_ab"}
    <2>1. at \in 1 .. ExitEnd(f) /\ ins = ExitCode[fn][at]  BY <1>7, <1>13 DEF End
    <2>2. op \in {"LDri", "ADDrsi", "MOVrr", "LDri_ab"}
      BY <1>3, <1>11, <2>1, ExitOps
    <2> QED  BY <1>13, <2>1, <2>2
  <1>14. PlaceSound(acts[depth], part, at + 1)
    <2>1. End(f, part) \in Nat  BY <1>5 DEF End
    <2>2. at + 1 \in 1 .. End(f, part) + 1  BY <1>7, <1>8, <2>1
    <2>3. part = "entry" => at <= EntryEnd(f)  BY <1>7 DEF End
    <2>4. part = "entry" => acts[depth].dyn = 0  BY <1>3, <2>3 DEF PlaceSound
    <2> QED  BY <1>3, <1>4, <1>10, <2>2, <2>4 DEF PlaceSound
  <1> QED
    BY <1>1, <1>2, <1>4, <1>8, <1>9, <1>10, <1>11, <1>12, <1>13, <1>14

\* What an instruction has to establish.
LEMMA AfterInstruction ==
  ASSUME Inv, NEW op, Fetch(op),
         SP' = SPAt(acts[depth], part, at + 1),
         FP' = FPAt(acts[depth], CallerFP(acts, depth), part, at + 1),
         LinkKept(Code[fn], part, at + 1) => BLINK' = acts[depth].ret,
         regs' \in [Registers -> RegisterValues],
         \A r \in Registers :
            RegisterKept(Code[fn], part, at + 1, r) => regs'[r] = acts[depth].keep[r],
         DOMAIN mem' = Words,
         \A x \in OuterClaims(acts) : mem'[x[1]] = x[2],
         \A x \in FrameClaims(depth, acts[depth], CallerFP(acts, depth), part, at + 1) :
            mem'[x[1]] = x[2]
  PROVE  Inv'
  <1>1. /\ acts # <<>> /\ pend = NoCall
        /\ at' = at + 1 /\ acts' = acts /\ part' = part /\ fn' = fn /\ pend' = NoCall
        /\ PlaceSound(acts[depth], part, at + 1)
    BY InstructionFacts
  <1>2. fn = acts[depth].fn  BY <1>1, TopFacts
  <1>3. depth' = depth  BY <1>1 DEF depth
  <1>4. StackInv'  BY <1>1, <1>3 DEF Inv, StackInv
  <1>5. PointersInv'
    BY <1>1, <1>2, <1>3 DEF PointersInv, Frame
  <1>6. RegistersInv'
    BY <1>1, <1>2, <1>3 DEF RegistersInv, Frame
  <1>7. CallInv'  BY <1>1 DEF CallInv, NoCall
  <1>8. MemoryInv'
    <2>1. TopClaims' = FrameClaims(depth, acts[depth], CallerFP(acts, depth), part, at + 1)
      BY <1>1, <1>3 DEF TopClaims
    <2>2. OuterClaims(acts)' = OuterClaims(acts)  BY <1>1
    <2>3. PendClaims' = {}
      <3>1. PendClaims' = ArgClaims(depth', SP', 0) \/ PendClaims' = ArgClaims(depth' + 1, SP', 0)
        BY <1>1 DEF PendClaims, NoCall
      <3>2. \A k, sp : ArgClaims(k, sp, 0) = {}  BY NoArgClaims
      <3> QED  BY <3>1, <3>2
    <2>4. \A x \in OuterClaims(acts)' \cup TopClaims' \cup PendClaims' : mem'[x[1]] = x[2]
      BY <2>1, <2>2, <2>3
    <2> QED  BY <2>4 DEF MemoryInv
  <1> QED  BY <1>4, <1>5, <1>6, <1>7, <1>8 DEF Inv

(***************************************************************************)
(* Each instruction keeps the invariant.                                   *)
(***************************************************************************)

\* A store changes no claim but those on its own word.
LEMMA StoreKeeps ==
  ASSUME NEW m, DOMAIN m = Words, NEW w \in Words, NEW v, NEW S, NEW T,
         \A x \in S : m[x[1]] = x[2] /\ x[1] \in Words,
         \A x \in T : (x \in S /\ (x[1] = w => x[2] = v)) \/ x = <<w, v>>
  PROVE  /\ DOMAIN [m EXCEPT ![w] = v] = Words
         /\ \A x \in T : [m EXCEPT ![w] = v][x[1]] = x[2]
  OBVIOUS

\* What the top activation's claims, and its callers', are before the instruction.
LEMMA ClaimsBefore ==
  ASSUME Inv, acts # <<>>
  PROVE  /\ DOMAIN mem = Words /\ regs \in [Registers -> RegisterValues]
         /\ \A x \in FrameClaims(depth, acts[depth], CallerFP(acts, depth), part, at) :
               mem[x[1]] = x[2] /\ x[1] \in Words /\ SP <= x[1] /\ x[1] < acts[depth].sp
         /\ \A x \in OuterClaims(acts) :
               mem[x[1]] = x[2] /\ x[1] \in Words /\ acts[depth].sp <= x[1]
         /\ SP \in Int /\ SP % 4 = 0 /\ 0 <= SP /\ SP <= acts[depth].sp
         /\ 0 <= Bottom(acts[depth]) /\ Bottom(acts[depth]) <= SP /\ Bottom(acts[depth]) \in Int
  <1>1. /\ Stacked(acts) /\ PlaceSound(acts[depth], part, at)
        /\ SP = SPAt(acts[depth], part, at)
        /\ \A x \in OuterClaims(acts) \cup TopClaims \cup PendClaims : mem[x[1]] = x[2]
    BY TopFacts
  <1>2. PICK c : c = acts[depth]  OBVIOUS
  <1>3. c = acts[Len(acts)]  BY <1>2 DEF depth
  <1>4. /\ SP \in Int /\ SP % 4 = 0 /\ 0 <= Bottom(c) /\ Bottom(c) \in Int
        /\ Bottom(c) <= SP /\ SP <= c.sp
        /\ \A k, up : \A x \in FrameClaims(k, c, up, part, at) :
              x[1] \in Words /\ SP <= x[1] /\ x[1] < c.sp
    BY <1>1, <1>2, <1>3, TopClaimsPlaced
  <1>5. 0 <= SP  BY <1>4
  <1>6. \A x \in OuterClaims(acts) : x[1] \in Words /\ c.sp <= x[1]
    <2>1. ASSUME NEW x \in OuterClaims(acts)
          PROVE  x[1] \in Words /\ c.sp <= x[1]
      <3>1. x[1] \in Words /\ x[1] >= c.sp  BY <1>1, <1>3, OuterPlaced
      <3>2. x[1] \in Int  BY <3>1, WordAddresses
      <3>3. c.sp \in Int  BY <1>1, <1>2, TopFacts, ActivationFacts
      <3> QED  BY <3>1, <3>2, <3>3
    <2> QED  BY <2>1
  <1>7. DOMAIN mem = Words /\ regs \in [Registers -> RegisterValues]
    BY DEF Inv, MemoryInv, RegistersInv
  <1> QED  BY <1>1, <1>2, <1>4, <1>5, <1>6, <1>7 DEF TopClaims

LEMMA NoNewClaims ==
  ASSUME Inv, NEW op \in {"SUBrsi", "ADDrsi", "LDri_ab", "MOVrr", "LDri"}, Fetch(op)
  PROVE  /\ DOMAIN mem = Words
         /\ \A x \in OuterClaims(acts) : mem[x[1]] = x[2]
         /\ \A x \in FrameClaims(depth, acts[depth], CallerFP(acts, depth), part, at + 1) :
               mem[x[1]] = x[2]
  <1>1. /\ acts # <<>> /\ ins.op = op /\ at \in Nat
        /\ \/ part = "entry" /\ at \in 1 .. EntryEnd(Code[fn]) /\ ins = EntryCode[fn][at]
           \/ part = "exit" /\ at \in 1 .. ExitEnd(Code[fn])
    BY InstructionFacts
  <1>2. fn = acts[depth].fn /\ fn \in Functions  BY <1>1, TopFacts
  <1>3. /\ DOMAIN mem = Words
        /\ \A x \in FrameClaims(depth, acts[depth], CallerFP(acts, depth), part, at) :
              mem[x[1]] = x[2]
        /\ \A x \in OuterClaims(acts) : mem[x[1]] = x[2]
    BY <1>1, ClaimsBefore
  <1>4. PICK c : c = acts[depth]  OBVIOUS
  <1>5. PICK up : up = CallerFP(acts, depth)  OBVIOUS
  <1>6. PICK k : k = depth  OBVIOUS
  <1>7. PICK i : i = ins  OBVIOUS
  <1>8. PICK n : n = at  OBVIOUS
  <1>9. c.fn \in Functions  BY <1>2, <1>4
  <1>10. FrameClaims(k, c, up, part, n + 1) \subseteq FrameClaims(k, c, up, part, n)
    <2>1. CASE part = "entry"
      <3>1. n \in 1 .. EntryEnd(Code[c.fn]) /\ i = EntryCode[c.fn][n] /\ i.op = op
        BY <1>1, <1>2, <1>4, <1>7, <1>8, <2>1
      <3>2. \A x : ~Stored(k, c, up, n, i, x)  BY <3>1 DEF Stored
      <3> QED  BY <1>9, <2>1, <3>1, <3>2, EntryClaims
    <2>2. CASE part = "exit"
      BY <1>1, <1>8, <1>9, <2>2, ExitClaims
    <2> QED  BY <1>1, <2>1, <2>2
  <1> QED  BY <1>3, <1>4, <1>5, <1>6, <1>8, <1>10

LEMMA RegistersStay ==
  ASSUME Inv, NEW op, Fetch(op), op # "LDri"
  PROVE  /\ regs \in [Registers -> RegisterValues]
         /\ \A r \in Registers : regs[r] = acts[depth].keep[r]
  <1>1. /\ acts # <<>> /\ ins.op = op
        /\ \/ part = "entry" /\ at \in 1 .. EntryEnd(Code[fn])
           \/ part = "exit" /\ at \in 1 .. ExitEnd(Code[fn]) /\ ins = ExitCode[fn][at]
    BY InstructionFacts
  <1>2. /\ fn \in Functions
        /\ \A r \in Registers :
              RegisterKept(Code[fn], part, at, r) => regs[r] = acts[depth].keep[r]
    BY <1>1, TopFacts
  <1>3. \A r : RegisterKept(Code[fn], part, at, r)
    BY <1>1, <1>2, RegisterSteps
  <1> QED  BY <1>2, <1>3 DEF Inv, RegistersInv

LEMMA LinkStays ==
  ASSUME Inv, NEW op, Fetch(op), ~(op = "LDri_ab" /\ ins.reg = "BLINK")
  PROVE  LinkKept(Code[fn], part, at + 1) => BLINK = acts[depth].ret
  <1>1. /\ acts # <<>> /\ ins.op = op /\ at \in Nat
        /\ \/ part = "entry" /\ at \in 1 .. EntryEnd(Code[fn])
           \/ part = "exit" /\ at \in 1 .. ExitEnd(Code[fn]) /\ ins = ExitCode[fn][at]
    BY InstructionFacts
  <1>2. fn \in Functions /\ (LinkKept(Code[fn], part, at) => BLINK = acts[depth].ret)
    BY <1>1, TopFacts
  <1>3. LinkKept(Code[fn], part, at + 1) => LinkKept(Code[fn], part, at)
    BY <1>1, <1>2, LinkSteps
  <1> QED  BY <1>2, <1>3

\* What an instruction says about SP and FP, for the running activation.
LEMMA EntryView ==
  ASSUME Inv, NEW op, Fetch(op), part = "entry"
  PROVE  /\ op = "SUBrsi" =>
               /\ SPAt(acts[depth], part, at + 1) = SP - ins.imm
               /\ FPAt(acts[depth], CallerFP(acts, depth), part, at + 1) = FP
         /\ op = "STrri_a" =>
               /\ SPAt(acts[depth], part, at + 1) = SP - 4
               /\ SP - 4 = FPOf(acts[depth]) + IF ins.reg = "FP" THEN 0 ELSE 4
               /\ FPAt(acts[depth], CallerFP(acts, depth), part, at + 1) = FP
               /\ FP = CallerFP(acts, depth)
               /\ ins.reg \in {"FP", "BLINK"}
               /\ ins.reg # "FP" => BLINK = acts[depth].ret
         /\ op = "MOVrr" =>
               /\ SPAt(acts[depth], part, at + 1) = SP
               /\ FPAt(acts[depth], CallerFP(acts, depth), part, at + 1) = SP
               /\ ins.reg = "FP"
         /\ op \in {"STrri", "STva"} =>
               /\ SPAt(acts[depth], part, at + 1) = SP
               /\ FPAt(acts[depth], CallerFP(acts, depth), part, at + 1) = FP
               /\ FP = FPOf(acts[depth])
  <1>1. /\ acts # <<>> /\ ins.op = op
        /\ at \in 1 .. EntryEnd(Code[fn]) /\ ins = EntryCode[fn][at] /\ acts[depth].dyn = 0
    BY InstructionFacts
  <1>2. /\ ActivationSound(acts[depth]) /\ fn = acts[depth].fn /\ fn \in Functions
        /\ SP = SPAt(acts[depth], part, at)
        /\ FP = FPAt(acts[depth], CallerFP(acts, depth), part, at)
        /\ LinkKept(Code[fn], part, at) => BLINK = acts[depth].ret
    BY <1>1, TopFacts
  <1>3. PICK c : c = acts[depth]  OBVIOUS
  <1>4. PICK up : up = CallerFP(acts, depth)  OBVIOUS
  <1>5. PICK i : i = ins  OBVIOUS
  <1>6. PICK n : n = at  OBVIOUS
  <1>7. c.fn \in Functions /\ c.sp \in Int /\ c.dyn = 0 /\ c.fn = fn
    BY <1>1, <1>2, <1>3, ActivationFacts
  <1>8. n \in 1 .. EntryEnd(Code[c.fn]) /\ i = EntryCode[c.fn][n] /\ i.op = op
    BY <1>1, <1>5, <1>6, <1>7
  <1>9. /\ op = "SUBrsi" => /\ SPAt(c, "entry", n + 1) = SPAt(c, "entry", n) - i.imm
                            /\ FPAt(c, up, "entry", n + 1) = FPAt(c, up, "entry", n)
        /\ op = "STrri_a" => /\ SPAt(c, "entry", n + 1) = SPAt(c, "entry", n) - 4
                             /\ FPAt(c, up, "entry", n + 1) = up
                             /\ FPAt(c, up, "entry", n) = up
                             /\ SPAt(c, "entry", n + 1) =
                                   FPOf(c) + IF i.reg = "FP" THEN 0 ELSE 4
        /\ op = "MOVrr" => /\ SPAt(c, "entry", n + 1) = SPAt(c, "entry", n)
                           /\ FPAt(c, up, "entry", n + 1) = SPAt(c, "entry", n)
        /\ op \in {"STrri", "STva"} =>
              /\ SPAt(c, "entry", n + 1) = SPAt(c, "entry", n)
              /\ FPAt(c, up, "entry", n) = FPOf(c)
              /\ FPAt(c, up, "entry", n + 1) = FPOf(c)
    BY <1>7, <1>8, EntryPointers
  <1>10. /\ op = "STrri_a" => \/ n = LinkEnd(Code[c.fn]) /\ Code[c.fn].hasCalls /\ i.reg = "BLINK"
                              \/ i.reg = "FP"
         /\ op = "MOVrr" => i.reg = "FP"
    BY <1>7, <1>8, EntryOps
  <1>11. op = "STrri_a" /\ i.reg # "FP" => BLINK = acts[depth].ret
    <2>1. SUFFICES ASSUME op = "STrri_a", i.reg # "FP" PROVE BLINK = acts[depth].ret
      OBVIOUS
    <2>2. n = LinkEnd(Code[c.fn])  BY <1>10, <2>1
    <2>3. LinkEnd(Code[c.fn]) \in Nat  BY <1>7, PlaceNumbers DEF Ends
    <2>4. LinkKept(Code[fn], part, at)  BY <1>6, <1>7, <2>2, <2>3 DEF LinkKept
    <2> QED  BY <1>2, <2>4
  <1>12. SP = SPAt(c, "entry", n) /\ FP = FPAt(c, up, "entry", n)
    BY <1>2, <1>3, <1>4, <1>6
  <1> QED
    BY <1>3, <1>4, <1>5, <1>6, <1>9, <1>10, <1>11, <1>12

LEMMA ExitView ==
  ASSUME Inv, NEW op, Fetch(op), part = "exit"
  PROVE  /\ op = "LDri" =>
               /\ SPAt(acts[depth], part, at + 1) = SP
               /\ FPAt(acts[depth], CallerFP(acts, depth), part, at + 1) = FP
               /\ FP = FPOf(acts[depth])
         /\ op = "ADDrsi" =>
               /\ SPAt(acts[depth], part, at + 1) = SP + ins.imm
               /\ FPAt(acts[depth], CallerFP(acts, depth), part, at + 1) = FP
         /\ op = "MOVrr" =>
               /\ SPAt(acts[depth], part, at + 1) = FP
               /\ FPAt(acts[depth], CallerFP(acts, depth), part, at + 1) = FP
               /\ ins.reg = "SP"
         /\ op = "LDri_ab" =>
               /\ SPAt(acts[depth], part, at + 1) = SP + 4
               /\ SP = FPOf(acts[depth]) + IF ins.reg = "FP" THEN 0 ELSE 4
               /\ FPAt(acts[depth], CallerFP(acts, depth), part, at + 1) = CallerFP(acts, depth)
               /\ ins.reg # "FP" => FP = CallerFP(acts, depth) /\ ins.reg = "BLINK"
               /\ IF ins.reg = "FP"
                  THEN mem[FPOf(acts[depth])] = Addr(CallerFP(acts, depth))
                  ELSE mem[FPOf(acts[depth]) + 4] = acts[depth].ret
         /\ op = "LDri" =>
               \E j \in 1 .. SpillCount(Code[fn]) :
                  /\ at = SpillCount(Code[fn]) + 1 - j
                  /\ ins.reg = Code[fn].csi[j].reg /\ ins.imm = Code[fn].csi[j].fi
                  /\ mem[SlotAddress(acts[depth], j)] = acts[depth].keep[ins.reg]
  <1>1. /\ acts # <<>> /\ ins.op = op
        /\ at \in 1 .. ExitEnd(Code[fn]) /\ ins = ExitCode[fn][at]
    BY InstructionFacts
  <1>2. /\ ActivationSound(acts[depth]) /\ fn = acts[depth].fn /\ fn \in Functions
        /\ SP = SPAt(acts[depth], part, at)
        /\ FP = FPAt(acts[depth], CallerFP(acts, depth), part, at)
    BY <1>1, TopFacts
  <1>3. PICK c : c = acts[depth]  OBVIOUS
  <1>4. PICK up : up = CallerFP(acts, depth)  OBVIOUS
  <1>5. PICK i : i = ins  OBVIOUS
  <1>6. PICK n : n = at  OBVIOUS
  <1>7. PICK k : k = depth  OBVIOUS
  <1>8. /\ c.fn \in Functions /\ c.sp \in Int /\ c.dyn \in Nat /\ c.fn = fn
        /\ c.dyn > 0 => Code[c.fn].hasVarSized
    BY <1>1, <1>2, <1>3, ActivationFacts
  <1>9. n \in 1 .. ExitEnd(Code[c.fn]) /\ i = ExitCode[c.fn][n] /\ i.op = op
    BY <1>1, <1>5, <1>6, <1>8
  <1>10. \A x \in FrameClaims(k, c, up, "exit", n) : mem[x[1]] = x[2]
    BY <1>1, <1>3, <1>4, <1>6, <1>7, ClaimsBefore
  <1>11. /\ op = "LDri" => /\ SPAt(c, "exit", n + 1) = SPAt(c, "exit", n)
                           /\ FPAt(c, up, "exit", n) = FPOf(c)
                           /\ FPAt(c, up, "exit", n + 1) = FPOf(c)
         /\ op = "ADDrsi" => /\ SPAt(c, "exit", n + 1) = SPAt(c, "exit", n) + i.imm
                             /\ FPAt(c, up, "exit", n + 1) = FPAt(c, up, "exit", n)
         /\ op = "MOVrr" => /\ SPAt(c, "exit", n + 1) = FPAt(c, up, "exit", n)
                            /\ FPAt(c, up, "exit", n + 1) = FPAt(c, up, "exit", n)
         /\ op = "LDri_ab" =>
               /\ SPAt(c, "exit", n + 1) = SPAt(c, "exit", n) + 4
               /\ SPAt(c, "exit", n) = FPOf(c) + IF i.reg = "FP" THEN 0 ELSE 4
               /\ FPAt(c, up, "exit", n + 1) = up
               /\ i.reg # "FP" => FPAt(c, up, "exit", n) = up
    BY <1>8, <1>9, ExitPointers
  <1>12. /\ op = "MOVrr" => i.reg = "SP"
         /\ op = "LDri_ab" => i.reg = "FP" \/ i.reg = "BLINK"
    BY <1>8, <1>9, ExitOps
  <1>13. op = "LDri_ab" =>
            IF i.reg = "FP" THEN mem[FPOf(c)] = Addr(up) ELSE mem[FPOf(c) + 4] = c.ret
    <2>1. SUFFICES ASSUME op = "LDri_ab"
                   PROVE  IF i.reg = "FP" THEN mem[FPOf(c)] = Addr(up)
                                          ELSE mem[FPOf(c) + 4] = c.ret
      OBVIOUS
    <2>2. IF i.reg = "FP" THEN <<FPOf(c), Addr(up)>> \in FrameClaims(k, c, up, "exit", n)
          ELSE <<FPOf(c) + 4, c.ret>> \in FrameClaims(k, c, up, "exit", n)
      BY <1>8, <1>9, <2>1, LoadedClaims DEF UNITS_PER_WORD
    <2> QED  BY <1>10, <2>2
  <1>14. op = "LDri" =>
            \E j \in 1 .. SpillCount(Code[c.fn]) :
               /\ n = SpillCount(Code[c.fn]) + 1 - j
               /\ i.reg = Code[c.fn].csi[j].reg /\ i.imm = Code[c.fn].csi[j].fi
               /\ mem[SlotAddress(c, j)] = c.keep[i.reg]
    <2>1. SUFFICES ASSUME op = "LDri"
                   PROVE  \E j \in 1 .. SpillCount(Code[c.fn]) :
                             /\ n = SpillCount(Code[c.fn]) + 1 - j
                             /\ i.reg = Code[c.fn].csi[j].reg /\ i.imm = Code[c.fn].csi[j].fi
                             /\ mem[SlotAddress(c, j)] = c.keep[i.reg]
      OBVIOUS
    <2>2. PICK j \in 1 .. SpillCount(Code[c.fn]) :
             /\ n = SpillCount(Code[c.fn]) + 1 - j
             /\ i.reg = Code[c.fn].csi[j].reg /\ i.imm = Code[c.fn].csi[j].fi
             /\ <<SlotAddress(c, j), c.keep[i.reg]>> \in FrameClaims(k, c, up, "exit", n)
      BY <1>8, <1>9, <2>1, LoadedClaims
    <2>3. mem[SlotAddress(c, j)] = c.keep[i.reg]  BY <1>10, <2>2
    <2> QED  BY <2>2, <2>3
  <1>15. SP = SPAt(c, "exit", n) /\ FP = FPAt(c, up, "exit", n)
    BY <1>2, <1>3, <1>4, <1>6
  <1>16. Code[fn] = Code[c.fn]  BY <1>8
  <1> QED
    BY <1>3, <1>4, <1>5, <1>6, <1>11, <1>12, <1>13, <1>14, <1>15, <1>16

LEMMA SUBrsiStep ==
  ASSUME Inv, SUBrsi
  PROVE  Inv'
  <1>1. /\ Fetch("SUBrsi") /\ SP' = SP - ins.imm
        /\ mem' = mem /\ FP' = FP /\ BLINK' = BLINK /\ regs' = regs
    BY DEF SUBrsi
  <1>2. part = "entry"  BY <1>1, InstructionFacts
  <1> QED  BY <1>1, <1>2, EntryView, NoNewClaims, RegistersStay, LinkStays, AfterInstruction

LEMMA ADDrsiStep ==
  ASSUME Inv, ADDrsi
  PROVE  Inv'
  <1>1. /\ Fetch("ADDrsi") /\ SP' = SP + ins.imm
        /\ mem' = mem /\ FP' = FP /\ BLINK' = BLINK /\ regs' = regs
    BY DEF ADDrsi
  <1>2. part = "exit"  BY <1>1, InstructionFacts
  <1> QED  BY <1>1, <1>2, ExitView, NoNewClaims, RegistersStay, LinkStays, AfterInstruction

LEMMA MOVrrStep ==
  ASSUME Inv, MOVrr
  PROVE  Inv'
  <1>1. /\ Fetch("MOVrr")
        /\ ins.reg = "FP" => FP' = SP /\ SP' = SP
        /\ ins.reg # "FP" => SP' = FP /\ FP' = FP
        /\ mem' = mem /\ BLINK' = BLINK /\ regs' = regs
    BY DEF MOVrr
  <1>2. part = "entry" \/ part = "exit"  BY <1>1, InstructionFacts
  <1>3. /\ SP' = SPAt(acts[depth], part, at + 1)
        /\ FP' = FPAt(acts[depth], CallerFP(acts, depth), part, at + 1)
    BY <1>1, <1>2, EntryView, ExitView
  <1> QED  BY <1>1, <1>3, NoNewClaims, RegistersStay, LinkStays, AfterInstruction

LEMMA LDri_abStep ==
  ASSUME Inv, LDri_ab
  PROVE  Inv'
  <1>1. /\ Fetch("LDri_ab") /\ SP' = SP + 4
        /\ ins.reg = "FP" => FP' = mem[SP][2] /\ BLINK' = BLINK
        /\ ins.reg # "FP" => BLINK' = mem[SP] /\ FP' = FP
        /\ mem' = mem /\ regs' = regs
    BY DEF LDri_ab, UNITS_PER_WORD
  <1>2. part = "exit"  BY <1>1, InstructionFacts
  <1>3. /\ SPAt(acts[depth], part, at + 1) = SP + 4
        /\ SP = FPOf(acts[depth]) + IF ins.reg = "FP" THEN 0 ELSE 4
        /\ FPAt(acts[depth], CallerFP(acts, depth), part, at + 1) = CallerFP(acts, depth)
        /\ ins.reg # "FP" => FP = CallerFP(acts, depth) /\ ins.reg = "BLINK"
        /\ IF ins.reg = "FP" THEN mem[FPOf(acts[depth])] = Addr(CallerFP(acts, depth))
                             ELSE mem[FPOf(acts[depth]) + 4] = acts[depth].ret
    BY <1>1, <1>2, ExitView
  <1>4. FPOf(acts[depth]) \in Int
    BY <1>1, InstructionFacts, TopFacts, ActivationFacts, BottomOfFrame
  <1>5. CASE ins.reg = "FP"
    <2>1. SP = FPOf(acts[depth])  BY <1>3, <1>4, <1>5
    <2>2. FP' = CallerFP(acts, depth)  BY <1>1, <1>3, <1>5, <2>1 DEF Addr
    <2>3. LinkKept(Code[fn], part, at + 1) => BLINK' = acts[depth].ret
      BY <1>1, <1>5, LinkStays
    <2> QED  BY <1>1, <1>3, <2>2, <2>3, NoNewClaims, RegistersStay, AfterInstruction
  <1>6. CASE ins.reg # "FP"
    <2>1. SP = FPOf(acts[depth]) + 4  BY <1>3, <1>6
    <2>2. BLINK' = acts[depth].ret  BY <1>1, <1>3, <1>6, <2>1
    <2>3. FP' = CallerFP(acts, depth)  BY <1>1, <1>3, <1>6
    <2> QED  BY <1>1, <1>3, <2>2, <2>3, NoNewClaims, RegistersStay, AfterInstruction
  <1> QED  BY <1>5, <1>6

\* A callee-saved register's slot is reached by its frame index.
LEMMA SlotIndexAddress ==
  ASSUME NEW c, c.fn \in Functions, NEW y \in Int, y = FPOf(c), NEW st \in BOOLEAN,
         NEW j \in 1 .. SpillCount(Code[c.fn])
  PROVE  Address(y, Code[c.fn], Code[c.fn].csi[j].fi, 0, st) = SlotAddress(c, j)
  <1>1. PICK f : f = Code[c.fn]  OBVIOUS
  <1>2. f.csi[j].fi \in Nat /\ f.csi[j].fi + 1 \in 1 .. Len(f.objs)  BY <1>1, SlotFacts
  <1>3. PICK fi \in Nat : fi = f.csi[j].fi  BY <1>2
  <1>4. PICK o \in Int : o = f.objs[fi + 1].offset  BY <1>1, <1>2, <1>3, ObjectFacts
  <1>5. Address(y, f, fi, 0, st) = y + o + 0
    <2>1. PICK g \in Functions : g = c.fn  OBVIOUS
    <2>2. PICK imm \in Nat : imm = 0  OBVIOUS
    <2>3. f = Code[g] /\ fi + 1 \in 1 .. Len(f.objs)  BY <1>1, <1>2, <1>3, <2>1
    <2>4. Address(y, f, fi, imm, st) = y + f.objs[fi + 1].offset + imm
      BY <2>3, ObjectIndexAddress
    <2> QED  BY <1>4, <2>2, <2>4
  <1>6. SlotAddress(c, j) = y + o  BY <1>1, <1>3, <1>4 DEF SlotAddress
  <1>7. y + o + 0 = y + o  OBVIOUS
  <1> QED  BY <1>1, <1>3, <1>5, <1>6, <1>7

LEMMA LDriStep ==
  ASSUME Inv, LDri
  PROVE  Inv'
  <1>1. /\ Fetch("LDri")
        /\ regs' = [regs EXCEPT ![ins.reg] = mem[Address(FP, Code[fn], ins.imm, 0, FALSE)]]
        /\ mem' = mem /\ SP' = SP /\ FP' = FP /\ BLINK' = BLINK
    BY DEF LDri
  <1>2. /\ part = "exit" /\ at \in 1 .. ExitEnd(Code[fn]) /\ acts # <<>>
    BY <1>1, InstructionFacts
  <1>3. /\ SPAt(acts[depth], part, at + 1) = SP
        /\ FPAt(acts[depth], CallerFP(acts, depth), part, at + 1) = FP
        /\ FP = FPOf(acts[depth])
        /\ \E j \in 1 .. SpillCount(Code[fn]) :
              /\ at = SpillCount(Code[fn]) + 1 - j
              /\ ins.reg = Code[fn].csi[j].reg /\ ins.imm = Code[fn].csi[j].fi
              /\ mem[SlotAddress(acts[depth], j)] = acts[depth].keep[ins.reg]
    BY <1>1, <1>2, ExitView
  <1>4. PICK j \in 1 .. SpillCount(Code[fn]) :
              /\ at = SpillCount(Code[fn]) + 1 - j
              /\ ins.reg = Code[fn].csi[j].reg /\ ins.imm = Code[fn].csi[j].fi
              /\ mem[SlotAddress(acts[depth], j)] = acts[depth].keep[ins.reg]
    BY <1>3
  <1>5. /\ ActivationSound(acts[depth]) /\ fn = acts[depth].fn /\ fn \in Functions
        /\ \A r \in Registers :
              RegisterKept(Code[fn], part, at, r) => regs[r] = acts[depth].keep[r]
    BY <1>2, TopFacts
  <1>6. FP \in Int  BY <1>3, <1>5, ActivationFacts, BottomOfFrame
  <1>7. mem[Address(FP, Code[fn], ins.imm, 0, FALSE)] = acts[depth].keep[ins.reg]
    <2>1. PICK y \in Int : y = FP  BY <1>6
    <2>2. PICK c : c = acts[depth]  OBVIOUS
    <2>3. Address(y, Code[c.fn], Code[c.fn].csi[j].fi, 0, FALSE) = SlotAddress(c, j)
      BY <1>3, <1>5, <2>1, <2>2, SlotIndexAddress
    <2> QED  BY <1>4, <1>5, <2>1, <2>2, <2>3
  <1>8. ins.reg \in Registers  BY <1>4, <1>5, SlotFacts
  <1>9. regs \in [Registers -> RegisterValues] /\ acts[depth].keep \in [Registers -> RegisterValues]
    BY <1>2, <1>5, ClaimsBefore, ActivationFacts
  <1>10. regs' \in [Registers -> RegisterValues]
    BY <1>1, <1>7, <1>8, <1>9
  <1>11. ASSUME NEW r \in Registers, RegisterKept(Code[fn], part, at + 1, r)
         PROVE  regs'[r] = acts[depth].keep[r]
    <2>1. CASE r = ins.reg  BY <1>1, <1>7, <1>9, <2>1
    <2>2. CASE r # ins.reg
      <3>1. RegisterKept(Code[fn], part, at, r)
        BY <1>2, <1>4, <1>5, <1>11, <2>2, RegisterSteps
      <3> QED  BY <1>1, <1>5, <1>9, <2>2, <3>1
    <2> QED  BY <2>1, <2>2
  <1>12. LinkKept(Code[fn], part, at + 1) => BLINK' = acts[depth].ret
    BY <1>1, LinkStays
  <1> QED  BY <1>1, <1>3, <1>10, <1>11, <1>12, NoNewClaims, AfterInstruction

\* A store of an entry goes to a word nobody claims yet, and makes it a claim.
LEMMA EntryStore ==
  ASSUME Inv, NEW op, Fetch(op), part = "entry",
         NEW w \in Words, w < acts[depth].sp, NEW v, mem' = [mem EXCEPT ![w] = v],
         \A x \in FrameClaims(depth, acts[depth], CallerFP(acts, depth), part, at) : x[1] # w,
         \A x : Stored(depth, acts[depth], CallerFP(acts, depth), at, ins, x) => x = <<w, v>>
  PROVE  /\ DOMAIN mem' = Words
         /\ \A x \in OuterClaims(acts) : mem'[x[1]] = x[2]
         /\ \A x \in FrameClaims(depth, acts[depth], CallerFP(acts, depth), part, at + 1) :
               mem'[x[1]] = x[2]
  <1>1. /\ acts # <<>>
        /\ at \in 1 .. EntryEnd(Code[fn]) /\ ins = EntryCode[fn][at]
    BY InstructionFacts
  <1>2. fn = acts[depth].fn /\ fn \in Functions /\ ActivationSound(acts[depth])  BY <1>1, TopFacts
  <1>3. PICK c : c = acts[depth]  OBVIOUS
  <1>4. PICK up : up = CallerFP(acts, depth)  OBVIOUS
  <1>5. PICK k : k = depth  OBVIOUS
  <1>6. PICK i : i = ins  OBVIOUS
  <1>7. PICK n : n = at  OBVIOUS
  <1>8. PICK m : m = mem  OBVIOUS
  <1>9. /\ DOMAIN m = Words
        /\ \A x \in FrameClaims(k, c, up, "entry", n) : m[x[1]] = x[2] /\ x[1] \in Words
        /\ \A x \in OuterClaims(acts) : m[x[1]] = x[2] /\ x[1] \in Words /\ c.sp <= x[1]
    BY <1>1, <1>3, <1>4, <1>5, <1>7, <1>8, ClaimsBefore
  <1>10. \A x \in OuterClaims(acts) : x[1] # w
    <2>1. SUFFICES ASSUME NEW x \in OuterClaims(acts), x[1] = w PROVE FALSE  OBVIOUS
    <2>2. c.sp <= w  BY <1>9, <2>1
    <2>3. w \in Int /\ c.sp \in Int /\ w < c.sp  BY <1>2, <1>3, WordAddresses, ActivationFacts
    <2> QED  BY <2>2, <2>3
  <1>11. \A x \in FrameClaims(k, c, up, "entry", n + 1) :
            x \in FrameClaims(k, c, up, "entry", n) \/ x = <<w, v>>
    <2>1. c.fn \in Functions /\ n \in 1 .. EntryEnd(Code[c.fn]) /\ i = EntryCode[c.fn][n]
      BY <1>1, <1>2, <1>3, <1>6, <1>7
    <2>2. \A x \in FrameClaims(k, c, up, "entry", n + 1) :
             x \in FrameClaims(k, c, up, "entry", n) \/ Stored(k, c, up, n, i, x)
      BY <2>1, EntryClaims
    <2> QED  BY <2>2, <1>3, <1>4, <1>5, <1>6, <1>7
  <1>12. \A x \in FrameClaims(k, c, up, "entry", n) : x[1] # w
    BY <1>3, <1>4, <1>5, <1>7
  <1>13. mem' = [m EXCEPT ![w] = v]  BY <1>8
  <1>14. DOMAIN mem' = Words /\ \A x \in OuterClaims(acts) : mem'[x[1]] = x[2]
    BY <1>9, <1>10, <1>13, StoreKeeps
  <1>15. \A x \in FrameClaims(k, c, up, "entry", n + 1) : mem'[x[1]] = x[2]
    BY <1>9, <1>11, <1>12, <1>13, StoreKeeps
  <1> QED  BY <1>3, <1>4, <1>5, <1>7, <1>14, <1>15

LEMMA STrri_aStep ==
  ASSUME Inv, STrri_a
  PROVE  Inv'
  <1>1. /\ Fetch("STrri_a") /\ SP' = SP - 4
        /\ mem' = [mem EXCEPT ![SP'] = IF ins.reg = "FP" THEN Addr(FP) ELSE BLINK]
        /\ FP' = FP /\ BLINK' = BLINK /\ regs' = regs
    BY DEF STrri_a, UNITS_PER_WORD
  <1>2. /\ part = "entry" /\ acts # <<>> /\ ins.op = "STrri_a"
        /\ PlaceSound(acts[depth], part, at + 1)
    BY <1>1, InstructionFacts
  <1>3. /\ SPAt(acts[depth], part, at + 1) = SP - 4
        /\ SP - 4 = FPOf(acts[depth]) + IF ins.reg = "FP" THEN 0 ELSE 4
        /\ FPAt(acts[depth], CallerFP(acts, depth), part, at + 1) = FP
        /\ FP = CallerFP(acts, depth)
        /\ ins.reg \in {"FP", "BLINK"}
        /\ ins.reg # "FP" => BLINK = acts[depth].ret
    BY <1>1, <1>2, EntryView
  <1>4. /\ SP \in Int /\ SP % 4 = 0 /\ SP <= acts[depth].sp
        /\ \A x \in FrameClaims(depth, acts[depth], CallerFP(acts, depth), part, at) :
              x[1] \in Words /\ SP <= x[1]
    BY <1>2, ClaimsBefore
  <1>5. /\ Stacked(acts) /\ ActivationSound(acts[depth])
    BY <1>2, TopFacts
  <1>6. 0 <= SP - 4
    <2>1. PICK c : c = acts[depth]  OBVIOUS
    <2>2. c = acts[Len(acts)] /\ PlaceSound(c, part, at + 1)  BY <1>2, <2>1 DEF depth
    <2>3. /\ SPAt(c, part, at + 1) \in Int /\ 0 <= Bottom(c) /\ Bottom(c) \in Int
          /\ Bottom(c) <= SPAt(c, part, at + 1)
      BY <1>2, <1>5, <2>2, TopClaimsPlaced
    <2>4. SPAt(c, part, at + 1) = SP - 4  BY <1>3, <2>1
    <2> QED  BY <1>4, <2>3, <2>4
  <1>7. acts[depth].sp \in Int /\ acts[depth].sp <= StackTop /\ StackTop \in Nat
    BY <1>5, ActivationFacts, StackAssumption
  <1>8. PICK w \in Int : w = SP - 4  BY <1>4
  <1>9. w % 4 = 0 /\ 0 <= w /\ w < StackTop /\ w < acts[depth].sp
    <2>1. PICK s \in Int : s = acts[depth].sp  BY <1>7
    <2>2. s <= StackTop /\ SP <= s  BY <1>4, <1>7, <2>1
    <2>3. w % 4 = 0 /\ 0 <= w /\ w < s  BY <1>4, <1>6, <1>8, <2>2
    <2> QED  BY <1>7, <2>1, <2>2, <2>3
  <1>10. w \in Words  BY <1>9, WordAddresses
  <1>11. PICK v : v = IF ins.reg = "FP" THEN Addr(FP) ELSE BLINK  OBVIOUS
  <1>12. mem' = [mem EXCEPT ![w] = v]  BY <1>1, <1>8, <1>11
  <1>13. \A x \in FrameClaims(depth, acts[depth], CallerFP(acts, depth), part, at) : x[1] # w
    BY <1>4, <1>8, WordAddresses
  <1>14. ASSUME NEW x, Stored(depth, acts[depth], CallerFP(acts, depth), at, ins, x)
         PROVE  x = <<w, v>>
    <2>1. \/ ins.reg = "FP" /\ x = <<FPOf(acts[depth]), Addr(CallerFP(acts, depth))>>
          \/ ins.reg = "BLINK" /\ x = <<FPOf(acts[depth]) + 4, acts[depth].ret>>
      BY <1>2, <1>14 DEF Stored, UNITS_PER_WORD
    <2>2. FPOf(acts[depth]) \in Int  BY <1>5, ActivationFacts, BottomOfFrame
    <2>3. CASE ins.reg = "FP"
      <3>1. w = FPOf(acts[depth])  BY <1>3, <1>8, <2>2, <2>3
      <3> QED  BY <1>3, <1>11, <2>1, <2>3, <3>1
    <2>4. CASE ins.reg # "FP"
      <3>1. w = FPOf(acts[depth]) + 4  BY <1>3, <1>8, <2>4
      <3> QED  BY <1>3, <1>11, <2>1, <2>4, <3>1
    <2> QED  BY <2>3, <2>4
  <1>15. /\ DOMAIN mem' = Words
         /\ \A x \in OuterClaims(acts) : mem'[x[1]] = x[2]
         /\ \A x \in FrameClaims(depth, acts[depth], CallerFP(acts, depth), part, at + 1) :
               mem'[x[1]] = x[2]
    BY <1>1, <1>2, <1>9, <1>10, <1>12, <1>13, <1>14, EntryStore
  <1>16. LinkKept(Code[fn], part, at + 1) => BLINK' = acts[depth].ret
    BY <1>1, LinkStays
  <1> QED  BY <1>1, <1>3, <1>15, <1>16, RegistersStay, AfterInstruction

LEMMA STrriStep ==
  ASSUME Inv, STrri
  PROVE  Inv'
  <1>1. /\ Fetch("STrri")
        /\ mem' = [mem EXCEPT ![Address(FP, Code[fn], ins.imm, 0, TRUE)] = regs[ins.reg]]
        /\ SP' = SP /\ FP' = FP /\ BLINK' = BLINK /\ regs' = regs
    BY DEF STrri, regVars
  <1>2. /\ part = "entry" /\ acts # <<>> /\ ins.op = "STrri"
        /\ at \in 1 .. EntryEnd(Code[fn]) /\ ins = EntryCode[fn][at]
        /\ acts[depth].written = {}
    BY <1>1, InstructionFacts
  <1>3. /\ SPAt(acts[depth], part, at + 1) = SP
        /\ FPAt(acts[depth], CallerFP(acts, depth), part, at + 1) = FP
        /\ FP = FPOf(acts[depth])
    BY <1>1, <1>2, EntryView
  <1>4. /\ fn = acts[depth].fn /\ fn \in Functions /\ ActivationSound(acts[depth])
        /\ Stacked(acts)
    BY <1>2, TopFacts
  <1>5. PICK c : c = acts[depth]  OBVIOUS
  <1>6. PICK i : i = ins  OBVIOUS
  <1>7. PICK n : n = at  OBVIOUS
  <1>8. /\ c.fn = fn /\ c.fn \in Functions /\ c.sp \in Int /\ c.sp % 4 = 0 /\ c.sp <= StackTop
        /\ c.dyn \in Nat /\ c.dyn % 4 = 0 /\ c.written = {}
    BY <1>2, <1>4, <1>5, ActivationFacts
  <1>9. PICK j \in 1 .. SpillCount(Code[c.fn]) :
           /\ n = PrologueEnd(Code[c.fn]) + j
           /\ i.reg = Code[c.fn].csi[j].reg /\ i.imm = Code[c.fn].csi[j].fi
    BY <1>2, <1>6, <1>7, <1>8, EntryOps
  <1>10. PICK w \in Int : w = SlotAddress(c, j)  BY <1>8, SlotInside
  <1>11. w \in Words /\ w < c.sp
    <2>1. w % 4 = 0 /\ Bottom(c) <= w /\ w + 4 <= FPOf(c)  BY <1>8, <1>10, SlotInside
    <2>2. FPOf(c) \in Int /\ FPOf(c) + 4 <= c.sp  BY <1>8, BottomOfFrame
    <2>3. 0 <= Bottom(c) /\ Bottom(c) \in Int  BY <1>2, <1>5, ClaimsBefore
    <2>4. StackTop \in Nat  BY StackAssumption
    <2>5. 0 <= w /\ w < c.sp /\ w < StackTop  BY <2>1, <2>2, <2>3, <2>4, <1>8
    <2> QED  BY <2>1, <2>5, WordAddresses
  <1>12. PICK v : v = regs[ins.reg]  OBVIOUS
  <1>13. v = c.keep[i.reg]
    <2>1. i.reg \in Registers  BY <1>8, <1>9, SlotFacts
    <2> QED  BY <1>1, <1>5, <1>6, <1>12, <2>1, RegistersStay
  <1>14. mem' = [mem EXCEPT ![w] = v]
    <2>1. PICK y \in Int : y = FPOf(c)  BY <1>8, BottomOfFrame
    <2>2. Address(y, Code[c.fn], Code[c.fn].csi[j].fi, 0, TRUE) = SlotAddress(c, j)
      BY <1>8, <2>1, SlotIndexAddress
    <2>3. Address(FP, Code[fn], ins.imm, 0, TRUE) = w
      BY <1>3, <1>5, <1>6, <1>8, <1>9, <1>10, <2>1, <2>2
    <2> QED  BY <1>1, <1>12, <2>3
  <1>15. \A x \in FrameClaims(depth, acts[depth], CallerFP(acts, depth), part, at) : x[1] # w
    <2>1. \A k, up : \A x \in FrameClaims(k, c, up, "entry", n) : x[1] # SlotAddress(c, j)
      BY <1>8, <1>9, SlotFresh
    <2> QED  BY <1>2, <1>5, <1>7, <1>10, <2>1
  <1>16. ASSUME NEW x, Stored(depth, acts[depth], CallerFP(acts, depth), at, ins, x)
         PROVE  x = <<w, v>>
    <2>1. PICK l \in 1 .. SpillCount(Code[c.fn]) :
             /\ n = PrologueEnd(Code[c.fn]) + l /\ i.reg = Code[c.fn].csi[l].reg
             /\ x = <<SlotAddress(c, l), c.keep[Code[c.fn].csi[l].reg]>>
      BY <1>2, <1>5, <1>6, <1>7, <1>16 DEF Stored
    <2>2. l = j
      <3>1. PrologueEnd(Code[c.fn]) \in Nat /\ SpillCount(Code[c.fn]) \in Nat
        BY <1>8, PlaceNumbers DEF Ends, Counts
      <3> QED  BY <1>9, <2>1, <3>1
    <2> QED  BY <1>10, <1>13, <2>1, <2>2
  <1>17. /\ DOMAIN mem' = Words
         /\ \A x \in OuterClaims(acts) : mem'[x[1]] = x[2]
         /\ \A x \in FrameClaims(depth, acts[depth], CallerFP(acts, depth), part, at + 1) :
               mem'[x[1]] = x[2]
    BY <1>1, <1>2, <1>5, <1>11, <1>14, <1>15, <1>16, EntryStore
  <1>18. LinkKept(Code[fn], part, at + 1) => BLINK' = acts[depth].ret
    BY <1>1, LinkStays
  <1> QED  BY <1>1, <1>3, <1>17, <1>18, RegistersStay, AfterInstruction

LEMMA STvaStep ==
  ASSUME Inv, STva
  PROVE  Inv'
  <1>1. /\ Fetch("STva")
        /\ mem' = [mem EXCEPT ![Address(FP, Code[fn], Code[fn].vaFI, 4 * ins.imm, TRUE)]
                                 = Arg(depth, ins.reg)]
        /\ SP' = SP /\ FP' = FP /\ BLINK' = BLINK /\ regs' = regs
    BY DEF STva, regVars, UNITS_PER_WORD
  <1>2. /\ part = "entry" /\ acts # <<>> /\ ins.op = "STva"
        /\ at \in 1 .. EntryEnd(Code[fn]) /\ ins = EntryCode[fn][at]
        /\ acts[depth].written = {}
    BY <1>1, InstructionFacts
  <1>3. /\ SPAt(acts[depth], part, at + 1) = SP
        /\ FPAt(acts[depth], CallerFP(acts, depth), part, at + 1) = FP
        /\ FP = FPOf(acts[depth])
    BY <1>1, <1>2, EntryView
  <1>4. /\ fn = acts[depth].fn /\ fn \in Functions /\ ActivationSound(acts[depth])
        /\ Stacked(acts)
    BY <1>2, TopFacts
  <1>5. PICK c : c = acts[depth]  OBVIOUS
  <1>6. PICK i : i = ins  OBVIOUS
  <1>7. PICK n : n = at  OBVIOUS
  <1>8. /\ c.fn = fn /\ c.fn \in Functions /\ c.sp \in Int /\ c.sp % 4 = 0 /\ c.sp <= StackTop
        /\ c.dyn \in Nat /\ c.dyn % 4 = 0 /\ c.written = {}
    BY <1>2, <1>4, <1>5, ActivationFacts
  <1>9. PICK j \in 1 .. StoreCount(Code[c.fn]) :
           /\ n = SpillsEnd(Code[c.fn]) + j
           /\ i.reg = Code[c.fn].named + j /\ i.imm = j - 1
    BY <1>2, <1>6, <1>7, <1>8, EntryOps
  <1>10. PICK w \in Int : w = AreaAddress(c, j)  BY <1>8, AreaInside
  <1>11. w \in Words /\ w < c.sp
    <2>1. w % 4 = 0 /\ FPOf(c) + 8 <= w /\ w < c.sp  BY <1>8, <1>10, AreaInside
    <2>2. FPOf(c) \in Int /\ Bottom(c) <= FPOf(c)  BY <1>8, BottomOfFrame
    <2>3. 0 <= Bottom(c) /\ Bottom(c) \in Int  BY <1>2, <1>5, ClaimsBefore
    <2>4. StackTop \in Nat  BY StackAssumption
    <2>5. 0 <= w /\ w < StackTop  BY <2>1, <2>2, <2>3, <2>4, <1>8
    <2> QED  BY <2>1, <2>5, WordAddresses
  <1>12. PICK v : v = Arg(depth, ins.reg)  OBVIOUS
  <1>13. mem' = [mem EXCEPT ![w] = v]
    <2>1. PICK y \in Int : y = FPOf(c)  BY <1>8, BottomOfFrame
    <2>2. PICK g \in Functions : g = c.fn  BY <1>8
    <2>3. PICK f : f = Code[g]  OBVIOUS
    <2>4. j \in Int /\ j >= 1
      <3>1. StoreCount(Code[c.fn]) \in Nat  BY <1>8, PlaceNumbers DEF Counts
      <3> QED  BY <3>1
    <2>5. PICK imm \in Nat : imm = 4 * (j - 1)  BY <2>4
    <2>6. f.vaSize # 0  BY <1>8, <2>2, <2>3, AreaInside
    <2>7. Address(y, f, f.vaFI, imm, TRUE) = y + 8 + imm  BY <2>3, <2>6, AreaIndexAddress
    <2>8. w = y + 8 + imm  BY <1>8, <1>10, <2>1, <2>5, AreaInside
    <2>9. Address(FP, Code[fn], Code[fn].vaFI, 4 * ins.imm, TRUE) = w
      BY <1>3, <1>5, <1>6, <1>8, <1>9, <2>1, <2>2, <2>3, <2>5, <2>7, <2>8
    <2> QED  BY <1>1, <1>12, <2>9
  <1>14. \A x \in FrameClaims(depth, acts[depth], CallerFP(acts, depth), part, at) : x[1] # w
    <2>1. \A k, up : \A x \in FrameClaims(k, c, up, "entry", n) : x[1] # AreaAddress(c, j)
      BY <1>8, <1>9, AreaFresh
    <2> QED  BY <1>2, <1>5, <1>7, <1>10, <2>1
  <1>15. ASSUME NEW x, Stored(depth, acts[depth], CallerFP(acts, depth), at, ins, x)
         PROVE  x = <<w, v>>
    <2>1. PICK l \in 1 .. StoreCount(Code[c.fn]) :
             /\ n = SpillsEnd(Code[c.fn]) + l /\ i.reg = Code[c.fn].named + l
             /\ x = <<AreaAddress(c, l), Arg(depth, Code[c.fn].named + l)>>
      BY <1>2, <1>5, <1>6, <1>7, <1>15 DEF Stored
    <2>2. l = j
      <3>1. SpillsEnd(Code[c.fn]) \in Nat /\ StoreCount(Code[c.fn]) \in Nat
        BY <1>8, PlaceNumbers DEF Ends, Counts
      <3> QED  BY <1>9, <2>1, <3>1
    <2> QED  BY <1>6, <1>9, <1>10, <1>12, <2>1, <2>2
  <1>16. /\ DOMAIN mem' = Words
         /\ \A x \in OuterClaims(acts) : mem'[x[1]] = x[2]
         /\ \A x \in FrameClaims(depth, acts[depth], CallerFP(acts, depth), part, at + 1) :
               mem'[x[1]] = x[2]
    BY <1>1, <1>2, <1>5, <1>11, <1>13, <1>14, <1>15, EntryStore
  <1>17. LinkKept(Code[fn], part, at + 1) => BLINK' = acts[depth].ret
    BY <1>1, LinkStays
  <1> QED  BY <1>1, <1>3, <1>16, <1>17, RegistersStay, AfterInstruction

(***************************************************************************)
(* The stack of activations as it changes.                                 *)
(***************************************************************************)

\* What the callers rely on depends on their activations and on the place and
\* the number of the running one's arguments.
LEMMA SameOuter ==
  ASSUME NEW as, NEW bs, Len(as) \in Nat, Len(bs) = Len(as),
         \A k \in 1 .. Len(as) - 1 : bs[k] = as[k],
         Len(as) # 0,
         bs[Len(as)].sp = as[Len(as)].sp, bs[Len(as)].nargs = as[Len(as)].nargs
  PROVE  /\ OuterClaims(bs) = OuterClaims(as)
         /\ \A k \in 1 .. Len(as) : CallerFP(bs, k) = CallerFP(as, k)
  <1>1. ASSUME NEW k \in 1 .. Len(as)
        PROVE  CallerFP(bs, k) = CallerFP(as, k)
    <2>1. CASE k = 1  BY <2>1 DEF CallerFP
    <2>2. CASE k # 1
      <3>1. k - 1 \in 1 .. Len(as) - 1  BY <2>2, InRange
      <3> QED  BY <2>2, <3>1 DEF CallerFP
    <2> QED  BY <2>1, <2>2
  <1>2. ASSUME NEW k \in 1 .. Len(as) - 1
        PROVE  WaitingClaims(bs, k) = WaitingClaims(as, k)
    <2>1. k \in 1 .. Len(as)  BY InRange
    <2>2. CallerFP(bs, k) = CallerFP(as, k) /\ bs[k] = as[k]  BY <1>1, <2>1
    <2> QED  BY <2>2 DEF WaitingClaims
  <1>3. {WaitingClaims(bs, k) : k \in 1 .. Len(bs) - 1}
           = {WaitingClaims(as, k) : k \in 1 .. Len(as) - 1}
    BY <1>2
  <1> QED  BY <1>1, <1>3 DEF OuterClaims

LEMMA FunctionIsSeq ==
  ASSUME NEW S, NEW l, l \in Nat, NEW z, z \in [1 .. l -> S]
  PROVE  z \in Seq(S) /\ Len(z) = l
  <1>1. z \in Seq(S)  BY SeqDef
  <1>2. DOMAIN z = 1 .. Len(z) /\ Len(z) \in Nat  BY ONLY <1>1, LenProperties
  <1>3. DOMAIN z = 1 .. l  OBVIOUS
  <1>4. PICK m \in Nat : m = Len(z)  BY <1>2
  <1>5. \A i : i \in 1 .. m <=> i \in 1 .. l  BY <1>2, <1>3, <1>4
  <1>6. m = l
    <2>1. m # 0 => m \in 1 .. m  BY ONLY m \in Nat
    <2>2. l # 0 => l \in 1 .. l  BY ONLY l \in Nat
    <2>3. (m # 0 => m <= l /\ l # 0) /\ (l # 0 => l <= m /\ m # 0)
      BY ONLY <1>5, <2>1, <2>2, m \in Nat, l \in Nat
    <2> QED  BY ONLY <2>3, m \in Nat, l \in Nat
  <1> QED  BY <1>1, <1>4, <1>6

\* The running activation changes, but not its place in the stack.
SameCall(c, t) ==
    /\ ActivationSound(c) /\ c.fn = t.fn /\ c.sp = t.sp /\ c.ret = t.ret
    /\ c.nargs = t.nargs /\ c.keep = t.keep
Replaced(as, c) == [as EXCEPT ![Len(as)] = c]

LEMMA ReplaceTop ==
  ASSUME NEW as, Stacked(as), as # <<>>, NEW c, SameCall(c, as[Len(as)]), NEW bs, bs = Replaced(as, c)
  PROVE  /\ Stacked(bs) /\ bs # <<>> /\ Len(bs) = Len(as) /\ bs[Len(as)] = c
         /\ CallerFP(bs, Len(as)) = CallerFP(as, Len(as))
         /\ OuterClaims(bs) = OuterClaims(as) /\ bs[1].fn = as[1].fn
  <1> PICK t : t = as[Len(as)]  OBVIOUS
  <1>0. /\ ActivationSound(c) /\ c.fn = t.fn /\ c.sp = t.sp /\ c.ret = t.ret
        /\ c.nargs = t.nargs /\ c.keep = t.keep
    BY DEF SameCall
  <1>1. /\ Len(as) \in Nat /\ as \in Seq(Activations) /\ Len(as) # 0
        /\ Len(as) \in 1 .. Len(as) /\ 1 \in 1 .. Len(as)
    BY Lengths
  <1>2. PICK l \in Nat : l = Len(as)  BY <1>1
  <1>3. c \in Activations  BY <1>0 DEF ActivationSound
  <1>4. bs \in Seq(Activations) /\ Len(bs) = l
    <2>1. PICK q \in 1 .. Len(as) : q = Len(as)  BY <1>1
    <2>2. PICK S : S = Activations  OBVIOUS
    <2>3. as \in [1 .. l -> S] /\ c \in S /\ q \in 1 .. l
      BY <1>1, <1>2, <1>3, <2>2, LenProperties
    <2>4. bs = [as EXCEPT ![q] = c]  BY <2>1 DEF Replaced
    <2>5. bs \in [1 .. l -> S]  BY ONLY <2>3, <2>4
    <2>6. bs \in Seq(S) /\ Len(bs) = l  BY ONLY <2>5, l \in Nat, FunctionIsSeq
    <2> QED  BY <2>2, <2>6
  <1>5. \A k \in 1 .. l : bs[k] = IF k = l THEN c ELSE as[k]
    <2>1. DOMAIN as = 1 .. l  BY <1>1, <1>2, LenProperties
    <2> QED  BY <1>2, <2>1 DEF Replaced
  <1>6. bs # <<>>
    <2>1. Len(<<>>) = 0  OBVIOUS
    <2> QED  BY ONLY <1>1, <1>2, <1>4, <2>1
  <1>7. /\ FirstSound(as)
        /\ \A k \in 1 .. Len(as) : ActivationSound(as[k])
        /\ \A k \in 1 .. Len(as) - 1 : CallLink(as[k], as[k + 1])
        /\ \A k \in 1 .. Len(as), i \in 1 .. Len(as) : k <= i => as[i].sp <= as[k].sp
        /\ \A k \in 1 .. Len(as) : (MaxDepth[as[1].fn] - k + 1) * StackBytes <= as[k].sp
    BY DEF Stacked
  <1>8. \A k \in 1 .. l : /\ bs[k].fn = as[k].fn /\ bs[k].sp = as[k].sp
                          /\ bs[k].ret = as[k].ret /\ bs[k].nargs = as[k].nargs
                          /\ bs[k].keep = as[k].keep
    BY <1>0, <1>2, <1>5
  <1>9. 1 \in 1 .. l  BY <1>1, <1>2
  <1>10. FirstSound(bs)  BY <1>2, <1>4, <1>7, <1>8, <1>9 DEF FirstSound
  <1>11. \A k \in 1 .. l : ActivationSound(bs[k])  BY <1>0, <1>2, <1>5, <1>7
  <1>12. ASSUME NEW k \in 1 .. l - 1
         PROVE  bs[k] = as[k] /\ CallLink(bs[k], bs[k + 1])
    <2>1. k \in 1 .. l /\ k + 1 \in 1 .. l /\ k \in Nat /\ k + 1 <= l  BY InRange
    <2>2. k # l  BY <2>1
    <2>3. bs[k] = as[k]  BY <1>5, <2>1, <2>2
    <2>4. CallLink(as[k], as[k + 1])  BY <1>2, <1>7
    <2>5. PICK d : d = bs[k + 1]  OBVIOUS
    <2>6. PICK e : e = as[k + 1]  OBVIOUS
    <2>7. d.fn = e.fn /\ d.sp = e.sp /\ d.ret = e.ret /\ d.nargs = e.nargs /\ d.keep = e.keep
      BY <1>8, <2>1, <2>5, <2>6
    <2>8. CallLink(as[k], d)  BY <2>4, <2>6, <2>7 DEF CallLink
    <2> QED  BY <2>3, <2>5, <2>8
  <1>13. \A k \in 1 .. l, i \in 1 .. l : k <= i => bs[i].sp <= bs[k].sp
    BY <1>2, <1>7, <1>8
  <1>14. \A k \in 1 .. l : (MaxDepth[bs[1].fn] - k + 1) * StackBytes <= bs[k].sp
    BY <1>2, <1>7, <1>8, <1>9
  <1>15. Stacked(bs)
    BY <1>4, <1>10, <1>11, <1>12, <1>13, <1>14 DEF Stacked
  <1>16. /\ OuterClaims(bs) = OuterClaims(as)
         /\ \A k \in 1 .. Len(as) : CallerFP(bs, k) = CallerFP(as, k)
    <2>1. Len(bs) = Len(as) /\ Len(as) \in Nat /\ Len(as) # 0  BY <1>1, <1>2, <1>4
    <2>2. \A k \in 1 .. Len(as) - 1 : bs[k] = as[k]  BY <1>2, <1>12
    <2>3. bs[Len(as)].sp = as[Len(as)].sp /\ bs[Len(as)].nargs = as[Len(as)].nargs
      BY <1>1, <1>2, <1>8
    <2> QED  BY ONLY <2>1, <2>2, <2>3, SameOuter
  <1>17. bs[l] = c /\ bs[1].fn = as[1].fn  BY <1>1, <1>2, <1>5, <1>8
  <1> QED  BY <1>1, <1>2, <1>4, <1>6, <1>15, <1>16, <1>17

\* One more activation: its caller now waits.
OneMore(as, bs, l) ==
    l \in Nat /\ l # 0 /\ Len(as) = l /\ Len(bs) = l + 1 /\ \A k \in 1 .. l : bs[k] = as[k]

LEMMA OuterAppend ==
  ASSUME NEW as, NEW bs, NEW l, OneMore(as, bs, l)
  PROVE  /\ OuterClaims(bs) =
               OuterClaims(as)
                  \cup FrameClaims(l, as[l], CallerFP(as, l), "entry", EntryEnd(Code[as[l].fn]) + 1)
                  \cup ArgClaims(l + 1, bs[l + 1].sp, bs[l + 1].nargs)
         /\ CallerFP(bs, l + 1) = FPOf(as[l])
         /\ CallerFP(bs, l) = CallerFP(as, l)
  <1> l \in Nat /\ l # 0 /\ Len(as) = l /\ Len(bs) = l + 1 /\ \A k \in 1 .. l : bs[k] = as[k]
    BY DEF OneMore
  <1>1. ASSUME NEW k \in 1 .. l
        PROVE  CallerFP(bs, k) = CallerFP(as, k)
    <2>1. CASE k = 1  BY <2>1 DEF CallerFP
    <2>2. CASE k # 1
      <3>1. k - 1 \in 1 .. l  BY <2>2, InRange
      <3> QED  BY <2>2, <3>1 DEF CallerFP
    <2> QED  BY <2>1, <2>2
  <1>2. ASSUME NEW k \in 1 .. l
        PROVE  WaitingClaims(bs, k) = WaitingClaims(as, k)
    BY <1>1 DEF WaitingClaims
  <1> DEFINE U == UNION {WaitingClaims(as, k) : k \in 1 .. l - 1}
             V == UNION {WaitingClaims(as, k) : k \in 1 .. l}
  <1>3. {WaitingClaims(bs, k) : k \in 1 .. l} = {WaitingClaims(as, k) : k \in 1 .. l}
    BY <1>2
  <1>4. V = U \cup WaitingClaims(as, l)
    <2>1. \A k \in 1 .. l : k = l \/ k \in 1 .. l - 1  BY InRange
    <2>2. l \in 1 .. l /\ \A k \in 1 .. l - 1 : k \in 1 .. l  BY InRange
    <2> QED  BY <2>1, <2>2
  <1>5. OuterClaims(as) = U \cup ArgClaims(l, as[l].sp, as[l].nargs)
    BY DEF OuterClaims
  <1>6. (l + 1) - 1 = l  OBVIOUS
  <1>7. OuterClaims(bs) = V \cup ArgClaims(l + 1, bs[l + 1].sp, bs[l + 1].nargs)
    BY <1>3, <1>6 DEF OuterClaims
  <1>8. WaitingClaims(as, l) =
           FrameClaims(l, as[l], CallerFP(as, l), "entry", EntryEnd(Code[as[l].fn]) + 1)
              \cup ArgClaims(l, as[l].sp, as[l].nargs)
    BY DEF WaitingClaims
  <1> HIDE DEF U, V
  <1>9. OuterClaims(bs) =
           OuterClaims(as)
              \cup FrameClaims(l, as[l], CallerFP(as, l), "entry", EntryEnd(Code[as[l].fn]) + 1)
              \cup ArgClaims(l + 1, bs[l + 1].sp, bs[l + 1].nargs)
    BY <1>4, <1>5, <1>7, <1>8
  <1>10. CallerFP(bs, l + 1) = FPOf(as[l])
    <2>1. l + 1 # 1 /\ l \in 1 .. l  BY InRange
    <2> QED  BY <1>6, <2>1 DEF CallerFP
  <1>11. CallerFP(bs, l) = CallerFP(as, l)  BY <1>1, InRange
  <1> QED  BY <1>9, <1>10, <1>11

MayCall(as, d) ==
    /\ Stacked(as) /\ as # <<>> /\ ActivationSound(d)
    /\ CallLink(as[Len(as)], d) /\ Len(as) < MaxDepth[as[1].fn]
Pushed(as, d) == Append(as, d)

LEMMA StackedPush ==
  ASSUME NEW as, NEW d, MayCall(as, d), NEW bs, bs = Pushed(as, d)
  PROVE  /\ Stacked(bs) /\ bs # <<>> /\ Len(bs) = Len(as) + 1 /\ bs[Len(as) + 1] = d
         /\ OneMore(as, bs, Len(as))
  <1> /\ Stacked(as) /\ as # <<>> /\ ActivationSound(d)
      /\ CallLink(as[Len(as)], d) /\ Len(as) < MaxDepth[as[1].fn]
    BY DEF MayCall
  <1>1. /\ Len(as) \in Nat /\ as \in Seq(Activations) /\ Len(as) # 0
        /\ Len(as) \in 1 .. Len(as) /\ 1 \in 1 .. Len(as)
    BY Lengths
  <1>2. PICK l \in Nat : l = Len(as)  BY <1>1
  <1>3. d \in Activations  BY DEF ActivationSound
  <1>4. /\ bs \in Seq(Activations) /\ Len(bs) = l + 1 /\ bs[l + 1] = d
        /\ \A k \in 1 .. l : bs[k] = as[k]
    <2>1. /\ Append(as, d) \in Seq(Activations) /\ Len(Append(as, d)) = Len(as) + 1
          /\ Append(as, d)[Len(as) + 1] = d
          /\ \A k \in 1 .. Len(as) : Append(as, d)[k] = as[k]
      BY <1>1, <1>3, AppendProperties
    <2>2. PICK z : z = Append(as, d)  OBVIOUS
    <2>3. /\ z \in Seq(Activations) /\ Len(z) = Len(as) + 1 /\ z[Len(as) + 1] = d
          /\ \A k \in 1 .. Len(as) : z[k] = as[k]
      BY ONLY <2>1, <2>2
    <2>4. z = bs  BY <2>2 DEF Pushed
    <2> QED  BY ONLY <1>2, <2>3, <2>4
  <1>5. bs # <<>>
    <2>1. Len(<<>>) = 0 /\ l + 1 # 0  OBVIOUS
    <2> QED  BY ONLY <1>4, <2>1
  <1>6. /\ FirstSound(as)
        /\ \A k \in 1 .. l : ActivationSound(as[k])
        /\ \A k \in 1 .. l - 1 : CallLink(as[k], as[k + 1])
        /\ \A k \in 1 .. l, i \in 1 .. l : k <= i => as[i].sp <= as[k].sp
        /\ \A k \in 1 .. l : (MaxDepth[as[1].fn] - k + 1) * StackBytes <= as[k].sp
    BY <1>2 DEF Stacked
  <1>7. 1 \in 1 .. l /\ l \in 1 .. l /\ l >= 1  BY <1>1, <1>2, InRange
  <1>8. bs[1] = as[1] /\ bs[l] = as[l]  BY <1>4, <1>7
  <1>9. l + 1 <= MaxDepth[as[1].fn]
    <2>1. as[1].fn \in Mains  BY <1>6 DEF FirstSound
    <2>2. PICK m \in Nat : m = MaxDepth[as[1].fn]  BY <2>1, StackAssumption
    <2>3. l < m  BY <1>2, <2>2
    <2>4. l + 1 <= m  BY ONLY <2>3, l \in Nat, m \in Nat
    <2> QED  BY <2>2, <2>4
  <1>10. FirstSound(bs)  BY <1>4, <1>6, <1>8, <1>9 DEF FirstSound
  <1>11. \A k \in 1 .. l + 1 : k = l + 1 \/ k \in 1 .. l  OBVIOUS
  <1>12. \A k \in 1 .. l + 1 : ActivationSound(bs[k])  BY <1>4, <1>6, <1>11
  <1>13. ASSUME NEW k \in 1 .. l
         PROVE  CallLink(bs[k], bs[k + 1])
    <2>1. CASE k = l  BY <1>2, <1>4, <1>8, <2>1
    <2>2. CASE k # l
      <3>1. k \in 1 .. l - 1 /\ k + 1 \in 1 .. l  BY <2>2, InRange
      <3> QED  BY <1>4, <1>6, <3>1
    <2> QED  BY <2>1, <2>2
  <1>14. d.sp = Bottom(as[l])  BY <1>2 DEF CallLink
  <1>15. PICK t : t = as[l]  OBVIOUS
  <1>16. t.fn \in Functions /\ t.sp \in Int /\ t.sp % 4 = 0 /\ t.dyn \in Nat /\ t.dyn % 4 = 0
    BY <1>6, <1>7, <1>15, ActivationFacts
  <1>17. d.sp \in Int /\ d.sp <= t.sp
    <2>1. /\ FPOf(t) \in Int /\ Bottom(t) \in Int /\ Bottom(t) <= FPOf(t) /\ FPOf(t) + 4 <= t.sp
      BY <1>16, BottomOfFrame
    <2>2. PICK s \in Int : s = t.sp  BY <1>16
    <2>3. PICK x \in Int : x = Bottom(t)  BY <2>1
    <2>4. PICK y \in Int : y = FPOf(t)  BY <2>1
    <2>5. x <= y /\ y + 4 <= s  BY <2>1, <2>2, <2>3, <2>4
    <2>6. x <= s  BY ONLY <2>5, x \in Int, y \in Int, s \in Int
    <2>7. d.sp = x  BY <1>14, <1>15, <2>3
    <2> QED  BY <2>2, <2>6, <2>7
  <1>18. ASSUME NEW k \in 1 .. l + 1, NEW i \in 1 .. l + 1, k <= i
         PROVE  bs[i].sp <= bs[k].sp
    <2>1. CASE k \in 1 .. l /\ i \in 1 .. l  BY <1>4, <1>6, <1>18, <2>1
    <2>2. CASE i = l + 1 /\ k \in 1 .. l
      <3>1. as[l].sp <= as[k].sp  BY <1>6, <1>7, <2>2, InRange
      <3>2. as[k].sp \in Int  BY <1>6, <2>2, ActivationFacts
      <3>3. d.sp <= as[k].sp
        <4>1. PICK x \in Int : x = d.sp  BY <1>17
        <4>2. PICK y \in Int : y = t.sp  BY <1>16
        <4>3. PICK z \in Int : z = as[k].sp  BY <3>2
        <4>4. x <= y /\ y <= z  BY <1>15, <1>17, <3>1, <4>1, <4>2, <4>3
        <4>5. x <= z  BY ONLY <4>4, x \in Int, y \in Int, z \in Int
        <4> QED  BY <4>1, <4>3, <4>5
      <3> QED  BY <1>4, <2>2, <3>3
    <2>3. CASE k = l + 1
      <3>1. i = l + 1  BY <1>18, <2>3
      <3>2. bs[i].sp = d.sp /\ bs[k].sp = d.sp  BY <1>4, <2>3, <3>1
      <3>3. PICK x \in Int : x = d.sp  BY <1>17
      <3> QED  BY <3>2, <3>3
    <2> QED  BY <1>11, <2>1, <2>2, <2>3
  <1>19. ASSUME NEW k \in 1 .. l + 1
         PROVE  (MaxDepth[bs[1].fn] - k + 1) * StackBytes <= bs[k].sp
    <2>1. CASE k \in 1 .. l  BY <1>4, <1>6, <1>8, <2>1
    <2>2. CASE k = l + 1
      <3>1. /\ (MaxDepth[as[1].fn] - l) * StackBytes <= Bottom(as[l])
            /\ MaxDepth[as[1].fn] \in Nat
        BY <1>2, <1>7, Room
      <3>2. MaxDepth[as[1].fn] - (l + 1) + 1 = MaxDepth[as[1].fn] - l
        <4>1. PICK m \in Nat : m = MaxDepth[as[1].fn]  BY <3>1
        <4>2. m - (l + 1) + 1 = m - l  BY ONLY l \in Nat, m \in Nat
        <4> QED  BY <4>1, <4>2
      <3> QED  BY <1>4, <1>8, <1>14, <2>2, <3>1, <3>2
    <2> QED  BY <1>11, <2>1, <2>2
  <1>20. (l + 1) - 1 = l  OBVIOUS
  <1>21. Stacked(bs)
    BY <1>4, <1>10, <1>12, <1>13, <1>18, <1>19, <1>20 DEF Stacked
  <1>22. OneMore(as, bs, l)  BY <1>1, <1>2, <1>4 DEF OneMore
  <1> QED  BY <1>2, <1>4, <1>5, <1>21, <1>22

Popped(as) == Front(as)

LEMMA StackedPop ==
  ASSUME NEW as, Stacked(as), as # <<>>, NEW bs, bs = Popped(as)
  PROVE  /\ Stacked(bs)
         /\ Len(as) = 1 => bs = <<>>
         /\ Len(as) # 1 => bs # <<>> /\ OneMore(bs, as, Len(as) - 1)
  <1>1. /\ Len(as) \in Nat /\ as \in Seq(Activations) /\ Len(as) # 0
    BY Lengths
  <1>2. PICK l \in Nat : l = Len(as)  BY <1>1
  <1>3. PICK n \in Nat : n = l - 1
    <2>1. l # 0  BY <1>1, <1>2
    <2>2. l - 1 \in Nat  BY ONLY <2>1, l \in Nat
    <2> QED  BY <2>2
  <1>4. /\ bs \in Seq(Activations) /\ Len(bs) = n /\ \A k \in 1 .. n : bs[k] = as[k]
    <2>1. bs = [k \in 1 .. n |-> as[k]]  BY <1>2, <1>3 DEF Popped, Front
    <2>2. \A k \in 1 .. n : k \in 1 .. l  BY <1>3
    <2>3. \A k \in 1 .. n : as[k] \in Activations  BY <1>1, <1>2, <2>2, ElementOfSeq
    <2>4. [k \in 1 .. n |-> as[k]] \in Seq(Activations)
      <3>1. PICK S : S = Activations  OBVIOUS
      <3>2. \A k \in 1 .. n : as[k] \in S  BY <2>3, <3>1
      <3>3. [k \in 1 .. n |-> as[k]] \in [1 .. n -> S]  BY ONLY <3>2
      <3>4. [k \in 1 .. n |-> as[k]] \in Seq(S)  BY ONLY <3>3, n \in Nat, SeqDef
      <3> QED  BY <3>1, <3>4
    <2>5. Len([k \in 1 .. n |-> as[k]]) = n  OBVIOUS
    <2>6. \A k \in 1 .. n : [i \in 1 .. n |-> as[i]][k] = as[k]  OBVIOUS
    <2>7. PICK z : z = [k \in 1 .. n |-> as[k]]  OBVIOUS
    <2>8. z \in Seq(Activations) /\ Len(z) = n /\ \A k \in 1 .. n : z[k] = as[k]
      BY ONLY <2>4, <2>5, <2>6, <2>7
    <2> QED  BY ONLY <2>1, <2>7, <2>8
  <1>5. (bs # <<>> => n # 0) /\ (bs = <<>> => n = 0)
    <2>1. bs # <<>> => Len(bs) \in Nat \ {0}  BY <1>4, EmptySeq
    <2>2. Len(<<>>) = 0  OBVIOUS
    <2> QED  BY ONLY <1>4, <2>1, <2>2
  <1>6. /\ FirstSound(as)
        /\ \A k \in 1 .. l : ActivationSound(as[k])
        /\ \A k \in 1 .. l - 1 : CallLink(as[k], as[k + 1])
        /\ \A k \in 1 .. l, i \in 1 .. l : k <= i => as[i].sp <= as[k].sp
        /\ \A k \in 1 .. l : (MaxDepth[as[1].fn] - k + 1) * StackBytes <= as[k].sp
    BY <1>2 DEF Stacked
  <1>7. \A k \in 1 .. n : k \in 1 .. l  BY <1>3
  <1>8. \A k \in 1 .. n - 1 : k \in 1 .. l - 1 /\ k \in 1 .. n /\ k + 1 \in 1 .. n  BY <1>3
  <1>9. bs # <<>> => 1 \in 1 .. n /\ bs[1] = as[1]
    <2>1. n # 0 => 1 \in 1 .. n  BY ONLY n \in Nat
    <2> QED  BY ONLY <1>4, <1>5, <2>1
  <1>10. \A k \in 1 .. n : 1 \in 1 .. n  BY ONLY n \in Nat
  <1>11. \A k \in 1 .. n : bs[1] = as[1]  BY ONLY <1>4, <1>10
  <1>12. bs # <<>> => FirstSound(bs)
    <2>1. SUFFICES ASSUME bs # <<>> PROVE FirstSound(bs)  OBVIOUS
    <2>2. MaxDepth[as[1].fn] \in Nat /\ n <= MaxDepth[as[1].fn]
      <3>1. as[1].fn \in Mains /\ l <= MaxDepth[as[1].fn]  BY <1>2, <1>6 DEF FirstSound
      <3>2. MaxDepth[as[1].fn] \in Nat  BY <3>1, StackAssumption
      <3>3. PICK m \in Nat : m = MaxDepth[as[1].fn]  BY <3>2
      <3>4. l <= m /\ n = l - 1  BY <1>3, <3>1, <3>3
      <3>5. n <= m  BY ONLY <3>4, l \in Nat, m \in Nat, n \in Nat
      <3> QED  BY <3>3, <3>5
    <2> QED  BY <1>4, <1>6, <1>9, <2>1, <2>2 DEF FirstSound
  <1>13. \A k \in 1 .. n - 1 : CallLink(bs[k], bs[k + 1])  BY <1>4, <1>6, <1>8
  <1>14. \A k \in 1 .. n, i \in 1 .. n : k <= i => bs[i].sp <= bs[k].sp  BY <1>4, <1>6, <1>7
  <1>15. \A k \in 1 .. n : (MaxDepth[bs[1].fn] - k + 1) * StackBytes <= bs[k].sp
    BY <1>4, <1>6, <1>7, <1>11
  <1>16. \A k \in 1 .. n : ActivationSound(bs[k])  BY <1>4, <1>6, <1>7
  <1>17. Stacked(bs)
    BY <1>4, <1>12, <1>13, <1>14, <1>15, <1>16 DEF Stacked
  <1>18. (l = 1 => n = 0) /\ (l # 1 => n # 0)  BY <1>1, <1>2, <1>3
  <1>19. n # 0 => OneMore(bs, as, n)
    <2>0. l = n + 1  BY ONLY <1>3, l \in Nat, n \in Nat
    <2>1. Len(as) = n + 1  BY <1>2, <2>0
    <2> QED  BY <1>4, <2>1 DEF OneMore
  <1> QED  BY <1>2, <1>3, <1>5, <1>17, <1>18, <1>19

(***************************************************************************)
(* The body.                                                               *)
(***************************************************************************)
LEMMA BodyFacts ==
  ASSUME Inv, InBody
  PROVE  /\ acts # <<>> /\ fn = acts[depth].fn /\ fn \in Functions
         /\ part = "entry" /\ at = EntryEnd(Code[fn]) + 1
         /\ AtBody(Code[fn], part, at)
         /\ FP = FPOf(acts[depth]) /\ SP = Bottom(acts[depth])
  <1>1. fn # Halt /\ part = "entry" /\ at > Len(EntryCode[fn])
    BY DEF InBody, Instructions
  <1>2. acts # <<>>  BY <1>1 DEF Inv, StackInv
  <1>3. /\ fn = acts[depth].fn /\ fn \in Functions /\ ActivationSound(acts[depth])
        /\ PlaceSound(acts[depth], part, at)
        /\ SP = SPAt(acts[depth], part, at)
        /\ FP = FPAt(acts[depth], CallerFP(acts, depth), part, at)
    BY <1>2, TopFacts
  <1>4. Len(EntryCode[fn]) = EntryEnd(Code[fn]) /\ EntryEnd(Code[fn]) \in Nat
    BY <1>3, EntryAt, PlaceNumbers DEF Ends
  <1>5. PICK e \in Nat : e = EntryEnd(Code[fn])  BY <1>4
  <1>6. at \in 1 .. e + 1  BY <1>1, <1>3, <1>5 DEF PlaceSound, End
  <1>7. at > e  BY <1>1, <1>4, <1>5
  <1>8. at = e + 1  BY ONLY <1>6, <1>7, e \in Nat
  <1>9. AtBody(Code[fn], part, at)  BY <1>1, <1>5, <1>8 DEF AtBody
  <1>10. SP = Bottom(acts[depth]) /\ FP = FPOf(acts[depth])
    <2>1. PICK c : c = acts[depth]  OBVIOUS
    <2>2. PICK up : up = CallerFP(acts, depth)  OBVIOUS
    <2>3. PICK n : n = at  OBVIOUS
    <2>4. c.fn \in Functions /\ c.sp \in Int /\ c.dyn \in Nat  BY <1>3, <2>1, ActivationFacts
    <2>5. n = EntryEnd(Code[c.fn]) + 1  BY <1>3, <1>5, <1>8, <2>1, <2>3
    <2>6. SPAt(c, "entry", n) = Bottom(c) /\ FPAt(c, up, "entry", n) = FPOf(c)
      BY <2>4, <2>5, PointersInBody
    <2> QED  BY <1>1, <1>3, <2>1, <2>2, <2>3, <2>6
  <1> QED  BY <1>1, <1>2, <1>3, <1>5, <1>8, <1>9, <1>10

LEMMA CallFacts ==
  ASSUME Inv, pend # NoCall
  PROVE  /\ acts # <<>> /\ fn = acts[depth].fn /\ fn \in Functions
         /\ part = "entry" /\ at = EntryEnd(Code[fn]) + 1
         /\ FP = FPOf(acts[depth]) /\ SP = Bottom(acts[depth])
         /\ depth < MaxDepth[acts[1].fn]
         /\ \E s \in Code[fn].calls : s.fn = pend.fn /\ s.nargs = pend.nargs
         /\ pend = [fn |-> pend.fn, nargs |-> pend.nargs, next |-> pend.next]
         /\ pend.next \in Nat /\ pend.next >= 9 /\ pend.nargs \in Nat
         /\ pend.next = 9 \/ pend.next <= pend.nargs + 1
  <1>1. /\ acts # <<>> /\ AtBody(Frame(depth), part, at)
        /\ depth < MaxDepth[acts[1].fn]
        /\ \E s \in Frame(depth).calls : s.fn = pend.fn /\ s.nargs = pend.nargs
        /\ pend = [fn |-> pend.fn, nargs |-> pend.nargs, next |-> pend.next]
        /\ pend.next \in Nat /\ pend.next >= 9
        /\ pend.next = 9 \/ pend.next <= pend.nargs + 1
    BY DEF Inv, CallInv, NumArgRegs
  <1>2. fn = acts[depth].fn /\ fn \in Functions /\ fn # Halt  BY <1>1, TopFacts
  <1>3. Frame(depth) = Code[fn]  BY <1>2 DEF Frame
  <1>4. part = "entry" /\ at = EntryEnd(Code[fn]) + 1  BY <1>1, <1>3 DEF AtBody
  <1>5. Len(EntryCode[fn]) = EntryEnd(Code[fn]) /\ EntryEnd(Code[fn]) \in Nat
    BY <1>2, EntryAt, PlaceNumbers DEF Ends
  <1>6. at > Len(EntryCode[fn])
    <2>1. PICK e \in Nat : e = EntryEnd(Code[fn])  BY <1>5
    <2>2. e + 1 > e  OBVIOUS
    <2> QED  BY <1>4, <1>5, <2>1, <2>2
  <1>7. InBody  BY <1>2, <1>4, <1>6 DEF InBody, Instructions
  <1>8. pend.nargs \in Nat  BY <1>1, <1>2, <1>3, SiteFacts
  <1>9. FP = FPOf(acts[depth]) /\ SP = Bottom(acts[depth])  BY <1>7, BodyFacts
  <1> QED  BY <1>1, <1>2, <1>3, <1>4, <1>8, <1>9

\* The word of an outgoing argument lies above SP, and nobody else claims it.
LEMMA OutgoingPlaced ==
  ASSUME Inv, pend # NoCall, NEW a, a \in NumArgRegs + 1 .. pend.nargs
  PROVE  /\ SP + LocMemOffset(a) \in Words /\ SP + LocMemOffset(a) >= SP
         /\ LocMemOffset(a) = 4 * (a - 9)
         /\ \A x \in TopClaims : x[1] # SP + LocMemOffset(a)
         /\ \A x \in OuterClaims(acts) : x[1] # SP + LocMemOffset(a)
  <1>1. /\ acts # <<>> /\ fn = acts[depth].fn /\ SP = Bottom(acts[depth])
        /\ \E s \in Code[fn].calls : s.fn = pend.fn /\ s.nargs = pend.nargs
    BY CallFacts
  <1>2. PICK c : c = acts[depth]  OBVIOUS
  <1>3. ActivationSound(c) /\ Stacked(acts) /\ depth \in 1 .. Len(acts)
    BY <1>1, <1>2, TopFacts
  <1>4. /\ c.fn \in Functions /\ c.sp \in Int /\ c.sp % 4 = 0 /\ c.sp <= StackTop
        /\ c.dyn \in Nat /\ c.dyn % 4 = 0
        /\ c.dyn > 0 => Code[c.fn].hasVarSized
        /\ WrittenInside(c)
    BY <1>3, ActivationFacts
  <1>5. PICK s \in Code[c.fn].calls : s.nargs = pend.nargs  BY <1>1, <1>2
  <1>6. a \in NumArgRegs + 1 .. s.nargs  BY <1>5
  <1>7. /\ LocMemOffset(a) = 4 * (a - 9)
        /\ Bottom(c) + LocMemOffset(a) \in Int /\ (Bottom(c) + LocMemOffset(a)) % 4 = 0
        /\ Bottom(c) <= Bottom(c) + LocMemOffset(a)
        /\ Bottom(c) + LocMemOffset(a) + 4 <= FPOf(c)
        /\ \A k, up, p, n : \A x \in FrameClaims(k, c, up, p, n) :
              x[1] # Bottom(c) + LocMemOffset(a)
    BY <1>4, <1>6, OutgoingFresh
  <1>8. PICK w \in Int : w = SP + LocMemOffset(a)  BY <1>1, <1>2, <1>7
  <1>9. w % 4 = 0 /\ SP <= w /\ w + 4 <= FPOf(c)  BY <1>1, <1>2, <1>7, <1>8
  <1>10. \A x \in TopClaims : x[1] # w
    BY <1>1, <1>2, <1>7, <1>8 DEF TopClaims
  <1>11. 0 <= SP /\ SP \in Int  BY <1>1, <1>3, Room DEF depth
  <1>12. FPOf(c) \in Int /\ FPOf(c) + 4 <= c.sp  BY <1>4, BottomOfFrame
  <1>13. PICK s1 \in Int : s1 = c.sp  BY <1>4
  <1>14. PICK f1 \in Int : f1 = FPOf(c)  BY <1>12
  <1>15. PICK p1 \in Int : p1 = SP  BY <1>11
  <1>16. PICK t1 \in Int : t1 = StackTop  BY StackAssumption
  <1>17. p1 <= w /\ 0 <= p1 /\ w + 4 <= f1 /\ f1 + 4 <= s1 /\ s1 <= t1
    BY <1>4, <1>9, <1>11, <1>12, <1>13, <1>14, <1>15, <1>16
  <1>18. 0 <= w /\ w < t1 /\ w < s1
    BY ONLY <1>17, w \in Int, p1 \in Int, f1 \in Int, s1 \in Int, t1 \in Int
  <1>19. w \in Words  BY <1>9, <1>16, <1>18, WordAddresses
  <1>20. \A x \in OuterClaims(acts) : x[1] # w
    <2>1. SUFFICES ASSUME NEW x \in OuterClaims(acts), x[1] = w PROVE FALSE  OBVIOUS
    <2>2. x[1] >= s1  BY <1>1, <1>2, <1>3, <1>13, OuterPlaced DEF depth
    <2>3. w >= s1  BY <2>1, <2>2
    <2> QED  BY ONLY <1>18, <2>3, w \in Int, s1 \in Int
  <1>21. w >= SP  BY <1>15, <1>17
  <1> QED  BY <1>7, <1>8, <1>10, <1>19, <1>20, <1>21

LEMMA PendPlaced ==
  ASSUME Inv, NEW x \in PendClaims
  PROVE  x[1] \in Words /\ x[1] >= SP
  <1>1. pend # NoCall
    <2>1. SUFFICES ASSUME pend = NoCall PROVE FALSE  OBVIOUS
    <2>2. PendClaims = ArgClaims(depth + 1, SP, 0)  BY <2>1 DEF PendClaims
    <2>3. \A k, sp : ArgClaims(k, sp, 0) = {}  BY NoArgClaims
    <2> QED  BY <2>2, <2>3
  <1>2. /\ pend.next \in Nat /\ pend.nargs \in Nat
        /\ pend.next = 9 \/ pend.next <= pend.nargs + 1
    BY <1>1, CallFacts
  <1>3. PICK n \in Nat : n = pend.next  BY <1>2
  <1>4. PICK m \in Nat : m = pend.nargs  BY <1>2
  <1>5. PICK a \in 9 .. n - 1 : x = <<SP + LocMemOffset(a), Arg(depth + 1, a)>>
    BY <1>1, <1>3 DEF PendClaims, ArgClaims, NumArgRegs
  <1>6. n = 9 \/ n <= m + 1  BY <1>2, <1>3, <1>4
  <1>7. a \in 9 .. m  BY ONLY <1>6, a \in 9 .. n - 1, n \in Nat, m \in Nat
  <1>8. a \in NumArgRegs + 1 .. pend.nargs  BY <1>4, <1>7 DEF NumArgRegs
  <1>9. SP + LocMemOffset(a) \in Words /\ SP + LocMemOffset(a) >= SP
    BY <1>1, <1>8, OutgoingPlaced
  <1> QED  BY <1>5, <1>9

\* A step that leaves the activations and their place alone.
LEMMA SamePlace ==
  ASSUME Inv, SP' = SP, FP' = FP, BLINK' = BLINK, fn' = fn, part' = part, at' = at, acts' = acts
  PROVE  /\ StackInv' /\ PointersInv'
         /\ regs' = regs => RegistersInv'
         /\ pend' = pend => CallInv'
         /\ TopClaims' = TopClaims /\ OuterClaims(acts)' = OuterClaims(acts)
         /\ pend' = pend => PendClaims' = PendClaims
         /\ depth' = depth
  <1>1. depth' = depth  BY DEF depth
  <1>2. StackInv'  BY <1>1 DEF Inv, StackInv
  <1>3. PointersInv'  BY <1>1 DEF Inv, PointersInv, Frame
  <1>4. regs' = regs => RegistersInv'  BY <1>1 DEF Inv, RegistersInv, Frame
  <1>5. pend' = pend => CallInv'  BY <1>1 DEF Inv, CallInv, Frame, NoCall
  <1>6. TopClaims' = TopClaims  BY <1>1 DEF TopClaims
  <1>7. OuterClaims(acts)' = OuterClaims(acts)  OBVIOUS
  <1>8. pend' = pend => PendClaims' = PendClaims  BY <1>1 DEF PendClaims, NoCall
  <1> QED  BY <1>1, <1>2, <1>3, <1>4, <1>5, <1>6, <1>7, <1>8

LEMMA InterruptStep ==
  ASSUME Inv, Interrupt
  PROVE  Inv'
  <1>1. /\ mem' = [a \in Words |-> IF a < SP THEN Junk ELSE mem[a]]
        /\ SP' = SP /\ FP' = FP /\ BLINK' = BLINK /\ regs' = regs /\ fn' = fn
        /\ part' = part /\ at' = at /\ acts' = acts /\ pend' = pend
    BY DEF Interrupt, regVars
  <1>2. /\ StackInv' /\ PointersInv' /\ RegistersInv' /\ CallInv'
        /\ TopClaims' = TopClaims /\ OuterClaims(acts)' = OuterClaims(acts)
        /\ PendClaims' = PendClaims
    BY <1>1, SamePlace
  <1>3. ASSUME acts # <<>>, NEW x \in OuterClaims(acts) \cup TopClaims \cup PendClaims
        PROVE  mem'[x[1]] = x[2]
    <2>1. mem[x[1]] = x[2]  BY <1>3, TopFacts
    <2>2. SP \in Int /\ SP <= acts[depth].sp /\ acts[depth].sp \in Int
      BY <1>3, ClaimsBefore, TopFacts, ActivationFacts
    <2>3. x[1] \in Words /\ SP <= x[1]
      <3>1. CASE x \in OuterClaims(acts)
        <4>1. x[1] \in Words /\ acts[depth].sp <= x[1]  BY <1>3, <3>1, ClaimsBefore
        <4>2. PICK w \in Int : w = x[1]  BY <4>1, WordAddresses
        <4>3. PICK s \in Int : s = acts[depth].sp  BY <2>2
        <4>4. PICK q \in Int : q = SP  BY <2>2
        <4>5. q <= s /\ s <= w  BY <2>2, <4>1, <4>2, <4>3, <4>4
        <4>6. q <= w  BY ONLY <4>5, q \in Int, s \in Int, w \in Int
        <4> QED  BY <4>1, <4>2, <4>4, <4>6
      <3>2. CASE x \in TopClaims  BY <1>3, <3>2, ClaimsBefore DEF TopClaims
      <3>3. CASE x \in PendClaims  BY <3>3, PendPlaced
      <3> QED  BY <1>3, <3>1, <3>2, <3>3
    <2>4. x[1] \in Int  BY <2>3, WordAddresses
    <2>5. ~(x[1] < SP)
      <3>1. PICK w \in Int : w = x[1]  BY <2>4
      <3>2. PICK q \in Int : q = SP  BY <2>2
      <3>3. q <= w  BY <2>3, <3>1, <3>2
      <3>4. ~(w < q)  BY ONLY <3>3, w \in Int, q \in Int
      <3> QED  BY <3>1, <3>2, <3>4
    <2> QED  BY <1>1, <2>1, <2>3, <2>5
  <1>4. MemoryInv'
    <2>1. DOMAIN mem' = Words  BY <1>1
    <2> QED  BY <1>1, <1>2, <1>3, <2>1 DEF MemoryInv
  <1> QED  BY <1>2, <1>4 DEF Inv

LEMMA UseCalleeSavedStep ==
  ASSUME Inv, NEW r \in Registers, UseCalleeSaved(r)
  PROVE  Inv'
  <1>1. /\ InBody /\ pend = NoCall
        /\ \E k \in 1 .. Len(Code[fn].csi) : Code[fn].csi[k].reg = r
        /\ regs' = [regs EXCEPT ![r] = Reg(depth, r)]
        /\ mem' = mem /\ SP' = SP /\ FP' = FP /\ BLINK' = BLINK /\ fn' = fn
        /\ part' = part /\ at' = at /\ acts' = acts /\ pend' = pend
    BY DEF UseCalleeSaved, Running
  <1>2. /\ StackInv' /\ PointersInv' /\ CallInv'
        /\ TopClaims' = TopClaims /\ OuterClaims(acts)' = OuterClaims(acts)
        /\ PendClaims' = PendClaims /\ depth' = depth
    BY <1>1, SamePlace
  <1>3. /\ acts # <<>> /\ fn = acts[depth].fn /\ fn \in Functions
        /\ part = "entry" /\ at = EntryEnd(Code[fn]) + 1
    BY <1>1, BodyFacts
  <1>4. \A q \in Registers : RegisterKept(Code[fn], part, at, q) => regs[q] = acts[depth].keep[q]
    BY <1>3, TopFacts
  <1>5. ~RegisterKept(Code[fn], part, at, r)
    <2>1. RegisterKept(Code[fn], "entry", EntryEnd(Code[fn]) + 1, r) <=>
             \A j \in 1 .. SpillCount(Code[fn]) : Code[fn].csi[j].reg # r
      BY <1>3, RegisterSteps
    <2> QED  BY <1>1, <1>3, <2>1 DEF SpillCount
  <1>6. regs \in [Registers -> RegisterValues]  BY DEF Inv, RegistersInv
  <1>7. depth \in Nat  BY <1>3, TopFacts
  <1>8. Reg(depth, r) \in RegisterValues  BY <1>7 DEF Reg, RegisterValues
  <1>9. regs' \in [Registers -> RegisterValues]  BY <1>1, <1>6, <1>8
  <1>10. ASSUME NEW q \in Registers, RegisterKept(Code[fn], part, at, q)
         PROVE  regs'[q] = acts[depth].keep[q]
    <2>1. q # r  BY <1>5, <1>10
    <2>2. regs'[q] = regs[q]  BY <1>1, <1>6, <2>1
    <2> QED  BY <1>4, <1>10, <2>2
  <1>11. RegistersInv'
    <2>1. \A q \in Registers :
             RegisterKept(Code[fn], part, at, q)' => regs'[q] = acts'[depth'].keep[q]
      BY <1>1, <1>2, <1>10
    <2>2. Frame(depth)' = Code[fn]'  BY <1>1, <1>2, <1>3 DEF Frame
    <2> QED  BY <1>9, <2>1, <2>2 DEF RegistersInv
  <1>12. MemoryInv'  BY <1>1, <1>2 DEF Inv, MemoryInv
  <1> QED  BY <1>2, <1>11, <1>12 DEF Inv

LEMMA BeginCallStep ==
  ASSUME Inv, NEW s \in Code[fn].calls, BeginCall(s)
  PROVE  Inv'
  <1>1. /\ InBody /\ pend = NoCall /\ depth < MaxDepth[acts[1].fn]
        /\ pend' = [fn |-> s.fn, nargs |-> s.nargs, next |-> 9]
        /\ mem' = mem /\ SP' = SP /\ FP' = FP /\ BLINK' = BLINK /\ regs' = regs /\ fn' = fn
        /\ part' = part /\ at' = at /\ acts' = acts
    BY DEF BeginCall, Running, NumArgRegs, regVars
  <1>2. /\ StackInv' /\ PointersInv' /\ RegistersInv'
        /\ TopClaims' = TopClaims /\ OuterClaims(acts)' = OuterClaims(acts) /\ depth' = depth
    BY <1>1, SamePlace
  <1>3. /\ acts # <<>> /\ fn = acts[depth].fn /\ AtBody(Code[fn], part, at)
    BY <1>1, BodyFacts
  <1>4. CallInv'
    <2>1. AtBody(Frame(depth), part, at)'  BY <1>1, <1>2, <1>3 DEF Frame
    <2>2. \E x \in Frame(depth)'.calls : x.fn = pend'.fn /\ x.nargs = pend'.nargs
      BY <1>1, <1>2, <1>3 DEF Frame
    <2>3. pend' = [fn |-> pend'.fn, nargs |-> pend'.nargs, next |-> pend'.next]  BY <1>1
    <2>4. pend'.next = 9  BY <1>1
    <2>5. acts' # <<>> /\ depth' < MaxDepth[acts'[1].fn]  BY <1>1, <1>2, <1>3
    <2> QED  BY <2>1, <2>2, <2>3, <2>4, <2>5 DEF CallInv, NumArgRegs
  <1>5. PendClaims' = {}
    <2>1. PendClaims' = ArgClaims(depth' + 1, SP', 0) \/ PendClaims' = ArgClaims(depth' + 1, SP', 9 - 1)
      BY <1>1 DEF PendClaims
    <2>2. \A k, sp : ArgClaims(k, sp, 0) = {} /\ ArgClaims(k, sp, 9 - 1) = {}
      BY DEF ArgClaims, NumArgRegs
    <2> QED  BY <2>1, <2>2
  <1>6. MemoryInv'  BY <1>1, <1>2, <1>5 DEF Inv, MemoryInv
  <1> QED  BY <1>2, <1>4, <1>6 DEF Inv

LEMMA PassArgumentStep ==
  ASSUME Inv, PassArgument
  PROVE  Inv'
  <1>1. /\ pend # NoCall /\ pend.next <= pend.nargs
        /\ mem' = [mem EXCEPT ![SP + LocMemOffset(pend.next)] = Arg(depth + 1, pend.next)]
        /\ pend' = [pend EXCEPT !.next = @ + 1]
        /\ SP' = SP /\ FP' = FP /\ BLINK' = BLINK /\ regs' = regs /\ fn' = fn
        /\ part' = part /\ at' = at /\ acts' = acts
    BY DEF PassArgument, regVars
  <1>2. /\ StackInv' /\ PointersInv' /\ RegistersInv'
        /\ TopClaims' = TopClaims /\ OuterClaims(acts)' = OuterClaims(acts) /\ depth' = depth
    BY <1>1, SamePlace
  <1>3. /\ acts # <<>> /\ fn = acts[depth].fn
        /\ depth < MaxDepth[acts[1].fn]
        /\ \E s \in Code[fn].calls : s.fn = pend.fn /\ s.nargs = pend.nargs
        /\ pend = [fn |-> pend.fn, nargs |-> pend.nargs, next |-> pend.next]
        /\ pend.next \in Nat /\ pend.next >= 9 /\ pend.nargs \in Nat
    BY <1>1, CallFacts
  <1>4. PICK n \in Nat : n = pend.next  BY <1>3
  <1>5. PICK m \in Nat : m = pend.nargs  BY <1>3
  <1>6. n >= 9 /\ n <= m  BY <1>1, <1>3, <1>4, <1>5
  <1>7. n \in 9 .. m /\ n - 1 \in Nat  BY ONLY <1>6, n \in Nat, m \in Nat
  <1>8. pend' = [fn |-> pend.fn, nargs |-> pend.nargs, next |-> n + 1]
    <2>1. PICK p : p = pend  OBVIOUS
    <2>2. p = [fn |-> p.fn, nargs |-> p.nargs, next |-> p.next] /\ p.next = n
      BY <1>3, <1>4, <2>1
    <2>3. [p EXCEPT !.next = @ + 1] = [fn |-> p.fn, nargs |-> p.nargs, next |-> n + 1]
      BY <2>2
    <2> QED  BY <1>1, <2>1, <2>3
  <1>9. CallInv'
    <2>1. AtBody(Frame(depth), part, at)'
      <3>1. AtBody(Frame(depth), part, at)  BY <1>1 DEF Inv, CallInv
      <3> QED  BY <1>1, <1>2, <3>1 DEF Frame
    <2>2. \E x \in Frame(depth)'.calls : x.fn = pend'.fn /\ x.nargs = pend'.nargs
      BY <1>1, <1>2, <1>3, <1>8 DEF Frame
    <2>3. pend' = [fn |-> pend'.fn, nargs |-> pend'.nargs, next |-> pend'.next]  BY <1>8
    <2>4. pend'.next = n + 1 /\ pend'.nargs = m  BY <1>5, <1>8
    <2>5. n + 1 \in Nat /\ n + 1 >= 9 /\ n + 1 <= m + 1
      BY ONLY <1>6, n \in Nat, m \in Nat
    <2>6. acts' # <<>> /\ depth' < MaxDepth[acts'[1].fn]  BY <1>1, <1>2, <1>3
    <2> QED  BY <2>1, <2>2, <2>3, <2>4, <2>5, <2>6 DEF CallInv, NumArgRegs
  <1>10. \A a \in 9 .. m :
            /\ SP + LocMemOffset(a) \in Words /\ LocMemOffset(a) = 4 * (a - 9)
            /\ \A x \in TopClaims : x[1] # SP + LocMemOffset(a)
            /\ \A x \in OuterClaims(acts) : x[1] # SP + LocMemOffset(a)
    BY <1>1, <1>5, OutgoingPlaced DEF NumArgRegs
  <1>11. PendClaims = ArgClaims(depth + 1, SP, n - 1)  BY <1>1, <1>4 DEF PendClaims
  <1>12. pend' # NoCall
    <2>1. pend'.next = n + 1 /\ NoCall.next = 0  BY <1>8 DEF NoCall
    <2>2. n + 1 # 0  BY ONLY n \in Nat
    <2> QED  BY <2>1, <2>2
  <1>13. PendClaims' = ArgClaims(depth + 1, SP, n)
    <2>1. pend'.next - 1 = n  BY <1>8
    <2>2. pend' # NoCall'  BY <1>12 DEF NoCall
    <2> QED  BY <1>1, <1>2, <2>1, <2>2 DEF PendClaims
  <1>14. PICK w \in Words : w = SP + LocMemOffset(n)  BY <1>7, <1>10
  <1>15. DOMAIN mem = Words /\ SP \in Int
    BY <1>3, ClaimsBefore
  <1>16. mem' = [mem EXCEPT ![w] = Arg(depth + 1, n)]  BY <1>1, <1>4, <1>14
  <1>17. ASSUME NEW x \in OuterClaims(acts) \cup TopClaims
         PROVE  mem'[x[1]] = x[2]
    <2>1. x[1] # w  BY <1>7, <1>10, <1>14, <1>17
    <2>2. mem[x[1]] = x[2]  BY <1>3, <1>17, TopFacts
    <2>3. x[1] \in Words  BY <1>3, <1>17, ClaimsBefore DEF TopClaims
    <2> QED  BY <1>15, <1>16, <2>1, <2>2, <2>3
  <1>18. ASSUME NEW x \in ArgClaims(depth + 1, SP, n)
         PROVE  mem'[x[1]] = x[2]
    <2>1. PICK a \in 9 .. n : x = <<SP + LocMemOffset(a), Arg(depth + 1, a)>>
      BY <1>18 DEF ArgClaims, NumArgRegs
    <2>2. CASE a = n  BY <1>14, <1>15, <1>16, <2>1, <2>2
    <2>3. CASE a # n
      <3>1. a \in 9 .. n - 1 /\ a \in 9 .. m /\ a \in Int
        BY ONLY <1>6, <2>3, a \in 9 .. n, n \in Nat, m \in Nat
      <3>2. x \in PendClaims  BY <1>11, <2>1, <3>1 DEF ArgClaims, NumArgRegs
      <3>3. mem[x[1]] = x[2] /\ x[1] \in Words  BY <1>3, <3>2, TopFacts, PendPlaced
      <3>4. x[1] # w
        <4>1. PICK q \in Int : q = SP  BY <1>15
        <4>2. x[1] = q + 4 * (a - 9) /\ w = q + 4 * (n - 9)
          BY <1>7, <1>10, <1>14, <2>1, <3>1, <4>1
        <4>3. q + 4 * (a - 9) # q + 4 * (n - 9)
          BY ONLY <2>3, a \in 9 .. n, n \in Nat, q \in Int
        <4> QED  BY <4>2, <4>3
      <3> QED  BY <1>15, <1>16, <3>3, <3>4
    <2> QED  BY <2>2, <2>3
  <1>19. MemoryInv'
    <2>1. DOMAIN mem' = Words  BY <1>15, <1>16
    <2>2. \A x \in OuterClaims(acts)' \cup TopClaims' \cup PendClaims' : mem'[x[1]] = x[2]
      BY <1>2, <1>13, <1>17, <1>18
    <2> QED  BY <2>1, <2>2 DEF MemoryInv
  <1> QED  BY <1>2, <1>9, <1>19 DEF Inv

LEMMA SameClaims ==
  ASSUME NEW c, NEW t, c.fn = t.fn, c.sp = t.sp, c.ret = t.ret, c.keep = t.keep,
         NEW k, NEW up, NEW p, NEW n
  PROVE  /\ FPOf(c) = FPOf(t)
         /\ c.dyn = t.dyn => Bottom(c) = Bottom(t)
         /\ \A o : ObjectAddress(c, o) = ObjectAddress(t, o)
         /\ c.written \subseteq t.written =>
               FrameClaims(k, c, up, p, n) \subseteq FrameClaims(k, t, up, p, n)
         /\ \A o : c.written \subseteq t.written \cup {o} =>
               \A x \in FrameClaims(k, c, up, p, n) :
                  x \in FrameClaims(k, t, up, p, n) \/ x = <<ObjectAddress(t, o), Loc(k, o)>>
  <1>1. FPOf(c) = FPOf(t)  BY DEF FPOf
  <1>2. c.dyn = t.dyn => Bottom(c) = Bottom(t)  BY <1>1 DEF Bottom
  <1>3. \A o : ObjectAddress(c, o) = ObjectAddress(t, o)  BY <1>1 DEF ObjectAddress
  <1>4. FPClaims(c, up, p, n) = FPClaims(t, up, p, n)  BY <1>1 DEF FPClaims
  <1>5. LinkClaims(c, p, n) = LinkClaims(t, p, n)  BY <1>1 DEF LinkClaims
  <1>6. \A j : SlotAddress(c, j) = SlotAddress(t, j)  BY <1>1 DEF SlotAddress
  <1>7. SlotClaims(c, p, n) = SlotClaims(t, p, n)  BY <1>6 DEF SlotClaims
  <1>8. \A j : AreaAddress(c, j) = AreaAddress(t, j)  BY <1>1 DEF AreaAddress
  <1>9. AreaClaims(k, c, p, n) = AreaClaims(k, t, p, n)  BY <1>8 DEF AreaClaims
  <1>10. c.written \subseteq t.written => WrittenClaims(k, c) \subseteq WrittenClaims(k, t)
    BY <1>3 DEF WrittenClaims
  <1>11. ASSUME NEW o, c.written \subseteq t.written \cup {o}, NEW x \in WrittenClaims(k, c)
         PROVE  x \in WrittenClaims(k, t) \/ x = <<ObjectAddress(t, o), Loc(k, o)>>
    <2>1. PICK q \in c.written : x = <<ObjectAddress(c, q), Loc(k, q)>>
      BY <1>11 DEF WrittenClaims
    <2>2. x = <<ObjectAddress(t, q), Loc(k, q)>>  BY <1>3, <2>1
    <2>3. q \in t.written \/ q = o  BY <1>11
    <2> QED  BY <2>2, <2>3 DEF WrittenClaims
  <1>12. c.written \subseteq t.written =>
            FrameClaims(k, c, up, p, n) \subseteq FrameClaims(k, t, up, p, n)
    BY <1>4, <1>5, <1>7, <1>9, <1>10 DEF FrameClaims
  <1>13. ASSUME NEW o, c.written \subseteq t.written \cup {o},
                NEW x \in FrameClaims(k, c, up, p, n)
         PROVE  x \in FrameClaims(k, t, up, p, n) \/ x = <<ObjectAddress(t, o), Loc(k, o)>>
    <2>1. CASE x \in WrittenClaims(k, c)  BY <1>11, <1>13, <2>1 DEF FrameClaims
    <2>2. CASE x \notin WrittenClaims(k, c)
      BY <1>4, <1>5, <1>7, <1>9, <1>13, <2>2 DEF FrameClaims
    <2> QED  BY <2>1, <2>2
  <1> QED  BY <1>1, <1>2, <1>3, <1>12, <1>13

\* What a step of the body that changes the running activation has to establish.
LEMMA AfterBody ==
  ASSUME Inv, InBody, pend = NoCall, NEW t, t = acts[depth], NEW c, ActivationSound(c),
         c.fn = t.fn, c.sp = t.sp, c.ret = t.ret, c.nargs = t.nargs, c.keep = t.keep,
         acts' = [acts EXCEPT ![depth] = c],
         SP' = Bottom(c), FP' = FP, BLINK' = BLINK, regs' = regs,
         fn' = fn, part' = part, at' = at, pend' = pend,
         DOMAIN mem' = Words,
         \A x \in OuterClaims(acts) : mem'[x[1]] = x[2],
         \A x \in FrameClaims(depth, c, CallerFP(acts, depth), part, at) : mem'[x[1]] = x[2]
  PROVE  Inv'
  <1>1. /\ acts # <<>> /\ fn = t.fn /\ fn \in Functions
        /\ part = "entry" /\ at = EntryEnd(Code[fn]) + 1 /\ AtBody(Code[fn], part, at)
        /\ FP = FPOf(t)
    BY BodyFacts
  <1>2. Stacked(acts) /\ depth \in Nat /\ depth \in 1 .. Len(acts)  BY <1>1, TopFacts
  <1>3. PICK bs : bs = acts'  OBVIOUS
  <1>4. bs = [acts EXCEPT ![Len(acts)] = c] /\ t = acts[Len(acts)]  BY <1>3 DEF depth
  <1>5. PICK as : as = acts  OBVIOUS
  <1>6. /\ Stacked(bs) /\ bs # <<>> /\ Len(bs) = Len(as) /\ bs[Len(as)] = c
        /\ CallerFP(bs, Len(as)) = CallerFP(as, Len(as))
        /\ OuterClaims(bs) = OuterClaims(as) /\ bs[1].fn = as[1].fn
    <2>1. Stacked(as) /\ as # <<>> /\ bs = Replaced(as, c)
      BY <1>1, <1>2, <1>4, <1>5 DEF Replaced
    <2>2. SameCall(c, as[Len(as)])  BY <1>4, <1>5 DEF SameCall
    <2> QED  BY ONLY <2>1, <2>2, ReplaceTop
  <1>7. depth' = depth /\ depth = Len(as)  BY <1>3, <1>5, <1>6 DEF depth
  <1>8. acts' # <<>> /\ acts'[depth'] = c  BY <1>3, <1>6, <1>7
  <1>9. StackInv'  BY <1>1, <1>3, <1>6, <1>8 DEF StackInv
  <1>10. EntryEnd(Code[fn]) \in Nat  BY <1>1, PlaceNumbers DEF Ends
  <1>11. PlaceSound(c, part, at)
    <2>1. PICK e \in Nat : e = EntryEnd(Code[fn])  BY <1>10
    <2>2. at = e + 1 /\ at \in 1 .. e + 1 /\ ~(at <= e)  BY <1>1, <2>1
    <2>3. c.fn = fn  BY <1>1
    <2> QED  BY <1>1, <2>1, <2>2, <2>3 DEF PlaceSound, End
  <1>12. c.fn \in Functions /\ c.sp \in Int /\ c.dyn \in Nat  BY ActivationFacts
  <1>13. CallerFP(acts, depth)' = CallerFP(acts, depth)  BY <1>3, <1>5, <1>6, <1>7
  <1>14. SPAt(c, part, at) = Bottom(c) /\ FPAt(c, CallerFP(acts, depth), part, at) = FPOf(c)
    <2>1. PICK n : n = at  OBVIOUS
    <2>2. PICK up : up = CallerFP(acts, depth)  OBVIOUS
    <2>3. n = EntryEnd(Code[c.fn]) + 1  BY <1>1, <2>1
    <2>4. SPAt(c, "entry", n) = Bottom(c) /\ FPAt(c, up, "entry", n) = FPOf(c)
      BY <1>12, <2>3, PointersInBody
    <2> QED  BY <1>1, <2>1, <2>2, <2>4
  <1>15. FPOf(c) = FPOf(t)  BY DEF FPOf
  <1>16. PointersInv'
    <2>1. PlaceSound(acts[depth], part, at)'  BY <1>8, <1>11
    <2>2. SP' = SPAt(c, part, at)  BY <1>14
    <2>3. FP' = FPAt(c, CallerFP(acts, depth)', part, at)  BY <1>1, <1>13, <1>14, <1>15
    <2>4. Frame(depth)' = Code[fn]  BY <1>1, <1>8 DEF Frame
    <2>5. LinkKept(Code[fn], part, at) => BLINK' = c.ret  BY <1>1, TopFacts
    <2> QED  BY <1>8, <2>1, <2>2, <2>3, <2>4, <2>5 DEF PointersInv
  <1>17. RegistersInv'
    <2>1. Frame(depth)' = Code[fn]  BY <1>1, <1>8 DEF Frame
    <2>2. \A r \in Registers : RegisterKept(Code[fn], part, at, r) => regs[r] = c.keep[r]
      BY <1>1, TopFacts
    <2>3. regs \in [Registers -> RegisterValues]  BY DEF Inv, RegistersInv
    <2> QED  BY <1>8, <2>1, <2>2, <2>3 DEF RegistersInv
  <1>18. CallInv'  BY DEF CallInv, NoCall
  <1>19. MemoryInv'
    <2>1. OuterClaims(acts)' = OuterClaims(acts)  BY <1>3, <1>5, <1>6
    <2>2. TopClaims' = FrameClaims(depth, c, CallerFP(acts, depth), part, at)
      BY <1>7, <1>8, <1>13 DEF TopClaims
    <2>3. PendClaims' = {}
      <3>1. PendClaims' = ArgClaims(depth' + 1, SP', 0)  BY DEF PendClaims, NoCall
      <3>2. \A k, sp : ArgClaims(k, sp, 0) = {}  BY NoArgClaims
      <3> QED  BY <3>1, <3>2
    <2>4. \A x \in OuterClaims(acts)' \cup TopClaims' \cup PendClaims' : mem'[x[1]] = x[2]
      BY <2>1, <2>2, <2>3
    <2> QED  BY <2>4 DEF MemoryInv
  <1> QED  BY <1>9, <1>16, <1>17, <1>18, <1>19 DEF Inv

\* Where the words of the running activation are.
WordOf(c, o) ==
    \/ o[1] = "obj" /\ o \in ObjectWords(Code[c.fn])
    \/ /\ o = <<"dyn", o[2], 0>> /\ o[2] \in Nat /\ o[2] % UNITS_PER_WORD = 0
       /\ Bottom(c) <= o[2] /\ o[2] < Bottom(c) + c.dyn

LEMMA WriteStep ==
  ASSUME Inv, InBody, pend = NoCall, NEW t, t = acts[depth],
         NEW o, o \in WordNames, WordOf(t, o), NEW w, w \in Words, w = ObjectAddress(t, o),
         w < t.sp,
         \A x \in FrameClaims(depth, t, CallerFP(acts, depth), part, at) :
            x[1] = w => x[2] = Loc(depth, o),
         mem' = [mem EXCEPT ![w] = Loc(depth, o)],
         acts' = [acts EXCEPT ![depth].written = @ \cup {o}],
         UNCHANGED <<regVars, fn, part, at, pend>>
  PROVE  Inv'
  <1>1. /\ SP' = SP /\ FP' = FP /\ BLINK' = BLINK /\ regs' = regs
        /\ fn' = fn /\ part' = part /\ at' = at /\ pend' = pend
    BY DEF regVars
  <1>2. acts # <<>> /\ fn = t.fn /\ SP = Bottom(t)  BY BodyFacts
  <1>3. ActivationSound(t) /\ Stacked(acts) /\ depth \in 1 .. Len(acts)  BY <1>2, TopFacts
  <1>4. PICK c : c = [fn |-> t.fn, sp |-> t.sp, ret |-> t.ret, nargs |-> t.nargs,
                      keep |-> t.keep, written |-> t.written \cup {o}, dyn |-> t.dyn]
    OBVIOUS
  <1>5. t \in Activations  BY <1>3 DEF ActivationSound
  <1>6. c = [t EXCEPT !.written = @ \cup {o}]
    <2>1. t = [fn |-> t.fn, sp |-> t.sp, ret |-> t.ret, nargs |-> t.nargs,
               keep |-> t.keep, written |-> t.written, dyn |-> t.dyn]
      BY <1>5 DEF Activations
    <2> QED  BY ONLY <1>4, <2>1
  <1>7. /\ c.fn = t.fn /\ c.sp = t.sp /\ c.ret = t.ret /\ c.nargs = t.nargs
        /\ c.keep = t.keep /\ c.dyn = t.dyn /\ c.written = t.written \cup {o}
    BY <1>4
  <1>8. Bottom(c) = Bottom(t)  BY <1>7, SameClaims
  <1>9. c \in Activations
    <2>1. t.written \cup {o} \in SUBSET WordNames  BY <1>5 DEF Activations
    <2> QED  BY <1>4, <1>5, <2>1 DEF Activations
  <1>10. WrittenInside(c)
    <2>1. ASSUME NEW q \in t.written \cup {o}
          PROVE  WordOf(t, q)
      BY <1>3 DEF ActivationSound, WrittenInside, WordOf
    <2> QED  BY <1>7, <1>8, <2>1 DEF WrittenInside, WordOf
  <1>11. ActivationSound(c)  BY <1>3, <1>7, <1>9, <1>10 DEF ActivationSound
  <1>12. acts' = [acts EXCEPT ![depth] = c]  BY <1>6
  <1>13. PICK T : T = FrameClaims(depth, c, CallerFP(acts, depth), part, at)  OBVIOUS
  <1>14. PICK S : S = FrameClaims(depth, t, CallerFP(acts, depth), part, at)  OBVIOUS
  <1>15. \A x \in T : x \in S \/ x = <<w, Loc(depth, o)>>
    <2>1. c.written \subseteq t.written \cup {o}  BY <1>7
    <2> QED  BY <1>7, <1>13, <1>14, <2>1, SameClaims
  <1>16. /\ DOMAIN mem = Words /\ \A x \in S : mem[x[1]] = x[2] /\ x[1] \in Words
         /\ \A x \in OuterClaims(acts) : mem[x[1]] = x[2] /\ x[1] \in Words /\ t.sp <= x[1]
    BY <1>2, <1>14, ClaimsBefore
  <1>17. \A x \in S : x[1] = w => x[2] = Loc(depth, o)  BY <1>14
  <1>18. PICK v : v = Loc(depth, o)  OBVIOUS
  <1>19. mem' = [mem EXCEPT ![w] = v]  BY <1>18
  <1>20. PICK m : m = mem  OBVIOUS
  <1>21. /\ DOMAIN [m EXCEPT ![w] = v] = Words
         /\ \A x \in T : [m EXCEPT ![w] = v][x[1]] = x[2]
    <2>1. DOMAIN m = Words /\ \A x \in S : m[x[1]] = x[2] /\ x[1] \in Words
      BY <1>16, <1>20
    <2>2. \A x \in T : (x \in S /\ (x[1] = w => x[2] = v)) \/ x = <<w, v>>
      BY <1>15, <1>17, <1>18
    <2> QED  BY <2>1, <2>2, StoreKeeps
  <1>22. DOMAIN mem' = Words /\ \A x \in T : mem'[x[1]] = x[2]  BY <1>19, <1>20, <1>21
  <1>23. ASSUME NEW x \in OuterClaims(acts)
         PROVE  mem'[x[1]] = x[2]
    <2>1. mem[x[1]] = x[2] /\ x[1] \in Words /\ t.sp <= x[1]  BY <1>16
    <2>2. x[1] # w
      <3>1. t.sp \in Int /\ w \in Int /\ x[1] \in Int
        BY <1>3, <2>1, ActivationFacts, WordAddresses
      <3>2. PICK s \in Int : s = t.sp  BY <3>1
      <3>3. PICK y \in Int : y = x[1]  BY <3>1
      <3>4. s <= y /\ w < s  BY <2>1, <3>2, <3>3
      <3>5. y # w  BY ONLY <3>1, <3>4, s \in Int, y \in Int
      <3> QED  BY <3>3, <3>5
    <2> QED  BY <1>16, <1>19, <2>1, <2>2
  <1>24. SP' = Bottom(c)  BY <1>1, <1>2, <1>8
  <1>25. \A x \in FrameClaims(depth, c, CallerFP(acts, depth), part, at) : mem'[x[1]] = x[2]
    BY <1>13, <1>22
  <1> QED
    BY <1>1, <1>7, <1>11, <1>12, <1>22, <1>23, <1>24, <1>25, AfterBody

\* The words of the frame, between the running activation's SP and its caller's.
LEMMA FrameWord ==
  ASSUME Inv, InBody, NEW t, t = acts[depth], NEW w, w \in Int, w % 4 = 0,
         Bottom(t) <= w, w + 4 <= FPOf(t)
  PROVE  w \in Words /\ w < t.sp
  <1>1. acts # <<>>  BY BodyFacts
  <1>2. ActivationSound(t)  BY <1>1, TopFacts
  <1>3. t.fn \in Functions /\ t.sp \in Int /\ t.sp % 4 = 0 /\ t.sp <= StackTop
        /\ t.dyn \in Nat /\ t.dyn % 4 = 0
    BY <1>2, ActivationFacts
  <1>4. FPOf(t) \in Int /\ FPOf(t) + 4 <= t.sp /\ Bottom(t) \in Int /\ 0 <= Bottom(t)
    BY <1>1, <1>3, BottomOfFrame, ClaimsBefore
  <1>5. PICK b \in Int : b = Bottom(t)  BY <1>4
  <1>6. PICK f1 \in Int : f1 = FPOf(t)  BY <1>4
  <1>7. PICK s \in Int : s = t.sp  BY <1>3
  <1>8. PICK e \in Int : e = StackTop  BY StackAssumption
  <1>9. 0 <= b /\ b <= w /\ w + 4 <= f1 /\ f1 + 4 <= s /\ s <= e
    BY <1>3, <1>4, <1>5, <1>6, <1>7, <1>8
  <1>10. 0 <= w /\ w < s /\ w < e
    BY ONLY <1>9, w \in Int, b \in Int, f1 \in Int, s \in Int, e \in Int
  <1> QED  BY <1>7, <1>8, <1>10, WordAddresses

LEMMA WriteObjectStep ==
  ASSUME Inv, NEW o \in ObjectWords(Code[fn]), WriteObject(o)
  PROVE  Inv'
  <1>1. /\ InBody /\ pend = NoCall
        /\ mem' = [mem EXCEPT ![Address(FP, Code[fn], o[2], o[3], TRUE)] = Loc(depth, o)]
        /\ acts' = [acts EXCEPT ![depth].written = @ \cup {o}]
        /\ UNCHANGED <<regVars, fn, part, at, pend>>
    BY DEF WriteObject, Running
  <1>2. PICK t : t = acts[depth]  OBVIOUS
  <1>3. acts # <<>> /\ fn = t.fn /\ fn \in Functions /\ FP = FPOf(t)
    BY <1>1, <1>2, BodyFacts
  <1>4. ActivationSound(t)  BY <1>2, <1>3, TopFacts
  <1>5. /\ t.sp \in Int /\ t.sp % 4 = 0 /\ t.dyn \in Nat /\ t.dyn % 4 = 0 /\ WrittenInside(t)
    BY <1>4, ActivationFacts
  <1>6. PICK f : f = Code[fn]  OBVIOUS
  <1>7. /\ o[1] = "obj" /\ o[2] \in Nat /\ o[2] + 1 \in 1 .. Len(f.objs) /\ o[3] \in Nat
        /\ o = <<"obj", o[2], o[3]>>
    BY <1>3, <1>6, WordFacts
  <1>8. o \in WordNames
    <2>1. <<"obj", o[2], o[3]>> \in WordNames  BY <1>7 DEF WordNames
    <2> QED  BY <1>7, <2>1
  <1>9. FPOf(t) \in Int  BY <1>3, <1>5, BottomOfFrame
  <1>10. Address(FP, f, o[2], o[3], TRUE) = FP + f.objs[o[2] + 1].offset + o[3]
    <2>1. PICK fi \in Nat : fi = o[2]  BY <1>7
    <2>2. PICK imm \in Nat : imm = o[3]  BY <1>7
    <2>3. PICK fp \in Int : fp = FP  BY <1>3, <1>9
    <2>4. fi + 1 \in 1 .. Len(f.objs)  BY <1>7, <2>1
    <2>5. PICK g \in Functions : f = Code[g]  BY <1>3, <1>6
    <2>6. PICK st \in BOOLEAN : st = TRUE  OBVIOUS
    <2>7. Address(fp, f, fi, imm, st) = fp + f.objs[fi + 1].offset + imm
      BY <2>4, <2>5, ObjectIndexAddress
    <2> QED  BY <2>1, <2>2, <2>3, <2>6, <2>7
  <1>11. ObjectAddress(t, o) = FP + f.objs[o[2] + 1].offset + o[3]
    BY <1>3, <1>6, <1>7 DEF ObjectAddress
  <1>12. PICK w : w = ObjectAddress(t, o)  OBVIOUS
  <1>13. /\ w \in Int /\ w % 4 = 0 /\ Bottom(t) <= w /\ w + 4 <= FPOf(t)
         /\ \A k, up, p, n : \A x \in FrameClaims(k, t, up, p, n) :
               x[1] = w => x = <<w, Loc(k, o)>>
    BY <1>3, <1>5, <1>12, ObjectFresh
  <1>14. w \in Words /\ w < t.sp  BY <1>1, <1>2, <1>13, FrameWord
  <1>15. mem' = [mem EXCEPT ![w] = Loc(depth, o)]  BY <1>1, <1>6, <1>10, <1>11, <1>12
  <1>16. WordOf(t, o)  BY <1>3, <1>7 DEF WordOf
  <1>17. \A x \in FrameClaims(depth, t, CallerFP(acts, depth), part, at) :
            x[1] = w => x[2] = Loc(depth, o)
    BY <1>13
  <1> QED  BY <1>1, <1>2, <1>8, <1>12, <1>14, <1>15, <1>16, <1>17, WriteStep

LEMMA WriteDynamicStep ==
  ASSUME Inv, NEW a \in Words, WriteDynamic(a)
  PROVE  Inv'
  <1>1. PICK o : o = <<"dyn", a, 0>>  OBVIOUS
  <1>2. /\ InBody /\ pend = NoCall /\ SP <= a /\ a < SP + acts[depth].dyn
        /\ mem' = [mem EXCEPT ![a] = Loc(depth, o)]
        /\ acts' = [acts EXCEPT ![depth].written = @ \cup {o}]
        /\ UNCHANGED <<regVars, fn, part, at, pend>>
    BY <1>1 DEF WriteDynamic, Running, DynamicWords
  <1>3. PICK t : t = acts[depth]  OBVIOUS
  <1>4. acts # <<>> /\ fn = t.fn /\ fn \in Functions /\ SP = Bottom(t)
    BY <1>2, <1>3, BodyFacts
  <1>5. ActivationSound(t)  BY <1>3, <1>4, TopFacts
  <1>6. /\ t.sp \in Int /\ t.sp % 4 = 0 /\ t.dyn \in Nat /\ t.dyn % 4 = 0 /\ WrittenInside(t)
    BY <1>5, ActivationFacts
  <1>7. a \in Int /\ 0 <= a /\ a % 4 = 0  BY WordAddresses
  <1>8. a \in Nat  BY ONLY <1>7
  <1>9. Bottom(t) <= a /\ a < Bottom(t) + t.dyn  BY <1>2, <1>3, <1>4
  <1>10. \A k, up, p, n : \A x \in FrameClaims(k, t, up, p, n) :
            x[1] = a => x = <<a, Loc(k, o)>>
    BY <1>1, <1>4, <1>6, <1>7, <1>9, DynamicFresh
  <1>11. a < t.sp
    <2>1. /\ FPOf(t) \in Int /\ FPOf(t) + 4 <= t.sp /\ Bottom(t) \in Int
          /\ Bottom(t) = FPOf(t) - NumBytes(Code[t.fn]) - t.dyn
      BY <1>4, <1>6, BottomOfFrame
    <2>2. PICK nb \in Nat : nb = NumBytes(Code[t.fn])  BY <1>4, FrameFacts
    <2>3. PICK b \in Int : b = Bottom(t)  BY <2>1
    <2>4. PICK f1 \in Int : f1 = FPOf(t)  BY <2>1
    <2>5. PICK s \in Int : s = t.sp  BY <1>6
    <2>6. PICK d \in Nat : d = t.dyn  BY <1>6
    <2>7. f1 + 4 <= s /\ b = f1 - nb - d /\ a < b + d
      BY <1>9, <2>1, <2>2, <2>3, <2>4, <2>5, <2>6
    <2>8. a < s
      BY ONLY <2>7, <1>7, b \in Int, f1 \in Int, s \in Int, d \in Nat, nb \in Nat
    <2> QED  BY <2>5, <2>8
  <1>12. o[1] = "dyn" /\ o[2] = a /\ o = <<"dyn", o[2], 0>>  BY <1>1
  <1>13. a = ObjectAddress(t, o)  BY <1>12 DEF ObjectAddress
  <1>14. o \in WordNames
    <2>1. <<"dyn", a, 0>> \in WordNames  BY <1>8 DEF WordNames
    <2> QED  BY <1>1, <2>1
  <1>15. WordOf(t, o)  BY <1>7, <1>8, <1>9, <1>12 DEF WordOf, UNITS_PER_WORD
  <1>16. \A x \in FrameClaims(depth, t, CallerFP(acts, depth), part, at) :
            x[1] = a => x[2] = Loc(depth, o)
    BY <1>10
  <1> QED  BY <1>2, <1>3, <1>11, <1>13, <1>14, <1>15, <1>16, WriteStep

\* SP moves, and the activation keeps at most what it has written.
LEMMA MoveStep ==
  ASSUME Inv, InBody, pend = NoCall, NEW t, t = acts[depth], NEW c, SameCall(c, t),
         c.written \subseteq t.written, mem' = mem, acts' = [acts EXCEPT ![depth] = c],
         SP' = Bottom(c), FP' = FP, BLINK' = BLINK, regs' = regs,
         fn' = fn, part' = part, at' = at, pend' = pend
  PROVE  Inv'
  <1>1. /\ ActivationSound(c) /\ c.fn = t.fn /\ c.sp = t.sp /\ c.ret = t.ret
        /\ c.nargs = t.nargs /\ c.keep = t.keep
    BY DEF SameCall
  <1>2. acts # <<>>  BY BodyFacts
  <1>3. /\ DOMAIN mem = Words
        /\ \A x \in OuterClaims(acts) : mem[x[1]] = x[2]
        /\ \A x \in FrameClaims(depth, t, CallerFP(acts, depth), part, at) : mem[x[1]] = x[2]
    BY <1>2, ClaimsBefore
  <1>4. FrameClaims(depth, c, CallerFP(acts, depth), part, at)
           \subseteq FrameClaims(depth, t, CallerFP(acts, depth), part, at)
    BY <1>1, SameClaims
  <1>5. /\ DOMAIN mem' = Words
        /\ \A x \in OuterClaims(acts) : mem'[x[1]] = x[2]
        /\ \A x \in FrameClaims(depth, c, CallerFP(acts, depth), part, at) : mem'[x[1]] = x[2]
    BY <1>3, <1>4
  <1> QED  BY <1>1, <1>5, AfterBody

LEMMA DynamicStackAllocStep ==
  ASSUME Inv, DynamicStackAlloc(UNITS_PER_WORD)
  PROVE  Inv'
  <1>1. /\ InBody /\ pend = NoCall /\ Code[fn].hasVarSized
        /\ acts[depth].dyn + 4 <= MaxDynamic /\ SP' = SP - 4
        /\ acts' = [acts EXCEPT ![depth].dyn = @ + 4]
        /\ mem' = mem /\ FP' = FP /\ BLINK' = BLINK /\ regs' = regs
        /\ fn' = fn /\ part' = part /\ at' = at /\ pend' = pend
    BY DEF DynamicStackAlloc, Running, UNITS_PER_WORD
  <1>2. PICK t : t = acts[depth]  OBVIOUS
  <1>3. acts # <<>> /\ fn = t.fn /\ fn \in Functions /\ SP = Bottom(t)
    BY <1>1, <1>2, BodyFacts
  <1>4. ActivationSound(t)  BY <1>2, <1>3, TopFacts
  <1>5. t.sp \in Int /\ t.sp % 4 = 0 /\ t.dyn \in Nat /\ t.dyn % 4 = 0
    BY <1>4, ActivationFacts
  <1>6. t \in Activations  BY <1>4 DEF ActivationSound
  <1>7. PICK d \in Nat : d = t.dyn  BY <1>5
  <1>8. d % 4 = 0  BY <1>5, <1>7
  <1>9. d + 4 \in Nat /\ (d + 4) % 4 = 0  BY ONLY <1>8, d \in Nat
  <1>10. PICK c : c = [fn |-> t.fn, sp |-> t.sp, ret |-> t.ret, nargs |-> t.nargs,
                       keep |-> t.keep, written |-> t.written, dyn |-> d + 4]
    OBVIOUS
  <1>11. c = [t EXCEPT !.dyn = @ + 4]
    <2>1. t = [fn |-> t.fn, sp |-> t.sp, ret |-> t.ret, nargs |-> t.nargs,
               keep |-> t.keep, written |-> t.written, dyn |-> d]
      BY <1>6, <1>7 DEF Activations
    <2> QED  BY ONLY <1>10, <2>1
  <1>12. acts' = [acts EXCEPT ![depth] = c]  BY <1>1, <1>2, <1>11
  <1>13. /\ c.fn = t.fn /\ c.sp = t.sp /\ c.ret = t.ret /\ c.nargs = t.nargs
         /\ c.keep = t.keep /\ c.dyn = d + 4 /\ c.written = t.written
    BY <1>10
  <1>14. c \in Activations  BY <1>6, <1>9, <1>10 DEF Activations
  <1>15. FPOf(c) = FPOf(t)  BY <1>13, SameClaims
  <1>16. /\ FPOf(t) \in Int /\ Bottom(t) \in Int
         /\ Bottom(t) = FPOf(t) - NumBytes(Code[t.fn]) - t.dyn
    BY <1>3, <1>5, BottomOfFrame
  <1>17. PICK b \in Int : b = Bottom(t)  BY <1>16
  <1>18. Bottom(c) = b - 4
    <2>1. PICK nb \in Nat : nb = NumBytes(Code[t.fn])  BY <1>3, FrameFacts
    <2>2. PICK f1 \in Int : f1 = FPOf(t)  BY <1>16
    <2>3. Bottom(c) = f1 - nb - (d + 4)  BY <1>13, <1>15, <2>1, <2>2 DEF Bottom
    <2>4. b = f1 - nb - d  BY <1>7, <1>16, <1>17, <2>1, <2>2
    <2>5. f1 - nb - (d + 4) = (f1 - nb - d) - 4
      BY ONLY f1 \in Int, nb \in Nat, d \in Nat
    <2> QED  BY <2>3, <2>4, <2>5
  <1>19. WrittenInside(c)
    <2>1. SUFFICES ASSUME NEW o \in t.written PROVE WordOf(c, o)
      BY <1>13 DEF WrittenInside, WordOf
    <2>2. WordOf(t, o)  BY <1>4 DEF ActivationSound, WrittenInside, WordOf
    <2>3. CASE o[1] = "obj" /\ o \in ObjectWords(Code[t.fn])  BY <1>13, <2>3 DEF WordOf
    <2>4. CASE /\ o = <<"dyn", o[2], 0>> /\ o[2] \in Nat /\ o[2] % UNITS_PER_WORD = 0
               /\ Bottom(t) <= o[2] /\ o[2] < Bottom(t) + t.dyn
      <3>1. PICK a \in Nat : a = o[2]  BY <2>4
      <3>2. b <= a /\ a < b + d  BY <1>7, <1>17, <2>4, <3>1
      <3>3. b - 4 <= a /\ a < (b - 4) + (d + 4)
        BY ONLY <3>2, a \in Nat, b \in Int, d \in Nat
      <3> QED  BY <1>13, <1>18, <2>4, <3>1, <3>3 DEF WordOf
    <2> QED  BY <2>2, <2>3, <2>4 DEF WordOf
  <1>20. SameCall(c, t)
    <2>1. c.dyn <= MaxDynamic  BY <1>1, <1>2, <1>7, <1>13
    <2>2. c.dyn % UNITS_PER_WORD = 0  BY <1>9, <1>13 DEF UNITS_PER_WORD
    <2>3. Code[c.fn].hasVarSized  BY <1>1, <1>3, <1>13
    <2>4. /\ t.sp % UNITS_PER_WORD = 0 /\ t.sp <= StackTop
          /\ Code[t.fn].named <= NumArgRegs \/ Code[t.fn].named <= t.nargs
      BY <1>4 DEF ActivationSound
    <2>5. ActivationSound(c)
      BY <1>13, <1>14, <1>19, <2>1, <2>2, <2>3, <2>4 DEF ActivationSound
    <2> QED  BY <1>13, <2>5 DEF SameCall
  <1>21. SP' = Bottom(c)  BY <1>1, <1>3, <1>17, <1>18
  <1>22. c.written \subseteq t.written  BY <1>13
  <1> QED  BY <1>1, <1>2, <1>12, <1>20, <1>21, <1>22, MoveStep

LEMMA StackRestoreStep ==
  ASSUME Inv, StackRestore
  PROVE  Inv'
  <1>1. /\ InBody /\ pend = NoCall /\ SP' = SP + acts[depth].dyn
        /\ acts' = [acts EXCEPT ![depth].dyn = 0,
                                ![depth].written = {o \in @ : o[1] = "obj"}]
        /\ mem' = mem /\ FP' = FP /\ BLINK' = BLINK /\ regs' = regs
        /\ fn' = fn /\ part' = part /\ at' = at /\ pend' = pend
    BY DEF StackRestore, Running
  <1>2. PICK t : t = acts[depth]  OBVIOUS
  <1>3. acts # <<>> /\ fn = t.fn /\ fn \in Functions /\ SP = Bottom(t)
    BY <1>1, <1>2, BodyFacts
  <1>4. ActivationSound(t) /\ Stacked(acts) /\ depth \in 1 .. Len(acts)
    BY <1>2, <1>3, TopFacts
  <1>5. t.sp \in Int /\ t.sp % 4 = 0 /\ t.dyn \in Nat /\ t.dyn % 4 = 0
    BY <1>4, ActivationFacts
  <1>6. t \in Activations  BY <1>4 DEF ActivationSound
  <1>7. PICK d \in Nat : d = t.dyn  BY <1>5
  <1>8. PICK W : W = {o \in t.written : o[1] = "obj"}  OBVIOUS
  <1>9. PICK c : c = [fn |-> t.fn, sp |-> t.sp, ret |-> t.ret, nargs |-> t.nargs,
                      keep |-> t.keep, written |-> W, dyn |-> 0]
    OBVIOUS
  <1>10. c = [t EXCEPT !.dyn = 0, !.written = W]
    <2>1. t = [fn |-> t.fn, sp |-> t.sp, ret |-> t.ret, nargs |-> t.nargs,
               keep |-> t.keep, written |-> t.written, dyn |-> d]
      BY <1>6, <1>7 DEF Activations
    <2>2. PICK u : u = [fn |-> t.fn, sp |-> t.sp, ret |-> t.ret, nargs |-> t.nargs,
                        keep |-> t.keep, written |-> t.written, dyn |-> 0]
      OBVIOUS
    <2>3. u = [t EXCEPT !.dyn = 0]  BY ONLY <2>1, <2>2
    <2>4. c = [u EXCEPT !.written = W]  BY ONLY <1>9, <2>2
    <2>5. [t EXCEPT !.dyn = 0, !.written = W] = [[t EXCEPT !.dyn = 0] EXCEPT !.written = W]
      BY ONLY TRUE
    <2> QED  BY ONLY <2>3, <2>4, <2>5
  <1>11. acts' = [acts EXCEPT ![depth] = c]
    <2>1. PICK as : as = acts  OBVIOUS
    <2>2. PICK i : i = depth  OBVIOUS
    <2>3. as \in [1 .. Len(as) -> Activations] /\ i \in 1 .. Len(as)
      BY <1>4, <2>1, <2>2, LenProperties, Lengths
    <2>4. W = {o \in as[i].written : o[1] = "obj"}  BY <1>2, <1>8, <2>1, <2>2
    <2>5. acts' = [as EXCEPT ![i].dyn = 0, ![i].written = W]
      BY <1>1, <2>1, <2>2, <2>4
    <2>6. [as EXCEPT ![i].dyn = 0, ![i].written = W]
             = [as EXCEPT ![i] = [as[i] EXCEPT !.dyn = 0, !.written = W]]
      BY ONLY <2>3
    <2>7. c = [as[i] EXCEPT !.dyn = 0, !.written = W]  BY <1>2, <1>10, <2>1, <2>2
    <2> QED  BY <2>1, <2>2, <2>5, <2>6, <2>7
  <1>12. /\ c.fn = t.fn /\ c.sp = t.sp /\ c.ret = t.ret /\ c.nargs = t.nargs
         /\ c.keep = t.keep /\ c.dyn = 0 /\ c.written = W
    BY <1>9
  <1>13. c \in Activations
    <2>1. W \in SUBSET WordNames  BY <1>6, <1>8 DEF Activations
    <2> QED  BY <1>6, <1>9, <2>1 DEF Activations
  <1>14. FPOf(c) = FPOf(t)  BY <1>12, SameClaims
  <1>15. /\ FPOf(t) \in Int /\ Bottom(t) \in Int
         /\ Bottom(t) = FPOf(t) - NumBytes(Code[t.fn]) - t.dyn
    BY <1>3, <1>5, BottomOfFrame
  <1>16. Bottom(c) = Bottom(t) + d
    <2>1. PICK nb \in Nat : nb = NumBytes(Code[t.fn])  BY <1>3, FrameFacts
    <2>2. PICK f1 \in Int : f1 = FPOf(t)  BY <1>15
    <2>3. Bottom(c) = f1 - nb - 0  BY <1>12, <1>14, <2>1, <2>2 DEF Bottom
    <2>4. Bottom(t) = f1 - nb - d  BY <1>7, <1>15, <2>1, <2>2
    <2>5. f1 - nb - 0 = (f1 - nb - d) + d  BY ONLY f1 \in Int, nb \in Nat, d \in Nat
    <2> QED  BY <2>3, <2>4, <2>5
  <1>17. WrittenInside(c)
    <2>1. SUFFICES ASSUME NEW o \in W PROVE o[1] = "obj" /\ o \in ObjectWords(Code[c.fn])
      BY <1>12 DEF WrittenInside
    <2>2. o \in t.written /\ o[1] = "obj"  BY <1>8
    <2>3. WordOf(t, o)  BY <1>4, <2>2 DEF ActivationSound, WrittenInside, WordOf
    <2>4. o # <<"dyn", o[2], 0>>  BY <2>2
    <2> QED  BY <1>12, <2>2, <2>3, <2>4 DEF WordOf
  <1>18. SameCall(c, t)
    <2>1. c.dyn <= MaxDynamic /\ c.dyn % UNITS_PER_WORD = 0 /\ ~(c.dyn > 0)
      <3>1. MaxDynamic \in Nat  BY StackAssumption
      <3> QED  BY <1>12, <3>1 DEF UNITS_PER_WORD
    <2>2. /\ t.sp % UNITS_PER_WORD = 0 /\ t.sp <= StackTop
          /\ Code[t.fn].named <= NumArgRegs \/ Code[t.fn].named <= t.nargs
      BY <1>4 DEF ActivationSound
    <2>3. ActivationSound(c)  BY <1>12, <1>13, <1>17, <2>1, <2>2 DEF ActivationSound
    <2> QED  BY <1>12, <2>3 DEF SameCall
  <1>19. SP' = Bottom(c)  BY <1>1, <1>2, <1>3, <1>7, <1>16
  <1>20. c.written \subseteq t.written  BY <1>8, <1>12
  <1> QED  BY <1>1, <1>2, <1>11, <1>18, <1>19, <1>20, MoveStep

(***************************************************************************)
(* Calls and returns.                                                      *)
(***************************************************************************)

\* All outgoing arguments have been stored when the call is made.
LEMMA AllPassed ==
  ASSUME Inv, pend # NoCall, pend.next > pend.nargs
  PROVE  ArgClaims(depth + 1, SP, pend.nargs) \subseteq PendClaims
  <1>1. /\ pend.next \in Nat /\ pend.nargs \in Nat
        /\ pend.next = 9 \/ pend.next <= pend.nargs + 1
    BY CallFacts
  <1>2. PICK n \in Nat : n = pend.next  BY <1>1
  <1>3. PICK m \in Nat : m = pend.nargs  BY <1>1
  <1>4. n > m /\ (n = 9 \/ n <= m + 1)  BY <1>1, <1>2, <1>3
  <1>5. \A a \in 9 .. m : a \in 9 .. n - 1
    BY ONLY <1>4, n \in Nat, m \in Nat
  <1>6. PendClaims = ArgClaims(depth + 1, SP, n - 1)  BY <1>2 DEF PendClaims
  <1> QED  BY <1>3, <1>5, <1>6 DEF ArgClaims, NumArgRegs

LEMMA JLStep ==
  ASSUME Inv, JL
  PROVE  Inv'
  <1>1. /\ pend # NoCall /\ pend.next > pend.nargs
        /\ BLINK' = Ret(fn, pend.fn)
        /\ fn' = pend.fn /\ part' = "entry" /\ at' = 1 /\ pend' = NoCall
        /\ acts' = Append(acts, Activation(pend.fn, SP, BLINK', pend.nargs))
        /\ mem' = mem /\ SP' = SP /\ FP' = FP /\ regs' = regs
    BY DEF JL
  <1>2. PICK t : t = acts[depth]  OBVIOUS
  <1>3. /\ acts # <<>> /\ fn = t.fn /\ fn \in Functions
        /\ part = "entry" /\ at = EntryEnd(Code[fn]) + 1
        /\ FP = FPOf(t) /\ SP = Bottom(t)
        /\ depth < MaxDepth[acts[1].fn]
        /\ \E s \in Code[fn].calls : s.fn = pend.fn /\ s.nargs = pend.nargs
    BY <1>1, <1>2, CallFacts
  <1>4. /\ ActivationSound(t) /\ Stacked(acts) /\ depth \in Nat /\ depth >= 1
        /\ \A r \in Registers : RegisterKept(Code[fn], part, at, r) => regs[r] = t.keep[r]
        /\ \A x \in OuterClaims(acts) \cup TopClaims \cup PendClaims : mem[x[1]] = x[2]
    BY <1>2, <1>3, TopFacts
  <1>5. PICK s \in Code[fn].calls : s.fn = pend.fn /\ s.nargs = pend.nargs  BY <1>3
  <1>6. s.fn \in Functions /\ s.nargs \in Nat /\ Code[s.fn].named <= s.nargs
    BY <1>3, SiteFacts
  <1>7. PICK d : d = [fn |-> s.fn, sp |-> SP, ret |-> Ret(fn, s.fn), nargs |-> s.nargs,
                      keep |-> regs, written |-> {}, dyn |-> 0]
    OBVIOUS
  <1>8. /\ d.fn = s.fn /\ d.sp = SP /\ d.ret = Ret(fn, s.fn) /\ d.nargs = s.nargs
        /\ d.keep = regs /\ d.written = {} /\ d.dyn = 0
    BY <1>7
  <1>9. DOMAIN mem = Words /\ regs \in [Registers -> RegisterValues]
    BY <1>3, ClaimsBefore
  <1>10. SP \in Int /\ SP % 4 = 0 /\ SP <= StackTop
    <2>1. SP \in Int /\ SP % 4 = 0 /\ SP <= t.sp  BY <1>2, <1>3, ClaimsBefore
    <2>2. t.sp \in Int /\ t.sp <= StackTop  BY <1>4, ActivationFacts
    <2>3. PICK q \in Int : q = SP  BY <2>1
    <2>4. PICK y \in Int : y = t.sp  BY <2>2
    <2>5. PICK e \in Int : e = StackTop  BY StackAssumption
    <2>6. q <= y /\ y <= e  BY <2>1, <2>2, <2>3, <2>4, <2>5
    <2>7. q <= e  BY ONLY <2>6, q \in Int, y \in Int, e \in Int
    <2> QED  BY <2>1, <2>3, <2>5, <2>7
  <1>11. d \in Activations
    <2>1. Ret(fn, s.fn) \in ReturnAddresses  BY <1>3, <1>6 DEF Ret, ReturnAddresses
    <2> QED  BY <1>6, <1>7, <1>9, <1>10, <2>1 DEF Activations
  <1>12. ActivationSound(d)
    <2>1. d.sp % UNITS_PER_WORD = 0 /\ d.sp <= StackTop  BY <1>8, <1>10 DEF UNITS_PER_WORD
    <2>2. d.dyn <= MaxDynamic /\ d.dyn % UNITS_PER_WORD = 0 /\ ~(d.dyn > 0)
      <3>1. MaxDynamic \in Nat  BY StackAssumption
      <3> QED  BY <1>8, <3>1 DEF UNITS_PER_WORD
    <2>3. WrittenInside(d)  BY <1>8 DEF WrittenInside
    <2> QED  BY <1>6, <1>8, <1>11, <2>1, <2>2, <2>3 DEF ActivationSound
  <1>13. CallLink(t, d)
    <2>1. ASSUME NEW r \in Registers,
                 \A j \in 1 .. SpillCount(Code[t.fn]) : Code[t.fn].csi[j].reg # r
          PROVE  d.keep[r] = t.keep[r]
      <3>1. RegisterKept(Code[fn], "entry", EntryEnd(Code[fn]) + 1, r)
        BY <1>3, <2>1, RegisterSteps
      <3> QED  BY <1>3, <1>4, <1>8, <3>1
    <2> QED  BY <1>3, <1>5, <1>8, <2>1 DEF CallLink
  <1>14. PICK as : as = acts  OBVIOUS
  <1>15. PICK bs : bs = acts'  OBVIOUS
  <1>16. bs = Pushed(as, d)
    <2>1. Activation(pend.fn, SP, BLINK', pend.nargs) = d
      BY <1>1, <1>5, <1>7 DEF Activation
    <2> QED  BY <1>1, <1>14, <1>15, <2>1 DEF Pushed
  <1>17. /\ Stacked(bs) /\ bs # <<>> /\ Len(bs) = Len(as) + 1 /\ bs[Len(as) + 1] = d
         /\ OneMore(as, bs, Len(as))
    <2>1. /\ Stacked(as) /\ as # <<>> /\ CallLink(as[Len(as)], d)
          /\ Len(as) < MaxDepth[as[1].fn]
      BY <1>2, <1>3, <1>4, <1>13, <1>14 DEF depth
    <2>2. MayCall(as, d)  BY <1>12, <2>1 DEF MayCall
    <2> QED  BY ONLY <1>16, <2>2, StackedPush
  <1>18. PICK l \in Nat : l = depth  BY <1>4
  <1>19. l # 0 /\ Len(as) = l /\ Len(bs) = l + 1 /\ as[l] = t
    BY <1>2, <1>4, <1>14, <1>17, <1>18 DEF depth
  <1>20. /\ OuterClaims(bs) =
               OuterClaims(as)
                  \cup FrameClaims(l, as[l], CallerFP(as, l), "entry", EntryEnd(Code[as[l].fn]) + 1)
                  \cup ArgClaims(l + 1, bs[l + 1].sp, bs[l + 1].nargs)
         /\ CallerFP(bs, l + 1) = FPOf(as[l])
    <2>1. OneMore(as, bs, l)  BY <1>17, <1>19
    <2> QED  BY ONLY <2>1, OuterAppend
  <1>21. depth' = l + 1 /\ acts' # <<>> /\ acts'[depth'] = d
    BY <1>15, <1>17, <1>19 DEF depth
  <1>22. StackInv'  BY <1>1, <1>5, <1>8, <1>15, <1>17, <1>21 DEF StackInv
  <1>23. CallerFP(acts, depth)' = FPOf(t)  BY <1>15, <1>19, <1>20, <1>21
  <1>24. Frame(depth)' = Code[d.fn]  BY <1>21 DEF Frame
  <1>25. PointersInv'
    <2>1. EntryEnd(Code[d.fn]) \in Nat  BY <1>6, <1>8, PlaceNumbers DEF Ends
    <2>2. PICK e \in Nat : e = EntryEnd(Code[d.fn])  BY <2>1
    <2>3. 1 \in 1 .. e + 1  OBVIOUS
    <2>4. PlaceSound(d, "entry", 1)  BY <1>8, <2>2, <2>3 DEF PlaceSound, End
    <2>5. \A up : SPAt(d, "entry", 1) = d.sp /\ FPAt(d, up, "entry", 1) = up
      BY <1>6, <1>8, <1>10, PointersOnEntry
    <2>6. PlaceSound(acts[depth], part, at)'  BY <1>1, <1>21, <2>4
    <2>7. SP' = SPAt(acts'[depth'], part', at')  BY <1>1, <1>8, <1>21, <2>5
    <2>8. FP' = FPAt(acts'[depth'], CallerFP(acts, depth)', part', at')
      BY <1>1, <1>3, <1>21, <1>23, <2>5
    <2>9. BLINK' = acts'[depth'].ret  BY <1>1, <1>5, <1>8, <1>21
    <2> QED  BY <1>21, <2>6, <2>7, <2>8, <2>9 DEF PointersInv
  <1>26. RegistersInv'
    <2>1. \A r : regs'[r] = acts'[depth'].keep[r]  BY <1>1, <1>8, <1>21
    <2> QED  BY <1>1, <1>9, <2>1 DEF RegistersInv
  <1>27. CallInv'  BY <1>1 DEF CallInv, NoCall
  <1>28. MemoryInv'
    <2>1. OuterClaims(acts)' = OuterClaims(acts) \cup TopClaims \cup ArgClaims(depth + 1, SP, pend.nargs)
      <3>1. TopClaims = FrameClaims(l, as[l], CallerFP(as, l), "entry", EntryEnd(Code[as[l].fn]) + 1)
        BY <1>2, <1>3, <1>14, <1>18, <1>19 DEF TopClaims
      <3>2. bs[l + 1] = d  BY <1>17, <1>19
      <3>3. ArgClaims(l + 1, bs[l + 1].sp, bs[l + 1].nargs) = ArgClaims(depth + 1, SP, pend.nargs)
        BY <1>5, <1>8, <1>18, <3>2
      <3> QED  BY <1>14, <1>15, <1>20, <3>1, <3>3
    <2>2. ArgClaims(depth + 1, SP, pend.nargs) \subseteq PendClaims  BY <1>1, AllPassed
    <2>3. TopClaims' = {}
      <3>1. \A k, up : FrameClaims(k, d, up, "entry", 1) = {}  BY <1>6, <1>8, NoClaimsYet
      <3> QED  BY <1>1, <1>21, <3>1 DEF TopClaims
    <2>4. PendClaims' = {}
      <3>1. PendClaims' = ArgClaims(depth' + 1, SP', 0)  BY <1>1 DEF PendClaims, NoCall
      <3>2. \A k, sp : ArgClaims(k, sp, 0) = {}  BY NoArgClaims
      <3> QED  BY <3>1, <3>2
    <2>5. \A x \in OuterClaims(acts)' \cup TopClaims' \cup PendClaims' : mem'[x[1]] = x[2]
      BY <1>1, <1>4, <2>1, <2>2, <2>3, <2>4
    <2> QED  BY <1>1, <1>9, <2>5 DEF MemoryInv
  <1> QED  BY <1>22, <1>25, <1>26, <1>27, <1>28 DEF Inv

LEMMA BeginReturnStep ==
  ASSUME Inv, BeginReturn
  PROVE  Inv'
  <1>1. /\ InBody /\ pend = NoCall /\ part' = "exit" /\ at' = 1
        /\ acts' = [acts EXCEPT ![depth].written = {}]
        /\ mem' = mem /\ SP' = SP /\ FP' = FP /\ BLINK' = BLINK /\ regs' = regs
        /\ fn' = fn /\ pend' = pend
    BY DEF BeginReturn, Running, regVars
  <1>2. PICK t : t = acts[depth]  OBVIOUS
  <1>3. /\ acts # <<>> /\ fn = t.fn /\ fn \in Functions
        /\ part = "entry" /\ at = EntryEnd(Code[fn]) + 1 /\ AtBody(Code[fn], part, at)
        /\ FP = FPOf(t) /\ SP = Bottom(t)
    BY <1>1, <1>2, BodyFacts
  <1>4. /\ ActivationSound(t) /\ Stacked(acts) /\ depth \in Nat /\ depth \in 1 .. Len(acts)
        /\ LinkKept(Code[fn], part, at) => BLINK = t.ret
        /\ \A r \in Registers : RegisterKept(Code[fn], part, at, r) => regs[r] = t.keep[r]
        /\ \A x \in OuterClaims(acts) \cup TopClaims \cup PendClaims : mem[x[1]] = x[2]
    BY <1>2, <1>3, TopFacts
  <1>5. t \in Activations  BY <1>4 DEF ActivationSound
  <1>6. PICK c : c = [fn |-> t.fn, sp |-> t.sp, ret |-> t.ret, nargs |-> t.nargs,
                      keep |-> t.keep, written |-> {}, dyn |-> t.dyn]
    OBVIOUS
  <1>7. c = [t EXCEPT !.written = {}]
    <2>1. t = [fn |-> t.fn, sp |-> t.sp, ret |-> t.ret, nargs |-> t.nargs,
               keep |-> t.keep, written |-> t.written, dyn |-> t.dyn]
      BY <1>5 DEF Activations
    <2> QED  BY ONLY <1>6, <2>1
  <1>8. /\ c.fn = t.fn /\ c.sp = t.sp /\ c.ret = t.ret /\ c.nargs = t.nargs
        /\ c.keep = t.keep /\ c.written = {} /\ c.dyn = t.dyn
    BY <1>6
  <1>9. c \in Activations  BY <1>5, <1>6 DEF Activations
  <1>10. ActivationSound(c)
    <2>1. WrittenInside(c)  BY <1>8 DEF WrittenInside
    <2> QED  BY <1>4, <1>8, <1>9, <2>1 DEF ActivationSound
  <1>11. SameCall(c, t)  BY <1>8, <1>10 DEF SameCall
  <1>12. PICK as : as = acts  OBVIOUS
  <1>13. PICK bs : bs = acts'  OBVIOUS
  <1>14. bs = Replaced(as, c)
    <2>1. acts' = [acts EXCEPT ![depth] = c]  BY <1>1, <1>2, <1>7
    <2> QED  BY <1>12, <1>13, <2>1 DEF Replaced, depth
  <1>15. /\ Stacked(bs) /\ bs # <<>> /\ Len(bs) = Len(as) /\ bs[Len(as)] = c
         /\ CallerFP(bs, Len(as)) = CallerFP(as, Len(as))
         /\ OuterClaims(bs) = OuterClaims(as) /\ bs[1].fn = as[1].fn
    <2>1. Stacked(as) /\ as # <<>> /\ SameCall(c, as[Len(as)])
      BY <1>2, <1>3, <1>4, <1>11, <1>12 DEF depth
    <2> QED  BY ONLY <1>14, <2>1, ReplaceTop
  <1>16. depth' = depth /\ depth = Len(as)  BY <1>12, <1>13, <1>15 DEF depth
  <1>17. acts' # <<>> /\ acts'[depth'] = c  BY <1>13, <1>15, <1>16
  <1>18. CallerFP(acts, depth)' = CallerFP(acts, depth)  BY <1>12, <1>13, <1>15, <1>16
  <1>19. Frame(depth)' = Code[fn]  BY <1>3, <1>8, <1>17 DEF Frame
  <1>20. StackInv'  BY <1>1, <1>3, <1>8, <1>13, <1>15, <1>17 DEF StackInv
  <1>21. c.fn \in Functions /\ c.sp \in Int /\ c.dyn \in Nat /\ (c.dyn > 0 => Code[c.fn].hasVarSized)
    BY <1>10, ActivationFacts
  <1>22. PointersInv'
    <2>1. ExitEnd(Code[c.fn]) \in Nat  BY <1>21, PlaceNumbers DEF Ends
    <2>2. PICK e \in Nat : e = ExitEnd(Code[c.fn])  BY <2>1
    <2>3. 1 \in 1 .. e + 1  OBVIOUS
    <2>4. PlaceSound(c, "exit", 1)  BY <1>8, <2>2, <2>3 DEF PlaceSound, End
    <2>5. \A up : SPAt(c, "exit", 1) = Bottom(c) /\ FPAt(c, up, "exit", 1) = FPOf(c)
      BY <1>21, PointersInExit
    <2>6. Bottom(c) = Bottom(t) /\ FPOf(c) = FPOf(t)  BY <1>8, SameClaims
    <2>7. PlaceSound(acts[depth], part, at)'  BY <1>1, <1>17, <2>4
    <2>8. SP' = SPAt(acts'[depth'], part', at')  BY <1>1, <1>3, <1>17, <2>5, <2>6
    <2>9. FP' = FPAt(acts'[depth'], CallerFP(acts, depth)', part', at')
      BY <1>1, <1>3, <1>17, <2>5, <2>6
    <2>10. LinkKept(Code[fn], "exit", 1) => LinkKept(Code[fn], "entry", EntryEnd(Code[fn]) + 1)
      BY <1>3, LinkSteps
    <2>11. LinkKept(Frame(depth)', part', at') => BLINK' = acts'[depth'].ret
      BY <1>1, <1>3, <1>4, <1>8, <1>17, <1>19, <2>10
    <2> QED  BY <1>17, <2>7, <2>8, <2>9, <2>11 DEF PointersInv
  <1>23. RegistersInv'
    <2>1. \A r : RegisterKept(Code[fn], "exit", 1, r) =>
                    RegisterKept(Code[fn], "entry", EntryEnd(Code[fn]) + 1, r)
      BY <1>3, RegisterSteps
    <2>2. \A r \in Registers :
             RegisterKept(Frame(depth)', part', at', r) => regs'[r] = acts'[depth'].keep[r]
      BY <1>1, <1>3, <1>4, <1>8, <1>17, <1>19, <2>1
    <2>3. regs \in [Registers -> RegisterValues]  BY DEF Inv, RegistersInv
    <2> QED  BY <1>1, <2>2, <2>3 DEF RegistersInv
  <1>24. CallInv'  BY <1>1 DEF CallInv, NoCall
  <1>25. MemoryInv'
    <2>1. OuterClaims(acts)' = OuterClaims(acts)  BY <1>12, <1>13, <1>15
    <2>2. TopClaims' = FrameClaims(depth, c, CallerFP(acts, depth), "exit", 1)
      BY <1>1, <1>16, <1>17, <1>18 DEF TopClaims
    <2>3. FrameClaims(depth, c, CallerFP(acts, depth), "exit", 1) \subseteq TopClaims
      <3>1. PICK n : n = at  OBVIOUS
      <3>2. AtBody(Code[t.fn], "entry", n) /\ t.fn \in Functions  BY <1>3, <3>1
      <3>3. \A k, up : FrameClaims(k, c, up, "exit", 1) \subseteq FrameClaims(k, t, up, "entry", n)
        BY <1>8, <3>2, ReturnClaims
      <3> QED  BY <1>2, <1>3, <3>1, <3>3 DEF TopClaims
    <2>4. PendClaims' = {}
      <3>1. PendClaims' = ArgClaims(depth' + 1, SP', 0)  BY <1>1 DEF PendClaims, NoCall
      <3>2. \A k, sp : ArgClaims(k, sp, 0) = {}  BY NoArgClaims
      <3> QED  BY <3>1, <3>2
    <2>5. \A x \in OuterClaims(acts)' \cup TopClaims' \cup PendClaims' : mem'[x[1]] = x[2]
      BY <1>1, <1>4, <2>1, <2>2, <2>3, <2>4
    <2>6. DOMAIN mem = Words  BY <1>3, ClaimsBefore
    <2> QED  BY <1>1, <2>5, <2>6 DEF MemoryInv
  <1> QED  BY <1>20, <1>22, <1>23, <1>24, <1>25 DEF Inv

\* At the end of an exit all is as it was at the call.
LEMMA ReturnFacts ==
  ASSUME Inv, AtReturn
  PROVE  /\ acts # <<>> /\ fn = acts[depth].fn /\ fn \in Functions /\ pend = NoCall
         /\ part = "exit" /\ at = ExitEnd(Code[fn]) + 1
         /\ SP = acts[depth].sp /\ FP = CallerFP(acts, depth)
         /\ BLINK = acts[depth].ret
         /\ \A r \in Registers : regs[r] = acts[depth].keep[r]
  <1>1. fn # Halt /\ part = "exit" /\ at > Len(ExitCode[fn])
    BY DEF AtReturn, Instructions
  <1>2. acts # <<>>  BY <1>1 DEF Inv, StackInv
  <1>3. /\ fn = acts[depth].fn /\ fn \in Functions /\ ActivationSound(acts[depth])
        /\ PlaceSound(acts[depth], part, at)
        /\ SP = SPAt(acts[depth], part, at)
        /\ FP = FPAt(acts[depth], CallerFP(acts, depth), part, at)
        /\ LinkKept(Code[fn], part, at) => BLINK = acts[depth].ret
        /\ \A r \in Registers :
              RegisterKept(Code[fn], part, at, r) => regs[r] = acts[depth].keep[r]
    BY <1>2, TopFacts
  <1>4. Len(ExitCode[fn]) = ExitEnd(Code[fn]) /\ ExitEnd(Code[fn]) \in Nat
    BY <1>3, ExitAt, PlaceNumbers DEF Ends
  <1>5. PICK e \in Nat : e = ExitEnd(Code[fn])  BY <1>4
  <1>6. at \in 1 .. e + 1  BY <1>1, <1>3, <1>5 DEF PlaceSound, End
  <1>7. at > e  BY <1>1, <1>4, <1>5
  <1>8. at = e + 1  BY ONLY <1>6, <1>7, e \in Nat
  <1>9. SP = acts[depth].sp /\ FP = CallerFP(acts, depth)
    <2>1. PICK c : c = acts[depth]  OBVIOUS
    <2>2. PICK up : up = CallerFP(acts, depth)  OBVIOUS
    <2>3. PICK n : n = at  OBVIOUS
    <2>4. c.fn \in Functions /\ c.sp \in Int /\ c.dyn \in Nat  BY <1>3, <2>1, ActivationFacts
    <2>5. n = ExitEnd(Code[c.fn]) + 1  BY <1>3, <1>5, <1>8, <2>1, <2>3
    <2>6. SPAt(c, "exit", n) = c.sp /\ FPAt(c, up, "exit", n) = up
      BY <2>4, <2>5, PointersOnReturn
    <2> QED  BY <1>1, <1>3, <2>1, <2>2, <2>3, <2>6
  <1>10. LinkKept(Code[fn], part, at)
    <2>1. LinkKept(Code[fn], "exit", ExitEnd(Code[fn]) + 1)  BY <1>3, LinkSteps
    <2> QED  BY <1>1, <1>5, <1>8, <2>1
  <1>11. \A r : RegisterKept(Code[fn], part, at, r)
    <2>1. \A r : RegisterKept(Code[fn], "exit", ExitEnd(Code[fn]) + 1, r)
      BY <1>3, RegisterSteps
    <2> QED  BY <1>1, <1>5, <1>8, <2>1
  <1>12. pend = NoCall
    <2>1. ~AtBody(Frame(depth), part, at)  BY <1>1 DEF AtBody
    <2> QED  BY <2>1 DEF Inv, CallInv
  <1> QED  BY <1>1, <1>2, <1>3, <1>5, <1>8, <1>9, <1>10, <1>11, <1>12

LEMMA RETStep ==
  ASSUME Inv, RET
  PROVE  Inv'
  <1>1. /\ AtReturn /\ fn' = BLINK[2] /\ part' = "entry"
        /\ at' = IF fn' = Halt THEN 1 ELSE Len(EntryCode[fn']) + 1
        /\ acts' = Front(acts)
        /\ mem' = mem /\ SP' = SP /\ FP' = FP /\ BLINK' = BLINK /\ regs' = regs
        /\ pend' = pend
    BY DEF RET, regVars
  <1>2. PICK t : t = acts[depth]  OBVIOUS
  <1>3. /\ acts # <<>> /\ fn = t.fn /\ fn \in Functions /\ pend = NoCall
        /\ SP = t.sp /\ FP = CallerFP(acts, depth) /\ BLINK = t.ret
        /\ \A r \in Registers : regs[r] = t.keep[r]
    BY <1>1, <1>2, ReturnFacts
  <1>4. /\ ActivationSound(t) /\ Stacked(acts) /\ depth \in Nat /\ depth >= 1
        /\ \A x \in OuterClaims(acts) \cup TopClaims \cup PendClaims : mem[x[1]] = x[2]
    BY <1>2, <1>3, TopFacts
  <1>5. DOMAIN mem = Words /\ regs \in [Registers -> RegisterValues]
    BY <1>3, ClaimsBefore
  <1>6. PICK as : as = acts  OBVIOUS
  <1>7. PICK bs : bs = acts'  OBVIOUS
  <1>8. PICK l \in Nat : l = depth  BY <1>4
  <1>9. l >= 1 /\ Len(as) = l /\ as[l] = t  BY <1>2, <1>4, <1>6, <1>8 DEF depth
  <1>10. /\ Stacked(bs)
         /\ l = 1 => bs = <<>>
         /\ l # 1 => bs # <<>> /\ OneMore(bs, as, l - 1)
    <2>1. bs = Popped(as)  BY <1>1, <1>6, <1>7 DEF Popped
    <2>2. Stacked(as) /\ as # <<>>  BY <1>3, <1>4, <1>6
    <2>3. /\ Stacked(bs)
          /\ Len(as) = 1 => bs = <<>>
          /\ Len(as) # 1 => bs # <<>> /\ OneMore(bs, as, Len(as) - 1)
      BY ONLY <2>1, <2>2, StackedPop
    <2> QED  BY <1>9, <2>3
  <1>11. CallInv'  BY <1>1, <1>3 DEF CallInv, NoCall
  <1>12. CASE l = 1
    <2>1. FirstSound(as)  BY <1>3, <1>4, <1>6 DEF Stacked
    <2>2. t.sp = StackTop /\ t.ret = Ret(Halt, t.fn)
      BY <1>9, <1>12, <2>1 DEF FirstSound
    <2>3. fn' = Halt /\ at' = 1  BY <1>1, <1>3, <2>2 DEF Ret
    <2>4. FP = StackTop  BY <1>3, <1>8, <1>12 DEF CallerFP
    <2>5. acts' = <<>>  BY <1>7, <1>10, <1>12
    <2>6. StackInv'  BY <1>7, <1>10, <2>3, <2>5 DEF StackInv
    <2>7. PointersInv'  BY <1>1, <1>3, <2>2, <2>3, <2>4, <2>5 DEF PointersInv
    <2>8. RegistersInv'  BY <1>1, <1>5, <2>5 DEF RegistersInv
    <2>9. MemoryInv'  BY <1>1, <1>5, <2>5 DEF MemoryInv
    <2> QED  BY <1>11, <2>6, <2>7, <2>8, <2>9 DEF Inv
  <1>13. CASE l # 1
    <2>1. PICK n \in Nat : n = l - 1
      <3>1. l - 1 \in Nat  BY ONLY <1>9, l \in Nat
      <3> QED  BY <3>1
    <2>2. n # 0 /\ n + 1 = l  BY ONLY <1>13, <1>9, <2>1, l \in Nat, n \in Nat
    <2>3. /\ bs # <<>> /\ OneMore(bs, as, n)  BY <1>10, <1>13, <2>1
    <2>4. Len(bs) = n /\ \A k \in 1 .. n : as[k] = bs[k]  BY <2>3 DEF OneMore
    <2>5. n \in 1 .. n  BY ONLY <2>2, n \in Nat
    <2>6. PICK u : u = as[n]  OBVIOUS
    <2>7. bs[n] = u  BY <2>4, <2>5, <2>6
    <2>8. CallLink(u, t)
      <3>1. n \in 1 .. Len(as) - 1  BY ONLY <2>1, <2>5, <1>9
      <3>2. as[n + 1] = t  BY <1>9, <2>2
      <3> QED  BY <1>4, <1>6, <2>6, <3>1, <3>2 DEF Stacked
    <2>9. ActivationSound(u)
      <3>1. n \in 1 .. Len(bs)  BY <2>4, <2>5
      <3> QED  BY <1>10, <2>7, <3>1 DEF Stacked
    <2>10. u.fn \in Functions /\ u.sp \in Int /\ u.dyn \in Nat  BY <2>9, ActivationFacts
    <2>11. /\ t.sp = Bottom(u) /\ t.ret = Ret(u.fn, t.fn)
           /\ \E s \in Code[u.fn].calls : s.fn = t.fn /\ s.nargs = t.nargs
           /\ \A r \in Registers :
                 (\A j \in 1 .. SpillCount(Code[u.fn]) : Code[u.fn].csi[j].reg # r) =>
                    t.keep[r] = u.keep[r]
      BY <2>8 DEF CallLink
    <2>12. u.fn # Halt  BY <2>10, CodeAssumption
    <2>13. fn' = u.fn  BY <1>1, <1>3, <2>11 DEF Ret
    <2>14. at' = EntryEnd(Code[u.fn]) + 1
      <3>1. Len(EntryCode[u.fn]) = EntryEnd(Code[u.fn])  BY <2>10, EntryAt
      <3> QED  BY <1>1, <2>12, <2>13, <3>1
    <2>15. depth' = n /\ acts' # <<>> /\ acts'[depth'] = u
      BY <1>7, <2>3, <2>4, <2>7 DEF depth
    <2>16. StackInv'  BY <1>7, <1>10, <2>13, <2>15 DEF StackInv
    <2>17. Frame(depth)' = Code[u.fn]  BY <2>15 DEF Frame
    <2>18. /\ OuterClaims(as) =
                 OuterClaims(bs)
                    \cup FrameClaims(n, bs[n], CallerFP(bs, n), "entry", EntryEnd(Code[bs[n].fn]) + 1)
                    \cup ArgClaims(n + 1, as[n + 1].sp, as[n + 1].nargs)
           /\ CallerFP(as, n + 1) = FPOf(bs[n])
      BY ONLY <2>3, OuterAppend
    <2>19. FP = FPOf(u)  BY <1>3, <1>6, <1>8, <2>2, <2>7, <2>18
    <2>20. PlaceSound(u, "entry", EntryEnd(Code[u.fn]) + 1)
      <3>1. EntryEnd(Code[u.fn]) \in Nat  BY <2>10, PlaceNumbers DEF Ends
      <3>2. PICK e \in Nat : e = EntryEnd(Code[u.fn])  BY <3>1
      <3>3. e + 1 \in 1 .. e + 1 /\ ~(e + 1 <= e)  OBVIOUS
      <3>4. AtBody(Code[u.fn], "entry", e + 1)  BY <3>2 DEF AtBody
      <3> QED  BY <3>2, <3>3, <3>4 DEF PlaceSound, End
    <2>21. PointersInv'
      <3>1. PICK m : m = EntryEnd(Code[u.fn]) + 1  OBVIOUS
      <3>2. \A up : SPAt(u, "entry", m) = Bottom(u) /\ FPAt(u, up, "entry", m) = FPOf(u)
        BY <2>10, <3>1, PointersInBody
      <3>3. PlaceSound(acts[depth], part, at)'  BY <1>1, <2>14, <2>15, <2>20
      <3>4. SP' = SPAt(acts'[depth'], part', at')
        BY <1>1, <1>3, <2>11, <2>14, <2>15, <3>1, <3>2
      <3>5. FP' = FPAt(acts'[depth'], CallerFP(acts, depth)', part', at')
        BY <1>1, <2>14, <2>15, <2>19, <3>1, <3>2
      <3>6. ~LinkKept(Code[u.fn], "entry", EntryEnd(Code[u.fn]) + 1)
        <4>1. Code[u.fn].hasCalls  BY <2>10, <2>11, SiteFacts
        <4> QED  BY <2>10, <4>1, LinkSteps
      <3>7. ~LinkKept(Frame(depth)', part', at')  BY <1>1, <2>14, <2>17, <3>6
      <3> QED  BY <2>15, <3>3, <3>4, <3>5, <3>7 DEF PointersInv
    <2>22. RegistersInv'
      <3>1. ASSUME NEW r \in Registers,
                   RegisterKept(Code[u.fn], "entry", EntryEnd(Code[u.fn]) + 1, r)
            PROVE  regs[r] = u.keep[r]
        <4>1. \A j \in 1 .. SpillCount(Code[u.fn]) : Code[u.fn].csi[j].reg # r
          BY <2>10, <3>1, RegisterSteps
        <4> QED  BY <1>3, <2>11, <4>1
      <3>2. \A r \in Registers :
               RegisterKept(Frame(depth)', part', at', r) => regs'[r] = acts'[depth'].keep[r]
        BY <1>1, <2>14, <2>15, <2>17, <3>1
      <3> QED  BY <1>1, <1>5, <3>2 DEF RegistersInv
    <2>23. MemoryInv'
      <3>1. OuterClaims(acts)' \subseteq OuterClaims(acts)  BY <1>6, <1>7, <2>18
      <3>2. TopClaims' \subseteq OuterClaims(acts)
        <4>1. TopClaims' = FrameClaims(n, bs[n], CallerFP(bs, n), "entry", EntryEnd(Code[bs[n].fn]) + 1)
          BY <1>1, <1>7, <2>7, <2>14, <2>15 DEF TopClaims
        <4> QED  BY <1>6, <2>18, <4>1
      <3>3. PendClaims' = {}
        <4>1. PendClaims' = ArgClaims(depth' + 1, SP', 0)  BY <1>1, <1>3 DEF PendClaims, NoCall
        <4>2. \A k, sp : ArgClaims(k, sp, 0) = {}  BY NoArgClaims
        <4> QED  BY <4>1, <4>2
      <3>4. \A x \in OuterClaims(acts)' \cup TopClaims' \cup PendClaims' : mem'[x[1]] = x[2]
        BY <1>1, <1>4, <3>1, <3>2, <3>3
      <3> QED  BY <1>1, <1>5, <3>4 DEF MemoryInv
    <2> QED  BY <1>11, <2>16, <2>21, <2>22, <2>23 DEF Inv
  <1> QED  BY <1>12, <1>13

(***************************************************************************)
(* The invariant holds.                                                    *)
(***************************************************************************)
LEMMA InitInv ==
  ASSUME Init
  PROVE  Inv
  <1>1. /\ mem = [a \in Words |-> Junk]
        /\ fn \in Mains /\ part = "entry" /\ at = 1 /\ pend = NoCall
        /\ SP = StackTop /\ FP = StackTop /\ BLINK = Ret(Halt, fn)
        /\ regs = [r \in Registers |-> Reg(0, r)]
        /\ acts = <<Activation(fn, StackTop, Ret(Halt, fn), 0)>>
    BY DEF Init
  <1>2. PICK c : c = [fn |-> fn, sp |-> StackTop, ret |-> Ret(Halt, fn), nargs |-> 0,
                      keep |-> regs, written |-> {}, dyn |-> 0]
    OBVIOUS
  <1>3. /\ c.fn = fn /\ c.sp = StackTop /\ c.ret = Ret(Halt, fn) /\ c.nargs = 0
        /\ c.keep = regs /\ c.written = {} /\ c.dyn = 0
    BY <1>2
  <1>4. acts = <<c>>  BY <1>1, <1>2 DEF Activation
  <1>5. acts # <<>> /\ Len(acts) = 1 /\ acts[1] = c  BY <1>4
  <1>6. depth = 1 /\ acts[depth] = c  BY <1>5 DEF depth
  <1>7. fn \in Functions /\ Code[fn].named <= NumArgRegs  BY <1>1, CodeAssumption
  <1>8. StackTop \in Nat /\ StackTop % UNITS_PER_WORD = 0 /\ MaxDynamic \in Nat
    BY StackAssumption
  <1>9. regs \in [Registers -> RegisterValues]
    <2>1. \A r \in Registers : Reg(0, r) \in RegisterValues  BY DEF Reg, RegisterValues
    <2> QED  BY <1>1, <2>1
  <1>10. c \in Activations
    <2>1. Ret(Halt, fn) \in ReturnAddresses  BY <1>7 DEF Ret, ReturnAddresses
    <2> QED  BY <1>2, <1>7, <1>8, <1>9, <2>1 DEF Activations
  <1>11. ActivationSound(c)
    <2>1. c.sp % UNITS_PER_WORD = 0 /\ c.sp <= StackTop  BY <1>3, <1>8
    <2>2. c.dyn <= MaxDynamic /\ c.dyn % UNITS_PER_WORD = 0 /\ ~(c.dyn > 0)
      BY <1>3, <1>8 DEF UNITS_PER_WORD
    <2>3. WrittenInside(c)  BY <1>3 DEF WrittenInside
    <2> QED  BY <1>3, <1>7, <1>10, <2>1, <2>2, <2>3 DEF ActivationSound
  <1>12. PICK m \in Nat : m = MaxDepth[fn] /\ m >= 1
    BY <1>1, StackAssumption
  <1>13. FirstSound(acts)
    <2>1. Len(acts) <= MaxDepth[acts[1].fn]  BY <1>3, <1>5, <1>12
    <2> QED  BY <1>1, <1>3, <1>5, <2>1 DEF FirstSound
  <1>14. (MaxDepth[acts[1].fn] - 1 + 1) * StackBytes <= StackTop
    <2>1. MaxDepth[fn] * StackBytes <= StackTop  BY <1>1, RoomForFrame
    <2>2. m - 1 + 1 = m  BY ONLY m \in Nat
    <2> QED  BY <1>3, <1>5, <1>12, <2>1, <2>2
  <1>15. Stacked(acts)
    <2>1. acts \in Seq(Activations)
      <3>1. PICK S : S = Activations  OBVIOUS
      <3>2. c \in S  BY <1>10, <3>1
      <3>3. <<c>> \in Seq(S)  BY ONLY <3>2
      <3> QED  BY <1>4, <3>1, <3>3
    <2>2. \A k \in 1 .. Len(acts) : k = 1  BY <1>5
    <2>3. \A k \in 1 .. Len(acts) - 1 : FALSE  BY <1>5
    <2>4. \A k \in 1 .. Len(acts) : acts[k] = c /\ acts[k].sp = StackTop
      BY <1>3, <1>5, <2>2
    <2>5. \A k \in 1 .. Len(acts), i \in 1 .. Len(acts) : k <= i => acts[i].sp <= acts[k].sp
      BY <1>8, <2>4
    <2>6. \A k \in 1 .. Len(acts) : (MaxDepth[acts[1].fn] - k + 1) * StackBytes <= acts[k].sp
      BY <1>14, <2>2, <2>4
    <2>7. \A k \in 1 .. Len(acts) : ActivationSound(acts[k])  BY <1>11, <2>4
    <2> QED  BY <1>13, <2>1, <2>3, <2>5, <2>6, <2>7 DEF Stacked
  <1>16. StackInv  BY <1>3, <1>5, <1>6, <1>15 DEF StackInv
  <1>17. PointersInv
    <2>1. EntryEnd(Code[c.fn]) \in Nat  BY <1>3, <1>7, PlaceNumbers DEF Ends
    <2>2. PICK e \in Nat : e = EntryEnd(Code[c.fn])  BY <2>1
    <2>3. 1 \in 1 .. e + 1  OBVIOUS
    <2>4. PlaceSound(c, "entry", 1)  BY <1>3, <2>2, <2>3 DEF PlaceSound, End
    <2>5. \A up : SPAt(c, "entry", 1) = c.sp /\ FPAt(c, up, "entry", 1) = up
      BY <1>3, <1>7, <1>8, PointersOnEntry
    <2>6. CallerFP(acts, depth) = StackTop  BY <1>6 DEF CallerFP
    <2>7. SP = SPAt(acts[depth], part, at)  BY <1>1, <1>3, <1>6, <2>5
    <2>8. FP = FPAt(acts[depth], CallerFP(acts, depth), part, at)
      BY <1>1, <1>6, <2>5, <2>6
    <2>9. PlaceSound(acts[depth], part, at)  BY <1>1, <1>6, <2>4
    <2>10. BLINK = acts[depth].ret  BY <1>1, <1>3, <1>6
    <2> QED  BY <1>5, <2>7, <2>8, <2>9, <2>10 DEF PointersInv
  <1>18. RegistersInv
    <2>1. \A r \in Registers : regs[r] = acts[depth].keep[r]  BY <1>3, <1>6
    <2> QED  BY <1>9, <2>1 DEF RegistersInv
  <1>19. CallInv  BY <1>1 DEF CallInv
  <1>20. MemoryInv
    <2>1. TopClaims = {}
      <3>1. \A k, up : FrameClaims(k, c, up, "entry", 1) = {}  BY <1>3, <1>7, NoClaimsYet
      <3> QED  BY <1>1, <1>6, <3>1 DEF TopClaims
    <2>2. PendClaims = {}
      <3>1. PendClaims = ArgClaims(depth + 1, SP, 0)  BY <1>1 DEF PendClaims
      <3>2. \A k, sp : ArgClaims(k, sp, 0) = {}  BY NoArgClaims
      <3> QED  BY <3>1, <3>2
    <2>3. OuterClaims(acts) = {}
      <3>1. OuterClaims(acts) = (UNION {WaitingClaims(acts, k) : k \in 1 .. 1 - 1})
                                   \cup ArgClaims(1, acts[1].sp, 0)
        BY <1>3, <1>5 DEF OuterClaims
      <3>2. \A k \in 1 .. 1 - 1 : FALSE  OBVIOUS
      <3>3. (UNION {WaitingClaims(acts, k) : k \in 1 .. 1 - 1}) = {}  BY <3>2
      <3>4. ArgClaims(1, acts[1].sp, 0) = {}  BY NoArgClaims
      <3> QED  BY <3>1, <3>3, <3>4
    <2> QED  BY <1>1, <2>1, <2>2, <2>3 DEF MemoryInv
  <1> QED  BY <1>16, <1>17, <1>18, <1>19, <1>20 DEF Inv

LEMMA StepInv ==
  ASSUME Inv, [Next]_vars
  PROVE  Inv'
  <1>1. CASE SUBrsi  BY <1>1, SUBrsiStep
  <1>2. CASE ADDrsi  BY <1>2, ADDrsiStep
  <1>3. CASE STrri_a  BY <1>3, STrri_aStep
  <1>4. CASE LDri_ab  BY <1>4, LDri_abStep
  <1>5. CASE MOVrr  BY <1>5, MOVrrStep
  <1>6. CASE STrri  BY <1>6, STrriStep
  <1>7. CASE LDri  BY <1>7, LDriStep
  <1>8. CASE STva  BY <1>8, STvaStep
  <1>9. CASE RET  BY <1>9, RETStep
  <1>10. CASE \E o \in ObjectWords(Code[fn]) : WriteObject(o)  BY <1>10, WriteObjectStep
  <1>11. CASE \E r \in Registers : UseCalleeSaved(r)  BY <1>11, UseCalleeSavedStep
  <1>12. CASE DynamicStackAlloc(UNITS_PER_WORD)  BY <1>12, DynamicStackAllocStep
  <1>13. CASE \E a \in Words : WriteDynamic(a)  BY <1>13, WriteDynamicStep
  <1>14. CASE StackRestore  BY <1>14, StackRestoreStep
  <1>15. CASE \E c \in Code[fn].calls : BeginCall(c)  BY <1>15, BeginCallStep
  <1>16. CASE PassArgument  BY <1>16, PassArgumentStep
  <1>17. CASE JL  BY <1>17, JLStep
  <1>18. CASE BeginReturn  BY <1>18, BeginReturnStep
  <1>19. CASE Interrupt  BY <1>19, InterruptStep
  <1>20. CASE UNCHANGED vars
    <2>1. /\ mem' = mem /\ SP' = SP /\ FP' = FP /\ BLINK' = BLINK /\ regs' = regs /\ fn' = fn
          /\ part' = part /\ at' = at /\ acts' = acts /\ pend' = pend
      BY <1>20 DEF vars, regVars
    <2>2. /\ StackInv' /\ PointersInv' /\ RegistersInv' /\ CallInv'
          /\ TopClaims' = TopClaims /\ OuterClaims(acts)' = OuterClaims(acts)
          /\ PendClaims' = PendClaims
      BY <2>1, SamePlace
    <2>3. MemoryInv'  BY <2>1, <2>2 DEF Inv, MemoryInv
    <2> QED  BY <2>2, <2>3 DEF Inv
  <1> QED
    BY <1>1, <1>2, <1>3, <1>4, <1>5, <1>6, <1>7, <1>8, <1>9, <1>10, <1>11, <1>12, <1>13,
       <1>14, <1>15, <1>16, <1>17, <1>18, <1>19, <1>20
    DEF Next, Instruction, Body, Halted

\* At every place of every activation SP, FP, BLINK, the registers and the words of
\* the stack are as the place has it.
THEOREM InvHolds == Spec => []Inv
  <1>1. Init => Inv  BY InitInv
  <1>2. Inv /\ [Next]_vars => Inv'  BY StepInv
  <1> QED  BY <1>1, <1>2, PTL DEF Spec

(***************************************************************************)
(* What the invariant implies.                                             *)
(***************************************************************************)

\* What each activation relies on is in memory.
LEMMA ClaimsHold ==
  ASSUME Inv, NEW k \in 1 .. Len(acts)
  PROVE  /\ acts # <<>> /\ depth = Len(acts) /\ Stacked(acts) /\ ActivationSound(acts[k])
         /\ \A x \in ArgClaims(k, acts[k].sp, acts[k].nargs) : mem[x[1]] = x[2]
         /\ \A x \in WrittenClaims(k, acts[k]) : mem[x[1]] = x[2]
         /\ (k # Len(acts) \/ InBody) =>
               \A x \in FrameClaims(k, acts[k], CallerFP(acts, k), "entry",
                                    EntryEnd(Code[acts[k].fn]) + 1) : mem[x[1]] = x[2]
  <1>1. Stacked(acts)  BY DEF Inv, StackInv
  <1>2. acts # <<>> /\ ActivationSound(acts[k]) /\ Len(acts) \in Nat
    BY <1>1, Lengths DEF Stacked
  <1>3. depth = Len(acts)  BY DEF depth
  <1>4. \A x \in OuterClaims(acts) \cup TopClaims : mem[x[1]] = x[2]  BY <1>2, TopFacts
  <1>5. CASE k # Len(acts)
    <2>1. k \in 1 .. Len(acts) - 1  BY <1>2, <1>5, InRange
    <2>2. WaitingClaims(acts, k) \subseteq OuterClaims(acts)  BY <2>1 DEF OuterClaims
    <2>3. \A x \in WaitingClaims(acts, k) : mem[x[1]] = x[2]  BY <1>4, <2>2
    <2>4. /\ ArgClaims(k, acts[k].sp, acts[k].nargs) \subseteq WaitingClaims(acts, k)
          /\ FrameClaims(k, acts[k], CallerFP(acts, k), "entry", EntryEnd(Code[acts[k].fn]) + 1)
                \subseteq WaitingClaims(acts, k)
      BY DEF WaitingClaims
    <2>5. WrittenClaims(k, acts[k]) \subseteq
             FrameClaims(k, acts[k], CallerFP(acts, k), "entry", EntryEnd(Code[acts[k].fn]) + 1)
      BY DEF FrameClaims
    <2> QED  BY <1>1, <1>2, <1>3, <2>3, <2>4, <2>5
  <1>6. CASE k = Len(acts)
    <2>1. ArgClaims(k, acts[k].sp, acts[k].nargs) \subseteq OuterClaims(acts)
      BY <1>6 DEF OuterClaims
    <2>2. TopClaims = FrameClaims(k, acts[k], CallerFP(acts, k), part, at)
      BY <1>3, <1>6 DEF TopClaims
    <2>3. WrittenClaims(k, acts[k]) \subseteq TopClaims  BY <2>2 DEF FrameClaims
    <2>4. InBody => part = "entry" /\ at = EntryEnd(Code[acts[k].fn]) + 1
      BY <1>3, <1>6, BodyFacts
    <2> QED  BY <1>1, <1>2, <1>3, <1>4, <1>6, <2>1, <2>2, <2>3, <2>4
  <1> QED  BY <1>5, <1>6

\* The address by frame index of a word an activation has written.
LEMMA WordAddressOf ==
  ASSUME Inv, NEW k \in 1 .. Len(acts), NEW o \in acts[k].written
  PROVE  WordAddress(k, o) = ObjectAddress(acts[k], o)
  <1>1. PICK c : c = acts[k]  OBVIOUS
  <1>2. ActivationSound(c)  BY <1>1, ClaimsHold
  <1>3. /\ c.fn \in Functions /\ c.sp \in Int /\ c.sp % 4 = 0
        /\ c.dyn \in Nat /\ c.dyn % 4 = 0 /\ WrittenInside(c)
    BY <1>2, ActivationFacts
  <1>4. CASE o[1] = "dyn"  BY <1>4 DEF WordAddress, ObjectAddress
  <1>5. CASE o[1] # "dyn"
    <2>1. o \in ObjectWords(Code[c.fn])  BY <1>1, <1>3, <1>5, WrittenPlace
    <2>2. PICK g \in Functions : g = c.fn  BY <1>3
    <2>3. PICK f : f = Code[g]  OBVIOUS
    <2>4. o[2] \in Nat /\ o[2] + 1 \in 1 .. Len(f.objs) /\ o[3] \in Nat
      BY <2>1, <2>2, <2>3, WordFacts
    <2>5. PICK fi \in Nat : fi = o[2]  BY <2>4
    <2>6. PICK imm \in Nat : imm = o[3]  BY <2>4
    <2>7. FPOf(c) \in Int  BY <1>3, FPOfFrame
    <2>8. PICK fp \in Int : fp = FPOf(c)  BY <2>7
    <2>9. PICK st \in BOOLEAN : st = TRUE  OBVIOUS
    <2>10. fi + 1 \in 1 .. Len(f.objs)  BY <2>4, <2>5
    <2>11. Address(fp, f, fi, imm, st) = fp + f.objs[fi + 1].offset + imm
      BY ONLY <2>3, <2>10, ObjectIndexAddress, g \in Functions, fp \in Int, fi \in Nat,
              imm \in Nat, st \in BOOLEAN
    <2>12. ObjectAddress(c, o) = fp + f.objs[fi + 1].offset + imm
      BY <1>5, <2>2, <2>3, <2>5, <2>6, <2>8 DEF ObjectAddress
    <2>13. Frame(k) = f /\ FramePointer(k) = fp
      BY <1>1, <2>2, <2>3, <2>8 DEF Frame, FramePointer, FPOf
    <2>14. WordAddress(k, o) = Address(fp, f, fi, imm, st)
      BY <1>5, <2>5, <2>6, <2>9, <2>13 DEF WordAddress
    <2> QED  BY <1>1, <2>11, <2>12, <2>14
  <1> QED  BY <1>4, <1>5

LEMMA LocalsKept ==
  ASSUME Inv
  PROVE  LocalsIntact
  <1> SUFFICES ASSUME NEW k \in 1 .. Len(acts), NEW o \in acts[k].written
               PROVE  mem[WordAddress(k, o)] = Loc(k, o)
    BY DEF LocalsIntact, depth
  <1>1. <<ObjectAddress(acts[k], o), Loc(k, o)>> \in WrittenClaims(k, acts[k])
    BY DEF WrittenClaims
  <1>2. mem[ObjectAddress(acts[k], o)] = Loc(k, o)  BY <1>1, ClaimsHold
  <1> QED  BY <1>2, WordAddressOf

\* Every word an activation has written keeps what it wrote until it returns or gives
\* the block back, whatever it calls and however often it is interrupted.
THEOREM AlwaysLocalsIntact == Spec => []LocalsIntact
  BY InvHolds, LocalsKept, PTL

LEMMA ReturnsSound ==
  ASSUME Inv
  PROVE  ReturnsAsCalled
  <1> SUFFICES ASSUME AtReturn
               PROVE  /\ SP = acts[depth].sp
                      /\ FP = IF depth = 1 THEN StackTop ELSE FramePointer(depth - 1)
                      /\ regs = acts[depth].keep
                      /\ BLINK = acts[depth].ret
    BY DEF ReturnsAsCalled
  <1>1. /\ acts # <<>> /\ SP = acts[depth].sp /\ FP = CallerFP(acts, depth)
        /\ BLINK = acts[depth].ret
        /\ \A r \in Registers : regs[r] = acts[depth].keep[r]
    BY ReturnFacts
  <1>2. FP = IF depth = 1 THEN StackTop ELSE FramePointer(depth - 1)
    BY <1>1 DEF CallerFP, FPOf, FramePointer, Frame
  <1>3. regs \in [Registers -> RegisterValues]  BY DEF Inv, RegistersInv
  <1>4. ActivationSound(acts[depth])  BY <1>1, TopFacts
  <1>5. acts[depth].keep \in [Registers -> RegisterValues]  BY <1>4, ActivationFacts
  <1>6. regs = acts[depth].keep  BY <1>1, <1>3, <1>5
  <1> QED  BY <1>1, <1>2, <1>6

\* Every return goes back with the caller's SP, FP and callee-saved registers, and to
\* the address the call left.
THEOREM AlwaysReturnsAsCalled == Spec => []ReturnsAsCalled
  BY InvHolds, ReturnsSound, PTL

LEMMA ArgsSound ==
  ASSUME Inv
  PROVE  ArgsDelivered
  <1> SUFFICES ASSUME InBody
               PROVE  LET f == Frame(depth)
                      IN  /\ \A a \in NumArgRegs + 1 .. f.named :
                                mem[FP + FrameOffset(f, NumArgRegs - a, 0)] = Arg(depth, a)
                          /\ f.vaSize > 0 =>
                                \A a \in f.named + 1 .. acts[depth].nargs :
                                    mem[FP + FrameOffset(f, f.vaFI, 4 * (a - f.named - 1))]
                                       = Arg(depth, a)
    BY DEF ArgsDelivered
  <1>1. acts # <<>> /\ FP = FPOf(acts[depth]) /\ depth \in 1 .. Len(acts)
    BY BodyFacts, TopFacts
  <1>2. PICK c : c = acts[depth]  OBVIOUS
  <1>3. ActivationSound(c)  BY <1>1, <1>2, TopFacts
  <1>4. /\ c.fn \in Functions /\ c.sp \in Int /\ c.sp % 4 = 0 /\ c.nargs \in Nat
        /\ c.dyn \in Nat /\ c.dyn % 4 = 0
    BY <1>3, ActivationFacts
  <1>5. Code[c.fn].named <= NumArgRegs \/ Code[c.fn].named <= c.nargs
    BY <1>3 DEF ActivationSound
  <1>6. PICK g \in Functions : g = c.fn  BY <1>4
  <1>7. PICK f : f = Code[g]  OBVIOUS
  <1>8. Frame(depth) = f  BY <1>2, <1>6, <1>7 DEF Frame
  <1>9. PICK d : d = depth  OBVIOUS
  <1>10. \A x \in ArgClaims(d, c.sp, c.nargs) : mem[x[1]] = x[2]
    BY <1>1, <1>2, <1>9, ClaimsHold
  <1>11. \A x \in FrameClaims(d, c, CallerFP(acts, d), "entry", EntryEnd(f) + 1) :
            mem[x[1]] = x[2]
    BY <1>1, <1>2, <1>6, <1>7, <1>9, ClaimsHold
  <1>12. \A a \in 9 .. c.nargs : mem[c.sp + LocMemOffset(a)] = Arg(d, a)
    <2>1. TAKE a \in 9 .. c.nargs
    <2>2. <<c.sp + LocMemOffset(a), Arg(d, a)>> \in ArgClaims(d, c.sp, c.nargs)
      BY DEF ArgClaims, NumArgRegs
    <2> QED  BY <1>10, <2>2
  <1>13. PICK fp \in Int : fp = FPOf(c)  BY <1>4, FPOfFrame
  <1>14. FP = fp  BY <1>1, <1>2, <1>13
  <1>15. f.named \in Nat /\ EntrySP(f) = 4 + Bytes(f.hasCalls, 4) + f.vaSize
         /\ f.vaSize \in Nat
    BY <1>7, FrameFacts
  <1>16. EntrySP(f) \in Int  BY <1>15 DEF Bytes
  <1>17. fp = c.sp - EntrySP(f)  BY <1>6, <1>7, <1>13 DEF FPOf
  <1>18. ASSUME NEW a \in NumArgRegs + 1 .. f.named
         PROVE  mem[FP + FrameOffset(f, NumArgRegs - a, 0)] = Arg(d, a)
    <2>1. FrameOffset(f, NumArgRegs - a, 0) = EntrySP(f) + LocMemOffset(a)
      BY <1>7, ArgumentIndexOffset
    <2>2. a \in Int /\ 9 <= a /\ a <= f.named  BY <1>15 DEF NumArgRegs
    <2>3. LocMemOffset(a) \in Int  BY <2>2 DEF LocMemOffset, UNITS_PER_WORD, NumArgRegs
    <2>4. fp + (EntrySP(f) + LocMemOffset(a)) = c.sp + LocMemOffset(a)
      BY <1>4, <1>16, <1>17, <2>3
    <2>5. a \in 9 .. c.nargs
      BY <1>4, <1>5, <1>6, <1>7, <1>15, <2>2 DEF NumArgRegs
    <2> QED  BY <1>12, <1>14, <2>1, <2>4, <2>5
  <1>19. ASSUME f.vaSize > 0, NEW a \in f.named + 1 .. c.nargs
         PROVE  mem[FP + FrameOffset(f, f.vaFI, 4 * (a - f.named - 1))] = Arg(d, a)
    <2>1. f.vaSize # 0 /\ f.hasCalls /\ f.named < 8 /\ f.vaSize = 4 * (8 - f.named)
      BY <1>7, <1>15, <1>19, FrameFacts
    <2>2. PICK m \in Nat : m = f.named  BY <1>15
    <2>3. a \in Int /\ m + 1 <= a /\ a <= c.nargs  BY <1>4, <2>2
    <2>4. 4 * (a - m - 1) \in Nat  BY <2>3
    <2>5. PICK imm \in Nat : imm = 4 * (a - m - 1)  BY <2>4
    <2>6. FrameOffset(f, f.vaFI, imm) = 8 + imm
      <3>1. PICK st \in BOOLEAN : st = TRUE  OBVIOUS
      <3> QED  BY <1>7, <2>1, <3>1, AreaIndexAddress
    <2>7. CASE a <= 8
      <3>1. PICK j \in Int : j = a - m  BY <2>3
      <3>2. StoreCount(f) = 8 - m
        BY <2>1, <2>2 DEF StoreCount, UNITS_PER_WORD
      <3>3. j \in 1 .. StoreCount(f)  BY <2>3, <2>7, <3>1, <3>2
      <3>4. EntryEnd(f) + 1 > SpillsEnd(f) + j
        <4>1. /\ EntryEnd(f) = SpillsEnd(f) + StoreCount(f)
              /\ SpillsEnd(f) \in Nat /\ StoreCount(f) \in Nat
          BY <1>7, PlaceNumbers DEF Sums, Ends, Counts
        <4> QED  BY <3>3, <4>1
      <3>5. <<AreaAddress(c, j), Arg(d, f.named + j)>>
               \in AreaClaims(d, c, "entry", EntryEnd(f) + 1)
        BY <1>6, <1>7, <3>3, <3>4 DEF AreaClaims
      <3>6. mem[AreaAddress(c, j)] = Arg(d, f.named + j)
        BY <1>11, <3>5 DEF FrameClaims
      <3>7. AreaAddress(c, j) = fp + (8 + imm)
        <4>1. AreaAddress(c, j) = fp + 8 + 4 * (j - 1)
          BY <1>13 DEF AreaAddress, UNITS_PER_WORD
        <4> QED  BY <2>3, <2>5, <3>1, <4>1
      <3>8. f.named + j = a  BY <2>2, <2>3, <3>1
      <3> QED  BY <1>14, <2>2, <2>5, <2>6, <3>6, <3>7, <3>8
    <2>8. CASE a > 8
      <3>1. fp + 8 + f.vaSize = c.sp
        BY <1>4, <1>6, <1>7, <1>13, <2>1, BottomOfFrame
      <3>2. LocMemOffset(a) = 4 * (a - 9)
        BY <2>3 DEF LocMemOffset, UNITS_PER_WORD, NumArgRegs
      <3>3. fp + (8 + imm) = c.sp + LocMemOffset(a)
        BY <1>4, <2>1, <2>2, <2>3, <2>5, <3>1, <3>2
      <3>4. a \in 9 .. c.nargs  BY <1>4, <2>3, <2>8
      <3> QED  BY <1>12, <1>14, <2>2, <2>5, <2>6, <3>3, <3>4
    <2> QED  BY <2>3, <2>7, <2>8
  <1> QED  BY <1>2, <1>8, <1>9, <1>18, <1>19

\* In every body the arguments its caller passed on the stack are at the frame indexes
\* of LowerFormalArguments(), and those of a variadic call follow each other from the
\* save area into the caller's frame.
THEOREM AlwaysArgsDelivered == Spec => []ArgsDelivered
  BY InvHolds, ArgsSound, PTL

\* The frame pointer of every activation is the address of a word of the stack.
LEMMA FramePointerWord ==
  ASSUME NEW as, Stacked(as), NEW k \in 1 .. Len(as)
  PROVE  FPOf(as[k]) \in Words
  <1>1. PICK c : c = as[k]  OBVIOUS
  <1>2. ActivationSound(c)  BY <1>1 DEF Stacked
  <1>3. /\ c.fn \in Functions /\ c.sp \in Int /\ c.sp % 4 = 0 /\ c.sp <= StackTop
        /\ c.dyn \in Nat /\ c.dyn % 4 = 0
    BY <1>2, ActivationFacts
  <1>4. /\ FPOf(c) \in Int /\ FPOf(c) % 4 = 0 /\ FPOf(c) + 4 <= c.sp
        /\ Bottom(c) \in Int /\ Bottom(c) <= FPOf(c)
    BY <1>3, BottomOfFrame
  <1>5. 0 <= Bottom(c)  BY <1>1, Room
  <1>6. PICK y \in Int : y = FPOf(c)  BY <1>4
  <1>7. PICK t \in Int : t = StackTop  BY StackAssumption
  <1>8. 0 <= y /\ y < t  BY <1>3, <1>4, <1>5, <1>6, <1>7
  <1> QED  BY <1>1, <1>4, <1>6, <1>7, <1>8, WordAddresses

LEMMA StackTypes ==
  ASSUME NEW as, Stacked(as), as # <<>>, NEW k \in 1 .. Len(as)
  PROVE  /\ as[k].fn \in Functions /\ as[k].sp \in Words \cup {StackTop}
         /\ as[k].dyn \in 0 .. MaxDynamic
         /\ FPOf(as[k]) \in Words
         /\ CallerFP(as, k) \in Words \cup {StackTop}
         /\ Len(as) \in 0 .. MaxDepth[as[1].fn]
  <1>1. PICK c : c = as[k]  OBVIOUS
  <1>2. ActivationSound(c)  BY <1>1 DEF Stacked
  <1>3. /\ c.fn \in Functions /\ c.sp \in Int /\ c.sp % 4 = 0 /\ c.sp <= StackTop
        /\ c.dyn \in Nat /\ c.dyn % 4 = 0 /\ c.dyn <= MaxDynamic
    BY <1>2, ActivationFacts
  <1>4. c.dyn \in 0 .. MaxDynamic  BY <1>3, StackAssumption
  <1>5. FPOf(c) \in Words  BY <1>1, FramePointerWord
  <1>6. c.sp \in Words \cup {StackTop}
    <2>1. FPOf(c) \in Int /\ FPOf(c) + 4 <= c.sp  BY <1>3, BottomOfFrame
    <2>2. 0 <= FPOf(c)  BY <1>5, WordAddresses
    <2>3. PICK s \in Int : s = c.sp  BY <1>3
    <2>4. PICK t \in Int : t = StackTop  BY StackAssumption
    <2>5. 0 <= s /\ s <= t  BY <1>3, <2>1, <2>2, <2>3, <2>4
    <2>6. s < t => s \in Words  BY <1>3, <2>3, <2>4, <2>5, WordAddresses
    <2> QED  BY <2>3, <2>4, <2>5, <2>6
  <1>7. CallerFP(as, k) \in Words \cup {StackTop}
    <2>1. CASE k = 1  BY <2>1 DEF CallerFP
    <2>2. CASE k # 1
      <3>1. k - 1 \in 1 .. Len(as)  BY <2>2, Lengths
      <3> QED  BY <2>2, <3>1, FramePointerWord DEF CallerFP
    <2> QED  BY <2>1, <2>2
  <1>8. Len(as) \in 0 .. MaxDepth[as[1].fn]
    <2>1. MaxDepth[as[1].fn] \in Nat /\ Len(as) \in Nat /\ Len(as) <= MaxDepth[as[1].fn]
      BY Room
    <2>2. PICK m \in Nat : m = MaxDepth[as[1].fn]  BY <2>1
    <2>3. PICK l \in Nat : l = Len(as)  BY <2>1
    <2>4. l <= m  BY <2>1, <2>2, <2>3
    <2>5. l \in 0 .. m  BY ONLY <2>4, l \in Nat, m \in Nat
    <2> QED  BY <2>2, <2>3, <2>5
  <1> QED  BY <1>1, <1>3, <1>4, <1>5, <1>6, <1>7, <1>8

LEMMA Types ==
  ASSUME Inv
  PROVE  TypeOK
  <1>1. DOMAIN mem = Words /\ DOMAIN regs = Registers
    BY DEF Inv, MemoryInv, RegistersInv
  <1>2. Stacked(acts)  BY DEF Inv, StackInv
  <1>3. pend.fn \in Functions \cup {Halt}
    <2>1. CASE pend = NoCall  BY <2>1 DEF NoCall
    <2>2. CASE pend # NoCall
      <3>1. fn \in Functions /\ \E s \in Code[fn].calls : s.fn = pend.fn
        BY <2>2, CallFacts
      <3> QED  BY <3>1, SiteFacts
    <2> QED  BY <2>1, <2>2
  <1>4. CASE acts = <<>>
    <2>1. Len(acts) = 0  BY <1>4
    <2>2. depth = 0 /\ Depths = 0 .. 0  BY <1>4, <2>1 DEF depth, Depths
    <2>3. SP = StackTop /\ FP = StackTop /\ part = "entry" /\ at = 1 /\ fn = Halt
      BY <1>4 DEF Inv, PointersInv, StackInv
    <2>4. \A k \in 1 .. depth : FALSE  BY <2>2
    <2>5. depth \in Depths  BY <2>2
    <2> QED  BY <1>1, <1>3, <2>3, <2>4, <2>5 DEF TypeOK
  <1>5. CASE acts # <<>>
    <2>1. /\ depth \in 1 .. Len(acts) /\ depth = Len(acts) /\ fn \in Functions
          /\ PlaceSound(acts[depth], part, at) /\ ActivationSound(acts[depth])
          /\ FP = FPAt(acts[depth], CallerFP(acts, depth), part, at)
      BY <1>5, TopFacts DEF depth
    <2>2. part \in {"entry", "exit"}  BY <2>1 DEF PlaceSound
    <2>3. at \in Nat \ {0}
      <3>1. at \in Nat /\ at >= 1  BY <2>1, TopPlaced
      <3> QED  BY <3>1
    <2>4. depth \in Depths  BY <1>2, <1>5, <2>1, StackTypes DEF Depths
    <2>5. FP \in Words \cup {StackTop}
      <3>1. FPOf(acts[depth]) \in Words /\ CallerFP(acts, depth) \in Words \cup {StackTop}
        BY <1>2, <1>5, <2>1, StackTypes
      <3> QED  BY <2>1, <3>1 DEF FPAt
    <2>6. SP \in Words \cup {StackTop}
      <3>1. SP \in Int /\ SP % 4 = 0 /\ 0 <= SP /\ SP <= acts[depth].sp  BY <1>5, ClaimsBefore
      <3>2. acts[depth].sp <= StackTop /\ acts[depth].sp \in Int  BY <2>1, ActivationFacts
      <3>3. PICK s \in Int : s = SP  BY <3>1
      <3>4. PICK t \in Int : t = StackTop  BY StackAssumption
      <3>5. s <= t  BY <3>1, <3>2, <3>3, <3>4
      <3>6. s < t => s \in Words  BY <3>1, <3>3, <3>4, WordAddresses
      <3> QED  BY <3>3, <3>4, <3>5, <3>6
    <2>7. \A k \in 1 .. depth :
             /\ acts[k].fn \in Functions /\ acts[k].sp \in Words \cup {StackTop}
             /\ acts[k].dyn \in 0 .. MaxDynamic
      BY <1>2, <1>5, <2>1, StackTypes
    <2> QED  BY <1>1, <1>3, <2>1, <2>2, <2>3, <2>4, <2>5, <2>6, <2>7 DEF TypeOK
  <1> QED  BY <1>4, <1>5

LEMMA BodyPointersSound ==
  ASSUME Inv
  PROVE  BodyPointers
  <1> SUFFICES ASSUME InBody
               PROVE  /\ FP = FramePointer(depth)
                      /\ SP = FP - NumBytes(Frame(depth)) - acts[depth].dyn
    BY DEF BodyPointers
  <1>1. FP = FPOf(acts[depth]) /\ SP = Bottom(acts[depth])  BY BodyFacts
  <1>2. FP = FramePointer(depth)  BY <1>1 DEF FPOf, FramePointer, Frame
  <1> QED  BY <1>1, <1>2 DEF Bottom, Frame

\* From a body, the word at each activation's FP holds its caller's, and the one
\* above it where a caller returns to.
LEMMA ChainWords ==
  ASSUME Inv, InBody, NEW k \in 1 .. Len(acts)
  PROVE  /\ FramePointer(k) \in Words
         /\ k # 1 => mem[FramePointer(k)] = Addr(FramePointer(k - 1))
         /\ k # Len(acts) => mem[FramePointer(k) + 4] = acts[k].ret
  <1>1. PICK c : c = acts[k]  OBVIOUS
  <1>2. Stacked(acts) /\ ActivationSound(c)  BY <1>1, ClaimsHold
  <1>3. c.fn \in Functions  BY <1>2, ActivationFacts
  <1>4. PICK f : f = Code[c.fn]  OBVIOUS
  <1>5. PICK n : n = EntryEnd(f) + 1  OBVIOUS
  <1>6. \A x \in FrameClaims(k, c, CallerFP(acts, k), "entry", n) : mem[x[1]] = x[2]
    BY <1>1, <1>4, <1>5, ClaimsHold
  <1>7. FramePointer(k) = FPOf(c)  BY <1>1 DEF FramePointer, FPOf, Frame
  <1>8. FramePointer(k) \in Words  BY <1>1, <1>2, <1>7, FramePointerWord
  <1>9. n > LinkEnd(f) + 1 /\ n > LinkEnd(f)
    <2>1. Sums(f) /\ Counts(f) /\ Ends(f)  BY <1>3, <1>4, PlaceNumbers
    <2>2. PICK e \in Nat : e = LinkEnd(f)  BY <2>1 DEF Ends
    <2>3. EntryEnd(f) = ((e + 2 + LocalsCount(f)) + SpillCount(f)) + StoreCount(f)
      BY <2>1, <2>2 DEF Sums
    <2>4. PICK lc \in Nat : lc = LocalsCount(f)  BY <2>1 DEF Counts
    <2>5. PICK sp \in Nat : sp = SpillCount(f)  BY <2>1 DEF Counts
    <2>6. PICK st \in Nat : st = StoreCount(f)  BY <2>1 DEF Counts
    <2>7. n = (((e + 2 + lc) + sp) + st) + 1  BY <1>5, <2>3, <2>4, <2>5, <2>6
    <2>8. e \in Nat /\ lc \in Nat /\ sp \in Nat /\ st \in Nat  OBVIOUS
    <2>9. n > e + 1 /\ n > e  BY ONLY <2>7, <2>8
    <2> QED  BY <2>2, <2>9
  <1>10. k # 1 => mem[FramePointer(k)] = Addr(FramePointer(k - 1))
    <2>1. <<FPOf(c), Addr(CallerFP(acts, k))>>
             \in FPClaims(c, CallerFP(acts, k), "entry", n)
      BY <1>4, <1>9 DEF FPClaims, FPOn
    <2>2. mem[FPOf(c)] = Addr(CallerFP(acts, k))  BY <1>6, <2>1 DEF FrameClaims
    <2>3. k # 1 => CallerFP(acts, k) = FramePointer(k - 1)
      BY DEF CallerFP, FPOf, FramePointer, Frame
    <2> QED  BY <1>7, <2>2, <2>3
  <1>11. ASSUME k # Len(acts) PROVE mem[FramePointer(k) + 4] = acts[k].ret
    <2>1. k \in 1 .. Len(acts) - 1
      <3>1. Len(acts) \in Nat  BY <1>2, Lengths
      <3> QED  BY <1>11, <3>1, InRange
    <2>2. CallLink(acts[k], acts[k + 1])  BY <1>2, <2>1 DEF Stacked
    <2>3. \E s \in Code[c.fn].calls : TRUE  BY <1>1, <2>2 DEF CallLink
    <2>4. f.hasCalls  BY <1>3, <1>4, <2>3, SiteFacts
    <2>5. <<FPOf(c) + UNITS_PER_WORD, c.ret>> \in LinkClaims(c, "entry", n)
      BY <1>4, <1>9, <2>4 DEF LinkClaims, LinkOn
    <2>6. mem[FPOf(c) + UNITS_PER_WORD] = c.ret  BY <1>6, <2>5 DEF FrameClaims
    <2> QED  BY <1>1, <1>7, <2>6 DEF UNITS_PER_WORD
  <1> QED  BY <1>8, <1>10, <1>11

\* What LowerFRAMEADDR() finds one level up.
LoadedFrom(x) == IF x \in Words /\ mem[x][1] = "addr" THEN mem[x][2] ELSE 0

\* The frame addresses are determined by the number of levels.
LEMMA LeastDifference ==
  ASSUME NEW l \in Nat, NEW F, NEW G, F[0] = G[0],
         \A d \in 1 .. l : F[d - 1] = G[d - 1] => F[d] = G[d]
  PROVE  \A d \in 0 .. l : F[d] = G[d]
  <1> DEFINE T == {d \in 0 .. l : F[d] # G[d]}
  <1>1. SUFFICES ASSUME T # {} PROVE FALSE  OBVIOUS
  <1>2. T \subseteq Nat  OBVIOUS
  <1>3. PICK d \in T : \A y \in T : ~(<<y, d>> \in OpToRel(<, Nat))
    BY <1>1, <1>2, NatLessThanWellFounded, WFMin
  <1>4. \A y \in T : ~(y < d)  BY <1>2, <1>3 DEF OpToRel
  <1>5. d \in 0 .. l /\ F[d] # G[d]  OBVIOUS
  <1>6. d # 0  BY <1>5
  <1>7. d \in 1 .. l /\ d - 1 \in 0 .. l /\ d - 1 < d  BY ONLY <1>5, <1>6, l \in Nat
  <1>8. ~(d - 1 \in T)  BY <1>4, <1>7
  <1>9. F[d - 1] = G[d - 1]  BY <1>7, <1>8
  <1> QED  BY <1>5, <1>7, <1>9

LEMMA ChainSound ==
  ASSUME Inv
  PROVE  FrameChain
  <1> SUFFICES ASSUME InBody
               PROVE  \A d \in 0 .. depth - 1 :
                         /\ FrameAddr[d] = FramePointer(depth - d)
                         /\ d > 0 => mem[FrameAddr[d] + UNITS_PER_WORD] = acts[depth - d].ret
    BY DEF FrameChain
  <1>1. acts # <<>> /\ FP = FPOf(acts[depth])  BY BodyFacts
  <1>2. depth \in Nat /\ depth >= 1 /\ depth = Len(acts)  BY <1>1, TopFacts DEF depth
  <1>3. PICK l \in Nat : l = depth - 1  BY <1>2
  <1>4. depth = l + 1 /\ Len(acts) = l + 1  BY <1>2, <1>3
  <1>5. FP = FramePointer(depth)  BY <1>1 DEF FPOf, FramePointer, Frame
  <1> DEFINE Step(F) == [d \in 0 .. l |-> IF d = 0 THEN FP ELSE LoadedFrom(F[d - 1])]
             G == [d \in 0 .. l |-> FramePointer(depth - d)]
  <1>6. ASSUME NEW d \in 1 .. l
        PROVE  LoadedFrom(FramePointer(depth - (d - 1))) = FramePointer(depth - d)
    <2>1. PICK k \in Int : k = depth - (d - 1)  BY <1>4
    <2>2. k \in 1 .. Len(acts) /\ k # 1 /\ k - 1 = depth - d  BY <1>4, <2>1
    <2>3. /\ FramePointer(k) \in Words
          /\ mem[FramePointer(k)] = Addr(FramePointer(k - 1))
      BY <2>2, ChainWords
    <2>4. LoadedFrom(FramePointer(k)) = FramePointer(k - 1)
      BY <2>3 DEF LoadedFrom, Addr
    <2> QED  BY <2>1, <2>2, <2>4
  <1>7. depth - 0 = depth  BY <1>2
  <1>8. G = Step(G)
    <2>1. \A d \in 0 .. l : G[d] = IF d = 0 THEN FP ELSE LoadedFrom(G[d - 1])
      <3>1. TAKE d \in 0 .. l
      <3>2. CASE d = 0  BY <1>5, <1>7, <3>2
      <3>3. CASE d # 0
        <4>1. d \in 1 .. l /\ d - 1 \in 0 .. l  BY <3>3
        <4>2. G[d - 1] = FramePointer(depth - (d - 1))  BY <4>1
        <4>3. G[d] = FramePointer(depth - d)  OBVIOUS
        <4> QED  BY <1>6, <3>3, <4>1, <4>2, <4>3
      <3> QED  BY <3>2, <3>3
    <2> QED  BY <2>1
  <1>9. FrameAddr = CHOOSE F : F = Step(F)
    BY <1>3 DEF FrameAddr, LoadedFrom
  <1> HIDE DEF G
  <1>10. FrameAddr = Step(FrameAddr)  BY <1>8, <1>9
  <1>11. FrameAddr[0] = G[0]
    <2>1. FrameAddr[0] = FP  BY <1>10
    <2>2. G[0] = FramePointer(depth)  BY <1>7 DEF G
    <2> QED  BY <1>5, <2>1, <2>2
  <1>12. \A d \in 1 .. l : FrameAddr[d - 1] = G[d - 1] => FrameAddr[d] = G[d]
    <2>1. TAKE d \in 1 .. l
    <2>2. HAVE FrameAddr[d - 1] = G[d - 1]
    <2>3. d \in 0 .. l /\ d # 0  OBVIOUS
    <2>4. FrameAddr[d] = LoadedFrom(FrameAddr[d - 1])  BY <1>10, <2>3
    <2>5. G[d] = LoadedFrom(G[d - 1])  BY <1>8, <2>3
    <2> QED  BY <2>2, <2>4, <2>5
  <1>13. PICK F : F = FrameAddr  OBVIOUS
  <1>14. PICK H : H = G  OBVIOUS
  <1>15. \A d \in 0 .. l : F[d] = H[d]
    BY <1>11, <1>12, <1>13, <1>14, LeastDifference
  <1>16. \A d \in 0 .. l : FrameAddr[d] = FramePointer(depth - d)
    BY <1>13, <1>14, <1>15 DEF G
  <1>17. ASSUME NEW d \in 0 .. l, d > 0
         PROVE  mem[FrameAddr[d] + UNITS_PER_WORD] = acts[depth - d].ret
    <2>1. PICK k \in Int : k = depth - d  BY <1>4
    <2>2. k \in 1 .. Len(acts) /\ k # Len(acts)  BY <1>4, <1>17, <2>1
    <2>3. mem[FramePointer(k) + 4] = acts[k].ret  BY <2>2, ChainWords
    <2> QED  BY <1>16, <2>1, <2>3 DEF UNITS_PER_WORD
  <1> QED  BY <1>3, <1>16, <1>17

\* In every body SP and FP are where the frame's layout assumes them, and the saved
\* frame pointers lead from it to those of all its callers.
THEOREM AlwaysPointersSound == Spec => []PointersSound
  <1>1. Inv => PointersSound
    BY Types, BodyPointersSound, ChainSound DEF PointersSound
  <1> QED  BY <1>1, InvHolds, PTL

(***************************************************************************)
(* The machine implements the procedure stack.                             *)
(***************************************************************************)

\* What activation k of the abstract stack is, given that memory holds what it should.
Meant(k, c) ==
    [proc |-> c.fn, args |-> [a \in NumArgRegs + 1 .. c.nargs |-> Arg(k, a)],
     vars |-> [o \in c.written |-> Loc(k, o)], keep |-> c.keep]
StackOf(as) == [k \in 1 .. Len(as) |-> Meant(k, as[k])]

LEMMA StackRead ==
  Inv => AbsStack = StackOf(acts)
  <1> SUFFICES ASSUME Inv PROVE AbsStack = StackOf(acts)  OBVIOUS
  <1>1. ASSUME NEW k \in 1 .. Len(acts) PROVE AbsActivation(k) = Meant(k, acts[k])
    <2>1. \A a \in NumArgRegs + 1 .. acts[k].nargs :
             mem[acts[k].sp + LocMemOffset(a)] = Arg(k, a)
      <3>1. TAKE a \in NumArgRegs + 1 .. acts[k].nargs
      <3>2. <<acts[k].sp + LocMemOffset(a), Arg(k, a)>>
               \in ArgClaims(k, acts[k].sp, acts[k].nargs)
        BY DEF ArgClaims
      <3> QED  BY <3>2, ClaimsHold
    <2>2. \A o \in acts[k].written : mem[WordAddress(k, o)] = Loc(k, o)
      BY LocalsKept DEF LocalsIntact, depth
    <2>3. [a \in NumArgRegs + 1 .. acts[k].nargs |-> mem[acts[k].sp + LocMemOffset(a)]]
             = [a \in NumArgRegs + 1 .. acts[k].nargs |-> Arg(k, a)]
      BY <2>1
    <2>4. [o \in acts[k].written |-> mem[WordAddress(k, o)]]
             = [o \in acts[k].written |-> Loc(k, o)]
      BY <2>2
    <2> QED  BY <2>3, <2>4 DEF AbsActivation, Meant
  <1> QED  BY <1>1 DEF AbsStack, StackOf, depth

LEMMA AbstractLength ==
  ASSUME NEW as, Len(as) \in Nat
  PROVE  /\ Len(StackOf(as)) = Len(as) /\ \E M : StackOf(as) \in Seq(M)
         /\ \A k \in 1 .. Len(as) : StackOf(as)[k] = Meant(k, as[k])
         /\ (Len(as) # 0 => StackOf(as) # <<>>)
  <1>1. PICK l \in Nat : l = Len(as)  OBVIOUS
  <1>2. PICK M : M = {Meant(k, as[k]) : k \in 1 .. l}  OBVIOUS
  <1>3. StackOf(as) \in [1 .. l -> M]  BY <1>1, <1>2 DEF StackOf
  <1>4. StackOf(as) \in Seq(M) /\ Len(StackOf(as)) = l  BY <1>3, FunctionIsSeq
  <1>5. Len(<<>>) = 0  OBVIOUS
  <1>6. l # 0 => StackOf(as) # <<>>  BY <1>4, <1>5
  <1> QED  BY <1>1, <1>4, <1>6 DEF StackOf

LEMMA LastOf == \A s : Procedures!Last(s) = s[Len(s)]
  BY DEF Procedures!Last

LEMMA NextStackRead ==
  ASSUME Inv'
  PROVE  AbsStack' = StackOf(acts')
  <1>1. (Inv => AbsStack = StackOf(acts))'  BY StackRead, PTL
  <1>2. (AbsStack = StackOf(acts))'  BY <1>1
  <1> QED  BY <1>2 DEF StackOf, Meant

\* A step that the abstract stack does not see.
LEMMA Unseen ==
  ASSUME Inv, Inv', acts' = acts, fn' = fn, regs' = regs
  PROVE  UNCHANGED Procedures!vars
  <1>1. PICK S : S = StackOf(acts)  OBVIOUS
  <1>2. AbsStack = S  BY <1>1, StackRead
  <1>3. PICK as : as = acts  OBVIOUS
  <1>4. acts' = as  BY <1>3
  <1>5. AbsStack' = StackOf(as)  BY <1>4, NextStackRead
  <1>6. AbsStack' = S  BY <1>1, <1>3, <1>5
  <1> QED  BY <1>2, <1>6 DEF Procedures!vars

\* Only what the running activation has written changes, to W.
TopWrites(as, bs, W) ==
    LET l == Len(as)
    IN  /\ Stacked(as) /\ as # <<>> /\ Len(bs) = l
        /\ \A k \in 1 .. l - 1 : bs[k] = as[k]
        /\ bs[l].fn = as[l].fn /\ bs[l].nargs = as[l].nargs /\ bs[l].keep = as[l].keep
        /\ bs[l].written = W

\* In the abstract stacks S and T, of l activations, that changes the variables of the
\* top one from those of V to those of W.
TopVars(S, T, l, V, W) ==
    /\ l \in Nat /\ l # 0 /\ Len(S) = l /\ Len(T) = l /\ S # <<>>
    /\ \A k \in 1 .. l - 1 : T[k] = S[k]
    /\ S[l].vars = [o \in V |-> Loc(l, o)]
    /\ T[l].vars = [o \in W |-> Loc(l, o)]
    /\ T[l] = [S[l] EXCEPT !.vars = [o \in W |-> Loc(l, o)]]

LEMMA TopMeant ==
  ASSUME NEW as, NEW bs, NEW W, TopWrites(as, bs, W)
  PROVE  TopVars(StackOf(as), StackOf(bs), Len(as), as[Len(as)].written, W)
  <1> DEFINE l == Len(as)  S == StackOf(as)  T == StackOf(bs)
  <1>1. /\ l \in Nat /\ l # 0 /\ Len(bs) = l
        /\ \A k \in 1 .. l - 1 : bs[k] = as[k]
        /\ bs[l].fn = as[l].fn /\ bs[l].nargs = as[l].nargs /\ bs[l].keep = as[l].keep
        /\ bs[l].written = W
    BY Lengths DEF TopWrites
  <1>0. Len(as) = l  OBVIOUS
  <1> HIDE DEF l
  <1>2. /\ Len(S) = l /\ Len(T) = l /\ S # <<>>
        /\ \A k \in 1 .. l : S[k] = Meant(k, as[k]) /\ T[k] = Meant(k, bs[k])
    BY <1>0, <1>1, AbstractLength
  <1>3. \A k \in 1 .. l - 1 : k \in 1 .. l  BY ONLY <1>1
  <1>4. \A k \in 1 .. l - 1 : T[k] = S[k]  BY <1>1, <1>2, <1>3
  <1>5. l \in 1 .. l  BY ONLY <1>1
  <1>6. PICK a : a = as[l]  OBVIOUS
  <1>7. PICK b : b = bs[l]  OBVIOUS
  <1>8. S[l] = Meant(l, a) /\ T[l] = Meant(l, b)  BY <1>2, <1>5, <1>6, <1>7
  <1>9. b.fn = a.fn /\ b.nargs = a.nargs /\ b.keep = a.keep /\ b.written = W
    BY <1>1, <1>6, <1>7
  <1>10. Meant(l, a).vars = [o \in a.written |-> Loc(l, o)]  BY DEF Meant
  <1>11. Meant(l, b).vars = [o \in W |-> Loc(l, o)]  BY <1>9 DEF Meant
  <1>12. Meant(l, b) = [Meant(l, a) EXCEPT !.vars = [o \in W |-> Loc(l, o)]]
    <2>1. PICK g : g = [i \in NumArgRegs + 1 .. a.nargs |-> Arg(l, i)]  OBVIOUS
    <2>2. PICK v : v = [o \in a.written |-> Loc(l, o)]  OBVIOUS
    <2>3. PICK w : w = [o \in W |-> Loc(l, o)]  OBVIOUS
    <2>4. Meant(l, a) = [proc |-> a.fn, args |-> g, vars |-> v, keep |-> a.keep]
      BY <2>1, <2>2 DEF Meant
    <2>5. Meant(l, b) = [proc |-> a.fn, args |-> g, vars |-> w, keep |-> a.keep]
      BY <1>9, <2>1, <2>3 DEF Meant
    <2> QED  BY ONLY <2>3, <2>4, <2>5
  <1> HIDE DEF l, S, T
  <1>13. TopVars(S, T, l, as[l].written, W)
    BY <1>1, <1>2, <1>4, <1>6, <1>8, <1>10, <1>11, <1>12 DEF TopVars
  <1> QED  BY <1>13 DEF l, S, T

\* The abstract stacks before and after a step of the body that changes only what the
\* running activation has written.
LEMMA TopSeen ==
  ASSUME Inv, Inv', NEW W, TopWrites(acts, acts', W)
  PROVE  /\ AbsStack # <<>> /\ Len(AbsStack) = depth /\ Len(AbsStack') = depth
         /\ \A k \in 1 .. Len(AbsStack) - 1 : AbsStack'[k] = AbsStack[k]
         /\ Procedures!Top.vars = [o \in acts[depth].written |-> Loc(depth, o)]
         /\ Procedures!Top'.vars = [o \in W |-> Loc(depth, o)]
         /\ Procedures!Top' = [Procedures!Top EXCEPT !.vars = [o \in W |-> Loc(depth, o)]]
  <1>1. PICK as : as = acts  OBVIOUS
  <1>2. PICK bs : bs = acts'  OBVIOUS
  <1>3. PICK l : l = depth  OBVIOUS
  <1>4. PICK S : S = AbsStack  OBVIOUS
  <1>5. PICK T : T = AbsStack'  OBVIOUS
  <1>6. S = StackOf(as) /\ T = StackOf(bs)
    BY <1>1, <1>2, <1>4, <1>5, StackRead, NextStackRead
  <1>7. TopWrites(as, bs, W) /\ l = Len(as)  BY <1>1, <1>2, <1>3 DEF depth
  <1>8. /\ l \in Nat /\ l # 0 /\ Len(S) = l /\ Len(T) = l /\ S # <<>>
        /\ \A k \in 1 .. l - 1 : T[k] = S[k]
        /\ S[l].vars = [o \in as[l].written |-> Loc(l, o)]
        /\ T[l].vars = [o \in W |-> Loc(l, o)]
        /\ T[l] = [S[l] EXCEPT !.vars = [o \in W |-> Loc(l, o)]]
    <2>1. TopVars(S, T, l, as[l].written, W)  BY <1>6, <1>7, TopMeant
    <2> QED  BY <2>1 DEF TopVars
  <1>9. Procedures!Top = S[l]  BY <1>4, <1>8 DEF Procedures!Top, Procedures!Last
  <1>10. Procedures!Top' = T[l]  BY <1>5, <1>8 DEF Procedures!Top, Procedures!Last
  <1> QED  BY <1>1, <1>3, <1>4, <1>5, <1>8, <1>9, <1>10

LEMMA WriteSeen ==
  ASSUME Inv, Inv', NEW o, TopWrites(acts, acts', acts[depth].written \cup {o}),
         fn' = fn, regs' = regs
  PROVE  Procedures!Write
  <1>1. PICK W : W = acts[depth].written  OBVIOUS
  <1>2. PICK V : V = W \cup {o}  OBVIOUS
  <1>3. PICK l : l = depth  OBVIOUS
  <1>4. TopWrites(acts, acts', V)  BY <1>1, <1>2
  <1>5. /\ AbsStack # <<>> /\ Len(AbsStack') = Len(AbsStack)
        /\ \A k \in 1 .. Len(AbsStack) - 1 : AbsStack'[k] = AbsStack[k]
        /\ Procedures!Top.vars = [q \in W |-> Loc(l, q)]
        /\ Procedures!Top'.vars = [q \in V |-> Loc(l, q)]
        /\ Procedures!Top' = [Procedures!Top EXCEPT !.vars = [q \in V |-> Loc(l, q)]]
    BY <1>1, <1>3, <1>4, TopSeen
  <1>6. PICK t : t = Procedures!Top  OBVIOUS
  <1>7. PICK u : u = Procedures!Top'  OBVIOUS
  <1>8. o \in DOMAIN u.vars  BY <1>2, <1>5, <1>7
  <1>9. [q \in DOMAIN t.vars \cup {o} |-> IF q = o THEN u.vars[o] ELSE t.vars[q]]
           = [q \in V |-> Loc(l, q)]
    <2>1. t.vars = [q \in W |-> Loc(l, q)] /\ u.vars = [q \in V |-> Loc(l, q)]
      BY <1>5, <1>6, <1>7
    <2>2. DOMAIN t.vars \cup {o} = V  BY <1>2, <2>1
    <2>3. u.vars[o] = Loc(l, o)  BY <1>2, <2>1
    <2>4. \A q \in V : (IF q = o THEN u.vars[o] ELSE t.vars[q]) = Loc(l, q)
      BY <1>2, <2>1, <2>3
    <2> QED  BY <2>2, <2>4
  <1>10. PICK vs : vs = [q \in V |-> Loc(l, q)]  OBVIOUS
  <1>11. u = [t EXCEPT !.vars = vs]  BY <1>5, <1>6, <1>7, <1>10
  <1>12. Procedures!TopBecomes(vs)
    BY <1>5, <1>6, <1>7, <1>11 DEF Procedures!TopBecomes
  <1>13. \E v \in DOMAIN Procedures!Top'.vars :
            Procedures!TopBecomes([q \in DOMAIN Procedures!Top.vars \cup {v} |->
                IF q = v THEN Procedures!Top'.vars[v] ELSE Procedures!Top.vars[q]])
    BY <1>6, <1>7, <1>8, <1>9, <1>10, <1>12
  <1> QED  BY <1>5, <1>13 DEF Procedures!Write

LEMMA ReleaseSeen ==
  ASSUME Inv, Inv', NEW W, W \subseteq acts[depth].written, TopWrites(acts, acts', W),
         fn' = fn, regs' = regs
  PROVE  Procedures!Release
  <1>1. PICK V : V = acts[depth].written  OBVIOUS
  <1>2. PICK l : l = depth  OBVIOUS
  <1>3. /\ AbsStack # <<>> /\ Len(AbsStack') = Len(AbsStack)
        /\ \A k \in 1 .. Len(AbsStack) - 1 : AbsStack'[k] = AbsStack[k]
        /\ Procedures!Top.vars = [q \in V |-> Loc(l, q)]
        /\ Procedures!Top'.vars = [q \in W |-> Loc(l, q)]
        /\ Procedures!Top' = [Procedures!Top EXCEPT !.vars = [q \in W |-> Loc(l, q)]]
    BY <1>1, <1>2, TopSeen
  <1>4. PICK t : t = Procedures!Top  OBVIOUS
  <1>5. PICK u : u = Procedures!Top'  OBVIOUS
  <1>6. t.vars = [q \in V |-> Loc(l, q)] /\ u.vars = [q \in W |-> Loc(l, q)]
    BY <1>3, <1>4, <1>5
  <1>7. DOMAIN u.vars \subseteq DOMAIN t.vars  BY <1>1, <1>6
  <1>8. [q \in DOMAIN u.vars |-> t.vars[q]] = [q \in W |-> Loc(l, q)]
    <2>1. DOMAIN u.vars = W /\ \A q \in W : t.vars[q] = Loc(l, q)  BY <1>1, <1>6
    <2> QED  BY <2>1
  <1>9. PICK vs : vs = [q \in W |-> Loc(l, q)]  OBVIOUS
  <1>10. u = [t EXCEPT !.vars = vs]  BY <1>3, <1>4, <1>5, <1>9
  <1>11. Procedures!TopBecomes(vs)
    BY <1>3, <1>4, <1>5, <1>10 DEF Procedures!TopBecomes
  <1>12. /\ DOMAIN Procedures!Top'.vars \subseteq DOMAIN Procedures!Top.vars
         /\ Procedures!TopBecomes([q \in DOMAIN Procedures!Top'.vars |->
                                      Procedures!Top.vars[q]])
    BY <1>4, <1>5, <1>7, <1>8, <1>9, <1>11
  <1> QED  BY <1>3, <1>12 DEF Procedures!Release

\* The running activation, having written W and allocated n bytes.
Now(t, W, n) ==
    [fn |-> t.fn, sp |-> t.sp, ret |-> t.ret, nargs |-> t.nargs, keep |-> t.keep,
     written |-> W, dyn |-> n]

LEMMA NowFields ==
  ASSUME NEW t \in Activations, NEW W, NEW n
  PROVE  /\ [t EXCEPT !.written = W] = Now(t, W, t.dyn)
         /\ [t EXCEPT !.dyn = n] = Now(t, t.written, n)
  <1>1. t = [fn |-> t.fn, sp |-> t.sp, ret |-> t.ret, nargs |-> t.nargs,
             keep |-> t.keep, written |-> t.written, dyn |-> t.dyn]
    BY DEF Activations
  <1>2. [t EXCEPT !.written = W] = Now(t, W, t.dyn)  BY ONLY <1>1 DEF Now
  <1>3. [t EXCEPT !.dyn = n] = Now(t, t.written, n)  BY ONLY <1>1 DEF Now
  <1> QED  BY ONLY <1>2, <1>3

LEMMA NowWrites ==
  ASSUME NEW as, Stacked(as), as # <<>>, NEW W, NEW n,
         NEW bs, bs = [as EXCEPT ![Len(as)] = Now(as[Len(as)], W, n)]
  PROVE  TopWrites(as, bs, W)
  <1>1. PICK l : l = Len(as)  OBVIOUS
  <1>2. l \in Nat /\ l \in 1 .. l /\ as \in Seq(Activations)  BY <1>1, Lengths
  <1>3. PICK c : c = Now(as[l], W, n)  OBVIOUS
  <1>4. bs = [as EXCEPT ![l] = c]  BY <1>1, <1>3
  <1>5. as \in [1 .. l -> Activations]  BY <1>1, <1>2, LenProperties
  <1>6. bs \in [1 .. l -> Activations \cup {c}] /\ bs[l] = c
        /\ \A k \in 1 .. l - 1 : bs[k] = as[k]
    <2>1. bs \in [1 .. l -> Activations \cup {c}]  BY ONLY <1>4, <1>5
    <2>2. bs[l] = c  BY ONLY <1>2, <1>4, <1>5
    <2>3. \A k \in 1 .. l - 1 : k \in 1 .. l /\ k # l  BY ONLY <1>2
    <2>4. \A k \in 1 .. l : k # l => bs[k] = as[k]  BY ONLY <1>4, <1>5
    <2>5. \A k \in 1 .. l - 1 : bs[k] = as[k]  BY ONLY <2>3, <2>4
    <2> QED  BY ONLY <2>1, <2>2, <2>5
  <1>7. Len(bs) = l  BY <1>2, <1>6, FunctionIsSeq
  <1>8. c.fn = as[l].fn /\ c.nargs = as[l].nargs /\ c.keep = as[l].keep /\ c.written = W
    BY <1>3 DEF Now
  <1> QED  BY <1>1, <1>6, <1>7, <1>8 DEF TopWrites

LEMMA BodyWrites ==
  ASSUME Inv, InBody, NEW W, NEW n, acts' = [acts EXCEPT ![depth] = Now(acts[depth], W, n)]
  PROVE  TopWrites(acts, acts', W)
  <1>1. acts # <<>> /\ Stacked(acts) /\ depth = Len(acts)  BY BodyFacts, TopFacts DEF depth
  <1>2. PICK as : as = acts  OBVIOUS
  <1>3. PICK bs : bs = acts'  OBVIOUS
  <1>4. bs = [as EXCEPT ![Len(as)] = Now(as[Len(as)], W, n)]  BY <1>1, <1>2, <1>3
  <1>5. Stacked(as) /\ as # <<>>  BY <1>1, <1>2
  <1>6. TopWrites(as, bs, W)  BY <1>4, <1>5, NowWrites
  <1> QED  BY <1>2, <1>3, <1>6

LEMMA WriteObjectSeen ==
  ASSUME Inv, Inv', NEW o, WriteObject(o)
  PROVE  Procedures!Write
  <1>1. /\ InBody /\ acts' = [acts EXCEPT ![depth].written = @ \cup {o}]
        /\ fn' = fn /\ regs' = regs
    BY DEF WriteObject, Running, regVars
  <1>2. PICK t : t = acts[depth]  OBVIOUS
  <1>3. t \in Activations  BY <1>1, <1>2, BodyFacts, TopFacts DEF ActivationSound
  <1>4. PICK W : W = t.written \cup {o}  OBVIOUS
  <1>5. acts' = [acts EXCEPT ![depth] = [t EXCEPT !.written = W]]  BY <1>1, <1>2, <1>4
  <1>6. acts' = [acts EXCEPT ![depth] = Now(t, W, t.dyn)]  BY <1>3, <1>5, NowFields
  <1>7. TopWrites(acts, acts', W)  BY <1>1, <1>2, <1>6, BodyWrites
  <1> QED  BY <1>1, <1>2, <1>4, <1>7, WriteSeen

LEMMA WriteDynamicSeen ==
  ASSUME Inv, Inv', NEW a, WriteDynamic(a)
  PROVE  Procedures!Write
  <1>1. PICK o : o = <<"dyn", a, 0>>  OBVIOUS
  <1>2. /\ InBody /\ acts' = [acts EXCEPT ![depth].written = @ \cup {o}]
        /\ fn' = fn /\ regs' = regs
    BY <1>1 DEF WriteDynamic, Running, regVars
  <1>3. PICK t : t = acts[depth]  OBVIOUS
  <1>4. t \in Activations  BY <1>2, <1>3, BodyFacts, TopFacts DEF ActivationSound
  <1>5. PICK W : W = t.written \cup {o}  OBVIOUS
  <1>6. acts' = [acts EXCEPT ![depth] = [t EXCEPT !.written = W]]  BY <1>2, <1>3, <1>5
  <1>7. acts' = [acts EXCEPT ![depth] = Now(t, W, t.dyn)]  BY <1>4, <1>6, NowFields
  <1>8. TopWrites(acts, acts', W)  BY <1>2, <1>3, <1>7, BodyWrites
  <1> QED  BY <1>2, <1>3, <1>5, <1>8, WriteSeen

LEMMA StackRestoreSeen ==
  ASSUME Inv, Inv', StackRestore
  PROVE  Procedures!Release
  <1>1. /\ InBody /\ fn' = fn /\ regs' = regs
        /\ acts' = [acts EXCEPT ![depth].dyn = 0,
                                ![depth].written = {o \in @ : o[1] = "obj"}]
    BY DEF StackRestore, Running
  <1>2. PICK t : t = acts[depth]  OBVIOUS
  <1>3. t \in Activations /\ Stacked(acts) /\ depth \in 1 .. Len(acts)
    BY <1>1, <1>2, BodyFacts, TopFacts DEF ActivationSound
  <1>4. PICK W : W = {o \in t.written : o[1] = "obj"}  OBVIOUS
  <1>5. acts' = [acts EXCEPT ![depth] = [[t EXCEPT !.dyn = 0] EXCEPT !.written = W]]
    <2>1. acts \in [1 .. Len(acts) -> Activations]  BY <1>3, LenProperties DEF Stacked
    <2>2. PICK as : as = acts  OBVIOUS
    <2>3. PICK d : d = depth  OBVIOUS
    <2>4. t = as[d] /\ d \in DOMAIN as /\ t \in Activations  BY <1>2, <1>3, <2>1, <2>2, <2>3
    <2>5. acts' = [as EXCEPT ![d].dyn = 0, ![d].written = {o \in @ : o[1] = "obj"}]
      BY <1>1, <2>2, <2>3
    <2>6. t = [fn |-> t.fn, sp |-> t.sp, ret |-> t.ret, nargs |-> t.nargs,
               keep |-> t.keep, written |-> t.written, dyn |-> t.dyn]
      BY <1>3 DEF Activations
    <2>7. [as EXCEPT ![d].dyn = 0, ![d].written = {o \in @ : o[1] = "obj"}]
             = [as EXCEPT ![d] = [[t EXCEPT !.dyn = 0] EXCEPT !.written = W]]
      BY ONLY <1>4, <2>4, <2>6
    <2> QED  BY <2>2, <2>3, <2>5, <2>7
  <1>6. acts' = [acts EXCEPT ![depth] = Now(t, W, 0)]
    <2>1. PICK u : u = [t EXCEPT !.dyn = 0]  OBVIOUS
    <2>2. u = Now(t, t.written, 0)  BY <1>3, <2>1, NowFields
    <2>3. [u EXCEPT !.written = W] = Now(t, W, 0)  BY ONLY <2>2 DEF Now
    <2>4. acts' = [acts EXCEPT ![depth] = [u EXCEPT !.written = W]]  BY <1>5, <2>1
    <2> QED  BY <2>3, <2>4
  <1>7. TopWrites(acts, acts', W)  BY <1>1, <1>2, <1>6, BodyWrites
  <1>8. W \subseteq acts[depth].written  BY <1>2, <1>4
  <1> QED  BY <1>1, <1>7, <1>8, ReleaseSeen

LEMMA BeginReturnSeen ==
  ASSUME Inv, Inv', BeginReturn
  PROVE  Procedures!Release
  <1>1. /\ InBody /\ acts' = [acts EXCEPT ![depth].written = {}]
        /\ fn' = fn /\ regs' = regs
    BY DEF BeginReturn, Running, regVars
  <1>2. PICK t : t = acts[depth]  OBVIOUS
  <1>3. t \in Activations  BY <1>1, <1>2, BodyFacts, TopFacts DEF ActivationSound
  <1>4. acts' = [acts EXCEPT ![depth] = [t EXCEPT !.written = {}]]  BY <1>1, <1>2
  <1>5. acts' = [acts EXCEPT ![depth] = Now(t, {}, t.dyn)]  BY <1>3, <1>4, NowFields
  <1>6. TopWrites(acts, acts', {})  BY <1>1, <1>2, <1>5, BodyWrites
  <1> QED  BY <1>1, <1>6, ReleaseSeen

LEMMA UseRegisterSeen ==
  ASSUME Inv, Inv', acts # <<>>, acts' = acts, fn' = fn,
         NEW r \in Registers, NEW v, regs' = [regs EXCEPT ![r] = v]
  PROVE  Procedures!UseRegister
  <1>1. PICK as : as = acts  OBVIOUS
  <1>2. acts' = as  BY <1>1
  <1>3. AbsStack = StackOf(as) /\ AbsStack' = StackOf(as)
    BY <1>1, <1>2, StackRead, NextStackRead
  <1>4. Stacked(as) /\ as # <<>>  BY <1>1 DEF Inv, StackInv
  <1>5. Len(as) \in Nat /\ Len(as) # 0  BY <1>4, Lengths
  <1>6. AbsStack # <<>>  BY <1>3, <1>5, AbstractLength
  <1>7. regs \in [Registers -> RegisterValues]  BY DEF Inv, RegistersInv
  <1>8. r \in DOMAIN regs  BY <1>7
  <1>9. regs'[r] = v  BY <1>8
  <1>10. regs' = [regs EXCEPT ![r] = regs'[r]]  BY <1>9
  <1>11. \E q \in DOMAIN regs : regs' = [regs EXCEPT ![q] = regs'[q]]  BY <1>8, <1>10
  <1> QED  BY <1>3, <1>6, <1>11 DEF Procedures!UseRegister

LEMMA NoVariables == \A S, k : S = {} => [o \in S |-> Loc(k, o)] = <<>>
  <1>1. SUFFICES ASSUME NEW k PROVE [o \in {} |-> Loc(k, o)] = <<>>  OBVIOUS
  <1>2. PICK z : z = [o \in {} |-> Loc(k, o)]  OBVIOUS
  <1>3. 1 .. 0 = {}  OBVIOUS
  <1>4. z \in [1 .. 0 -> {}]  BY <1>2, <1>3
  <1>5. z \in Seq({}) /\ Len(z) = 0  BY <1>4, FunctionIsSeq
  <1>6. z = <<>>  BY <1>5, EmptySeq
  <1> QED  BY <1>2, <1>6

LEMMA JLSeen ==
  ASSUME Inv, Inv', JL
  PROVE  Procedures!Call
  <1>1. /\ pend # NoCall /\ fn' = pend.fn /\ regs' = regs
        /\ acts' = Append(acts, Activation(pend.fn, SP, BLINK', pend.nargs))
    BY DEF JL
  <1>2. PICK as : as = acts  OBVIOUS
  <1>3. PICK bs : bs = acts'  OBVIOUS
  <1>4. PICK d : d = [fn |-> pend.fn, sp |-> SP, ret |-> BLINK', nargs |-> pend.nargs,
                      keep |-> regs, written |-> {}, dyn |-> 0]
    OBVIOUS
  <1>5. bs = Append(as, d)  BY <1>1, <1>2, <1>3, <1>4 DEF Activation
  <1>6. Stacked(as)  BY <1>2 DEF Inv, StackInv
  <1>7. PICK l \in Nat : l = Len(as)  BY <1>6, Lengths
  <1>8. Len(bs) = l + 1 /\ bs[l + 1] = d /\ \A k \in 1 .. l : bs[k] = as[k]
    <2>1. \E M : as \in Seq(M) /\ d \in M
      <3>1. as \in Seq(Activations)  BY <1>6, Lengths
      <3>2. PICK A : A = Activations  OBVIOUS
      <3>3. as \in Seq(A \cup {d})
        <4>1. as \in Seq(A) /\ A \subseteq A \cup {d}  BY <3>1, <3>2
        <4> QED  BY <4>1, SeqMonotonic
      <3> QED  BY <3>3
    <2>2. /\ Len(Append(as, d)) = Len(as) + 1 /\ Append(as, d)[Len(as) + 1] = d
          /\ \A k \in 1 .. Len(as) : Append(as, d)[k] = as[k]
      <3>1. PICK M : as \in Seq(M) /\ d \in M  BY <2>1
      <3>2. PICK e \in M : e = d  BY <3>1
      <3>3. PICK s \in Seq(M) : s = as  BY <3>1
      <3>4. /\ Len(Append(s, e)) = Len(s) + 1 /\ Append(s, e)[Len(s) + 1] = e
            /\ \A k \in 1 .. Len(s) : Append(s, e)[k] = s[k]
        BY ONLY AppendProperties, e \in M, s \in Seq(M)
      <3> QED  BY ONLY <3>2, <3>3, <3>4
    <2>3. PICK z : z = Append(as, d)  OBVIOUS
    <2>4. /\ Len(z) = Len(as) + 1 /\ z[Len(as) + 1] = d
          /\ \A k \in 1 .. Len(as) : z[k] = as[k]
      BY ONLY <2>2, <2>3
    <2>5. z = bs  BY <1>5, <2>3
    <2> QED  BY ONLY <1>7, <2>4, <2>5
  <1>9. PICK S : S = AbsStack  OBVIOUS
  <1>10. PICK T : T = AbsStack'  OBVIOUS
  <1>11. S = StackOf(as) /\ T = StackOf(bs)
    BY <1>2, <1>3, <1>9, <1>10, StackRead, NextStackRead
  <1>12. /\ Len(S) = l /\ \A k \in 1 .. l : S[k] = Meant(k, as[k])
         /\ Len(T) = l + 1 /\ \A k \in 1 .. l + 1 : T[k] = Meant(k, bs[k])
    <2>1. Len(as) \in Nat  BY <1>7
    <2>2. Len(bs) \in Nat
      <3>1. l + 1 \in Nat  OBVIOUS
      <3> QED  BY ONLY <1>8, <3>1
    <2>3. Len(S) = l /\ \A k \in 1 .. l : S[k] = Meant(k, as[k])
      BY <1>7, <1>11, <2>1, AbstractLength
    <2>4. Len(T) = l + 1 /\ \A k \in 1 .. l + 1 : T[k] = Meant(k, bs[k])
      BY <1>8, <1>11, <2>2, AbstractLength
    <2> QED  BY <2>3, <2>4
  <1>13. \A k \in 1 .. l : T[k] = S[k]
    <2>1. \A k \in 1 .. l : k \in 1 .. l + 1  OBVIOUS
    <2> QED  BY <1>8, <1>12, <2>1
  <1>14. l + 1 \in 1 .. l + 1  OBVIOUS
  <1>15. T[l + 1] = Meant(l + 1, d)  BY <1>8, <1>12, <1>14
  <1>16. PICK u : u = T[l + 1]  OBVIOUS
  <1>17. u.vars = <<>> /\ u.keep = regs /\ u.proc = pend.fn
    <2>1. d.written = {} /\ d.keep = regs /\ d.fn = pend.fn  BY <1>4
    <2>2. Meant(l + 1, d).vars = [o \in d.written |-> Loc(l + 1, o)]
      BY DEF Meant
    <2>3. Meant(l + 1, d).vars = <<>>  BY <2>1, <2>2, NoVariables
    <2>4. Meant(l + 1, d).keep = d.keep /\ Meant(l + 1, d).proc = d.fn  BY DEF Meant
    <2> QED  BY <1>15, <1>16, <2>1, <2>3, <2>4
  <1>18. Procedures!Top' = u
    BY <1>10, <1>12, <1>16 DEF Procedures!Top, Procedures!Last
  <1>19. Len(AbsStack') = Len(AbsStack) + 1 /\ \A k \in 1 .. Len(AbsStack) : AbsStack'[k] = AbsStack[k]
    BY <1>9, <1>10, <1>12, <1>13
  <1> QED  BY <1>1, <1>17, <1>18, <1>19 DEF Procedures!Call

LEMMA RETSeen ==
  ASSUME Inv, Inv', RET
  PROVE  Procedures!Return
  <1>1. AtReturn /\ acts' = Front(acts) /\ regs' = regs  BY DEF RET, regVars
  <1>2. acts # <<>> /\ \A r \in Registers : regs[r] = acts[depth].keep[r]
    BY <1>1, ReturnFacts
  <1>3. PICK as : as = acts  OBVIOUS
  <1>4. PICK bs : bs = acts'  OBVIOUS
  <1>5. Stacked(as) /\ as # <<>> /\ depth = Len(as) /\ Stacked(bs)
    BY <1>2, <1>3, <1>4 DEF Inv, StackInv, depth
  <1>6. PICK l \in Nat : l = Len(as)  BY <1>5, Lengths
  <1>7. PICK n \in Nat : n = l - 1
    <2>1. Len(as) >= 1  BY <1>5, Lengths
    <2>2. l >= 1  BY ONLY <1>6, <2>1
    <2>3. l - 1 \in Nat  BY ONLY <2>2, l \in Nat
    <2> QED  BY <2>3
  <1>8. Len(bs) = n /\ \A k \in 1 .. n : bs[k] = as[k]
    <2>1. bs = Popped(as)  BY <1>1, <1>3, <1>4 DEF Popped
    <2>2. /\ Len(as) = 1 => bs = <<>>
          /\ Len(as) # 1 => OneMore(bs, as, Len(as) - 1)
      BY <1>5, <2>1, StackedPop
    <2>3. CASE l = 1
      <3>1. Len(<<>>) = 0  OBVIOUS
      <3>2. n = 0 /\ bs = <<>>  BY <1>6, <1>7, <2>2, <2>3
      <3>3. \A k \in 1 .. 0 : FALSE  OBVIOUS
      <3> QED  BY <3>1, <3>2, <3>3
    <2>4. CASE l # 1
      <3>1. OneMore(bs, as, n)  BY <1>6, <1>7, <2>2, <2>4
      <3> QED  BY <3>1 DEF OneMore
    <2> QED  BY <2>3, <2>4
  <1>9. PICK S : S = AbsStack  OBVIOUS
  <1>10. PICK T : T = AbsStack'  OBVIOUS
  <1>11. S = StackOf(as) /\ T = StackOf(bs)
    BY <1>3, <1>4, <1>9, <1>10, StackRead, NextStackRead
  <1>12. /\ Len(S) = l /\ S # <<>> /\ \A k \in 1 .. l : S[k] = Meant(k, as[k])
    <2>1. l # 0  BY <1>7
    <2> QED  BY <1>6, <1>11, <2>1, AbstractLength
  <1>13. Len(bs) \in Nat  BY <1>8
  <1>14. T = [k \in 1 .. n |-> S[k]]
    <2>1. T = [k \in 1 .. n |-> Meant(k, bs[k])]  BY <1>8, <1>11 DEF StackOf
    <2>2. \A k \in 1 .. n : k \in 1 .. l  BY <1>7
    <2>3. \A k \in 1 .. n : Meant(k, bs[k]) = S[k]  BY <1>8, <1>12, <2>2
    <2> QED  BY <2>1, <2>3
  <1>15. Procedures!Front(S) = T
    <2>1. PICK M : S \in Seq(M)  BY <1>6, <1>11, AbstractLength
    <2>2. Procedures!Front(S) = SubSeq(S, 1, n)  BY <1>7, <1>12 DEF Procedures!Front
    <2>3. SubSeq(S, 1, n) = [k \in 1 .. n |-> S[k]]  OBVIOUS
    <2> QED  BY <1>14, <2>2, <2>3
  <1>16. l \in 1 .. l  BY <1>7
  <1>17. S[l].keep = as[l].keep
    <2>1. PICK c : c = as[l]  OBVIOUS
    <2>2. S[l] = Meant(l, c)  BY <1>12, <1>16, <2>1
    <2>3. Meant(l, c).keep = c.keep  BY DEF Meant
    <2> QED  BY <2>1, <2>2, <2>3
  <1>18. regs = as[l].keep
    <2>1. regs \in [Registers -> RegisterValues]  BY DEF Inv, RegistersInv
    <2>2. ActivationSound(as[l])  BY <1>5, <1>6, <1>16 DEF Stacked
    <2>3. as[l].keep \in [Registers -> RegisterValues]  BY <2>2, ActivationFacts
    <2>4. \A r \in Registers : regs[r] = as[l].keep[r]  BY <1>2, <1>3, <1>5, <1>6
    <2>5. PICK q : q = as[l].keep  OBVIOUS
    <2>6. PICK r1 : r1 = regs  OBVIOUS
    <2>7. /\ r1 \in [Registers -> RegisterValues] /\ q \in [Registers -> RegisterValues]
          /\ \A r \in Registers : r1[r] = q[r]
      BY <2>1, <2>3, <2>4, <2>5, <2>6
    <2>8. r1 = q  BY ONLY <2>7
    <2> QED  BY <2>5, <2>6, <2>8
  <1>19. fn' = IF l = 1 THEN Halt ELSE S[n].proc
    <2>1. fn' = IF acts' = <<>> THEN Halt ELSE acts'[Len(acts')].fn
      BY DEF Inv, StackInv, depth
    <2>2. fn' = IF bs = <<>> THEN Halt ELSE bs[n].fn  BY <1>4, <1>8, <2>1
    <2>3. CASE l = 1
      <3>1. Len(bs) = 0  BY <1>7, <1>8, <2>3
      <3>2. bs = <<>>  BY <1>5, <3>1, Lengths
      <3> QED  BY <2>2, <2>3, <3>2
    <2>4. CASE l # 1
      <3>1. n # 0 /\ n \in 1 .. n /\ n \in 1 .. l  BY <1>7, <2>4
      <3>2. Len(<<>>) = 0  OBVIOUS
      <3>3. bs # <<>>  BY <1>8, <3>1, <3>2
      <3>4. bs[n] = as[n] /\ S[n] = Meant(n, as[n])  BY <1>8, <1>12, <3>1
      <3>5. S[n].proc = bs[n].fn  BY <3>4 DEF Meant
      <3> QED  BY <2>2, <2>4, <3>3, <3>5
    <2> QED  BY <2>3, <2>4
  <1>20. Procedures!Top = S[l]  BY <1>9, <1>12 DEF Procedures!Top, Procedures!Last
  <1>21. regs = Procedures!Top.keep  BY <1>17, <1>18, <1>20
  <1>22. AbsStack' = Procedures!Front(AbsStack)  BY <1>9, <1>10, <1>15
  <1>23. fn' = IF Len(AbsStack) = 1 THEN Halt ELSE AbsStack[Len(AbsStack) - 1].proc
    BY <1>7, <1>9, <1>12, <1>19
  <1> QED  BY <1>1, <1>9, <1>12, <1>21, <1>22, <1>23 DEF Procedures!Return

LEMMA NoArguments == \A k : [a \in NumArgRegs + 1 .. 0 |-> Arg(k, a)] = <<>>
  <1>1. SUFFICES ASSUME NEW k PROVE [a \in NumArgRegs + 1 .. 0 |-> Arg(k, a)] = <<>>  OBVIOUS
  <1>2. NumArgRegs + 1 .. 0 = {} /\ 1 .. 0 = {}  BY DEF NumArgRegs
  <1>3. PICK z : z = [a \in NumArgRegs + 1 .. 0 |-> Arg(k, a)]  OBVIOUS
  <1>4. z \in [1 .. 0 -> {}]  BY <1>2, <1>3
  <1>5. z \in Seq({}) /\ Len(z) = 0  BY <1>4, FunctionIsSeq
  <1>6. z = <<>>  BY <1>5, EmptySeq
  <1> QED  BY <1>3, <1>6

LEMMA InitSeen ==
  ASSUME Init
  PROVE  Procedures!Init
  <1>1. /\ fn \in Mains /\ acts = <<Activation(fn, StackTop, Ret(Halt, fn), 0)>>
    BY DEF Init
  <1>2. PICK as : as = acts  OBVIOUS
  <1>3. PICK c : c = [fn |-> fn, sp |-> StackTop, ret |-> Ret(Halt, fn), nargs |-> 0,
                      keep |-> regs, written |-> {}, dyn |-> 0]
    OBVIOUS
  <1>4. as = <<c>>  BY <1>1, <1>2, <1>3 DEF Activation
  <1>5. Len(as) = 1 /\ as[1] = c  BY <1>4
  <1>6. AbsStack = StackOf(as)  BY <1>2, InitInv, StackRead
  <1>7. Meant(1, c) = [proc |-> fn, args |-> <<>>, vars |-> <<>>, keep |-> regs]
    <2>1. c.fn = fn /\ c.nargs = 0 /\ c.written = {} /\ c.keep = regs  BY <1>3
    <2>2. [o \in c.written |-> Loc(1, o)] = <<>>  BY <2>1, NoVariables
    <2>3. [a \in NumArgRegs + 1 .. c.nargs |-> Arg(1, a)] = <<>>  BY <2>1, NoArguments
    <2> QED  BY <2>1, <2>2, <2>3 DEF Meant
  <1>8. PICK m : m = Meant(1, c)  OBVIOUS
  <1>9. StackOf(as) = <<m>>
    <2>1. StackOf(as) = [k \in 1 .. 1 |-> Meant(k, as[k])]  BY <1>5 DEF StackOf
    <2>2. \A k \in 1 .. 1 : Meant(k, as[k]) = m
      <3>1. \A k \in 1 .. 1 : k = 1  OBVIOUS
      <3>2. Meant(1, as[1]) = m  BY <1>5, <1>8
      <3> QED  BY <3>1, <3>2
    <2>3. StackOf(as) = [k \in 1 .. 1 |-> m]  BY <2>1, <2>2
    <2>4. [k \in 1 .. 1 |-> m] = <<m>>  OBVIOUS
    <2> QED  BY <2>3, <2>4
  <1>10. AbsStack = <<[proc |-> fn, args |-> <<>>, vars |-> <<>>, keep |-> regs]>>
    BY <1>6, <1>7, <1>8, <1>9
  <1> QED  BY <1>1, <1>10 DEF Procedures!Init

\* A step that allocates leaves the abstract stack alone.
LEMMA SameVars ==
  ASSUME Inv, Inv', TopWrites(acts, acts', acts[depth].written)
  PROVE  AbsStack' = AbsStack
  <1>1. PICK as : as = acts  OBVIOUS
  <1>2. PICK bs : bs = acts'  OBVIOUS
  <1>3. AbsStack = StackOf(as) /\ AbsStack' = StackOf(bs)
    BY <1>1, <1>2, StackRead, NextStackRead
  <1>4. PICK l : l = Len(as)  OBVIOUS
  <1>5. TopWrites(as, bs, as[l].written)  BY <1>1, <1>2, <1>4 DEF depth
  <1>6. l \in Nat  BY <1>4, <1>5, Lengths DEF TopWrites
  <1>7. /\ Len(bs) = l /\ \A k \in 1 .. l - 1 : bs[k] = as[k]
        /\ bs[l].fn = as[l].fn /\ bs[l].nargs = as[l].nargs /\ bs[l].keep = as[l].keep
        /\ bs[l].written = as[l].written
    BY <1>4, <1>5 DEF TopWrites
  <1>8. Meant(l, bs[l]) = Meant(l, as[l])  BY <1>7 DEF Meant
  <1>9. \A k \in 1 .. l : k = l \/ k \in 1 .. l - 1  BY ONLY <1>6
  <1>10. \A k \in 1 .. l : Meant(k, bs[k]) = Meant(k, as[k])  BY <1>7, <1>8, <1>9
  <1>11. StackOf(bs) = StackOf(as)  BY <1>4, <1>7, <1>10 DEF StackOf
  <1> QED  BY <1>3, <1>11

LEMMA StepSeen ==
  ASSUME Inv, [Next]_vars
  PROVE  [Procedures!Next]_(Procedures!vars)
  <1>1. Inv'  BY StepInv
  <1>2. CASE SUBrsi \/ ADDrsi \/ STrri_a \/ LDri_ab \/ MOVrr \/ STrri \/ STva
    <2>1. acts' = acts /\ fn' = fn /\ regs' = regs
      BY <1>2 DEF SUBrsi, ADDrsi, STrri_a, LDri_ab, MOVrr, STrri, STva, Fetch, regVars
    <2> QED  BY <1>1, <2>1, Unseen
  <1>3. CASE LDri
    <2>1. Fetch("LDri") /\ acts' = acts /\ fn' = fn  BY <1>3 DEF LDri, Fetch
    <2>2. PICK v : regs' = [regs EXCEPT ![ins.reg] = v]  BY <1>3 DEF LDri
    <2>3. acts # <<>> /\ part = "exit" /\ fn \in Functions
      <3>1. acts # <<>>  BY <2>1, InstructionFacts
      <3>2. part = "exit"  BY <2>1, InstructionFacts
      <3> QED  BY <3>1, <3>2, TopFacts
    <2>4. \E j \in 1 .. SpillCount(Code[fn]) : ins.reg = Code[fn].csi[j].reg
      BY <2>1, <2>3, ExitView
    <2>5. ins.reg \in Registers  BY <2>3, <2>4, SlotFacts
    <2>6. PICK r \in Registers : r = ins.reg  BY <2>5
    <2>7. regs' = [regs EXCEPT ![r] = v]  BY <2>2, <2>6
    <2>8. Procedures!UseRegister  BY <1>1, <2>1, <2>3, <2>7, UseRegisterSeen
    <2> QED  BY <2>8 DEF Procedures!Next
  <1>4. CASE RET  BY <1>1, <1>4, RETSeen DEF Procedures!Next
  <1>5. ASSUME fn # Halt, NEW o \in ObjectWords(Code[fn]), WriteObject(o)
        PROVE  Procedures!Next
    BY <1>1, <1>5, WriteObjectSeen DEF Procedures!Next
  <1>6. ASSUME NEW r \in Registers, UseCalleeSaved(r)
        PROVE  Procedures!Next
    <2>1. /\ InBody /\ acts' = acts /\ fn' = fn /\ regs' = [regs EXCEPT ![r] = Reg(depth, r)]
      BY <1>6 DEF UseCalleeSaved, Running
    <2>2. acts # <<>>  BY <2>1, BodyFacts
    <2>3. PICK v : v = Reg(depth, r)  OBVIOUS
    <2>4. regs' = [regs EXCEPT ![r] = v]  BY <2>1, <2>3
    <2>5. Procedures!UseRegister  BY <1>1, <2>1, <2>2, <2>4, UseRegisterSeen
    <2> QED  BY <2>5 DEF Procedures!Next
  <1>7. ASSUME DynamicStackAlloc(UNITS_PER_WORD)
        PROVE  UNCHANGED Procedures!vars
    <2>1. /\ InBody /\ fn' = fn /\ regs' = regs
          /\ acts' = [acts EXCEPT ![depth].dyn = @ + UNITS_PER_WORD]
      BY <1>7 DEF DynamicStackAlloc, Running
    <2>2. PICK t : t = acts[depth]  OBVIOUS
    <2>3. t \in Activations  BY <2>1, <2>2, BodyFacts, TopFacts DEF ActivationSound
    <2>4. PICK n : n = t.dyn + UNITS_PER_WORD  OBVIOUS
    <2>5. acts' = [acts EXCEPT ![depth] = [t EXCEPT !.dyn = n]]  BY <2>1, <2>2, <2>4
    <2>6. acts' = [acts EXCEPT ![depth] = Now(t, t.written, n)]  BY <2>3, <2>5, NowFields
    <2>7. PICK W : W = t.written  OBVIOUS
    <2>8. TopWrites(acts, acts', W)  BY <2>1, <2>2, <2>6, <2>7, BodyWrites
    <2>9. AbsStack' = AbsStack  BY <1>1, <2>2, <2>7, <2>8, SameVars
    <2> QED  BY <2>1, <2>9 DEF Procedures!vars
  <1>8. ASSUME NEW a \in Words, WriteDynamic(a)
        PROVE  Procedures!Next
    BY <1>1, <1>8, WriteDynamicSeen DEF Procedures!Next
  <1>9. ASSUME StackRestore PROVE Procedures!Next
    BY <1>1, <1>9, StackRestoreSeen DEF Procedures!Next
  <1>10. ASSUME NEW s \in Code[fn].calls, BeginCall(s)
         PROVE  UNCHANGED Procedures!vars
    <2>1. acts' = acts /\ fn' = fn /\ regs' = regs  BY <1>10 DEF BeginCall, regVars
    <2> QED  BY <1>1, <2>1, Unseen
  <1>11. ASSUME PassArgument PROVE UNCHANGED Procedures!vars
    <2>1. acts' = acts /\ fn' = fn /\ regs' = regs  BY <1>11 DEF PassArgument, regVars
    <2> QED  BY <1>1, <2>1, Unseen
  <1>12. ASSUME JL PROVE Procedures!Next
    BY <1>1, <1>12, JLSeen DEF Procedures!Next
  <1>13. ASSUME BeginReturn PROVE Procedures!Next
    BY <1>1, <1>13, BeginReturnSeen DEF Procedures!Next
  <1>14. CASE fn # Halt /\ Body
    BY <1>5, <1>6, <1>7, <1>8, <1>9, <1>10, <1>11, <1>12, <1>13, <1>14 DEF Body
  <1>15. CASE Interrupt
    <2>1. acts' = acts /\ fn' = fn /\ regs' = regs  BY <1>15 DEF Interrupt, regVars
    <2> QED  BY <1>1, <2>1, Unseen
  <1>16. CASE Halted \/ UNCHANGED vars
    <2>1. acts' = acts /\ fn' = fn /\ regs' = regs  BY <1>16 DEF Halted, vars, regVars
    <2> QED  BY <1>1, <2>1, Unseen
  <1> QED  BY <1>2, <1>3, <1>4, <1>14, <1>15, <1>16 DEF Next, Instruction

\* The machine implements the procedure stack: whatever is called, allocated and
\* interrupted, a variable changes only when its own activation writes it, arguments
\* never, and callee-saved registers are back when a call returns.
THEOREM StackImplements == Spec => ImplementsProcedures
  <1>1. Init => Procedures!Init  BY InitSeen
  <1>2. Inv /\ [Next]_vars => [Procedures!Next]_(Procedures!vars)  BY StepSeen
  <1> QED  BY <1>1, <1>2, InvHolds, PTL DEF Spec, ImplementsProcedures, Procedures!Spec

=============================================================================
