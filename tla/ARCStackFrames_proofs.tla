----------------------- MODULE ARCStackFrames_proofs ------------------------
(***************************************************************************)
(* Proofs about the frames of ARCStack.  The instruction at each place of  *)
(* an entry and an exit is determined first (EntryAt, ExitAt).  From the   *)
(* place alone follow SP and FP (SPAt, FPAt) and the words of the stack an *)
(* activation relies on (FrameClaims): its saved FP and BLINK, the callee- *)
(* saved registers, the register save area and what it has written.  Every *)
(* claimed word lies in the activation's own frame, and a store of the code *)
(* goes to a word that no other claim is about.                            *)
(***************************************************************************)
EXTENDS ARCStack, SequenceTheorems, WellFoundedInduction, TLAPS

(***************************************************************************)
(* How many instructions each part of an entry and of an exit has.         *)
(***************************************************************************)
One(condition) == IF condition THEN 1 ELSE 0
AreaCount(f) == One(f.vaSize # 0)
LinkCount(f) == One(f.hasCalls)
LocalsCount(f) == One(NumBytes(f) > 0)
DynamicCount(f) == One(f.hasVarSized)
SpillCount(f) == Len(f.csi)
StoreCount(f) == f.vaSize \div UNITS_PER_WORD
LinkEnd(f) == AreaCount(f) + LinkCount(f)
PrologueEnd(f) == LinkEnd(f) + 2 + LocalsCount(f)
SpillsEnd(f) == PrologueEnd(f) + SpillCount(f)
EntryEnd(f) == SpillsEnd(f) + StoreCount(f)
LocalsPopped(f) == SpillCount(f) + LocalsCount(f)
DynamicPopped(f) == LocalsPopped(f) + DynamicCount(f)
FPPopped(f) == DynamicPopped(f) + 1
LinkPopped(f) == FPPopped(f) + LinkCount(f)
ExitEnd(f) == LinkPopped(f) + AreaCount(f)
End(f, p) == IF p = "entry" THEN EntryEnd(f) ELSE ExitEnd(f)

(***************************************************************************)
(* What the place, the next instruction n of part p, says of an activation *)
(* c whose caller's frame pointer is up.                                   *)
(***************************************************************************)
Bytes(condition, n) == IF condition THEN n ELSE 0
FPOf(c) == c.sp - EntrySP(Code[c.fn])
Bottom(c) == FPOf(c) - NumBytes(Code[c.fn]) - c.dyn

AreaOn(f, p, n) == IF p = "entry" THEN n > AreaCount(f) ELSE n <= ExitEnd(f)
LinkOn(f, p, n) == f.hasCalls /\ IF p = "entry" THEN n > LinkEnd(f) ELSE n <= LinkPopped(f)
FPOn(f, p, n) == IF p = "entry" THEN n > LinkEnd(f) + 1 ELSE n <= FPPopped(f)
LocalsOn(f, p, n) == IF p = "entry" THEN n > PrologueEnd(f) ELSE n <= LocalsPopped(f)
DynamicOn(f, p, n) == IF p = "entry" THEN TRUE ELSE n <= DynamicPopped(f)
FPSet(f, p, n) == IF p = "entry" THEN n > LinkEnd(f) + 2 ELSE n <= FPPopped(f)
Spilled(f, p, n, j) == IF p = "entry" THEN n > PrologueEnd(f) + j ELSE n <= SpillCount(f)
Restored(f, p, n, j) == p = "exit" /\ n > SpillCount(f) + 1 - j
LinkKept(f, p, n) ==
    ~f.hasCalls \/ IF p = "entry" THEN n <= LinkEnd(f) ELSE n > LinkPopped(f)
RegisterKept(f, p, n, r) ==
    \/ p = "entry" /\ n <= EntryEnd(f)
    \/ \A j \in 1 .. SpillCount(f) : f.csi[j].reg = r => Restored(f, p, n, j)

SPAt(c, p, n) ==
    LET f == Code[c.fn]
    IN  c.sp - Bytes(AreaOn(f, p, n), f.vaSize) - Bytes(LinkOn(f, p, n), 4)
             - Bytes(FPOn(f, p, n), 4) - Bytes(LocalsOn(f, p, n), NumBytes(f))
             - Bytes(DynamicOn(f, p, n), c.dyn)
FPAt(c, up, p, n) == IF FPSet(Code[c.fn], p, n) THEN FPOf(c) ELSE up

(***************************************************************************)
(* The words an activation relies on, with what they hold.                 *)
(***************************************************************************)
SlotAddress(c, j) == FPOf(c) + Code[c.fn].objs[Code[c.fn].csi[j].fi + 1].offset
AreaAddress(c, j) == FPOf(c) + 8 + UNITS_PER_WORD * (j - 1)
ObjectAddress(c, o) ==
    IF o[1] = "dyn" THEN o[2] ELSE FPOf(c) + Code[c.fn].objs[o[2] + 1].offset + o[3]

FPClaims(c, up, p, n) ==
    {x \in {<<FPOf(c), Addr(up)>>} : FPOn(Code[c.fn], p, n)}
LinkClaims(c, p, n) ==
    {x \in {<<FPOf(c) + UNITS_PER_WORD, c.ret>>} : LinkOn(Code[c.fn], p, n)}
SlotClaims(c, p, n) ==
    {<<SlotAddress(c, j), c.keep[Code[c.fn].csi[j].reg]>> :
        j \in {i \in 1 .. SpillCount(Code[c.fn]) : Spilled(Code[c.fn], p, n, i)}}
AreaClaims(k, c, p, n) ==
    {<<AreaAddress(c, j), Arg(k, Code[c.fn].named + j)>> :
        j \in {i \in 1 .. StoreCount(Code[c.fn]) :
                  p = "entry" /\ n > SpillsEnd(Code[c.fn]) + i}}
WrittenClaims(k, c) == {<<ObjectAddress(c, o), Loc(k, o)>> : o \in c.written}
ArgClaims(k, sp, args) ==
    {<<sp + LocMemOffset(a), Arg(k, a)>> : a \in NumArgRegs + 1 .. args}

FrameClaims(k, c, up, p, n) ==
    FPClaims(c, up, p, n) \cup LinkClaims(c, p, n) \cup SlotClaims(c, p, n)
        \cup AreaClaims(k, c, p, n) \cup WrittenClaims(k, c)

(***************************************************************************)
(* What a sound activation is, and where a place is.                       *)
(***************************************************************************)
RegisterValues == {"reg"} \X Nat \X Registers
ReturnAddresses == {"ret"} \X (Functions \cup {Halt}) \X Functions
WordNames == {"obj", "dyn"} \X Nat \X Nat
Activations ==
    [fn : Functions, sp : Int, ret : ReturnAddresses, nargs : Nat,
     keep : [Registers -> RegisterValues], written : SUBSET WordNames, dyn : Nat]

BytesEach(bytes) ==
    /\ \A g \in Functions : EntrySP(Code[g]) + NumBytes(Code[g]) + MaxDynamic <= bytes
    /\ \A m \in Mains : MaxDepth[m] * bytes <= StackTop
StackBytes == CHOOSE bytes \in 0 .. StackTop : BytesEach(bytes)

\* What an activation has written lies in its objects and dynamic blocks.
WrittenInside(c) ==
    \A o \in c.written :
        \/ o[1] = "obj" /\ o \in ObjectWords(Code[c.fn])
        \/ /\ o = <<"dyn", o[2], 0>> /\ o[2] \in Nat /\ o[2] % UNITS_PER_WORD = 0
           /\ Bottom(c) <= o[2] /\ o[2] < Bottom(c) + c.dyn
ActivationSound(c) ==
    /\ c \in Activations
    /\ c.sp % UNITS_PER_WORD = 0 /\ c.sp <= StackTop
    /\ c.dyn <= MaxDynamic /\ c.dyn % UNITS_PER_WORD = 0
    /\ c.dyn > 0 => Code[c.fn].hasVarSized
    /\ Code[c.fn].named <= NumArgRegs \/ Code[c.fn].named <= c.nargs
    /\ WrittenInside(c)

\* The body comes after the entry's last instruction.
AtBody(f, p, n) == p = "entry" /\ n = EntryEnd(f) + 1
PlaceSound(c, p, n) ==
    /\ p \in {"entry", "exit"} /\ n \in 1 .. End(Code[c.fn], p) + 1
    /\ ~AtBody(Code[c.fn], p, n) => c.written = {}
    /\ (p = "entry" /\ n <= EntryEnd(Code[c.fn])) => c.dyn = 0

(***************************************************************************)
(* Facts about frames.                                                     *)
(***************************************************************************)

\* What the assumptions on Code say of one function's frame.
LEMMA FrameFacts ==
  ASSUME NEW g \in Functions
  PROVE  /\ SoundFrame(Code[g])
         /\ Code[g].named \in Nat /\ Code[g].stackSize \in Nat
         /\ Code[g].vaSize \in Nat /\ Code[g].vaSize % 4 = 0
         /\ Code[g].hasCalls \in BOOLEAN /\ Code[g].hasVarSized \in BOOLEAN
         /\ Code[g].csi \in Seq([reg : Registers, fi : Nat])
         /\ Code[g].objs \in Seq([size : Nat, offset : Int])
         /\ NumBytes(Code[g]) \in Nat /\ NumBytes(Code[g]) % 4 = 0
         /\ Code[g].vaSize # 0 => /\ Code[g].hasCalls /\ Code[g].named < 8
                                  /\ Code[g].vaSize = 4 * (8 - Code[g].named)
         /\ EntrySP(Code[g]) = 4 + Bytes(Code[g].hasCalls, 4) + Code[g].vaSize
  <1> DEFINE f == Code[g]
  <1>1. SoundFrame(f)  BY CodeAssumption
  <1>2. /\ f.named \in Nat /\ f.stackSize \in Nat /\ f.vaSize \in Nat
        /\ f.hasCalls \in BOOLEAN /\ f.hasVarSized \in BOOLEAN
        /\ f.csi \in Seq([reg : Registers, fi : Nat])
        /\ f.objs \in Seq([size : Nat, offset : Int])
        /\ f.vaSize # 0 => f.hasCalls /\ f.vaSize = VARegSaveSize(f.named)
    BY <1>1 DEF SoundFrame
  <1>3. NumBytes(f) \in Nat /\ NumBytes(f) % 4 = 0
    BY <1>2 DEF NumBytes, RoundUp, UNITS_PER_WORD
  <1>4. ASSUME f.vaSize # 0
        PROVE  f.named < 8 /\ f.vaSize = 4 * (8 - f.named)
    <2>1. PICK n \in Nat : n = f.named  BY <1>2
    <2>2. f.vaSize = RoundUp(4 * (8 - FirstUnallocated(n)), 4)
      BY <1>2, <1>4, <2>1 DEF VARegSaveSize, VARegSize, UNITS_PER_WORD, NumArgRegs, StackAlignment
    <2>3. n < 8
      BY <1>4, <2>2 DEF FirstUnallocated, NumArgRegs, RoundUp
    <2>4. f.vaSize = 4 * (8 - n)
      BY <2>2, <2>3 DEF FirstUnallocated, NumArgRegs, RoundUp
    <2> QED  BY <2>1, <2>3, <2>4
  <1>5. f.vaSize % 4 = 0  BY <1>2, <1>4
  <1>6. EntrySP(f) = 4 + Bytes(f.hasCalls, 4) + f.vaSize
    BY <1>2 DEF EntrySP, SavedBytes, Bytes, UNITS_PER_WORD
  <1> QED  BY <1>1, <1>2, <1>3, <1>4, <1>5, <1>6

\* The numbers of instructions, from those of the parts.
Kinds(f) ==
    /\ AreaCount(f) = IF f.vaSize # 0 THEN 1 ELSE 0
    /\ LinkCount(f) = IF f.hasCalls THEN 1 ELSE 0
    /\ LocalsCount(f) = IF NumBytes(f) > 0 THEN 1 ELSE 0
    /\ DynamicCount(f) = IF f.hasVarSized THEN 1 ELSE 0
Sums(f) ==
    /\ LinkEnd(f) = AreaCount(f) + LinkCount(f)
    /\ PrologueEnd(f) = LinkEnd(f) + 2 + LocalsCount(f)
    /\ SpillsEnd(f) = PrologueEnd(f) + SpillCount(f)
    /\ EntryEnd(f) = SpillsEnd(f) + StoreCount(f)
    /\ LocalsPopped(f) = SpillCount(f) + LocalsCount(f)
    /\ DynamicPopped(f) = LocalsPopped(f) + DynamicCount(f)
    /\ FPPopped(f) = DynamicPopped(f) + 1
    /\ LinkPopped(f) = FPPopped(f) + LinkCount(f)
    /\ ExitEnd(f) = LinkPopped(f) + AreaCount(f)
Counts(f) ==
    /\ AreaCount(f) \in Nat /\ LinkCount(f) \in Nat /\ LocalsCount(f) \in Nat
    /\ DynamicCount(f) \in Nat /\ SpillCount(f) \in Nat /\ StoreCount(f) \in Nat
Ends(f) ==
    /\ LinkEnd(f) \in Nat /\ PrologueEnd(f) \in Nat /\ SpillsEnd(f) \in Nat
    /\ EntryEnd(f) \in Nat /\ LocalsPopped(f) \in Nat /\ DynamicPopped(f) \in Nat
    /\ FPPopped(f) \in Nat /\ LinkPopped(f) \in Nat /\ ExitEnd(f) \in Nat
LEMMA PlaceNumbers ==
  ASSUME NEW g \in Functions
  PROVE  Kinds(Code[g]) /\ Sums(Code[g]) /\ Counts(Code[g]) /\ Ends(Code[g])
  <1> DEFINE f == Code[g]
  <1>1. /\ f.vaSize \in Nat /\ f.csi \in Seq([reg : Registers, fi : Nat])  BY FrameFacts
  <1>2. SpillCount(f) \in Nat /\ StoreCount(f) \in Nat
    BY <1>1 DEF SpillCount, StoreCount, UNITS_PER_WORD
  <1>3. Kinds(f)
    BY DEF AreaCount, LinkCount, LocalsCount, DynamicCount, One, Kinds
  <1>4. Sums(f)
    BY DEF LinkEnd, PrologueEnd, SpillsEnd, EntryEnd, LocalsPopped, DynamicPopped,
       FPPopped, LinkPopped, ExitEnd, Sums
  <1>5. Counts(f)
    BY <1>2, <1>3 DEF Kinds, Counts
  <1> HIDE DEF f
  <1>6. Ends(f)
    BY <1>4, <1>5 DEF Sums, Counts, Ends
  <1> QED  BY <1>3, <1>4, <1>5, <1>6 DEF f

(***************************************************************************)
(* The instruction at each place.                                          *)
(***************************************************************************)
LEMMA IfSequence ==
  ASSUME NEW S, NEW x \in S, NEW condition
  PROVE  /\ If(condition, x) \in Seq(S)
         /\ Len(If(condition, x)) = One(condition)
         /\ condition => If(condition, x)[1] = x
  <1>1. CASE condition  BY <1>1 DEF If, One
  <1>2. CASE ~condition  BY <1>2 DEF If, One
  <1> QED  BY <1>1, <1>2

\* What the prologue of f has at each place.
LEMMA PrologueAt ==
  ASSUME NEW g \in Functions, NEW f, f = Code[g]
  PROVE  /\ \E I : Prologue(f) \in Seq(I)
         /\ Len(Prologue(f)) = PrologueEnd(f)
         /\ f.vaSize # 0 => Prologue(f)[1] = Ins("SUBrsi", "SP", f.vaSize)
         /\ f.hasCalls => Prologue(f)[LinkEnd(f)] = Ins("STrri_a", "BLINK", 0)
         /\ Prologue(f)[LinkEnd(f) + 1] = Ins("STrri_a", "FP", 0)
         /\ Prologue(f)[LinkEnd(f) + 2] = Ins("MOVrr", "FP", 0)
         /\ NumBytes(f) > 0 =>
                   Prologue(f)[PrologueEnd(f)] = Ins("SUBrsi", "SP", NumBytes(f))
  <1>0. Kinds(f) /\ Sums(f) /\ Counts(f) /\ Ends(f)  BY PlaceNumbers
  <1> DEFINE area == Ins("SUBrsi", "SP", f.vaSize)
             link == Ins("STrri_a", "BLINK", 0)
             push == Ins("STrri_a", "FP", 0)
             set == Ins("MOVrr", "FP", 0)
             locals == Ins("SUBrsi", "SP", NumBytes(f))
             I == {area, link, push, set, locals}
             s1 == If(f.vaSize # 0, area)
             s2 == If(f.hasCalls, link)
             s3 == <<push, set>>
             s4 == If(NumBytes(f) > 0, locals)
  <1>1. f.vaSize \in Nat /\ NumBytes(f) \in Nat  BY FrameFacts
  <1>2. area \in I /\ link \in I /\ push \in I /\ set \in I /\ locals \in I
    OBVIOUS
  <1> HIDE DEF area, link, push, set, locals, I
  <1>3. /\ s1 \in Seq(I) /\ Len(s1) = AreaCount(f)
        /\ f.vaSize # 0 => s1[1] = area
    BY <1>2, IfSequence DEF AreaCount, LinkCount, LocalsCount
  <1>4. /\ s2 \in Seq(I) /\ Len(s2) = LinkCount(f)
        /\ f.hasCalls => s2[1] = link
    BY <1>2, IfSequence DEF AreaCount, LinkCount, LocalsCount
  <1>5. /\ s3 \in Seq(I) /\ Len(s3) = 2 /\ s3[1] = push /\ s3[2] = set
    BY <1>2
  <1>6. /\ s4 \in Seq(I) /\ Len(s4) = LocalsCount(f)
        /\ NumBytes(f) > 0 => s4[1] = locals
    BY <1>2, IfSequence DEF AreaCount, LinkCount, LocalsCount
  <1>7. Prologue(f) = ((s1 \o s2) \o s3) \o s4
    BY DEF Prologue, area, link, push, set, locals
  <1> DEFINE s12 == s1 \o s2  s123 == s12 \o s3  s == s123 \o s4
  <1> HIDE DEF s1, s2, s3, s4
  <1>8. /\ s12 \in Seq(I) /\ Len(s12) = LinkEnd(f)
        /\ f.vaSize # 0 => s12[1] = area
        /\ f.hasCalls => s12[LinkEnd(f)] = link
    <2>1. /\ s12 \in Seq(I) /\ Len(s12) = Len(s1) + Len(s2)
          /\ \A i \in 1 .. Len(s1) + Len(s2) :
                s12[i] = IF i <= Len(s1) THEN s1[i] ELSE s2[i - Len(s1)]
      BY <1>3, <1>4, ConcatProperties
    <2> QED  BY <2>1, <1>3, <1>4, <1>0 DEF Kinds, Sums, Counts
  <1>9. /\ s123 \in Seq(I) /\ Len(s123) = LinkEnd(f) + 2
        /\ f.vaSize # 0 => s123[1] = area
        /\ f.hasCalls => s123[LinkEnd(f)] = link
        /\ s123[LinkEnd(f) + 1] = push /\ s123[LinkEnd(f) + 2] = set
    <2> HIDE DEF s12
    <2>1. /\ s123 \in Seq(I) /\ Len(s123) = Len(s12) + Len(s3)
          /\ \A i \in 1 .. Len(s12) + Len(s3) :
                s123[i] = IF i <= Len(s12) THEN s12[i] ELSE s3[i - Len(s12)]
      BY <1>5, <1>8, ConcatProperties
    <2> QED  BY <2>1, <1>5, <1>8, <1>0 DEF Kinds, Sums, Counts
  <1>10. /\ s \in Seq(I) /\ Len(s) = PrologueEnd(f)
         /\ f.vaSize # 0 => s[1] = area
         /\ f.hasCalls => s[LinkEnd(f)] = link
         /\ s[LinkEnd(f) + 1] = push /\ s[LinkEnd(f) + 2] = set
         /\ NumBytes(f) > 0 => s[PrologueEnd(f)] = locals
    <2> HIDE DEF s123
    <2>1. /\ s \in Seq(I) /\ Len(s) = Len(s123) + Len(s4)
          /\ \A i \in 1 .. Len(s123) + Len(s4) :
                s[i] = IF i <= Len(s123) THEN s123[i] ELSE s4[i - Len(s123)]
      BY <1>6, <1>9, ConcatProperties
    <2>2. LinkEnd(f) \in Nat /\ LocalsCount(f) \in Nat  BY <1>0 DEF Ends, Counts
    <2>3. Len(s) = PrologueEnd(f)  BY <2>1, <2>2, <1>6, <1>9, <1>0 DEF Sums
    <2>4. \A i \in 1 .. LinkEnd(f) + 2 : s[i] = s123[i]  BY <2>1, <2>2, <1>6, <1>9
    <2>5. f.vaSize # 0 => s[1] = area  BY <2>2, <2>4, <1>9
    <2>6. f.hasCalls => s[LinkEnd(f)] = link
      BY <2>2, <2>4, <1>9, <1>0 DEF Kinds, Sums, Counts
    <2>7. s[LinkEnd(f) + 1] = push /\ s[LinkEnd(f) + 2] = set  BY <2>2, <2>4, <1>9
    <2>8. NumBytes(f) > 0 => s[PrologueEnd(f)] = locals
      BY <2>1, <2>2, <2>3, <1>6, <1>9, <1>0 DEF Kinds, Sums
    <2> QED  BY <2>1, <2>3, <2>5, <2>6, <2>7, <2>8
  <1>11. Prologue(f) = s  BY <1>7
  <1> HIDE DEF s
  <1> QED  BY <1>10, <1>11 DEF area, link, push, set, locals

\* What the epilogue of f has at each place.
LEMMA EpilogueAt ==
  ASSUME NEW g \in Functions, NEW f, f = Code[g]
  PROVE  /\ \E I : Epilogue(f) \in Seq(I)
         /\ Len(Epilogue(f)) = ExitEnd(f) - SpillCount(f)
         /\ NumBytes(f) > 0 => Epilogue(f)[1] = Ins("ADDrsi", "SP", NumBytes(f))
         /\ f.hasVarSized =>
               Epilogue(f)[DynamicPopped(f) - SpillCount(f)] = Ins("MOVrr", "SP", 0)
         /\ Epilogue(f)[FPPopped(f) - SpillCount(f)] = Ins("LDri_ab", "FP", 0)
         /\ f.hasCalls =>
               Epilogue(f)[LinkPopped(f) - SpillCount(f)] = Ins("LDri_ab", "BLINK", 0)
         /\ f.vaSize # 0 =>
               Epilogue(f)[ExitEnd(f) - SpillCount(f)] = Ins("ADDrsi", "SP", f.vaSize)
  <1>0. Kinds(f) /\ Sums(f) /\ Counts(f) /\ Ends(f)  BY PlaceNumbers
  <1> DEFINE locals == Ins("ADDrsi", "SP", NumBytes(f))
             move == Ins("MOVrr", "SP", 0)
             pop == Ins("LDri_ab", "FP", 0)
             link == Ins("LDri_ab", "BLINK", 0)
             area == Ins("ADDrsi", "SP", f.vaSize)
             I == {locals, move, pop, link, area}
             s1 == If(NumBytes(f) > 0, locals)
             s2 == If(f.hasVarSized, move)
             s3 == <<pop>>
             s4 == If(f.hasCalls, link)
             s5 == If(f.vaSize # 0, area)
  <1>2. locals \in I /\ move \in I /\ pop \in I /\ link \in I /\ area \in I
    OBVIOUS
  <1> HIDE DEF locals, move, pop, link, area, I
  <1>3. /\ s1 \in Seq(I) /\ Len(s1) = LocalsCount(f)
        /\ NumBytes(f) > 0 => s1[1] = locals
    BY <1>2, IfSequence DEF LocalsCount
  <1>4. /\ s2 \in Seq(I) /\ Len(s2) = DynamicCount(f)
        /\ f.hasVarSized => s2[1] = move
    BY <1>2, IfSequence DEF DynamicCount
  <1>5. s3 \in Seq(I) /\ Len(s3) = 1 /\ s3[1] = pop
    BY <1>2
  <1>6. /\ s4 \in Seq(I) /\ Len(s4) = LinkCount(f)
        /\ f.hasCalls => s4[1] = link
    BY <1>2, IfSequence DEF LinkCount
  <1>7. /\ s5 \in Seq(I) /\ Len(s5) = AreaCount(f)
        /\ f.vaSize # 0 => s5[1] = area
    BY <1>2, IfSequence DEF AreaCount
  <1>8. Epilogue(f) = (((s1 \o s2) \o s3) \o s4) \o s5
    BY DEF Epilogue, locals, move, pop, link, area
  <1> DEFINE a == s1 \o s2  b == a \o s3  c == b \o s4  s == c \o s5
  <1> HIDE DEF s1, s2, s3, s4, s5
  <1>9. /\ a \in Seq(I) /\ Len(a) = LocalsCount(f) + DynamicCount(f)
        /\ NumBytes(f) > 0 => a[1] = locals
        /\ f.hasVarSized => a[Len(a)] = move
    <2>1. /\ a \in Seq(I) /\ Len(a) = Len(s1) + Len(s2)
          /\ \A i \in 1 .. Len(s1) + Len(s2) :
                a[i] = IF i <= Len(s1) THEN s1[i] ELSE s2[i - Len(s1)]
      BY <1>3, <1>4, ConcatProperties
    <2> QED  BY <2>1, <1>3, <1>4, <1>0 DEF Kinds, Sums, Counts
  <1>10. /\ b \in Seq(I) /\ Len(b) = Len(a) + 1
         /\ NumBytes(f) > 0 => b[1] = locals
         /\ f.hasVarSized => b[Len(a)] = move
         /\ b[Len(b)] = pop
    <2> HIDE DEF a
    <2>1. /\ b \in Seq(I) /\ Len(b) = Len(a) + Len(s3)
          /\ \A i \in 1 .. Len(a) + Len(s3) :
                b[i] = IF i <= Len(a) THEN a[i] ELSE s3[i - Len(a)]
      BY <1>5, <1>9, ConcatProperties
    <2> QED  BY <2>1, <1>5, <1>9, <1>0 DEF Kinds, Sums, Counts
  <1>11. /\ c \in Seq(I) /\ Len(c) = Len(b) + LinkCount(f)
         /\ NumBytes(f) > 0 => c[1] = locals
         /\ f.hasVarSized => c[Len(a)] = move
         /\ c[Len(b)] = pop
         /\ f.hasCalls => c[Len(c)] = link
    <2> HIDE DEF a, b
    <2>1. /\ c \in Seq(I) /\ Len(c) = Len(b) + Len(s4)
          /\ \A i \in 1 .. Len(b) + Len(s4) :
                c[i] = IF i <= Len(b) THEN b[i] ELSE s4[i - Len(b)]
      BY <1>6, <1>10, ConcatProperties
    <2>2. Len(a) \in Nat /\ Len(b) = Len(a) + 1  BY <1>9, <1>10, <1>0 DEF Counts
    <2>3. Len(c) = Len(b) + LinkCount(f)  BY <2>1, <1>6
    <2>4. \A i \in 1 .. Len(b) : c[i] = b[i]  BY <2>1, <2>2, <1>6, <1>0 DEF Counts
    <2>5. NumBytes(f) > 0 => c[1] = locals  BY <2>2, <2>4, <1>10
    <2>6. f.hasVarSized => c[Len(a)] = move
      BY <2>2, <2>4, <1>9, <1>10, <1>0 DEF Kinds, Counts
    <2>7. c[Len(b)] = pop  BY <2>2, <2>4, <1>10
    <2>8. f.hasCalls => c[Len(c)] = link
      BY <2>1, <2>2, <2>3, <1>6, <1>0 DEF Kinds
    <2> QED  BY <2>1, <2>3, <2>5, <2>6, <2>7, <2>8
  <1>12. /\ s \in Seq(I) /\ Len(s) = Len(c) + AreaCount(f)
         /\ NumBytes(f) > 0 => s[1] = locals
         /\ f.hasVarSized => s[Len(a)] = move
         /\ s[Len(b)] = pop
         /\ f.hasCalls => s[Len(c)] = link
         /\ f.vaSize # 0 => s[Len(s)] = area
    <2> HIDE DEF a, b, c
    <2>1. /\ s \in Seq(I) /\ Len(s) = Len(c) + Len(s5)
          /\ \A i \in 1 .. Len(c) + Len(s5) :
                s[i] = IF i <= Len(c) THEN c[i] ELSE s5[i - Len(c)]
      BY <1>7, <1>11, ConcatProperties
    <2>2. Len(a) \in Nat /\ Len(b) = Len(a) + 1  BY <1>9, <1>10, <1>0 DEF Counts
    <2>3. Len(c) \in Nat /\ Len(c) >= Len(b)  BY <2>2, <1>11, <1>0 DEF Counts
    <2>4. Len(s) = Len(c) + AreaCount(f)  BY <2>1, <1>7
    <2>5. \A i \in 1 .. Len(c) : s[i] = c[i]  BY <2>1, <2>3, <1>7, <1>0 DEF Counts
    <2>6. NumBytes(f) > 0 => s[1] = locals  BY <2>2, <2>3, <2>5, <1>11
    <2>7. f.hasVarSized => s[Len(a)] = move
      BY <2>2, <2>3, <2>5, <1>9, <1>11, <1>0 DEF Kinds, Counts
    <2>8. s[Len(b)] = pop  BY <2>2, <2>3, <2>5, <1>11
    <2>9. f.hasCalls => s[Len(c)] = link  BY <2>2, <2>3, <2>5, <1>11
    <2>10. f.vaSize # 0 => s[Len(s)] = area
      BY <2>1, <2>3, <2>4, <1>7, <1>0 DEF Kinds
    <2> QED  BY <2>1, <2>4, <2>6, <2>7, <2>8, <2>9, <2>10
  <1>13. Epilogue(f) = s  BY <1>8
  <1> HIDE DEF a, b, c, s
  <1>14. /\ Len(a) = DynamicPopped(f) - SpillCount(f) /\ Len(b) = FPPopped(f) - SpillCount(f)
         /\ Len(c) = LinkPopped(f) - SpillCount(f) /\ Len(s) = ExitEnd(f) - SpillCount(f)
    <2>1. Len(a) = DynamicPopped(f) - SpillCount(f)  BY <1>9, <1>0 DEF Sums, Counts
    <2>2. PICK n \in Nat : n = SpillCount(f)  BY <1>0 DEF Counts
    <2>3. PICK d \in Nat : d = DynamicPopped(f)  BY <1>0 DEF Ends
    <2>4. /\ FPPopped(f) = d + 1 /\ LinkPopped(f) = FPPopped(f) + LinkCount(f)
          /\ ExitEnd(f) = LinkPopped(f) + AreaCount(f)
      BY <2>3, <1>0 DEF Sums
    <2>5. LinkCount(f) \in Nat /\ AreaCount(f) \in Nat  BY <1>0 DEF Counts
    <2>6. Len(b) = FPPopped(f) - SpillCount(f)  BY <2>1, <2>2, <2>3, <2>4, <1>10
    <2>7. Len(c) = LinkPopped(f) - SpillCount(f)  BY <2>6, <2>2, <2>4, <2>5, <1>11
    <2>8. Len(s) = ExitEnd(f) - SpillCount(f)  BY <2>7, <2>2, <2>4, <2>5, <1>12
    <2> QED  BY <2>1, <2>6, <2>7, <2>8
  <1> QED  BY <1>12, <1>13, <1>14 DEF area, link, pop, move, locals

\* The instruction at place n of an entry.
LEMMA EntryAt ==
  ASSUME NEW g \in Functions, NEW f, f = Code[g]
  PROVE  /\ Len(EntryCode[g]) = EntryEnd(f)
         /\ \A n \in 1 .. EntryEnd(f) :
               EntryCode[g][n] =
                  IF n <= AreaCount(f) THEN Ins("SUBrsi", "SP", f.vaSize)
                  ELSE IF n <= LinkEnd(f) THEN Ins("STrri_a", "BLINK", 0)
                  ELSE IF n = LinkEnd(f) + 1 THEN Ins("STrri_a", "FP", 0)
                  ELSE IF n = LinkEnd(f) + 2 THEN Ins("MOVrr", "FP", 0)
                  ELSE IF n <= PrologueEnd(f) THEN Ins("SUBrsi", "SP", NumBytes(f))
                  ELSE IF n <= SpillsEnd(f)
                  THEN Ins("STrri", f.csi[n - PrologueEnd(f)].reg, f.csi[n - PrologueEnd(f)].fi)
                  ELSE Ins("STva", f.named + (n - SpillsEnd(f)), n - SpillsEnd(f) - 1)
  <1>1. f.vaSize \in Nat /\ f.named \in Nat  BY FrameFacts
  <1>0. Kinds(f) /\ Sums(f) /\ Counts(f) /\ Ends(f)  BY PlaceNumbers
  <1> DEFINE p == Prologue(f)
             r == SpillCount(f)
             w == StoreCount(f)
             spills == Spills(f)
             saves == SaveArgRegs(f)
  <1>2. r \in Nat /\ w \in Nat  BY <1>0 DEF Kinds, Sums, Counts
  <1>3. PICK I : p \in Seq(I)  BY PrologueAt
  <1> DEFINE J == I \cup {spills[j] : j \in 1 .. r} \cup {saves[j] : j \in 1 .. w}
  <1>4. p \in Seq(J)
    BY <1>3, SeqMonotonic
  <1>5. /\ spills = [j \in 1 .. r |-> Ins("STrri", f.csi[j].reg, f.csi[j].fi)]
        /\ saves = [j \in 1 .. w |-> Ins("STva", f.named + j, j - 1)]
    BY DEF Spills, SaveArgRegs, StoreCount, SpillCount
  <1>6. spills \in Seq(J) /\ Len(spills) = r
    <2>1. \A j \in 1 .. r : spills[j] \in J  OBVIOUS
    <2>2. spills \in [1 .. r -> J]  BY <1>5, <2>1
    <2> HIDE DEF spills, r, J
    <2> QED  BY <1>2, <2>2, <1>5
  <1>7. saves \in Seq(J) /\ Len(saves) = w
    <2>1. \A j \in 1 .. w : saves[j] \in J  OBVIOUS
    <2>2. saves \in [1 .. w -> J]  BY <1>5, <2>1
    <2> HIDE DEF saves, w, J
    <2> QED  BY <1>2, <2>2, <1>5
  <1>8. EntryCode[g] = (p \o spills) \o saves
    BY DEF EntryCode, Entry
  <1> DEFINE s == p \o spills  t == s \o saves
  <1> HIDE DEF p, spills, saves, J, r, w
  <1>9. /\ s \in Seq(J) /\ Len(s) = Len(p) + r
        /\ \A i \in 1 .. Len(p) + r : s[i] = IF i <= Len(p) THEN p[i] ELSE spills[i - Len(p)]
    BY <1>4, <1>6, ConcatProperties
  <1> HIDE DEF s
  <1>10. /\ Len(t) = Len(s) + w
         /\ \A i \in 1 .. Len(s) + w : t[i] = IF i <= Len(s) THEN s[i] ELSE saves[i - Len(s)]
    BY <1>7, <1>9, ConcatProperties
  <1>11. EntryCode[g] = t  BY <1>8 DEF s
  <1> HIDE DEF t
  <1>12. /\ Len(p) = PrologueEnd(f)
         /\ f.vaSize # 0 => p[1] = Ins("SUBrsi", "SP", f.vaSize)
         /\ f.hasCalls => p[LinkEnd(f)] = Ins("STrri_a", "BLINK", 0)
         /\ p[LinkEnd(f) + 1] = Ins("STrri_a", "FP", 0)
         /\ p[LinkEnd(f) + 2] = Ins("MOVrr", "FP", 0)
         /\ NumBytes(f) > 0 => p[PrologueEnd(f)] = Ins("SUBrsi", "SP", NumBytes(f))
    BY PrologueAt DEF p
  <1>13. /\ Len(s) = SpillsEnd(f) /\ Len(t) = EntryEnd(f)
    BY <1>2, <1>9, <1>10, <1>12, <1>0 DEF Kinds, Sums, Counts, r, w
  <1>14. ASSUME NEW n \in 1 .. PrologueEnd(f)
         PROVE  p[n] = IF n <= AreaCount(f) THEN Ins("SUBrsi", "SP", f.vaSize)
                  ELSE IF n <= LinkEnd(f) THEN Ins("STrri_a", "BLINK", 0)
                  ELSE IF n = LinkEnd(f) + 1 THEN Ins("STrri_a", "FP", 0)
                  ELSE IF n = LinkEnd(f) + 2 THEN Ins("MOVrr", "FP", 0)
                  ELSE Ins("SUBrsi", "SP", NumBytes(f))
    <2>1. CASE n <= AreaCount(f)  BY <2>1, <1>12, <1>0 DEF Kinds, Sums, Counts
    <2>2. CASE n > AreaCount(f) /\ n <= LinkEnd(f)
      <3>1. n = LinkEnd(f) /\ f.hasCalls  BY <2>2, <1>0 DEF Kinds, Sums, Counts
      <3> QED  BY <2>2, <3>1, <1>12, <1>0 DEF Kinds, Sums, Counts
    <2>3. CASE n > LinkEnd(f) + 2
      <3>1. n = PrologueEnd(f) /\ NumBytes(f) > 0  BY <2>3, <1>0 DEF Kinds, Sums, Counts
      <3>2. n > AreaCount(f) /\ n > LinkEnd(f)  BY <2>3, <1>0 DEF Kinds, Sums, Counts
      <3> QED  BY <2>3, <3>1, <3>2, <1>12, <1>0 DEF Kinds, Sums, Counts
    <2>4. CASE n = LinkEnd(f) + 1  BY <2>4, <1>12, <1>0 DEF Kinds, Sums, Counts
    <2>5. CASE n = LinkEnd(f) + 2  BY <2>5, <1>12, <1>0 DEF Kinds, Sums, Counts
    <2> QED  BY <2>1, <2>2, <2>3, <2>4, <2>5, <1>0 DEF Kinds, Sums, Counts
  <1>15. ASSUME NEW n \in 1 .. EntryEnd(f)
         PROVE  t[n] = IF n <= PrologueEnd(f) THEN p[n]
                       ELSE IF n <= SpillsEnd(f)
                       THEN Ins("STrri", f.csi[n - PrologueEnd(f)].reg, f.csi[n - PrologueEnd(f)].fi)
                       ELSE Ins("STva", f.named + (n - SpillsEnd(f)), n - SpillsEnd(f) - 1)
    <2>1. CASE n <= PrologueEnd(f)
      BY <2>1, <1>9, <1>10, <1>12, <1>13, <1>0 DEF Kinds, Sums, Counts
    <2>2. CASE n > PrologueEnd(f) /\ n <= SpillsEnd(f)
      <3>1. PICK j \in 1 .. r : j = n - PrologueEnd(f)
        BY <2>2, <1>0 DEF Sums, Counts, Ends, r
      <3>2. t[n] = spills[j]
        <4>1. PICK lp \in Nat : lp = Len(p)  BY <1>0, <1>12 DEF Ends
        <4>2. PICK ls \in Nat : ls = Len(s)  BY <1>0, <1>13 DEF Ends
        <4>3. /\ n \in Nat /\ n > lp /\ n <= ls /\ j = n - lp /\ ls = lp + r
          BY <2>2, <3>1, <4>1, <4>2, <1>9, <1>12, <1>13
        <4>4. t[n] = s[n]
          <5>1. n \in 1 .. ls + w /\ n <= ls  BY ONLY <4>1, <4>2, <4>3, <1>2
          <5> QED  BY <5>1, <4>2, <1>10
        <4>5. s[n] = spills[n - lp]
          <5>1. n \in 1 .. lp + r /\ ~(n <= lp)  BY ONLY <4>1, <4>2, <4>3, <1>2
          <5> QED  BY <5>1, <4>1, <1>9
        <4> QED  BY <4>3, <4>4, <4>5
      <3>3. spills[j] = Ins("STrri", f.csi[j].reg, f.csi[j].fi)  BY <1>5
      <3> QED  BY <2>2, <3>1, <3>2, <3>3, <1>0 DEF Kinds, Sums, Counts
    <2>3. CASE n > SpillsEnd(f)
      <3>1. PICK j \in 1 .. w : j = n - SpillsEnd(f)
        BY <2>3, <1>0 DEF Kinds, Sums, Counts, w
      <3>2. t[n] = saves[j]
        BY <2>3, <3>1, <1>10, <1>13, <1>0 DEF Kinds, Sums, Counts, w
      <3>3. saves[j] = Ins("STva", f.named + j, j - 1)  BY <1>5
      <3> QED  BY <2>3, <3>1, <3>2, <3>3, <1>0 DEF Kinds, Sums, Counts
    <2> QED  BY <2>1, <2>2, <2>3, <1>0 DEF Kinds, Sums, Counts
  <1>16. Len(EntryCode[g]) = EntryEnd(f)  BY <1>11, <1>13
  <1>17. ASSUME NEW n \in 1 .. EntryEnd(f)
         PROVE  EntryCode[g][n] =
                  IF n <= AreaCount(f) THEN Ins("SUBrsi", "SP", f.vaSize)
                  ELSE IF n <= LinkEnd(f) THEN Ins("STrri_a", "BLINK", 0)
                  ELSE IF n = LinkEnd(f) + 1 THEN Ins("STrri_a", "FP", 0)
                  ELSE IF n = LinkEnd(f) + 2 THEN Ins("MOVrr", "FP", 0)
                  ELSE IF n <= PrologueEnd(f) THEN Ins("SUBrsi", "SP", NumBytes(f))
                  ELSE IF n <= SpillsEnd(f)
                  THEN Ins("STrri", f.csi[n - PrologueEnd(f)].reg, f.csi[n - PrologueEnd(f)].fi)
                  ELSE Ins("STva", f.named + (n - SpillsEnd(f)), n - SpillsEnd(f) - 1)
    <2>1. CASE n <= PrologueEnd(f)
      BY <2>1, <1>11, <1>14, <1>15, <1>0 DEF Kinds, Sums, Counts
    <2>2. CASE n > PrologueEnd(f)
      BY <2>2, <1>11, <1>15, <1>0 DEF Kinds, Sums, Counts
    <2> QED  BY <2>1, <2>2, <1>0 DEF Kinds, Sums, Counts
  <1> QED  BY <1>16, <1>17

\* The instruction at place n of an exit.
LEMMA ExitAt ==
  ASSUME NEW g \in Functions, NEW f, f = Code[g]
  PROVE  /\ Len(ExitCode[g]) = ExitEnd(f)
         /\ \A n \in 1 .. ExitEnd(f) :
               ExitCode[g][n] =
                  IF n <= SpillCount(f)
                  THEN Ins("LDri", f.csi[SpillCount(f) + 1 - n].reg, f.csi[SpillCount(f) + 1 - n].fi)
                  ELSE IF n <= LocalsPopped(f) THEN Ins("ADDrsi", "SP", NumBytes(f))
                  ELSE IF n <= DynamicPopped(f) THEN Ins("MOVrr", "SP", 0)
                  ELSE IF n = FPPopped(f) THEN Ins("LDri_ab", "FP", 0)
                  ELSE IF n <= LinkPopped(f) THEN Ins("LDri_ab", "BLINK", 0)
                  ELSE Ins("ADDrsi", "SP", f.vaSize)
  <1>0. Kinds(f) /\ Sums(f) /\ Counts(f) /\ Ends(f)  BY PlaceNumbers
  <1> DEFINE e == Epilogue(f)
             r == SpillCount(f)
             restores == Restores(f)
  <1>1. r \in Nat  BY <1>0 DEF Kinds, Sums, Counts
  <1>2. PICK I : e \in Seq(I)  BY EpilogueAt
  <1> DEFINE J == I \cup {restores[j] : j \in 1 .. r}
  <1>3. e \in Seq(J)
    BY <1>2, SeqMonotonic
  <1>4. restores = [j \in 1 .. r |-> Ins("LDri", f.csi[r + 1 - j].reg, f.csi[r + 1 - j].fi)]
    BY DEF Restores, SpillCount
  <1>5. restores \in Seq(J) /\ Len(restores) = r
    <2>1. \A j \in 1 .. r : restores[j] \in J  OBVIOUS
    <2>2. restores \in [1 .. r -> J]  BY <1>4, <2>1
    <2> HIDE DEF restores, r, J
    <2> QED  BY <1>1, <2>2, <1>4
  <1>6. ExitCode[g] = restores \o e
    BY DEF ExitCode, Exit
  <1> DEFINE s == restores \o e
  <1> HIDE DEF e, restores, J, r
  <1>7. /\ Len(s) = r + Len(e)
        /\ \A i \in 1 .. r + Len(e) : s[i] = IF i <= r THEN restores[i] ELSE e[i - r]
    BY <1>3, <1>5, ConcatProperties
  <1> HIDE DEF s
  <1>8. /\ Len(e) = ExitEnd(f) - r
        /\ NumBytes(f) > 0 => e[1] = Ins("ADDrsi", "SP", NumBytes(f))
        /\ f.hasVarSized => e[DynamicPopped(f) - r] = Ins("MOVrr", "SP", 0)
        /\ e[FPPopped(f) - r] = Ins("LDri_ab", "FP", 0)
        /\ f.hasCalls => e[LinkPopped(f) - r] = Ins("LDri_ab", "BLINK", 0)
        /\ f.vaSize # 0 => e[ExitEnd(f) - r] = Ins("ADDrsi", "SP", f.vaSize)
    BY EpilogueAt DEF e, r
  <1>9. /\ LocalsPopped(f) = r + LocalsCount(f)
        /\ DynamicPopped(f) = LocalsPopped(f) + DynamicCount(f)
        /\ FPPopped(f) = DynamicPopped(f) + 1
        /\ LinkPopped(f) = FPPopped(f) + LinkCount(f)
        /\ ExitEnd(f) = LinkPopped(f) + AreaCount(f)
        /\ AreaCount(f) = IF f.vaSize # 0 THEN 1 ELSE 0
        /\ LinkCount(f) = IF f.hasCalls THEN 1 ELSE 0
        /\ LocalsCount(f) = IF NumBytes(f) > 0 THEN 1 ELSE 0
        /\ DynamicCount(f) = IF f.hasVarSized THEN 1 ELSE 0
    BY <1>0 DEF Kinds, Sums, Counts, r
  <1>10. Len(s) = ExitEnd(f)  BY <1>1, <1>7, <1>8, <1>9
  <1>11. ASSUME NEW n \in 1 .. ExitEnd(f)
         PROVE  s[n] = IF n <= r
                  THEN Ins("LDri", f.csi[r + 1 - n].reg, f.csi[r + 1 - n].fi)
                  ELSE IF n <= LocalsPopped(f) THEN Ins("ADDrsi", "SP", NumBytes(f))
                  ELSE IF n <= DynamicPopped(f) THEN Ins("MOVrr", "SP", 0)
                  ELSE IF n = FPPopped(f) THEN Ins("LDri_ab", "FP", 0)
                  ELSE IF n <= LinkPopped(f) THEN Ins("LDri_ab", "BLINK", 0)
                  ELSE Ins("ADDrsi", "SP", f.vaSize)
    <2>1. CASE n <= r
      <3>1. s[n] = restores[n]  BY <2>1, <1>1, <1>7, <1>8, <1>9
      <3> QED  BY <2>1, <3>1, <1>4
    <2>2. CASE n > r /\ n <= LocalsPopped(f)
      <3>1. n = r + 1 /\ NumBytes(f) > 0  BY <2>2, <1>1, <1>9
      <3>2. s[n] = e[1]  BY <3>1, <1>1, <1>7, <1>8, <1>9
      <3> QED  BY <2>2, <3>1, <3>2, <1>8, <1>1, <1>9
    <2>3. CASE n > LocalsPopped(f) /\ n <= DynamicPopped(f)
      <3>1. n > r /\ n = DynamicPopped(f) /\ f.hasVarSized  BY <2>3, <1>1, <1>9
      <3>2. s[n] = e[n - r]  BY <3>1, <1>1, <1>7, <1>8, <1>9
      <3> QED  BY <2>3, <3>1, <3>2, <1>8, <1>1, <1>9
    <2>4. CASE n = FPPopped(f)
      <3>1. n > r /\ n > LocalsPopped(f) /\ n > DynamicPopped(f)  BY <2>4, <1>1, <1>9
      <3>2. s[n] = e[n - r]  BY <3>1, <1>1, <1>7, <1>8, <1>9
      <3> QED  BY <2>4, <3>1, <3>2, <1>8, <1>1, <1>9
    <2>5. CASE n > FPPopped(f) /\ n <= LinkPopped(f)
      <3>1. /\ n > r /\ n > LocalsPopped(f) /\ n > DynamicPopped(f)
            /\ n = LinkPopped(f) /\ f.hasCalls
        BY <2>5, <1>1, <1>9
      <3>2. s[n] = e[n - r]  BY <3>1, <1>1, <1>7, <1>8, <1>9
      <3> QED  BY <2>5, <3>1, <3>2, <1>8, <1>1, <1>9
    <2>6. CASE n > LinkPopped(f)
      <3>1. /\ n > r /\ n > LocalsPopped(f) /\ n > DynamicPopped(f) /\ n > FPPopped(f)
            /\ n = ExitEnd(f) /\ f.vaSize # 0
        BY <2>6, <1>1, <1>9
      <3>2. s[n] = e[n - r]  BY <3>1, <1>1, <1>7, <1>8, <1>9
      <3> QED  BY <2>6, <3>1, <3>2, <1>8, <1>1, <1>9
    <2> QED  BY <2>1, <2>2, <2>3, <2>4, <2>5, <2>6, <1>1, <1>9
  <1>12. ExitCode[g] = s  BY <1>6 DEF s
  <1> QED  BY <1>10, <1>11, <1>12 DEF r

(***************************************************************************)
(* Where each kind of instruction is.                                      *)
(***************************************************************************)
LEMMA EntryOps ==
  ASSUME NEW g \in Functions, NEW f, f = Code[g],
         NEW n \in 1 .. EntryEnd(f), NEW i, i = EntryCode[g][n]
  PROVE  /\ i.op = "SUBrsi" =>
               \/ n = AreaCount(f) /\ f.vaSize # 0 /\ i.imm = f.vaSize
               \/ n = PrologueEnd(f) /\ NumBytes(f) > 0 /\ i.imm = NumBytes(f)
         /\ i.op = "STrri_a" =>
               \/ n = LinkEnd(f) /\ f.hasCalls /\ i.reg = "BLINK"
               \/ n = LinkEnd(f) + 1 /\ i.reg = "FP"
         /\ i.op = "MOVrr" => n = LinkEnd(f) + 2 /\ i.reg = "FP"
         /\ i.op = "STrri" =>
               \E j \in 1 .. SpillCount(f) :
                  n = PrologueEnd(f) + j /\ i.reg = f.csi[j].reg /\ i.imm = f.csi[j].fi
         /\ i.op = "STva" =>
               \E j \in 1 .. StoreCount(f) :
                  n = SpillsEnd(f) + j /\ i.reg = f.named + j /\ i.imm = j - 1
         /\ i.op \in {"SUBrsi", "STrri_a", "MOVrr", "STrri", "STva"}
  <1>0. Kinds(f) /\ Sums(f) /\ Counts(f) /\ Ends(f)  BY PlaceNumbers
  <1>1. CASE n <= AreaCount(f)
    <2>1. i = Ins("SUBrsi", "SP", f.vaSize)  BY <1>1, EntryAt
    <2>2. n = AreaCount(f) /\ f.vaSize # 0  BY <1>1, <1>0 DEF Kinds
    <2> QED  BY <2>1, <2>2 DEF Ins
  <1>2. CASE n > AreaCount(f) /\ n <= LinkEnd(f)
    <2>1. n = LinkEnd(f) /\ f.hasCalls  BY <1>2, <1>0 DEF Kinds, Sums, Counts
    <2>2. i = Ins("STrri_a", "BLINK", 0)  BY <1>2, <1>0, EntryAt DEF Counts
    <2> QED  BY <2>1, <2>2 DEF Ins
  <1>3. CASE n = LinkEnd(f) + 1
    <2>1. ~(n <= AreaCount(f)) /\ ~(n <= LinkEnd(f))  BY <1>3, <1>0 DEF Sums, Counts
    <2>2. i = Ins("STrri_a", "FP", 0)  BY <1>3, <2>1, EntryAt
    <2> QED  BY <1>3, <2>2 DEF Ins
  <1>4. CASE n = LinkEnd(f) + 2
    <2>1. ~(n <= AreaCount(f)) /\ ~(n <= LinkEnd(f)) /\ n # LinkEnd(f) + 1
      BY <1>4, <1>0 DEF Sums, Counts
    <2>2. i = Ins("MOVrr", "FP", 0)  BY <1>4, <2>1, EntryAt
    <2> QED  BY <1>4, <2>2 DEF Ins
  <1>5. CASE n > LinkEnd(f) + 2 /\ n <= PrologueEnd(f)
    <2>1. /\ ~(n <= AreaCount(f)) /\ ~(n <= LinkEnd(f))
          /\ n # LinkEnd(f) + 1 /\ n # LinkEnd(f) + 2
      BY <1>5, <1>0 DEF Sums, Counts
    <2>2. n = PrologueEnd(f) /\ NumBytes(f) > 0  BY <1>5, <1>0 DEF Kinds, Sums, Ends
    <2>3. i = Ins("SUBrsi", "SP", NumBytes(f))  BY <1>5, <2>1, EntryAt
    <2> QED  BY <2>2, <2>3 DEF Ins
  <1>6. CASE n > PrologueEnd(f)
    <2>1. /\ ~(n <= AreaCount(f)) /\ ~(n <= LinkEnd(f)) /\ ~(n <= PrologueEnd(f))
          /\ n # LinkEnd(f) + 1 /\ n # LinkEnd(f) + 2
      BY <1>6, <1>0 DEF Sums, Counts
    <2>2. CASE n <= SpillsEnd(f)
      <3>1. PICK j \in 1 .. SpillCount(f) : j = n - PrologueEnd(f)
        BY <1>6, <2>2, <1>0 DEF Sums, Counts, Ends
      <3>2. i = Ins("STrri", f.csi[j].reg, f.csi[j].fi)  BY <2>1, <2>2, <3>1, EntryAt
      <3>3. n = PrologueEnd(f) + j  BY <3>1, <1>0 DEF Ends
      <3> QED  BY <3>2, <3>3 DEF Ins
    <2>3. CASE n > SpillsEnd(f)
      <3>1. PICK j \in 1 .. StoreCount(f) : j = n - SpillsEnd(f)
        BY <2>3, <1>0 DEF Sums, Counts, Ends
      <3>2. ~(n <= SpillsEnd(f))  BY <2>3, <1>0 DEF Ends
      <3>3. i = Ins("STva", f.named + j, j - 1)  BY <2>1, <3>2, <3>1, EntryAt
      <3>4. n = SpillsEnd(f) + j  BY <3>1, <1>0 DEF Ends
      <3> QED  BY <3>3, <3>4 DEF Ins
    <2> QED  BY <2>2, <2>3, <1>0 DEF Ends
  <1> QED  BY <1>1, <1>2, <1>3, <1>4, <1>5, <1>6, <1>0 DEF Ends, Counts

LEMMA ExitOps ==
  ASSUME NEW g \in Functions, NEW f, f = Code[g],
         NEW n \in 1 .. ExitEnd(f), NEW i, i = ExitCode[g][n]
  PROVE  /\ i.op = "LDri" =>
               \E j \in 1 .. SpillCount(f) :
                  n = SpillCount(f) + 1 - j /\ i.reg = f.csi[j].reg /\ i.imm = f.csi[j].fi
         /\ i.op = "ADDrsi" =>
               \/ n = LocalsPopped(f) /\ NumBytes(f) > 0 /\ i.imm = NumBytes(f)
               \/ n = ExitEnd(f) /\ f.vaSize # 0 /\ i.imm = f.vaSize
         /\ i.op = "MOVrr" => n = DynamicPopped(f) /\ f.hasVarSized /\ i.reg = "SP"
         /\ i.op = "LDri_ab" =>
               \/ n = FPPopped(f) /\ i.reg = "FP"
               \/ n = LinkPopped(f) /\ f.hasCalls /\ i.reg = "BLINK"
         /\ i.op \in {"LDri", "ADDrsi", "MOVrr", "LDri_ab"}
  <1>0. Kinds(f) /\ Sums(f) /\ Counts(f) /\ Ends(f)  BY PlaceNumbers
  <1>1. CASE n <= SpillCount(f)
    <2>1. PICK j \in 1 .. SpillCount(f) : j = SpillCount(f) + 1 - n  BY <1>1, <1>0 DEF Counts
    <2>2. i = Ins("LDri", f.csi[j].reg, f.csi[j].fi)  BY <1>1, <2>1, ExitAt
    <2>3. n = SpillCount(f) + 1 - j  BY <2>1, <1>0 DEF Counts
    <2> QED  BY <2>2, <2>3 DEF Ins
  <1>2. CASE n > SpillCount(f) /\ n <= LocalsPopped(f)
    <2>1. n = LocalsPopped(f) /\ NumBytes(f) > 0  BY <1>2, <1>0 DEF Kinds, Sums, Counts
    <2>2. i = Ins("ADDrsi", "SP", NumBytes(f))  BY <1>2, <1>0, ExitAt DEF Counts
    <2> QED  BY <2>1, <2>2 DEF Ins
  <1>3. CASE n > LocalsPopped(f) /\ n <= DynamicPopped(f)
    <2>1. n = DynamicPopped(f) /\ f.hasVarSized  BY <1>3, <1>0 DEF Kinds, Sums, Ends
    <2>2. ~(n <= SpillCount(f)) /\ ~(n <= LocalsPopped(f))  BY <1>3, <1>0 DEF Sums, Counts
    <2>3. i = Ins("MOVrr", "SP", 0)  BY <1>3, <2>2, ExitAt
    <2> QED  BY <2>1, <2>3 DEF Ins
  <1>4. CASE n = FPPopped(f)
    <2>1. ~(n <= SpillCount(f)) /\ ~(n <= LocalsPopped(f)) /\ ~(n <= DynamicPopped(f))
      BY <1>4, <1>0 DEF Sums, Counts
    <2>2. i = Ins("LDri_ab", "FP", 0)  BY <1>4, <2>1, ExitAt
    <2> QED  BY <1>4, <2>2 DEF Ins
  <1>5. CASE n > FPPopped(f)
    <2>1. /\ ~(n <= SpillCount(f)) /\ ~(n <= LocalsPopped(f)) /\ ~(n <= DynamicPopped(f))
          /\ n # FPPopped(f)
      BY <1>5, <1>0 DEF Sums, Counts
    <2>2. CASE n <= LinkPopped(f)
      <3>1. n = LinkPopped(f) /\ f.hasCalls  BY <1>5, <2>2, <1>0 DEF Kinds, Sums, Ends
      <3>2. i = Ins("LDri_ab", "BLINK", 0)  BY <2>1, <2>2, ExitAt
      <3> QED  BY <3>1, <3>2 DEF Ins
    <2>3. CASE n > LinkPopped(f)
      <3>1. n = ExitEnd(f) /\ f.vaSize # 0  BY <2>3, <1>0 DEF Kinds, Sums, Ends
      <3>2. ~(n <= LinkPopped(f))  BY <2>3, <1>0 DEF Ends
      <3>3. i = Ins("ADDrsi", "SP", f.vaSize)  BY <2>1, <3>2, ExitAt
      <3> QED  BY <3>1, <3>3 DEF Ins
    <2> QED  BY <2>2, <2>3, <1>0 DEF Ends
  <1>6. n <= SpillCount(f) \/ (n > SpillCount(f) /\ n <= LocalsPopped(f))
          \/ (n > LocalsPopped(f) /\ n <= DynamicPopped(f)) \/ n = FPPopped(f) \/ n > FPPopped(f)
    BY <1>0 DEF Ends, Counts, Sums
  <1> QED  BY <1>1, <1>2, <1>3, <1>4, <1>5, <1>6

(***************************************************************************)
(* What each instruction does to SP and FP.                                *)
(***************************************************************************)

\* The FP of c, from SP on entry.
LEMMA FPOfFrame ==
  ASSUME NEW c, c.fn \in Functions, c.sp \in Int
  PROVE  /\ FPOf(c) = c.sp - 4 - Bytes(Code[c.fn].hasCalls, 4) - Code[c.fn].vaSize
         /\ FPOf(c) \in Int
  <1> DEFINE f == Code[c.fn]
  <1>1. /\ EntrySP(f) = 4 + Bytes(f.hasCalls, 4) + f.vaSize
        /\ f.vaSize \in Nat
    BY FrameFacts
  <1>2. PICK b \in Nat : b = Bytes(f.hasCalls, 4)  BY DEF Bytes
  <1>3. FPOf(c) = c.sp - EntrySP(f)  BY DEF FPOf
  <1> HIDE DEF f
  <1>4. /\ FPOf(c) = c.sp - 4 - Bytes(f.hasCalls, 4) - f.vaSize
        /\ FPOf(c) \in Int
    BY <1>1, <1>2, <1>3
  <1> QED  BY <1>4 DEF f

LEMMA SPInEntry ==
  ASSUME NEW c, c.fn \in Functions, c.sp \in Int, c.dyn \in Int,
         NEW f, f = Code[c.fn], NEW n \in Int
  PROVE  SPAt(c, "entry", n) =
            c.sp - (IF n > AreaCount(f) THEN f.vaSize ELSE 0)
                 - (IF f.hasCalls /\ n > LinkEnd(f) THEN 4 ELSE 0)
                 - (IF n > LinkEnd(f) + 1 THEN 4 ELSE 0)
                 - (IF n > PrologueEnd(f) THEN NumBytes(f) ELSE 0) - c.dyn
  BY DEF SPAt, AreaOn, LinkOn, FPOn, LocalsOn, DynamicOn, Bytes

LEMMA SPInExit ==
  ASSUME NEW c, c.fn \in Functions, c.sp \in Int, c.dyn \in Int,
         NEW f, f = Code[c.fn], NEW n \in Int
  PROVE  SPAt(c, "exit", n) =
            c.sp - (IF n <= ExitEnd(f) THEN f.vaSize ELSE 0)
                 - (IF f.hasCalls /\ n <= LinkPopped(f) THEN 4 ELSE 0)
                 - (IF n <= FPPopped(f) THEN 4 ELSE 0)
                 - (IF n <= LocalsPopped(f) THEN NumBytes(f) ELSE 0)
                 - (IF n <= DynamicPopped(f) THEN c.dyn ELSE 0)
  BY DEF SPAt, AreaOn, LinkOn, FPOn, LocalsOn, DynamicOn, Bytes

\* At the first instruction SP is that of the call, FP the caller's.
LEMMA PointersOnEntry ==
  ASSUME NEW c, c.fn \in Functions, c.sp \in Int, c.dyn = 0, NEW up
  PROVE  SPAt(c, "entry", 1) = c.sp /\ FPAt(c, up, "entry", 1) = up
  <1> DEFINE f == Code[c.fn]
  <1>0. Kinds(f) /\ Sums(f) /\ Counts(f) /\ Ends(f)  BY PlaceNumbers
  <1>1. f.vaSize \in Nat /\ NumBytes(f) \in Nat  BY FrameFacts
  <1> HIDE DEF f
  <1>2. /\ 1 > AreaCount(f) => f.vaSize = 0
        /\ 1 > LinkEnd(f) => ~f.hasCalls
        /\ ~(1 > LinkEnd(f) + 1) /\ ~(1 > PrologueEnd(f)) /\ ~(1 > LinkEnd(f) + 2)
    BY <1>0, <1>1 DEF Kinds, Sums, Ends, Counts
  <1>3. SPAt(c, "entry", 1) = c.sp
    BY <1>1, <1>2, SPInEntry DEF f
  <1> QED  BY <1>2, <1>3 DEF FPAt, FPSet, f

\* In the body they are where the frame's layout assumes them.
LEMMA PointersInBody ==
  ASSUME NEW c, c.fn \in Functions, c.sp \in Int, c.dyn \in Nat, NEW up,
         NEW n, n = EntryEnd(Code[c.fn]) + 1
  PROVE  SPAt(c, "entry", n) = Bottom(c) /\ FPAt(c, up, "entry", n) = FPOf(c)
  <1> DEFINE f == Code[c.fn]
  <1>0. Kinds(f) /\ Sums(f) /\ Counts(f) /\ Ends(f)  BY PlaceNumbers
  <1>1. f.vaSize \in Nat /\ NumBytes(f) \in Nat /\ f.hasCalls \in BOOLEAN  BY FrameFacts
  <1>2. FPOf(c) = c.sp - 4 - (IF f.hasCalls THEN 4 ELSE 0) - f.vaSize
    BY FPOfFrame DEF Bytes
  <1>3. Bottom(c) = FPOf(c) - NumBytes(f) - c.dyn  BY DEF Bottom
  <1> HIDE DEF f
  <1>4. /\ n > AreaCount(f) /\ n > LinkEnd(f) /\ n > LinkEnd(f) + 1 /\ n > LinkEnd(f) + 2
        /\ n > PrologueEnd(f) /\ n \in Int
    BY <1>0 DEF Sums, Ends, Counts, f
  <1>5. SPAt(c, "entry", n) = Bottom(c)
    BY <1>1, <1>2, <1>3, <1>4, SPInEntry DEF f
  <1> QED  BY <1>4, <1>5 DEF FPAt, FPSet, f

\* When the exit begins they are still there.
LEMMA PointersInExit ==
  ASSUME NEW c, c.fn \in Functions, c.sp \in Int, c.dyn \in Nat, NEW up,
         c.dyn > 0 => Code[c.fn].hasVarSized
  PROVE  SPAt(c, "exit", 1) = Bottom(c) /\ FPAt(c, up, "exit", 1) = FPOf(c)
  <1> DEFINE f == Code[c.fn]
  <1>0. Kinds(f) /\ Sums(f) /\ Counts(f) /\ Ends(f)  BY PlaceNumbers
  <1>1. f.vaSize \in Nat /\ NumBytes(f) \in Nat /\ f.hasCalls \in BOOLEAN  BY FrameFacts
  <1>2. FPOf(c) = c.sp - 4 - (IF f.hasCalls THEN 4 ELSE 0) - f.vaSize
    BY FPOfFrame DEF Bytes
  <1>3. Bottom(c) = FPOf(c) - NumBytes(f) - c.dyn  BY DEF Bottom
  <1>4. c.dyn > 0 => f.hasVarSized  OBVIOUS
  <1> HIDE DEF f
  <1>5. 1 <= ExitEnd(f) /\ 1 <= LinkPopped(f) /\ 1 <= FPPopped(f)
    BY <1>0 DEF Sums, Ends, Counts
  <1>6. ~(1 <= LocalsPopped(f)) => NumBytes(f) = 0
    BY <1>0, <1>1 DEF Sums, Kinds, Counts
  <1>7. ~(1 <= DynamicPopped(f)) => c.dyn = 0
    BY <1>0, <1>4 DEF Sums, Kinds, Counts, Ends
  <1>8. SPAt(c, "exit", 1) = Bottom(c)
    BY <1>1, <1>2, <1>3, <1>5, <1>6, <1>7, SPInExit DEF f
  <1> QED  BY <1>5, <1>8 DEF FPAt, FPSet, f

\* After the last instruction they are what they were at the call.
LEMMA PointersOnReturn ==
  ASSUME NEW c, c.fn \in Functions, c.sp \in Int, c.dyn \in Nat, NEW up,
         NEW n, n = ExitEnd(Code[c.fn]) + 1
  PROVE  SPAt(c, "exit", n) = c.sp /\ FPAt(c, up, "exit", n) = up
  <1> DEFINE f == Code[c.fn]
  <1>0. Sums(f) /\ Counts(f) /\ Ends(f)  BY PlaceNumbers
  <1> HIDE DEF f
  <1>1. /\ ~(n <= ExitEnd(f)) /\ ~(n <= LinkPopped(f)) /\ ~(n <= FPPopped(f))
        /\ ~(n <= LocalsPopped(f)) /\ ~(n <= DynamicPopped(f)) /\ n \in Int
    BY <1>0 DEF Sums, Ends, Counts, f
  <1>2. SPAt(c, "exit", n) = c.sp
    BY <1>1, SPInExit DEF f
  <1> QED  BY <1>1, <1>2 DEF FPAt, FPSet, f

LEMMA EntryPointers ==
  ASSUME NEW c, c.fn \in Functions, c.sp \in Int, c.dyn = 0, NEW up,
         NEW n \in 1 .. EntryEnd(Code[c.fn]), NEW i, i = EntryCode[c.fn][n]
  PROVE  /\ i.op = "SUBrsi" => /\ SPAt(c, "entry", n + 1) = SPAt(c, "entry", n) - i.imm
                               /\ FPAt(c, up, "entry", n + 1) = FPAt(c, up, "entry", n)
         /\ i.op = "STrri_a" => /\ SPAt(c, "entry", n + 1) = SPAt(c, "entry", n) - 4
                                /\ FPAt(c, up, "entry", n + 1) = up
                                /\ FPAt(c, up, "entry", n) = up
                                /\ SPAt(c, "entry", n + 1) =
                                      FPOf(c) + IF i.reg = "FP" THEN 0 ELSE 4
         /\ i.op = "MOVrr" => /\ SPAt(c, "entry", n + 1) = SPAt(c, "entry", n)
                              /\ FPAt(c, up, "entry", n + 1) = SPAt(c, "entry", n)
         /\ i.op \in {"STrri", "STva"} =>
               /\ SPAt(c, "entry", n + 1) = SPAt(c, "entry", n)
               /\ FPAt(c, up, "entry", n) = FPOf(c)
               /\ FPAt(c, up, "entry", n + 1) = FPOf(c)
  <1> DEFINE f == Code[c.fn]
             S(k) == SPAt(c, "entry", k)
             F(k) == FPAt(c, up, "entry", k)
  <1>0. Kinds(f) /\ Sums(f) /\ Counts(f) /\ Ends(f)  BY PlaceNumbers
  <1>1. f.vaSize \in Nat /\ NumBytes(f) \in Nat /\ f.hasCalls \in BOOLEAN  BY FrameFacts
  <1>2. FPOf(c) = c.sp - 4 - (IF f.hasCalls THEN 4 ELSE 0) - f.vaSize
    BY FPOfFrame DEF Bytes
  <1>3. \A k \in Int : S(k) =
            c.sp - (IF k > AreaCount(f) THEN f.vaSize ELSE 0)
                 - (IF f.hasCalls /\ k > LinkEnd(f) THEN 4 ELSE 0)
                 - (IF k > LinkEnd(f) + 1 THEN 4 ELSE 0)
                 - (IF k > PrologueEnd(f) THEN NumBytes(f) ELSE 0)
    BY SPInEntry, <1>1
  <1>4. \A k \in Int : F(k) = IF k > LinkEnd(f) + 2 THEN FPOf(c) ELSE up
    BY DEF FPAt, FPSet
  <1>5. /\ i.op = "SUBrsi" =>
               \/ n = AreaCount(f) /\ f.vaSize # 0 /\ i.imm = f.vaSize
               \/ n = PrologueEnd(f) /\ NumBytes(f) > 0 /\ i.imm = NumBytes(f)
        /\ i.op = "STrri_a" =>
               \/ n = LinkEnd(f) /\ f.hasCalls /\ i.reg = "BLINK"
               \/ n = LinkEnd(f) + 1 /\ i.reg = "FP"
        /\ i.op = "MOVrr" => n = LinkEnd(f) + 2
        /\ i.op = "STrri" => \E j \in 1 .. SpillCount(f) : n = PrologueEnd(f) + j
        /\ i.op = "STva" => \E j \in 1 .. StoreCount(f) : n = SpillsEnd(f) + j
    BY EntryOps
  <1>6. n \in Int /\ n >= 1  BY <1>0 DEF Ends
  <1> HIDE DEF f, S, F
  <1>7. ASSUME i.op = "SUBrsi"
        PROVE  S(n + 1) = S(n) - i.imm /\ F(n + 1) = F(n)
    <2>1. CASE n = AreaCount(f) /\ f.vaSize # 0 /\ i.imm = f.vaSize
      <3>1. /\ ~(n > AreaCount(f)) /\ n + 1 > AreaCount(f)
            /\ f.hasCalls => ~(n + 1 > LinkEnd(f)) /\ ~(n > LinkEnd(f))
            /\ ~(n + 1 > LinkEnd(f) + 1) /\ ~(n + 1 > LinkEnd(f) + 2) /\ ~(n + 1 > PrologueEnd(f))
            /\ ~(n > LinkEnd(f) + 1) /\ ~(n > LinkEnd(f) + 2) /\ ~(n > PrologueEnd(f))
        BY <2>1, <1>0, <1>6 DEF Sums, Kinds, Counts
      <3> QED  BY <2>1, <3>1, <1>1, <1>3, <1>4, <1>6
    <2>2. CASE n = PrologueEnd(f) /\ NumBytes(f) > 0 /\ i.imm = NumBytes(f)
      <3>1. /\ n > AreaCount(f) /\ n > LinkEnd(f) /\ n > LinkEnd(f) + 1 /\ n > LinkEnd(f) + 2
            /\ ~(n > PrologueEnd(f)) /\ n + 1 > AreaCount(f) /\ n + 1 > LinkEnd(f)
            /\ n + 1 > LinkEnd(f) + 1 /\ n + 1 > LinkEnd(f) + 2 /\ n + 1 > PrologueEnd(f)
        BY <2>2, <1>0, <1>6 DEF Sums, Kinds, Counts
      <3> QED  BY <2>2, <3>1, <1>1, <1>3, <1>4, <1>6
    <2> QED  BY <1>5, <1>7, <2>1, <2>2
  <1>8. ASSUME i.op = "STrri_a"
        PROVE  /\ S(n + 1) = S(n) - 4 /\ F(n + 1) = up /\ F(n) = up
               /\ S(n + 1) = FPOf(c) + IF i.reg = "FP" THEN 0 ELSE 4
    <2>1. CASE n = LinkEnd(f) /\ f.hasCalls /\ i.reg = "BLINK"
      <3>1. /\ n + 1 > AreaCount(f) /\ ~(n > AreaCount(f)) => f.vaSize = 0
            /\ ~(n > LinkEnd(f)) /\ n + 1 > LinkEnd(f)
            /\ ~(n + 1 > LinkEnd(f) + 1) /\ ~(n + 1 > LinkEnd(f) + 2) /\ ~(n + 1 > PrologueEnd(f))
            /\ ~(n > LinkEnd(f) + 1) /\ ~(n > LinkEnd(f) + 2) /\ ~(n > PrologueEnd(f))
        BY <2>1, <1>0, <1>1, <1>6 DEF Sums, Kinds, Counts
      <3>2. n > AreaCount(f) /\ n + 1 > AreaCount(f)
        BY <2>1, <1>0, <1>6 DEF Sums, Kinds, Counts
      <3> QED  BY <2>1, <3>1, <3>2, <1>1, <1>2, <1>3, <1>4, <1>6
    <2>2. CASE n = LinkEnd(f) + 1 /\ i.reg = "FP"
      <3>1. /\ n > AreaCount(f) /\ n + 1 > AreaCount(f) /\ n > LinkEnd(f) /\ n + 1 > LinkEnd(f)
            /\ ~(n > LinkEnd(f) + 1) /\ n + 1 > LinkEnd(f) + 1
            /\ ~(n + 1 > LinkEnd(f) + 2) /\ ~(n + 1 > PrologueEnd(f))
            /\ ~(n > LinkEnd(f) + 2) /\ ~(n > PrologueEnd(f))
        BY <2>2, <1>0, <1>6 DEF Sums, Counts
      <3> QED  BY <2>2, <3>1, <1>1, <1>2, <1>3, <1>4, <1>6
    <2> QED  BY <1>5, <1>8, <2>1, <2>2
  <1>9. ASSUME i.op = "MOVrr"
        PROVE  S(n + 1) = S(n) /\ F(n + 1) = S(n)
    <2>1. n = LinkEnd(f) + 2  BY <1>5, <1>9
    <2>2. /\ n > AreaCount(f) /\ n + 1 > AreaCount(f) /\ n > LinkEnd(f) /\ n + 1 > LinkEnd(f)
          /\ n > LinkEnd(f) + 1 /\ n + 1 > LinkEnd(f) + 1
          /\ n + 1 > LinkEnd(f) + 2 /\ ~(n > PrologueEnd(f))
          /\ n + 1 > PrologueEnd(f) => NumBytes(f) = 0
      BY <2>1, <1>0, <1>1, <1>6 DEF Sums, Counts, Kinds
    <2> QED  BY <2>1, <2>2, <1>1, <1>2, <1>3, <1>4, <1>6
  <1>10. ASSUME i.op \in {"STrri", "STva"}
         PROVE  S(n + 1) = S(n) /\ F(n) = FPOf(c) /\ F(n + 1) = FPOf(c)
    <2>1. n > PrologueEnd(f)
      <3>1. CASE i.op = "STrri"
        <4>1. PICK j \in 1 .. SpillCount(f) : n = PrologueEnd(f) + j  BY <1>5, <3>1
        <4> QED  BY <4>1, <1>0 DEF Ends, Counts
      <3>2. CASE i.op = "STva"
        <4>1. PICK j \in 1 .. StoreCount(f) : n = SpillsEnd(f) + j  BY <1>5, <3>2
        <4> QED  BY <4>1, <1>0 DEF Ends, Counts, Sums
      <3> QED  BY <3>1, <3>2, <1>10
    <2>2. /\ n > AreaCount(f) /\ n + 1 > AreaCount(f) /\ n > LinkEnd(f) /\ n + 1 > LinkEnd(f)
          /\ n > LinkEnd(f) + 1 /\ n + 1 > LinkEnd(f) + 1
          /\ n > LinkEnd(f) + 2 /\ n + 1 > LinkEnd(f) + 2 /\ n + 1 > PrologueEnd(f)
      BY <2>1, <1>0, <1>6 DEF Sums, Counts
    <2> QED  BY <2>1, <2>2, <1>1, <1>2, <1>3, <1>4, <1>6
  <1> QED  BY <1>7, <1>8, <1>9, <1>10 DEF S, F

LEMMA ExitPointers ==
  ASSUME NEW c, c.fn \in Functions, c.sp \in Int, c.dyn \in Nat, NEW up,
         c.dyn > 0 => Code[c.fn].hasVarSized,
         NEW n \in 1 .. ExitEnd(Code[c.fn]), NEW i, i = ExitCode[c.fn][n]
  PROVE  /\ i.op = "LDri" => /\ SPAt(c, "exit", n + 1) = SPAt(c, "exit", n)
                             /\ FPAt(c, up, "exit", n) = FPOf(c)
                             /\ FPAt(c, up, "exit", n + 1) = FPOf(c)
         /\ i.op = "ADDrsi" => /\ SPAt(c, "exit", n + 1) = SPAt(c, "exit", n) + i.imm
                               /\ FPAt(c, up, "exit", n + 1) = FPAt(c, up, "exit", n)
         /\ i.op = "MOVrr" => /\ SPAt(c, "exit", n + 1) = FPAt(c, up, "exit", n)
                              /\ FPAt(c, up, "exit", n + 1) = FPAt(c, up, "exit", n)
         /\ i.op = "LDri_ab" =>
               /\ SPAt(c, "exit", n + 1) = SPAt(c, "exit", n) + 4
               /\ SPAt(c, "exit", n) = FPOf(c) + IF i.reg = "FP" THEN 0 ELSE 4
               /\ FPAt(c, up, "exit", n + 1) = up
               /\ i.reg # "FP" => FPAt(c, up, "exit", n) = up
  <1> DEFINE f == Code[c.fn]
             S(k) == SPAt(c, "exit", k)
             F(k) == FPAt(c, up, "exit", k)
  <1>0. Kinds(f) /\ Sums(f) /\ Counts(f) /\ Ends(f)  BY PlaceNumbers
  <1>1. f.vaSize \in Nat /\ NumBytes(f) \in Nat /\ f.hasCalls \in BOOLEAN  BY FrameFacts
  <1>2. FPOf(c) = c.sp - 4 - (IF f.hasCalls THEN 4 ELSE 0) - f.vaSize
    BY FPOfFrame DEF Bytes
  <1>3. \A k \in Int : S(k) =
            c.sp - (IF k <= ExitEnd(f) THEN f.vaSize ELSE 0)
                 - (IF f.hasCalls /\ k <= LinkPopped(f) THEN 4 ELSE 0)
                 - (IF k <= FPPopped(f) THEN 4 ELSE 0)
                 - (IF k <= LocalsPopped(f) THEN NumBytes(f) ELSE 0)
                 - (IF k <= DynamicPopped(f) THEN c.dyn ELSE 0)
    BY SPInExit
  <1>4. \A k \in Int : F(k) = IF k <= FPPopped(f) THEN FPOf(c) ELSE up
    BY DEF FPAt, FPSet
  <1>5. /\ i.op = "LDri" => \E j \in 1 .. SpillCount(f) : n = SpillCount(f) + 1 - j
        /\ i.op = "ADDrsi" =>
               \/ n = LocalsPopped(f) /\ NumBytes(f) > 0 /\ i.imm = NumBytes(f)
               \/ n = ExitEnd(f) /\ f.vaSize # 0 /\ i.imm = f.vaSize
        /\ i.op = "MOVrr" => n = DynamicPopped(f) /\ f.hasVarSized
        /\ i.op = "LDri_ab" =>
               \/ n = FPPopped(f) /\ i.reg = "FP"
               \/ n = LinkPopped(f) /\ f.hasCalls /\ i.reg = "BLINK"
    BY ExitOps
  <1>6. n \in Int /\ n >= 1  BY <1>0 DEF Ends
  <1>7. c.dyn > 0 => f.hasVarSized  OBVIOUS
  <1> HIDE DEF f, S, F
  <1>8. ASSUME i.op = "LDri"
        PROVE  S(n + 1) = S(n) /\ F(n) = FPOf(c) /\ F(n + 1) = FPOf(c)
    <2>1. n <= SpillCount(f)
      <3>1. PICK j \in 1 .. SpillCount(f) : n = SpillCount(f) + 1 - j  BY <1>5, <1>8
      <3> QED  BY <3>1, <1>0 DEF Counts
    <2>2. /\ n <= ExitEnd(f) /\ n + 1 <= ExitEnd(f) /\ n <= LinkPopped(f) /\ n + 1 <= LinkPopped(f)
          /\ n <= FPPopped(f) /\ n + 1 <= FPPopped(f)
          /\ n <= LocalsPopped(f) /\ n <= DynamicPopped(f)
      BY <2>1, <1>0, <1>6 DEF Sums, Counts
    <2>3. ~(n + 1 <= LocalsPopped(f)) => NumBytes(f) = 0
      BY <2>1, <1>0, <1>1, <1>6 DEF Sums, Counts, Kinds
    <2>4. ~(n + 1 <= DynamicPopped(f)) => c.dyn = 0
      BY <2>1, <1>0, <1>7, <1>6 DEF Sums, Counts, Kinds
    <2> QED  BY <2>2, <2>3, <2>4, <1>1, <1>3, <1>4, <1>6
  <1>9. ASSUME i.op = "ADDrsi"
        PROVE  S(n + 1) = S(n) + i.imm /\ F(n + 1) = F(n)
    <2>1. CASE n = LocalsPopped(f) /\ NumBytes(f) > 0 /\ i.imm = NumBytes(f)
      <3>1. /\ n <= ExitEnd(f) /\ n + 1 <= ExitEnd(f) /\ n <= LinkPopped(f) /\ n + 1 <= LinkPopped(f)
            /\ n <= FPPopped(f) /\ n + 1 <= FPPopped(f)
            /\ n <= LocalsPopped(f) /\ ~(n + 1 <= LocalsPopped(f)) /\ n <= DynamicPopped(f)
        BY <2>1, <1>0, <1>6 DEF Sums, Counts
      <3>2. ~(n + 1 <= DynamicPopped(f)) => c.dyn = 0
        BY <2>1, <1>0, <1>7, <1>6 DEF Sums, Counts, Kinds
      <3> QED  BY <2>1, <3>1, <3>2, <1>1, <1>3, <1>4, <1>6
    <2>2. CASE n = ExitEnd(f) /\ f.vaSize # 0 /\ i.imm = f.vaSize
      <3>1. /\ n <= ExitEnd(f) /\ ~(n + 1 <= ExitEnd(f)) /\ ~(n <= LinkPopped(f))
            /\ ~(n + 1 <= LinkPopped(f)) /\ ~(n <= FPPopped(f)) /\ ~(n + 1 <= FPPopped(f))
            /\ ~(n <= LocalsPopped(f)) /\ ~(n + 1 <= LocalsPopped(f))
            /\ ~(n <= DynamicPopped(f)) /\ ~(n + 1 <= DynamicPopped(f))
        BY <2>2, <1>0, <1>6 DEF Sums, Counts, Kinds
      <3> QED  BY <2>2, <3>1, <1>1, <1>3, <1>4, <1>6
    <2> QED  BY <1>5, <1>9, <2>1, <2>2
  <1>10. ASSUME i.op = "MOVrr"
         PROVE  S(n + 1) = F(n) /\ F(n + 1) = F(n)
    <2>1. n = DynamicPopped(f)  BY <1>5, <1>10
    <2>2. /\ n <= ExitEnd(f) /\ n + 1 <= ExitEnd(f) /\ n <= LinkPopped(f) /\ n + 1 <= LinkPopped(f)
          /\ n <= FPPopped(f) /\ n + 1 <= FPPopped(f)
          /\ ~(n + 1 <= LocalsPopped(f)) /\ ~(n + 1 <= DynamicPopped(f))
      BY <2>1, <1>0, <1>6 DEF Sums, Counts
    <2> QED  BY <2>1, <2>2, <1>1, <1>2, <1>3, <1>4, <1>6
  <1>11. ASSUME i.op = "LDri_ab"
         PROVE  /\ S(n + 1) = S(n) + 4
                /\ S(n) = FPOf(c) + IF i.reg = "FP" THEN 0 ELSE 4
                /\ F(n + 1) = up
                /\ i.reg # "FP" => F(n) = up
    <2>1. CASE n = FPPopped(f) /\ i.reg = "FP"
      <3>1. /\ n <= ExitEnd(f) /\ n <= LinkPopped(f) /\ n <= FPPopped(f)
            /\ ~(n + 1 <= FPPopped(f))
            /\ ~(n <= LocalsPopped(f)) /\ ~(n + 1 <= LocalsPopped(f))
            /\ ~(n <= DynamicPopped(f)) /\ ~(n + 1 <= DynamicPopped(f))
        BY <2>1, <1>0, <1>6 DEF Sums, Counts
      <3>2. /\ ~(n + 1 <= LinkPopped(f)) => ~f.hasCalls
            /\ ~(n + 1 <= ExitEnd(f)) => f.vaSize = 0
        BY <2>1, <1>0, <1>1, <1>6 DEF Sums, Counts, Kinds
      <3> QED  BY <2>1, <3>1, <3>2, <1>1, <1>2, <1>3, <1>4, <1>6
    <2>2. CASE n = LinkPopped(f) /\ f.hasCalls /\ i.reg = "BLINK"
      <3>1. /\ n <= ExitEnd(f) /\ n <= LinkPopped(f) /\ ~(n + 1 <= LinkPopped(f))
            /\ ~(n <= FPPopped(f)) /\ ~(n + 1 <= FPPopped(f))
            /\ ~(n <= LocalsPopped(f)) /\ ~(n + 1 <= LocalsPopped(f))
            /\ ~(n <= DynamicPopped(f)) /\ ~(n + 1 <= DynamicPopped(f))
        BY <2>2, <1>0, <1>6 DEF Sums, Counts, Kinds
      <3>2. ~(n + 1 <= ExitEnd(f)) => f.vaSize = 0
        BY <2>2, <1>0, <1>1, <1>6 DEF Sums, Counts, Kinds
      <3> QED  BY <2>2, <3>1, <3>2, <1>1, <1>2, <1>3, <1>4, <1>6
    <2> QED  BY <1>5, <1>11, <2>1, <2>2
  <1> QED  BY <1>8, <1>9, <1>10, <1>11 DEF S, F

(***************************************************************************)
(* The objects of a frame, its callee-saved slots, and their addresses.    *)
(***************************************************************************)
LEMMA ObjectFacts ==
  ASSUME NEW g \in Functions, NEW f, f = Code[g], NEW k \in 1 .. Len(f.objs)
  PROVE  /\ f.objs[k].offset \in Int /\ f.objs[k].size \in Nat
         /\ f.objs[k].offset % 4 = 0
         /\ -NumBytes(f) <= f.objs[k].offset /\ f.objs[k].offset + f.objs[k].size <= 0
         /\ \A l \in 1 .. Len(f.objs) \ {k} :
               \/ f.objs[k].offset + f.objs[k].size <= f.objs[l].offset
               \/ f.objs[l].offset + f.objs[l].size <= f.objs[k].offset
  <1>1. SoundFrame(f) /\ f.objs \in Seq([size : Nat, offset : Int])  BY FrameFacts
  <1>2. f.objs[k] \in [size : Nat, offset : Int]  BY <1>1, ElementOfSeq
  <1> QED  BY <1>1, <1>2 DEF SoundFrame, UNITS_PER_WORD

LEMMA SlotFacts ==
  ASSUME NEW g \in Functions, NEW f, f = Code[g], NEW j \in 1 .. SpillCount(f)
  PROVE  /\ f.csi[j].reg \in Registers /\ f.csi[j].fi \in Nat
         /\ f.csi[j].fi + 1 \in 1 .. Len(f.objs)
         /\ f.objs[f.csi[j].fi + 1].size >= 4
         /\ \A l \in 1 .. SpillCount(f) \ {j} :
               f.csi[j].reg # f.csi[l].reg /\ f.csi[j].fi # f.csi[l].fi
  <1>1. /\ SoundFrame(f) /\ f.csi \in Seq([reg : Registers, fi : Nat])
        /\ f.objs \in Seq([size : Nat, offset : Int])
    BY FrameFacts
  <1>2. f.csi[j] \in [reg : Registers, fi : Nat]  BY <1>1, ElementOfSeq DEF SpillCount
  <1>3. PICK fi \in Nat : fi = f.csi[j].fi  BY <1>2
  <1>4. PICK m \in Nat : m = Len(f.objs)  BY <1>1
  <1>5. /\ f.csi[j].fi < Len(f.objs) /\ f.objs[f.csi[j].fi + 1].size >= 4
        /\ \A l \in 1 .. SpillCount(f) \ {j} :
              f.csi[j].reg # f.csi[l].reg /\ f.csi[j].fi # f.csi[l].fi
    BY <1>1 DEF SoundFrame, SpillCount, UNITS_PER_WORD
  <1>6. fi + 1 \in 1 .. m  BY <1>3, <1>4, <1>5
  <1> QED  BY <1>2, <1>3, <1>4, <1>5, <1>6

\* A word of an object other than the callee-saved slots.
LEMMA WordFacts ==
  ASSUME NEW g \in Functions, NEW f, f = Code[g], NEW o \in ObjectWords(f)
  PROVE  /\ o[1] = "obj" /\ o[2] \in Nat /\ o[2] + 1 \in 1 .. Len(f.objs) /\ o[3] \in Nat
         /\ o = <<"obj", o[2], o[3]>> /\ o[3] % 4 = 0
         /\ o[3] + 4 <= f.objs[o[2] + 1].size
         /\ \A j \in 1 .. SpillCount(f) : f.csi[j].fi # o[2]
  <1>1. PICK fi \in (0 .. Len(f.objs) - 1) \ Slots(f) :
           o \in {<<"obj", fi, 4 * w>> : w \in 0 .. (f.objs[fi + 1].size \div 4) - 1}
    BY DEF ObjectWords
  <1>2. f.objs \in Seq([size : Nat, offset : Int])  BY FrameFacts
  <1>3. PICK m \in Nat : m = Len(f.objs)  BY <1>2
  <1>4. fi \in Nat /\ fi + 1 \in 1 .. Len(f.objs)  BY <1>1, <1>3
  <1>5. PICK s \in Nat : s = f.objs[fi + 1].size  BY <1>4, ObjectFacts
  <1>6. PICK w \in 0 .. (s \div 4) - 1 : o = <<"obj", fi, 4 * w>>  BY <1>1, <1>5
  <1>7. 4 * w + 4 <= s /\ 4 * w \in Nat /\ (4 * w) % 4 = 0  BY <1>6
  <1>8. \A j \in 1 .. SpillCount(f) : f.csi[j].fi # fi  BY <1>1 DEF Slots, SpillCount
  <1>9. o[1] = "obj" /\ o[2] = fi /\ o[3] = 4 * w  BY <1>6
  <1> QED  BY <1>4, <1>5, <1>6, <1>7, <1>8, <1>9

\* eliminateFrameIndex() reaches the word at the offset of the object.
LEMMA AddressIsOffset ==
  ASSUME NEW fp \in Int, NEW f, NEW fi, NEW imm, NEW st \in BOOLEAN,
         FrameOffset(f, fi, imm) \in Int
  PROVE  Address(fp, f, fi, imm, st) = fp + FrameOffset(f, fi, imm)
  <1>1. PICK o \in Int : o = FrameOffset(f, fi, imm)  OBVIOUS
  <1> DEFINE d == IF o > 255 THEN o - 255 ELSE o + 256
  <1>2. EliminateFrameIndex(f, fi, imm, st) =
           IF st /\ ~FitsInt9(o) THEN [base |-> "T4", moved |-> d, disp |-> o - d]
                                 ELSE [base |-> "FP", moved |-> 0, disp |-> o]
    BY <1>1 DEF EliminateFrameIndex
  <1>3. d \in Int  OBVIOUS
  <1> HIDE DEF d
  <1>4. CASE st /\ ~FitsInt9(o)
    <2>1. EliminateFrameIndex(f, fi, imm, st).moved = d
      BY <1>2, <1>4
    <2>2. EliminateFrameIndex(f, fi, imm, st).disp = o - d
      BY <1>2, <1>4
    <2>3. Address(fp, f, fi, imm, st) = fp + d + (o - d)
      BY <2>1, <2>2 DEF Address
    <2> QED  BY <1>1, <1>3, <2>3
  <1>5. CASE ~(st /\ ~FitsInt9(o))
    <2>1. EliminateFrameIndex(f, fi, imm, st).moved = 0
      BY <1>2, <1>5
    <2>2. EliminateFrameIndex(f, fi, imm, st).disp = o
      BY <1>2, <1>5
    <2>3. Address(fp, f, fi, imm, st) = fp + 0 + o
      BY <2>1, <2>2 DEF Address
    <2> QED  BY <1>1, <2>3
  <1> QED  BY <1>4, <1>5

\* The address of a word of object fi.
LEMMA ObjectIndexAddress ==
  ASSUME NEW g \in Functions, NEW f, f = Code[g], NEW fp \in Int,
         NEW fi \in Nat, fi + 1 \in 1 .. Len(f.objs), NEW imm \in Nat, NEW st \in BOOLEAN
  PROVE  Address(fp, f, fi, imm, st) = fp + f.objs[fi + 1].offset + imm
  <1>1. PICK o \in Int : o = f.objs[fi + 1].offset  BY ObjectFacts
  <1>2. FrameOffset(f, fi, imm) = o + imm + 0
    BY <1>1 DEF FrameOffset, ObjectOffset
  <1>3. Address(fp, f, fi, imm, st) = fp + (o + imm)
    BY <1>2, AddressIsOffset
  <1> QED  BY <1>1, <1>3

\* The address of word j of the register save area.
LEMMA AreaIndexAddress ==
  ASSUME NEW g \in Functions, NEW f, f = Code[g], f.vaSize # 0,
         NEW fp \in Int, NEW imm \in Nat, NEW st \in BOOLEAN
  PROVE  /\ FrameOffset(f, f.vaFI, imm) = 8 + imm
         /\ Address(fp, f, f.vaFI, imm, st) = fp + 8 + imm
  <1>1. /\ SoundFrame(f) /\ f.named \in Nat /\ f.named < 8
    BY FrameFacts
  <1>2. f.vaFI < 0 /\ f.fixed[-f.vaFI].offset = VarArgsOffset(f.named)
    BY <1>1 DEF SoundFrame
  <1>3. VarArgsOffset(f.named) = 8
    <2>1. PICK n \in Nat : n = f.named  BY <1>1
    <2>2. FirstUnallocated(n) = n  BY <1>1, <2>1 DEF FirstUnallocated, NumArgRegs
    <2>3. VARegSaveSize(n) = 4 * (8 - n) /\ VARegSize(n) = 4 * (8 - n)
      BY <1>1, <2>1, <2>2 DEF VARegSaveSize, VARegSize, RoundUp, UNITS_PER_WORD, NumArgRegs,
         StackAlignment
    <2>4. NextStackOffset(n) = 0  BY <2>1, <2>2 DEF NextStackOffset, UNITS_PER_WORD
    <2> QED  BY <2>1, <2>3, <2>4 DEF VarArgsOffset
  <1>4. FrameOffset(f, f.vaFI, imm) = 8 + imm + 0
    BY <1>2, <1>3 DEF FrameOffset, ObjectOffset
  <1>5. Address(fp, f, f.vaFI, imm, st) = fp + (8 + imm)
    BY <1>4, AddressIsOffset
  <1> QED  BY <1>4, <1>5

\* An argument passed on the stack is read where the caller stored it.
LEMMA ArgumentIndexOffset ==
  ASSUME NEW g \in Functions, NEW f, f = Code[g],
         NEW a \in NumArgRegs + 1 .. f.named
  PROVE  FrameOffset(f, NumArgRegs - a, 0) = EntrySP(f) + LocMemOffset(a)
  <1>1. SoundFrame(f) /\ f.named \in Nat  BY FrameFacts
  <1>2. a \in Nat /\ a > 8  BY <1>1 DEF NumArgRegs
  <1>3. f.vaFI # NumArgRegs - a /\ f.fixed[a - NumArgRegs].offset = LocMemOffset(a)
    BY <1>1 DEF SoundFrame
  <1>4. f.vaSize = 0
    <2>1. f.vaSize # 0 => f.named < 8  BY FrameFacts
    <2> QED  BY <1>1, <1>2, <2>1 DEF NumArgRegs
  <1>5. NumArgRegs - a < 0 /\ -(NumArgRegs - a) = a - NumArgRegs  BY <1>2 DEF NumArgRegs
  <1>6. FrameOffset(f, NumArgRegs - a, 0) = LocMemOffset(a) + 0 + SavedBytes(f)
    BY <1>3, <1>5 DEF FrameOffset, ObjectOffset
  <1>7. EntrySP(f) = SavedBytes(f) + 0  BY <1>4 DEF EntrySP
  <1>8. LocMemOffset(a) \in Int  BY <1>2 DEF LocMemOffset, UNITS_PER_WORD, NumArgRegs
  <1>9. SavedBytes(f) \in Int  BY DEF SavedBytes, UNITS_PER_WORD
  <1> QED  BY <1>6, <1>7, <1>8, <1>9

\* Two words of objects at the same address are the same word, and none is a
\* callee-saved slot's.
LEMMA WordsApart ==
  ASSUME NEW g \in Functions, NEW f, f = Code[g],
         NEW o \in ObjectWords(f)
  PROVE  /\ \A q \in ObjectWords(f) :
               f.objs[o[2] + 1].offset + o[3] = f.objs[q[2] + 1].offset + q[3] => o = q
         /\ \A j \in 1 .. SpillCount(f) :
               f.objs[o[2] + 1].offset + o[3] # f.objs[f.csi[j].fi + 1].offset
  <1>1. /\ o[2] \in Nat /\ o[2] + 1 \in 1 .. Len(f.objs) /\ o[3] \in Nat
        /\ o = <<"obj", o[2], o[3]>>
        /\ o[3] + 4 <= f.objs[o[2] + 1].size
        /\ \A j \in 1 .. SpillCount(f) : f.csi[j].fi # o[2]
    BY WordFacts
  <1>2. PICK x \in Int : x = f.objs[o[2] + 1].offset  BY <1>1, ObjectFacts
  <1>3. PICK xs \in Nat : xs = f.objs[o[2] + 1].size  BY <1>1, ObjectFacts
  <1>4. PICK d \in Nat : d = o[3]  BY <1>1
  <1>5. ASSUME NEW q \in ObjectWords(f), f.objs[o[2] + 1].offset + o[3] = f.objs[q[2] + 1].offset + q[3]
        PROVE  o = q
    <2>1. /\ q[2] \in Nat /\ q[2] + 1 \in 1 .. Len(f.objs) /\ q[3] \in Nat
          /\ q = <<"obj", q[2], q[3]>>
          /\ q[3] + 4 <= f.objs[q[2] + 1].size
      BY WordFacts
    <2>2. PICK y \in Int : y = f.objs[q[2] + 1].offset  BY <2>1, ObjectFacts
    <2>3. PICK ys \in Nat : ys = f.objs[q[2] + 1].size  BY <2>1, ObjectFacts
    <2>4. PICK e \in Nat : e = q[3]  BY <2>1
    <2>5. o[2] # q[2] => x + xs <= y \/ y + ys <= x
      <3>1. o[2] # q[2] => q[2] + 1 # o[2] + 1  BY <1>1, <2>1
      <3> QED  BY <3>1, <1>1, <1>2, <1>3, <2>1, <2>2, <2>3, ObjectFacts
    <2>6. x + d = y + e /\ d + 4 <= xs /\ e + 4 <= ys
      BY <1>1, <1>2, <1>3, <1>4, <1>5, <2>1, <2>2, <2>3, <2>4
    <2>7. o[2] = q[2]  BY <2>5, <2>6
    <2>8. x = y  BY <2>7, <1>2, <2>2
    <2>9. d = e  BY <2>6, <2>8
    <2> QED  BY <2>7, <2>9, <1>1, <2>1, <1>4, <2>4
  <1>6. ASSUME NEW j \in 1 .. SpillCount(f)
        PROVE  f.objs[o[2] + 1].offset + o[3] # f.objs[f.csi[j].fi + 1].offset
    <2>1. /\ f.csi[j].fi \in Nat /\ f.csi[j].fi + 1 \in 1 .. Len(f.objs)
          /\ f.objs[f.csi[j].fi + 1].size >= 4
      BY SlotFacts
    <2>2. PICK y \in Int : y = f.objs[f.csi[j].fi + 1].offset  BY <2>1, ObjectFacts
    <2>3. PICK ys \in Nat : ys = f.objs[f.csi[j].fi + 1].size  BY <2>1, ObjectFacts
    <2>4. x + xs <= y \/ y + ys <= x
      <3>1. f.csi[j].fi + 1 # o[2] + 1  BY <1>1, <2>1
      <3> QED  BY <3>1, <1>1, <1>2, <1>3, <2>1, <2>2, <2>3, ObjectFacts
    <2>5. d + 4 <= xs /\ ys >= 4  BY <1>1, <1>3, <1>4, <2>1, <2>3
    <2>6. x + d # y  BY <2>4, <2>5
    <2> QED  BY <2>6, <1>2, <1>4, <2>2
  <1> QED  BY <1>5, <1>6

\* The callee-saved slots are words of their own.
LEMMA SlotsApart ==
  ASSUME NEW g \in Functions, NEW f, f = Code[g],
         NEW j \in 1 .. SpillCount(f), NEW l \in 1 .. SpillCount(f), j # l
  PROVE  f.objs[f.csi[j].fi + 1].offset # f.objs[f.csi[l].fi + 1].offset
  <1>1. /\ f.csi[j].fi \in Nat /\ f.csi[j].fi + 1 \in 1 .. Len(f.objs)
        /\ f.objs[f.csi[j].fi + 1].size >= 4
        /\ f.csi[j].fi # f.csi[l].fi
    BY SlotFacts
  <1>2. /\ f.csi[l].fi \in Nat /\ f.csi[l].fi + 1 \in 1 .. Len(f.objs)
        /\ f.objs[f.csi[l].fi + 1].size >= 4
    BY SlotFacts
  <1>3. PICK x \in Int : x = f.objs[f.csi[j].fi + 1].offset  BY <1>1, ObjectFacts
  <1>4. PICK xs \in Nat : xs = f.objs[f.csi[j].fi + 1].size  BY <1>1, ObjectFacts
  <1>5. PICK y \in Int : y = f.objs[f.csi[l].fi + 1].offset  BY <1>2, ObjectFacts
  <1>6. PICK ys \in Nat : ys = f.objs[f.csi[l].fi + 1].size  BY <1>2, ObjectFacts
  <1>7. f.csi[j].fi + 1 # f.csi[l].fi + 1
    <2>1. PICK u \in Nat : u = f.csi[j].fi  BY <1>1
    <2>2. PICK v \in Nat : v = f.csi[l].fi  BY <1>2
    <2>3. u # v  BY <1>1, <2>1, <2>2
    <2>4. u \in Nat /\ v \in Nat  OBVIOUS
    <2>5. u + 1 # v + 1  BY ONLY <2>3, <2>4
    <2> QED  BY <2>1, <2>2, <2>5
  <1>8. x + xs <= y \/ y + ys <= x
    BY <1>1, <1>2, <1>3, <1>4, <1>5, <1>6, <1>7, ObjectFacts
  <1>9. xs >= 4 /\ ys >= 4  BY <1>1, <1>2, <1>4, <1>6
  <1>10. x # y  BY <1>8, <1>9
  <1> QED  BY <1>3, <1>5, <1>10

(***************************************************************************)
(* Where the claimed words are.                                            *)
(***************************************************************************)

\* An activation whose place is n of part p, as far as SP goes.
Standing(c, p, n) ==
    /\ c.fn \in Functions /\ c.sp \in Int /\ c.sp % 4 = 0
    /\ c.dyn \in Nat /\ c.dyn % 4 = 0
    /\ c.dyn > 0 => Code[c.fn].hasVarSized
    /\ p \in {"entry", "exit"} /\ n \in 1 .. End(Code[c.fn], p) + 1
    /\ (p = "entry" /\ n <= EntryEnd(Code[c.fn])) => c.dyn = 0

LEMMA BottomOfFrame ==
  ASSUME NEW c, c.fn \in Functions, c.sp \in Int, c.sp % 4 = 0,
         c.dyn \in Nat, c.dyn % 4 = 0
  PROVE  /\ FPOf(c) \in Int /\ FPOf(c) % 4 = 0 /\ FPOf(c) + 4 <= c.sp
         /\ Bottom(c) \in Int /\ Bottom(c) % 4 = 0 /\ Bottom(c) <= FPOf(c)
         /\ Bottom(c) = FPOf(c) - NumBytes(Code[c.fn]) - c.dyn
         /\ Code[c.fn].hasCalls => FPOf(c) + 8 + Code[c.fn].vaSize = c.sp
  <1> DEFINE f == Code[c.fn]
  <1>1. /\ f.vaSize \in Nat /\ f.vaSize % 4 = 0 /\ NumBytes(f) \in Nat /\ NumBytes(f) % 4 = 0
        /\ f.hasCalls \in BOOLEAN
    BY FrameFacts
  <1>2. FPOf(c) = c.sp - 4 - (IF f.hasCalls THEN 4 ELSE 0) - f.vaSize
    BY FPOfFrame DEF Bytes
  <1>3. Bottom(c) = FPOf(c) - NumBytes(f) - c.dyn  BY DEF Bottom
  <1> HIDE DEF f
  <1>4. PICK a \in Nat, b \in Nat, d \in Nat, s \in Int :
           a = f.vaSize /\ b = NumBytes(f) /\ d = c.dyn /\ s = c.sp
    BY <1>1
  <1>5. PICK h \in {0, 4} : h = IF f.hasCalls THEN 4 ELSE 0
    OBVIOUS
  <1>6. FPOf(c) = s - 4 - h - a  BY <1>2, <1>4, <1>5
  <1>7. PICK x \in Int : x = FPOf(c)  BY <1>6
  <1>8. x = s - 4 - h - a /\ s % 4 = 0 /\ a % 4 = 0 /\ b % 4 = 0 /\ d % 4 = 0
    BY <1>1, <1>4, <1>6, <1>7
  <1>9. x % 4 = 0 /\ x + 4 <= s  BY <1>8
  <1>10. Bottom(c) = x - b - d  BY <1>3, <1>4, <1>7
  <1>11. (x - b - d) % 4 = 0 /\ x - b - d <= x  BY <1>8, <1>9
  <1>12. f.hasCalls => h = 4  BY <1>5
  <1>13. f.hasCalls => x + 8 + a = s  BY <1>8, <1>12
  <1> QED
    BY <1>3, <1>4, <1>7, <1>9, <1>10, <1>11, <1>13 DEF f

LEMMA StageBounds ==
  ASSUME NEW c, NEW p, NEW n, Standing(c, p, n), NEW f, f = Code[c.fn]
  PROVE  /\ SPAt(c, p, n) \in Int
         /\ Bottom(c) <= SPAt(c, p, n) /\ SPAt(c, p, n) <= c.sp
         /\ SPAt(c, p, n) % 4 = 0
         /\ FPOn(f, p, n) => SPAt(c, p, n) <= FPOf(c)
         /\ LinkOn(f, p, n) => SPAt(c, p, n) <= FPOf(c) + 4
         /\ (p = "entry" /\ n > PrologueEnd(f)) => SPAt(c, p, n) = Bottom(c)
         /\ (p = "exit" /\ n <= SpillCount(f)) => SPAt(c, p, n) = Bottom(c)
  <1>0. Kinds(f) /\ Sums(f) /\ Counts(f) /\ Ends(f)  BY PlaceNumbers DEF Standing
  <1>1. /\ f.vaSize \in Nat /\ f.vaSize % 4 = 0 /\ NumBytes(f) \in Nat /\ NumBytes(f) % 4 = 0
        /\ f.hasCalls \in BOOLEAN
    BY FrameFacts DEF Standing
  <1>2. FPOf(c) = c.sp - 4 - (IF f.hasCalls THEN 4 ELSE 0) - f.vaSize
    BY FPOfFrame DEF Bytes, Standing
  <1>3. Bottom(c) = FPOf(c) - NumBytes(f) - c.dyn  BY DEF Bottom
  <1>4. /\ c.sp \in Int /\ c.dyn \in Nat /\ c.sp % 4 = 0 /\ c.dyn % 4 = 0
        /\ n \in Int /\ n >= 1
    BY <1>0 DEF Standing, End, Ends
  <1>5. PICK a \in Nat, b \in Nat, d \in Nat, s \in Int :
           a = f.vaSize /\ b = NumBytes(f) /\ d = c.dyn /\ s = c.sp
    BY <1>1, <1>4
  <1>6. PICK h \in {0, 4} : h = IF f.hasCalls THEN 4 ELSE 0
    OBVIOUS
  <1>7. FPOf(c) = s - 4 - h - a /\ Bottom(c) = s - 4 - h - a - b - d
    BY <1>2, <1>3, <1>5, <1>6
  <1>8. a % 4 = 0 /\ b % 4 = 0 /\ d % 4 = 0 /\ s % 4 = 0
    BY <1>1, <1>4, <1>5
  <1>9. CASE p = "entry"
    <2>1. SPAt(c, p, n) = s - (IF n > AreaCount(f) THEN a ELSE 0)
                 - (IF f.hasCalls /\ n > LinkEnd(f) THEN 4 ELSE 0)
                 - (IF n > LinkEnd(f) + 1 THEN 4 ELSE 0)
                 - (IF n > PrologueEnd(f) THEN b ELSE 0) - d
      <3>1. c.fn \in Functions /\ c.dyn \in Int  BY <1>4 DEF Standing
      <3>2. SPAt(c, "entry", n) =
            c.sp - (IF n > AreaCount(f) THEN f.vaSize ELSE 0)
                 - (IF f.hasCalls /\ n > LinkEnd(f) THEN 4 ELSE 0)
                 - (IF n > LinkEnd(f) + 1 THEN 4 ELSE 0)
                 - (IF n > PrologueEnd(f) THEN NumBytes(f) ELSE 0) - c.dyn
        BY <3>1, <1>4, SPInEntry
      <3> QED  BY <3>2, <1>5, <1>9
    <2>2. PICK u \in {0, a} : u = IF n > AreaCount(f) THEN a ELSE 0  OBVIOUS
    <2>3. PICK v \in {0, h} : v = IF f.hasCalls /\ n > LinkEnd(f) THEN 4 ELSE 0
      BY <1>6
    <2>4. PICK w \in {0, 4} : w = IF n > LinkEnd(f) + 1 THEN 4 ELSE 0  OBVIOUS
    <2>5. PICK z \in {0, b} : z = IF n > PrologueEnd(f) THEN b ELSE 0  OBVIOUS
    <2>6. SPAt(c, p, n) = s - u - v - w - z - d
      BY <2>1, <2>2, <2>3, <2>4, <2>5
    <2>7. /\ s - u - v - w - z - d \in Int /\ (s - u - v - w - z - d) % 4 = 0
          /\ s - 4 - h - a - b - d <= s - u - v - w - z - d /\ s - u - v - w - z - d <= s
      BY <1>8
    <2>8. FPOn(f, p, n) => u = a /\ v = h /\ w = 4
      <3>1. FPOn(f, p, n) => n > LinkEnd(f) + 1  BY <1>9 DEF FPOn
      <3>2. n > LinkEnd(f) + 1 => n > AreaCount(f) /\ n > LinkEnd(f)
        BY <1>0, <1>4 DEF Sums, Counts
      <3> QED  BY <3>1, <3>2, <2>2, <2>3, <2>4, <1>6
    <2>9. LinkOn(f, p, n) => u = a /\ v = 4 /\ h = 4
      <3>1. LinkOn(f, p, n) => f.hasCalls /\ n > LinkEnd(f)  BY <1>9 DEF LinkOn
      <3>2. n > LinkEnd(f) => n > AreaCount(f)
        BY <1>0, <1>4 DEF Sums, Counts
      <3> QED  BY <3>1, <3>2, <2>2, <2>3, <1>6
    <2>10. n > PrologueEnd(f) => u = a /\ v = h /\ w = 4 /\ z = b
      <3>1. n > PrologueEnd(f) => n > AreaCount(f) /\ n > LinkEnd(f) /\ n > LinkEnd(f) + 1
        BY <1>0, <1>4 DEF Sums, Counts
      <3> QED  BY <3>1, <2>2, <2>3, <2>4, <2>5, <1>6
    <2>11. FPOn(f, p, n) => s - u - v - w - z - d <= s - 4 - h - a  BY <2>8
    <2>12. LinkOn(f, p, n) => s - u - v - w - z - d <= s - 4 - h - a + 4  BY <2>9
    <2>13. n > PrologueEnd(f) => s - u - v - w - z - d = s - 4 - h - a - b - d  BY <2>10
    <2> QED  BY <1>5, <1>7, <1>9, <2>6, <2>7, <2>11, <2>12, <2>13
  <1>10. CASE p = "exit"
    <2>1. SPAt(c, p, n) = s - (IF n <= ExitEnd(f) THEN a ELSE 0)
                 - (IF f.hasCalls /\ n <= LinkPopped(f) THEN 4 ELSE 0)
                 - (IF n <= FPPopped(f) THEN 4 ELSE 0)
                 - (IF n <= LocalsPopped(f) THEN b ELSE 0)
                 - (IF n <= DynamicPopped(f) THEN d ELSE 0)
      <3>1. c.fn \in Functions /\ c.dyn \in Int  BY <1>4 DEF Standing
      <3>2. SPAt(c, "exit", n) =
            c.sp - (IF n <= ExitEnd(f) THEN f.vaSize ELSE 0)
                 - (IF f.hasCalls /\ n <= LinkPopped(f) THEN 4 ELSE 0)
                 - (IF n <= FPPopped(f) THEN 4 ELSE 0)
                 - (IF n <= LocalsPopped(f) THEN NumBytes(f) ELSE 0)
                 - (IF n <= DynamicPopped(f) THEN c.dyn ELSE 0)
        BY <3>1, <1>4, SPInExit
      <3> QED  BY <3>2, <1>5, <1>10
    <2>2. PICK u \in {0, a} : u = IF n <= ExitEnd(f) THEN a ELSE 0  OBVIOUS
    <2>3. PICK v \in {0, h} : v = IF f.hasCalls /\ n <= LinkPopped(f) THEN 4 ELSE 0
      BY <1>6
    <2>4. PICK w \in {0, 4} : w = IF n <= FPPopped(f) THEN 4 ELSE 0  OBVIOUS
    <2>5. PICK z \in {0, b} : z = IF n <= LocalsPopped(f) THEN b ELSE 0  OBVIOUS
    <2>6. PICK y \in {0, d} : y = IF n <= DynamicPopped(f) THEN d ELSE 0  OBVIOUS
    <2>7. SPAt(c, p, n) = s - u - v - w - z - y
      BY <2>1, <2>2, <2>3, <2>4, <2>5, <2>6
    <2>8. /\ s - u - v - w - z - y \in Int /\ (s - u - v - w - z - y) % 4 = 0
          /\ s - 4 - h - a - b - d <= s - u - v - w - z - y /\ s - u - v - w - z - y <= s
      BY <1>8
    <2>9. FPOn(f, p, n) => u = a /\ v = h /\ w = 4
      <3>1. FPOn(f, p, n) => n <= FPPopped(f)  BY <1>10 DEF FPOn
      <3>2. n <= FPPopped(f) => n <= LinkPopped(f) /\ n <= ExitEnd(f)
        BY <1>0, <1>4 DEF Sums, Counts, Ends
      <3> QED  BY <3>1, <3>2, <2>2, <2>3, <2>4, <1>6
    <2>10. LinkOn(f, p, n) => u = a /\ v = 4 /\ h = 4
      <3>1. LinkOn(f, p, n) => f.hasCalls /\ n <= LinkPopped(f)  BY <1>10 DEF LinkOn
      <3>2. n <= LinkPopped(f) => n <= ExitEnd(f)
        BY <1>0, <1>4 DEF Sums, Counts, Ends
      <3> QED  BY <3>1, <3>2, <2>2, <2>3, <1>6
    <2>11. n <= SpillCount(f) => u = a /\ v = h /\ w = 4 /\ z = b /\ y = d
      <3>1. n <= SpillCount(f) => /\ n <= LocalsPopped(f) /\ n <= DynamicPopped(f)
                                  /\ n <= FPPopped(f) /\ n <= LinkPopped(f) /\ n <= ExitEnd(f)
        BY <1>0, <1>4 DEF Sums, Counts, Ends
      <3> QED  BY <3>1, <2>2, <2>3, <2>4, <2>5, <2>6, <1>6
    <2>12. FPOn(f, p, n) => s - u - v - w - z - y <= s - 4 - h - a  BY <2>9
    <2>13. LinkOn(f, p, n) => s - u - v - w - z - y <= s - 4 - h - a + 4  BY <2>10
    <2>14. n <= SpillCount(f) => s - u - v - w - z - y = s - 4 - h - a - b - d  BY <2>11
    <2> QED  BY <1>5, <1>7, <1>10, <2>7, <2>8, <2>12, <2>13, <2>14
  <1> QED  BY <1>9, <1>10 DEF Standing

\* Every word of an activation is between its SP and its caller's.
ClaimInside(x, c, p, n) ==
    x[1] \in Int /\ x[1] % 4 = 0 /\ SPAt(c, p, n) <= x[1] /\ x[1] < c.sp
Placed(c, p, n) ==
    /\ Standing(c, p, n) /\ WrittenInside(c)
    /\ ~AtBody(Code[c.fn], p, n) => c.written = {}

LEMMA LinksInside ==
  ASSUME NEW c, NEW p, NEW n, Standing(c, p, n), NEW up
  PROVE  /\ \A x \in FPClaims(c, up, p, n) : ClaimInside(x, c, p, n)
         /\ \A x \in LinkClaims(c, p, n) : ClaimInside(x, c, p, n)
  <1>1. /\ FPOf(c) \in Int /\ FPOf(c) % 4 = 0 /\ FPOf(c) + 4 <= c.sp
        /\ Code[c.fn].hasCalls => FPOf(c) + 8 + Code[c.fn].vaSize = c.sp
    BY BottomOfFrame DEF Standing
  <1>2. Code[c.fn].vaSize \in Nat  BY FrameFacts DEF Standing
  <1>3. c.sp \in Int  BY DEF Standing
  <1>4. PICK y \in Int : y = FPOf(c)  BY <1>1
  <1>5. ASSUME FPOn(Code[c.fn], p, n)
        PROVE  SPAt(c, p, n) <= y /\ y < c.sp
    BY <1>1, <1>3, <1>4, <1>5, StageBounds
  <1>6. ASSUME LinkOn(Code[c.fn], p, n)
        PROVE  SPAt(c, p, n) <= y + 4 /\ y + 4 < c.sp /\ (y + 4) % 4 = 0
    <2>1. Code[c.fn].hasCalls  BY <1>6 DEF LinkOn
    <2>2. SPAt(c, p, n) <= y + 4  BY <1>4, <1>6, StageBounds
    <2>3. y + 4 < c.sp /\ (y + 4) % 4 = 0  BY <1>1, <1>2, <1>3, <1>4, <2>1
    <2> QED  BY <2>2, <2>3
  <1>7. ASSUME NEW x \in FPClaims(c, up, p, n)
        PROVE  ClaimInside(x, c, p, n)
    <2>1. x = <<y, Addr(up)>> /\ FPOn(Code[c.fn], p, n)  BY <1>4 DEF FPClaims
    <2>2. x[1] = y  BY <2>1
    <2> QED  BY <1>1, <1>4, <1>5, <2>1, <2>2 DEF ClaimInside
  <1>8. ASSUME NEW x \in LinkClaims(c, p, n)
        PROVE  ClaimInside(x, c, p, n)
    <2>1. x = <<y + 4, c.ret>> /\ LinkOn(Code[c.fn], p, n)
      BY <1>4 DEF LinkClaims, UNITS_PER_WORD
    <2>2. x[1] = y + 4  BY <2>1
    <2> QED  BY <1>4, <1>6, <2>1, <2>2 DEF ClaimInside
  <1> QED  BY <1>7, <1>8

LEMMA SlotInside ==
  ASSUME NEW c, c.fn \in Functions, c.sp \in Int, c.sp % 4 = 0, c.dyn \in Nat, c.dyn % 4 = 0,
         NEW j \in 1 .. SpillCount(Code[c.fn])
  PROVE  /\ SlotAddress(c, j) \in Int /\ SlotAddress(c, j) % 4 = 0
         /\ Bottom(c) <= SlotAddress(c, j) /\ SlotAddress(c, j) + 4 <= FPOf(c)
         /\ SlotAddress(c, j) = FPOf(c) + Code[c.fn].objs[Code[c.fn].csi[j].fi + 1].offset
         /\ SlotAddress(c, j) >= FPOf(c) - NumBytes(Code[c.fn])
  <1> DEFINE f == Code[c.fn]  k == f.csi[j].fi + 1
  <1>1. k \in 1 .. Len(f.objs) /\ f.objs[k].size >= 4  BY SlotFacts
  <1>2. /\ f.objs[k].offset \in Int /\ f.objs[k].size \in Nat /\ f.objs[k].offset % 4 = 0
        /\ -NumBytes(f) <= f.objs[k].offset /\ f.objs[k].offset + f.objs[k].size <= 0
    BY <1>1, ObjectFacts
  <1>3. SlotAddress(c, j) = FPOf(c) + f.objs[k].offset  BY DEF SlotAddress
  <1>4. /\ FPOf(c) \in Int /\ FPOf(c) % 4 = 0
        /\ Bottom(c) = FPOf(c) - NumBytes(f) - c.dyn
    BY BottomOfFrame
  <1>5. NumBytes(f) \in Nat  BY FrameFacts
  <1> HIDE DEF f, k
  <1>6. PICK o \in Int : o = f.objs[k].offset  BY <1>2
  <1>7. PICK s \in Nat : s = f.objs[k].size  BY <1>2
  <1>8. PICK y \in Int : y = FPOf(c)  BY <1>4
  <1>9. SlotAddress(c, j) = y + o /\ o % 4 = 0 /\ -NumBytes(f) <= o /\ o + s <= 0 /\ s >= 4
    BY <1>1, <1>2, <1>3, <1>6, <1>7, <1>8
  <1>10. y % 4 = 0 /\ Bottom(c) = y - NumBytes(f) - c.dyn  BY <1>4, <1>8
  <1>11. (y + o) % 4 = 0  BY <1>9, <1>10
  <1>12. y - NumBytes(f) - c.dyn <= y + o /\ y + o + 4 <= y /\ y + o >= y - NumBytes(f)
    BY <1>5, <1>9
  <1>13. PICK b \in Nat : b = NumBytes(f)  BY <1>5
  <1>14. PICK z \in Int : z = y + o  OBVIOUS
  <1>15. /\ SlotAddress(c, j) = z /\ z % 4 = 0 /\ Bottom(c) <= z /\ z + 4 <= FPOf(c)
         /\ SlotAddress(c, j) = FPOf(c) + f.objs[k].offset /\ z >= FPOf(c) - NumBytes(f)
    BY <1>3, <1>8, <1>9, <1>10, <1>11, <1>12, <1>14
  <1> QED  BY <1>14, <1>15 DEF f, k

LEMMA SlotsInside ==
  ASSUME NEW c, NEW p, NEW n, Standing(c, p, n)
  PROVE  \A x \in SlotClaims(c, p, n) : ClaimInside(x, c, p, n)
  <1> DEFINE f == Code[c.fn]
  <1>1. SUFFICES ASSUME NEW x \in SlotClaims(c, p, n) PROVE ClaimInside(x, c, p, n)
    OBVIOUS
  <1>2. PICK j \in 1 .. SpillCount(f) :
           x = <<SlotAddress(c, j), c.keep[f.csi[j].reg]>> /\ Spilled(f, p, n, j)
    BY DEF SlotClaims
  <1>3. x[1] = SlotAddress(c, j)  BY <1>2
  <1>4. /\ SlotAddress(c, j) \in Int /\ SlotAddress(c, j) % 4 = 0
        /\ Bottom(c) <= SlotAddress(c, j) /\ SlotAddress(c, j) + 4 <= FPOf(c)
    BY SlotInside DEF Standing
  <1>5. FPOf(c) \in Int /\ FPOf(c) + 4 <= c.sp /\ c.sp \in Int
    BY BottomOfFrame DEF Standing
  <1>6. SPAt(c, p, n) = Bottom(c)
    <2>1. (p = "entry" /\ n > PrologueEnd(f)) \/ (p = "exit" /\ n <= SpillCount(f))
      <3>1. PrologueEnd(f) \in Nat /\ EntryEnd(f) \in Nat
        BY PlaceNumbers DEF Ends, Standing
      <3>2. CASE p = "entry"
        BY <1>2, <3>1, <3>2 DEF Spilled, Standing, End
      <3>3. CASE p # "entry"
        BY <1>2, <3>3 DEF Spilled, Standing
      <3> QED  BY <3>2, <3>3
    <2> QED  BY <2>1, StageBounds
  <1> QED  BY <1>3, <1>4, <1>5, <1>6 DEF ClaimInside

LEMMA AreaInside ==
  ASSUME NEW c, c.fn \in Functions, c.sp \in Int, c.sp % 4 = 0, c.dyn \in Nat, c.dyn % 4 = 0,
         NEW j \in 1 .. StoreCount(Code[c.fn])
  PROVE  /\ Code[c.fn].vaSize # 0
         /\ AreaAddress(c, j) \in Int /\ AreaAddress(c, j) % 4 = 0
         /\ FPOf(c) + 8 <= AreaAddress(c, j) /\ AreaAddress(c, j) < c.sp
         /\ AreaAddress(c, j) = FPOf(c) + 8 + 4 * (j - 1)
  <1> DEFINE f == Code[c.fn]
  <1>1. f.vaSize \in Nat /\ (f.vaSize # 0 => f.hasCalls)  BY FrameFacts
  <1>2. StoreCount(f) = f.vaSize \div 4  BY DEF StoreCount, UNITS_PER_WORD
  <1>3. /\ FPOf(c) \in Int /\ FPOf(c) % 4 = 0
        /\ f.hasCalls => FPOf(c) + 8 + f.vaSize = c.sp
    BY BottomOfFrame
  <1>4. AreaAddress(c, j) = FPOf(c) + 8 + 4 * (j - 1)  BY DEF AreaAddress, UNITS_PER_WORD
  <1> HIDE DEF f
  <1>5. PICK a \in Nat : a = f.vaSize  BY <1>1
  <1>6. j \in 1 .. (a \div 4)  BY <1>2, <1>5 DEF f
  <1>7. a >= 4 * j /\ a # 0 /\ j >= 1 /\ j \in Int  BY <1>6
  <1>8. PICK y \in Int : y = FPOf(c)  BY <1>3
  <1>9. y + 8 + a = c.sp /\ y % 4 = 0  BY <1>1, <1>3, <1>5, <1>7, <1>8
  <1>10. (y + 8 + 4 * (j - 1)) % 4 = 0 /\ y + 8 + 4 * (j - 1) < c.sp
         /\ y + 8 <= y + 8 + 4 * (j - 1)
    BY <1>7, <1>9
  <1> QED  BY <1>4, <1>5, <1>7, <1>8, <1>10 DEF f

LEMMA AreasInside ==
  ASSUME NEW c, NEW p, NEW n, Standing(c, p, n), NEW k
  PROVE  \A x \in AreaClaims(k, c, p, n) : ClaimInside(x, c, p, n)
  <1> DEFINE f == Code[c.fn]
  <1>1. SUFFICES ASSUME NEW x \in AreaClaims(k, c, p, n) PROVE ClaimInside(x, c, p, n)
    OBVIOUS
  <1>2. PICK j \in 1 .. StoreCount(f) :
           /\ x = <<AreaAddress(c, j), Arg(k, f.named + j)>>
           /\ p = "entry" /\ n > SpillsEnd(f) + j
    BY DEF AreaClaims
  <1>3. x[1] = AreaAddress(c, j)  BY <1>2
  <1>4. /\ AreaAddress(c, j) \in Int /\ AreaAddress(c, j) % 4 = 0
        /\ FPOf(c) + 8 <= AreaAddress(c, j) /\ AreaAddress(c, j) < c.sp
    BY AreaInside DEF Standing
  <1>5. FPOf(c) \in Int /\ Bottom(c) \in Int /\ Bottom(c) <= FPOf(c)
    BY BottomOfFrame DEF Standing
  <1>6. SPAt(c, p, n) = Bottom(c)
    <2>1. Sums(f) /\ Counts(f) /\ Ends(f) /\ n \in Int
      BY PlaceNumbers DEF Standing, Ends, End
    <2>2. n > PrologueEnd(f)  BY <1>2, <2>1 DEF Sums, Counts, Ends
    <2> QED  BY <1>2, <2>2, StageBounds
  <1> QED  BY <1>3, <1>4, <1>5, <1>6 DEF ClaimInside

\* The address of a word an activation has written.
LEMMA WrittenPlace ==
  ASSUME NEW c, c.fn \in Functions, c.sp \in Int, c.sp % 4 = 0, c.dyn \in Nat, c.dyn % 4 = 0,
         WrittenInside(c), NEW o \in c.written
  PROVE  /\ ObjectAddress(c, o) \in Int /\ ObjectAddress(c, o) % 4 = 0
         /\ Bottom(c) <= ObjectAddress(c, o) /\ ObjectAddress(c, o) + 4 <= FPOf(c)
         /\ o[1] = "dyn" => ObjectAddress(c, o) < Bottom(c) + c.dyn
         /\ o[1] # "dyn" =>
               /\ o \in ObjectWords(Code[c.fn])
               /\ ObjectAddress(c, o) = FPOf(c) + Code[c.fn].objs[o[2] + 1].offset + o[3]
               /\ ObjectAddress(c, o) >= FPOf(c) - NumBytes(Code[c.fn])
  <1> DEFINE f == Code[c.fn]
  <1>1. /\ FPOf(c) \in Int /\ FPOf(c) % 4 = 0 /\ Bottom(c) \in Int /\ Bottom(c) % 4 = 0
        /\ Bottom(c) = FPOf(c) - NumBytes(f) - c.dyn
    BY BottomOfFrame
  <1>2. NumBytes(f) \in Nat  BY FrameFacts
  <1>3. CASE o[1] = "dyn"
    <2>1. ObjectAddress(c, o) = o[2]  BY <1>3 DEF ObjectAddress
    <2>2. o[2] % 4 = 0 /\ Bottom(c) <= o[2] /\ o[2] < Bottom(c) + c.dyn /\ o[2] \in Int
      BY <1>3 DEF WrittenInside, UNITS_PER_WORD
    <2>3. o[2] + 4 <= FPOf(c)
      <3>1. PICK z \in Int : z = o[2]  BY <2>2
      <3>2. PICK y \in Int : y = FPOf(c)  BY <1>1
      <3>3. PICK b \in Nat, d \in Nat : b = NumBytes(f) /\ d = c.dyn  BY <1>2
      <3>4. z % 4 = 0 /\ y % 4 = 0 /\ z < y - b - d + d  BY <1>1, <2>2, <3>1, <3>2, <3>3
      <3>5. z + 4 <= y  BY <3>4
      <3> QED  BY <3>1, <3>2, <3>5
    <2> QED  BY <1>3, <2>1, <2>2, <2>3
  <1>4. CASE o[1] # "dyn"
    <2>1. o \in ObjectWords(f)  BY <1>4 DEF WrittenInside
    <2>2. /\ o[2] + 1 \in 1 .. Len(f.objs) /\ o[3] \in Nat /\ o[3] % 4 = 0
          /\ o[3] + 4 <= f.objs[o[2] + 1].size
      BY <2>1, WordFacts
    <2>3. PICK k \in 1 .. Len(f.objs) : k = o[2] + 1  BY <2>2
    <2>4. PICK x \in Int : x = f.objs[k].offset  BY ObjectFacts
    <2>5. PICK s \in Nat : s = f.objs[k].size  BY ObjectFacts
    <2>6. PICK d \in Nat : d = o[3]  BY <2>2
    <2>7. /\ x % 4 = 0 /\ -NumBytes(f) <= x /\ x + s <= 0 /\ d + 4 <= s /\ d % 4 = 0
      BY <2>2, <2>3, <2>4, <2>5, <2>6, ObjectFacts
    <2>8. ObjectAddress(c, o) = FPOf(c) + x + d  BY <1>4, <2>3, <2>4, <2>6 DEF ObjectAddress
    <2>9. PICK y \in Int : y = FPOf(c)  BY <1>1
    <2>10. PICK b \in Nat : b = NumBytes(f)  BY <1>2
    <2>11. PICK e \in Nat : e = c.dyn  OBVIOUS
    <2>12. (y + x + d) % 4 = 0
      <3>1. y % 4 = 0 /\ x % 4 = 0 /\ d % 4 = 0  BY <1>1, <2>7, <2>9
      <3> QED  BY ONLY <3>1, y \in Int, x \in Int, d \in Nat
    <2>13. y + x + d + 4 <= y /\ y + x + d >= y - b /\ y - b - e <= y + x + d
      <3>1. -b <= x /\ x + s <= 0 /\ d + 4 <= s  BY <2>7, <2>10
      <3> QED  BY ONLY <3>1, y \in Int, x \in Int, d \in Nat, s \in Nat, b \in Nat, e \in Nat
    <2>14. PICK z \in Int : z = y + x + d  OBVIOUS
    <2>15. /\ ObjectAddress(c, o) = z /\ z % 4 = 0 /\ Bottom(c) <= z /\ z + 4 <= FPOf(c)
           /\ z >= FPOf(c) - NumBytes(f)
      BY <1>1, <2>8, <2>9, <2>10, <2>11, <2>12, <2>13, <2>14
    <2>16. ObjectAddress(c, o) = FPOf(c) + f.objs[o[2] + 1].offset + o[3]
      BY <2>3, <2>4, <2>6, <2>8
    <2> QED  BY <1>4, <2>1, <2>14, <2>15, <2>16
  <1> QED  BY <1>3, <1>4

LEMMA AllWrittenInside ==
  ASSUME NEW c, NEW p, NEW n, Placed(c, p, n), NEW k
  PROVE  \A x \in WrittenClaims(k, c) : ClaimInside(x, c, p, n)
  <1> DEFINE f == Code[c.fn]
  <1>1. SUFFICES ASSUME NEW x \in WrittenClaims(k, c) PROVE ClaimInside(x, c, p, n)
    OBVIOUS
  <1>2. PICK o \in c.written : x = <<ObjectAddress(c, o), Loc(k, o)>>
    BY DEF WrittenClaims
  <1>3. x[1] = ObjectAddress(c, o)  BY <1>2
  <1>4. /\ ObjectAddress(c, o) \in Int /\ ObjectAddress(c, o) % 4 = 0
        /\ Bottom(c) <= ObjectAddress(c, o) /\ ObjectAddress(c, o) + 4 <= FPOf(c)
    BY WrittenPlace DEF Placed, Standing
  <1>5. FPOf(c) \in Int /\ FPOf(c) + 4 <= c.sp /\ c.sp \in Int
    BY BottomOfFrame DEF Placed, Standing
  <1>6. SPAt(c, p, n) = Bottom(c)
    <2>1. Sums(f) /\ Counts(f) /\ Ends(f)  BY PlaceNumbers DEF Placed, Standing
    <2>2. p = "entry" /\ n = EntryEnd(f) + 1  BY DEF Placed, AtBody
    <2>3. n > PrologueEnd(f)  BY <2>1, <2>2 DEF Sums, Counts, Ends
    <2> QED  BY <2>2, <2>3, StageBounds DEF Placed
  <1> QED  BY <1>3, <1>4, <1>5, <1>6 DEF ClaimInside

LEMMA FrameClaimsInside ==
  ASSUME NEW c, NEW p, NEW n, Placed(c, p, n), NEW k, NEW up
  PROVE  \A x \in FrameClaims(k, c, up, p, n) : ClaimInside(x, c, p, n)
  <1>1. Standing(c, p, n)  BY DEF Placed
  <1>2. \A x \in FPClaims(c, up, p, n) : ClaimInside(x, c, p, n)  BY <1>1, LinksInside
  <1>3. \A x \in LinkClaims(c, p, n) : ClaimInside(x, c, p, n)  BY <1>1, LinksInside
  <1>4. \A x \in SlotClaims(c, p, n) : ClaimInside(x, c, p, n)  BY <1>1, SlotsInside
  <1>5. \A x \in AreaClaims(k, c, p, n) : ClaimInside(x, c, p, n)  BY <1>1, AreasInside
  <1>6. \A x \in WrittenClaims(k, c) : ClaimInside(x, c, p, n)  BY AllWrittenInside
  <1> QED  BY <1>2, <1>3, <1>4, <1>5, <1>6 DEF FrameClaims

(***************************************************************************)
(* How the claimed words change from one place to the next.                *)
(***************************************************************************)

\* The places of the instructions that store.
LEMMA StorePlaces ==
  ASSUME NEW g \in Functions, NEW f, f = Code[g],
         NEW n \in 1 .. EntryEnd(f), NEW i, i = EntryCode[g][n]
  PROVE  /\ n = LinkEnd(f) + 1 => i.op = "STrri_a" /\ i.reg = "FP"
         /\ (n = LinkEnd(f) /\ f.hasCalls) => i.op = "STrri_a" /\ i.reg = "BLINK"
         /\ \A j \in 1 .. SpillCount(f) : n = PrologueEnd(f) + j =>
               i.op = "STrri" /\ i.reg = f.csi[j].reg /\ i.imm = f.csi[j].fi
         /\ \A j \in 1 .. StoreCount(f) : n = SpillsEnd(f) + j =>
               i.op = "STva" /\ i.reg = f.named + j /\ i.imm = j - 1
  <1>0. Kinds(f) /\ Sums(f) /\ Counts(f) /\ Ends(f)  BY PlaceNumbers
  <1>1. ASSUME n = LinkEnd(f) + 1
        PROVE  i.op = "STrri_a" /\ i.reg = "FP"
    <2>1. ~(n <= AreaCount(f)) /\ ~(n <= LinkEnd(f))  BY <1>0, <1>1 DEF Sums, Counts
    <2>2. i = Ins("STrri_a", "FP", 0)  BY <1>1, <2>1, EntryAt
    <2> QED  BY <2>2 DEF Ins
  <1>2. ASSUME n = LinkEnd(f), f.hasCalls
        PROVE  i.op = "STrri_a" /\ i.reg = "BLINK"
    <2>1. ~(n <= AreaCount(f)) /\ n <= LinkEnd(f)  BY <1>0, <1>2 DEF Sums, Counts, Kinds
    <2>2. i = Ins("STrri_a", "BLINK", 0)  BY <2>1, EntryAt
    <2> QED  BY <2>2 DEF Ins
  <1>3. ASSUME NEW j \in 1 .. SpillCount(f), n = PrologueEnd(f) + j
        PROVE  i.op = "STrri" /\ i.reg = f.csi[j].reg /\ i.imm = f.csi[j].fi
    <2>1. /\ ~(n <= AreaCount(f)) /\ ~(n <= LinkEnd(f)) /\ ~(n <= PrologueEnd(f))
          /\ n # LinkEnd(f) + 1 /\ n # LinkEnd(f) + 2 /\ n <= SpillsEnd(f)
          /\ n - PrologueEnd(f) = j
      BY <1>0, <1>3 DEF Sums, Counts
    <2>2. i = Ins("STrri", f.csi[j].reg, f.csi[j].fi)  BY <2>1, EntryAt
    <2> QED  BY <2>2 DEF Ins
  <1>4. ASSUME NEW j \in 1 .. StoreCount(f), n = SpillsEnd(f) + j
        PROVE  i.op = "STva" /\ i.reg = f.named + j /\ i.imm = j - 1
    <2>1. /\ ~(n <= AreaCount(f)) /\ ~(n <= LinkEnd(f)) /\ ~(n <= PrologueEnd(f))
          /\ n # LinkEnd(f) + 1 /\ n # LinkEnd(f) + 2 /\ ~(n <= SpillsEnd(f))
          /\ n - SpillsEnd(f) = j
      BY <1>0, <1>4 DEF Sums, Counts
    <2>2. i = Ins("STva", f.named + j, j - 1)  BY <2>1, EntryAt
    <2> QED  BY <2>2 DEF Ins
  <1> QED  BY <1>1, <1>2, <1>3, <1>4

\* What instruction i at place n of an entry adds to the claims.
Stored(k, c, up, n, i, x) ==
    LET f == Code[c.fn]
    IN  \/ i.op = "STrri_a" /\ i.reg = "FP" /\ x = <<FPOf(c), Addr(up)>>
        \/ i.op = "STrri_a" /\ i.reg = "BLINK" /\ x = <<FPOf(c) + UNITS_PER_WORD, c.ret>>
        \/ /\ i.op = "STrri"
           /\ \E j \in 1 .. SpillCount(f) :
                 /\ n = PrologueEnd(f) + j /\ i.reg = f.csi[j].reg /\ i.imm = f.csi[j].fi
                 /\ x = <<SlotAddress(c, j), c.keep[f.csi[j].reg]>>
        \/ /\ i.op = "STva"
           /\ \E j \in 1 .. StoreCount(f) :
                 /\ n = SpillsEnd(f) + j /\ i.reg = f.named + j /\ i.imm = j - 1
                 /\ x = <<AreaAddress(c, j), Arg(k, f.named + j)>>

LEMMA EntryClaims ==
  ASSUME NEW c, c.fn \in Functions, NEW k, NEW up,
         NEW n \in 1 .. EntryEnd(Code[c.fn]), NEW i, i = EntryCode[c.fn][n]
  PROVE  \A x \in FrameClaims(k, c, up, "entry", n + 1) :
            x \in FrameClaims(k, c, up, "entry", n) \/ Stored(k, c, up, n, i, x)
  <1> DEFINE f == Code[c.fn]
  <1>0. Kinds(f) /\ Sums(f) /\ Counts(f) /\ Ends(f)  BY PlaceNumbers
  <1>1. n \in Nat  BY <1>0 DEF Ends
  <1>2. ASSUME NEW x \in FPClaims(c, up, "entry", n + 1)
        PROVE  x \in FPClaims(c, up, "entry", n) \/ Stored(k, c, up, n, i, x)
    <2>1. x = <<FPOf(c), Addr(up)>> /\ n + 1 > LinkEnd(f) + 1  BY DEF FPClaims, FPOn
    <2>2. CASE n > LinkEnd(f) + 1  BY <2>1, <2>2 DEF FPClaims, FPOn
    <2>3. CASE ~(n > LinkEnd(f) + 1)
      <3>1. n = LinkEnd(f) + 1  BY <2>1, <2>3, <1>0, <1>1 DEF Ends
      <3>2. i.op = "STrri_a" /\ i.reg = "FP"  BY <3>1, StorePlaces
      <3> QED  BY <2>1, <3>2 DEF Stored
    <2> QED  BY <2>2, <2>3
  <1>3. ASSUME NEW x \in LinkClaims(c, "entry", n + 1)
        PROVE  x \in LinkClaims(c, "entry", n) \/ Stored(k, c, up, n, i, x)
    <2>1. x = <<FPOf(c) + UNITS_PER_WORD, c.ret>> /\ f.hasCalls /\ n + 1 > LinkEnd(f)
      BY DEF LinkClaims, LinkOn
    <2>2. CASE n > LinkEnd(f)  BY <2>1, <2>2 DEF LinkClaims, LinkOn
    <2>3. CASE ~(n > LinkEnd(f))
      <3>1. n = LinkEnd(f)  BY <2>1, <2>3, <1>0, <1>1 DEF Ends
      <3>2. i.op = "STrri_a" /\ i.reg = "BLINK"  BY <2>1, <3>1, StorePlaces
      <3> QED  BY <2>1, <3>2 DEF Stored
    <2> QED  BY <2>2, <2>3
  <1>4. ASSUME NEW x \in SlotClaims(c, "entry", n + 1)
        PROVE  x \in SlotClaims(c, "entry", n) \/ Stored(k, c, up, n, i, x)
    <2>1. PICK j \in 1 .. SpillCount(f) :
             x = <<SlotAddress(c, j), c.keep[f.csi[j].reg]>> /\ n + 1 > PrologueEnd(f) + j
      BY DEF SlotClaims, Spilled
    <2>2. CASE n > PrologueEnd(f) + j
      <3>1. Spilled(f, "entry", n, j)  BY <2>2 DEF Spilled
      <3> QED  BY <2>1, <3>1 DEF SlotClaims
    <2>3. CASE ~(n > PrologueEnd(f) + j)
      <3>1. n = PrologueEnd(f) + j  BY <2>1, <2>3, <1>0, <1>1 DEF Ends, Counts
      <3>2. i.op = "STrri" /\ i.reg = f.csi[j].reg /\ i.imm = f.csi[j].fi
        BY <3>1, StorePlaces
      <3> QED  BY <2>1, <3>1, <3>2 DEF Stored
    <2> QED  BY <2>2, <2>3
  <1>5. ASSUME NEW x \in AreaClaims(k, c, "entry", n + 1)
        PROVE  x \in AreaClaims(k, c, "entry", n) \/ Stored(k, c, up, n, i, x)
    <2>1. PICK j \in 1 .. StoreCount(f) :
             x = <<AreaAddress(c, j), Arg(k, f.named + j)>> /\ n + 1 > SpillsEnd(f) + j
      BY DEF AreaClaims
    <2>2. CASE n > SpillsEnd(f) + j
      BY <2>1, <2>2 DEF AreaClaims
    <2>3. CASE ~(n > SpillsEnd(f) + j)
      <3>1. n = SpillsEnd(f) + j  BY <2>1, <2>3, <1>0, <1>1 DEF Ends, Counts
      <3>2. i.op = "STva" /\ i.reg = f.named + j /\ i.imm = j - 1
        BY <3>1, StorePlaces
      <3> QED  BY <2>1, <3>1, <3>2 DEF Stored
    <2> QED  BY <2>2, <2>3
  <1> QED  BY <1>2, <1>3, <1>4, <1>5 DEF FrameClaims

\* An exit only gives up claims, and so does its beginning.
LEMMA ExitClaims ==
  ASSUME NEW c, c.fn \in Functions, NEW k, NEW up, NEW n \in Nat
  PROVE  FrameClaims(k, c, up, "exit", n + 1) \subseteq FrameClaims(k, c, up, "exit", n)
  <1> DEFINE f == Code[c.fn]
  <1>0. Counts(f) /\ Ends(f)  BY PlaceNumbers
  <1>1. FPOn(f, "exit", n + 1) => FPOn(f, "exit", n)  BY <1>0 DEF FPOn, Ends
  <1>2. LinkOn(f, "exit", n + 1) => LinkOn(f, "exit", n)  BY <1>0 DEF LinkOn, Ends
  <1>3. \A j : Spilled(f, "exit", n + 1, j) => Spilled(f, "exit", n, j)
    BY <1>0 DEF Spilled, Counts
  <1>4. FPClaims(c, up, "exit", n + 1) \subseteq FPClaims(c, up, "exit", n)
    BY <1>1 DEF FPClaims
  <1>5. LinkClaims(c, "exit", n + 1) \subseteq LinkClaims(c, "exit", n)
    BY <1>2 DEF LinkClaims
  <1>6. SlotClaims(c, "exit", n + 1) \subseteq SlotClaims(c, "exit", n)
    BY <1>3 DEF SlotClaims
  <1>7. AreaClaims(k, c, "exit", n + 1) = {}  BY DEF AreaClaims
  <1> QED  BY <1>4, <1>5, <1>6, <1>7 DEF FrameClaims

LEMMA ReturnClaims ==
  ASSUME NEW c, NEW d, c.fn \in Functions, NEW k, NEW up, NEW n, AtBody(Code[c.fn], "entry", n),
         d.fn = c.fn, d.sp = c.sp, d.ret = c.ret, d.keep = c.keep, d.written = {}
  PROVE  FrameClaims(k, d, up, "exit", 1) \subseteq FrameClaims(k, c, up, "entry", n)
  <1> DEFINE f == Code[c.fn]
  <1>0. Sums(f) /\ Counts(f) /\ Ends(f)  BY PlaceNumbers
  <1>1. n = EntryEnd(f) + 1  BY DEF AtBody
  <1>2. FPOn(f, "entry", n) /\ (f.hasCalls => LinkOn(f, "entry", n))
    BY <1>0, <1>1 DEF FPOn, LinkOn, Ends, Counts, Sums
  <1>3. \A j \in 1 .. SpillCount(f) : Spilled(f, "entry", n, j)
    BY <1>0, <1>1 DEF Spilled, Ends, Counts, Sums
  <1>4. FPOf(d) = FPOf(c)  BY DEF FPOf
  <1>5. FPClaims(d, up, "exit", 1) \subseteq FPClaims(c, up, "entry", n)
    BY <1>2, <1>4 DEF FPClaims
  <1>6. LinkClaims(d, "exit", 1) \subseteq LinkClaims(c, "entry", n)
    BY <1>2, <1>4 DEF LinkClaims, LinkOn
  <1>7. \A j : SlotAddress(d, j) = SlotAddress(c, j)  BY <1>4 DEF SlotAddress
  <1>8. SlotClaims(d, "exit", 1) \subseteq SlotClaims(c, "entry", n)
    BY <1>3, <1>7 DEF SlotClaims
  <1>9. AreaClaims(k, d, "exit", 1) = {}  BY DEF AreaClaims
  <1>10. WrittenClaims(k, d) = {}  BY DEF WrittenClaims
  <1> QED  BY <1>5, <1>6, <1>8, <1>9, <1>10 DEF FrameClaims

\* A function that has just been called claims nothing but its arguments.
LEMMA NoClaimsYet ==
  ASSUME NEW c, c.fn \in Functions, NEW k, NEW up, c.written = {}
  PROVE  FrameClaims(k, c, up, "entry", 1) = {}
  <1> DEFINE f == Code[c.fn]
  <1>0. Kinds(f) /\ Sums(f) /\ Counts(f) /\ Ends(f)  BY PlaceNumbers
  <1>1. ~FPOn(f, "entry", 1) /\ ~LinkOn(f, "entry", 1)
    BY <1>0 DEF FPOn, LinkOn, Ends, Sums, Counts, Kinds
  <1>2. \A j \in 1 .. SpillCount(f) : ~Spilled(f, "entry", 1, j)
    BY <1>0 DEF Spilled, Ends, Counts
  <1>3. \A j \in 1 .. StoreCount(f) : ~(1 > SpillsEnd(f) + j)
    BY <1>0 DEF Ends, Counts
  <1>4. FPClaims(c, up, "entry", 1) = {} /\ LinkClaims(c, "entry", 1) = {}
    BY <1>1 DEF FPClaims, LinkClaims
  <1>5. SlotClaims(c, "entry", 1) = {}  BY <1>2 DEF SlotClaims
  <1>6. AreaClaims(k, c, "entry", 1) = {}  BY <1>3 DEF AreaClaims
  <1>7. WrittenClaims(k, c) = {}  BY DEF WrittenClaims
  <1> QED  BY <1>4, <1>5, <1>6, <1>7 DEF FrameClaims

(***************************************************************************)
(* What an exit loads, and what it leaves in BLINK and in the registers.   *)
(***************************************************************************)
LEMMA LoadedClaims ==
  ASSUME NEW c, c.fn \in Functions, NEW k, NEW up,
         NEW n \in 1 .. ExitEnd(Code[c.fn]), NEW i, i = ExitCode[c.fn][n]
  PROVE  /\ i.op = "LDri" =>
               \E j \in 1 .. SpillCount(Code[c.fn]) :
                  /\ n = SpillCount(Code[c.fn]) + 1 - j
                  /\ i.reg = Code[c.fn].csi[j].reg /\ i.imm = Code[c.fn].csi[j].fi
                  /\ <<SlotAddress(c, j), c.keep[i.reg]>> \in FrameClaims(k, c, up, "exit", n)
         /\ i.op = "LDri_ab" =>
               IF i.reg = "FP" THEN <<FPOf(c), Addr(up)>> \in FrameClaims(k, c, up, "exit", n)
               ELSE <<FPOf(c) + UNITS_PER_WORD, c.ret>> \in FrameClaims(k, c, up, "exit", n)
  <1> DEFINE f == Code[c.fn]
  <1>0. Sums(f) /\ Counts(f) /\ Ends(f)  BY PlaceNumbers
  <1>1. ASSUME i.op = "LDri"
        PROVE  \E j \in 1 .. SpillCount(f) :
                  /\ n = SpillCount(f) + 1 - j
                  /\ i.reg = f.csi[j].reg /\ i.imm = f.csi[j].fi
                  /\ <<SlotAddress(c, j), c.keep[i.reg]>> \in FrameClaims(k, c, up, "exit", n)
    <2>1. PICK j \in 1 .. SpillCount(f) :
             n = SpillCount(f) + 1 - j /\ i.reg = f.csi[j].reg /\ i.imm = f.csi[j].fi
      BY <1>1, ExitOps
    <2>2. n <= SpillCount(f)  BY <2>1, <1>0 DEF Counts
    <2>3. Spilled(f, "exit", n, j)  BY <2>2 DEF Spilled
    <2>4. <<SlotAddress(c, j), c.keep[i.reg]>> \in SlotClaims(c, "exit", n)
      BY <2>1, <2>3 DEF SlotClaims
    <2> QED  BY <2>1, <2>4 DEF FrameClaims
  <1>2. ASSUME i.op = "LDri_ab", i.reg = "FP"
        PROVE  <<FPOf(c), Addr(up)>> \in FrameClaims(k, c, up, "exit", n)
    <2>1. n = FPPopped(f)  BY <1>2, ExitOps
    <2>2. FPOn(f, "exit", n)  BY <2>1, <1>0 DEF FPOn, Ends
    <2>3. <<FPOf(c), Addr(up)>> \in FPClaims(c, up, "exit", n)  BY <2>2 DEF FPClaims
    <2> QED  BY <2>3 DEF FrameClaims
  <1>3. ASSUME i.op = "LDri_ab", i.reg # "FP"
        PROVE  <<FPOf(c) + UNITS_PER_WORD, c.ret>> \in FrameClaims(k, c, up, "exit", n)
    <2>1. n = LinkPopped(f) /\ f.hasCalls  BY <1>3, ExitOps
    <2>2. LinkOn(f, "exit", n)  BY <2>1, <1>0 DEF LinkOn, Ends
    <2>3. <<FPOf(c) + UNITS_PER_WORD, c.ret>> \in LinkClaims(c, "exit", n)
      BY <2>2 DEF LinkClaims
    <2> QED  BY <2>3 DEF FrameClaims
  <1> QED  BY <1>1, <1>2, <1>3

LEMMA LinkSteps ==
  ASSUME NEW g \in Functions, NEW f, f = Code[g]
  PROVE  /\ \A n \in Nat : LinkKept(f, "entry", n + 1) => LinkKept(f, "entry", n)
         /\ \A n \in 1 .. ExitEnd(f) :
               LinkKept(f, "exit", n + 1) =>
                  \/ LinkKept(f, "exit", n)
                  \/ ExitCode[g][n].op = "LDri_ab" /\ ExitCode[g][n].reg = "BLINK"
         /\ LinkKept(f, "entry", 1) /\ LinkKept(f, "exit", ExitEnd(f) + 1)
         /\ LinkKept(f, "exit", 1) => LinkKept(f, "entry", EntryEnd(f) + 1)
         /\ f.hasCalls => ~LinkKept(f, "entry", EntryEnd(f) + 1)
  <1>0. Kinds(f) /\ Sums(f) /\ Counts(f) /\ Ends(f)  BY PlaceNumbers
  <1>1. ASSUME NEW n \in Nat, LinkKept(f, "entry", n + 1)
        PROVE  LinkKept(f, "entry", n)
    BY <1>0, <1>1 DEF LinkKept, Ends
  <1>2. ASSUME NEW n \in 1 .. ExitEnd(f), LinkKept(f, "exit", n + 1)
        PROVE  \/ LinkKept(f, "exit", n)
               \/ ExitCode[g][n].op = "LDri_ab" /\ ExitCode[g][n].reg = "BLINK"
    <2>1. CASE ~f.hasCalls \/ n > LinkPopped(f)  BY <2>1 DEF LinkKept
    <2>2. CASE f.hasCalls /\ ~(n > LinkPopped(f))
      <3>1. n = LinkPopped(f)  BY <1>0, <1>2, <2>2 DEF LinkKept, Ends
      <3>2. /\ ~(n <= SpillCount(f)) /\ ~(n <= LocalsPopped(f)) /\ ~(n <= DynamicPopped(f))
            /\ n # FPPopped(f) /\ n <= LinkPopped(f)
        BY <3>1, <2>2, <1>0 DEF Sums, Counts, Kinds
      <3>3. ExitCode[g][n] = Ins("LDri_ab", "BLINK", 0)  BY <3>2, ExitAt
      <3> QED  BY <3>3 DEF Ins
    <2> QED  BY <2>1, <2>2
  <1>3. LinkKept(f, "entry", 1)
    BY <1>0 DEF LinkKept, Kinds, Sums, Counts
  <1>4. LinkKept(f, "exit", ExitEnd(f) + 1)
    BY <1>0 DEF LinkKept, Sums, Counts, Ends
  <1>5. LinkKept(f, "exit", 1) => LinkKept(f, "entry", EntryEnd(f) + 1)
    BY <1>0 DEF LinkKept, Sums, Counts, Ends
  <1>6. f.hasCalls => ~LinkKept(f, "entry", EntryEnd(f) + 1)
    BY <1>0 DEF LinkKept, Sums, Counts, Ends
  <1> QED  BY <1>1, <1>2, <1>3, <1>4, <1>5, <1>6

LEMMA RegisterSteps ==
  ASSUME NEW g \in Functions, NEW f, f = Code[g], NEW r
  PROVE  /\ \A n \in 1 .. EntryEnd(f) : RegisterKept(f, "entry", n, r)
         /\ \A n \in 1 .. ExitEnd(f) : ExitCode[g][n].op # "LDri" => RegisterKept(f, "exit", n, r)
         /\ \A n \in 1 .. ExitEnd(f), j \in 1 .. SpillCount(f) :
               /\ RegisterKept(f, "exit", n + 1, r) /\ r # f.csi[j].reg
               /\ n = SpillCount(f) + 1 - j
               => RegisterKept(f, "exit", n, r)
         /\ RegisterKept(f, "exit", 1, r) => RegisterKept(f, "entry", EntryEnd(f) + 1, r)
         /\ RegisterKept(f, "exit", ExitEnd(f) + 1, r)
         /\ RegisterKept(f, "entry", EntryEnd(f) + 1, r) <=>
               \A j \in 1 .. SpillCount(f) : f.csi[j].reg # r
         /\ RegisterKept(f, "entry", 1, r)
  <1>0. Sums(f) /\ Counts(f) /\ Ends(f)  BY PlaceNumbers
  <1>1. \A n \in 1 .. EntryEnd(f) : RegisterKept(f, "entry", n, r)
    BY <1>0 DEF RegisterKept, Ends
  <1>2. ASSUME NEW n \in 1 .. ExitEnd(f), ExitCode[g][n].op # "LDri"
        PROVE  RegisterKept(f, "exit", n, r)
    <2>1. n > SpillCount(f)
      <3>1. SUFFICES ASSUME n <= SpillCount(f) PROVE FALSE  BY <1>0 DEF Counts
      <3>2. ExitCode[g][n] = Ins("LDri", f.csi[SpillCount(f) + 1 - n].reg,
                                         f.csi[SpillCount(f) + 1 - n].fi)
        BY <3>1, ExitAt
      <3> QED  BY <1>2, <3>2 DEF Ins
    <2>2. \A j \in 1 .. SpillCount(f) : Restored(f, "exit", n, j)
      BY <2>1, <1>0 DEF Restored, Counts
    <2> QED  BY <2>2 DEF RegisterKept
  <1>3. ASSUME NEW n \in 1 .. ExitEnd(f), NEW j \in 1 .. SpillCount(f),
               RegisterKept(f, "exit", n + 1, r), r # f.csi[j].reg,
               n = SpillCount(f) + 1 - j
        PROVE  RegisterKept(f, "exit", n, r)
    <2>1. ASSUME NEW l \in 1 .. SpillCount(f), f.csi[l].reg = r
          PROVE  Restored(f, "exit", n, l)
      <3>1. Restored(f, "exit", n + 1, l) /\ l # j  BY <1>3, <2>1 DEF RegisterKept
      <3>2. n + 1 > SpillCount(f) + 1 - l  BY <3>1 DEF Restored
      <3>3. n > SpillCount(f) + 1 - l  BY <1>0, <1>3, <3>1, <3>2 DEF Counts
      <3> QED  BY <3>3 DEF Restored
    <2> QED  BY <2>1 DEF RegisterKept
  <1>4. RegisterKept(f, "entry", EntryEnd(f) + 1, r) <=>
           \A j \in 1 .. SpillCount(f) : f.csi[j].reg # r
    BY <1>0 DEF RegisterKept, Restored, Ends
  <1>5. RegisterKept(f, "exit", 1, r) => \A j \in 1 .. SpillCount(f) : f.csi[j].reg # r
    <2>1. \A j \in 1 .. SpillCount(f) : ~Restored(f, "exit", 1, j)
      BY <1>0 DEF Restored, Counts
    <2> QED  BY <2>1 DEF RegisterKept
  <1>6. RegisterKept(f, "exit", ExitEnd(f) + 1, r)
    <2>1. \A j \in 1 .. SpillCount(f) : Restored(f, "exit", ExitEnd(f) + 1, j)
      BY <1>0 DEF Restored, Counts, Sums, Ends
    <2> QED  BY <2>1 DEF RegisterKept
  <1>7. RegisterKept(f, "entry", 1, r)
    <2>1. EntryEnd(f) >= 1  BY <1>0 DEF Sums, Counts, Ends
    <2> QED  BY <2>1 DEF RegisterKept
  <1> QED  BY <1>1, <1>2, <1>3, <1>4, <1>5, <1>6, <1>7

(***************************************************************************)
(* Every store in an activation's own frame leaves its other claims alone. *)
(***************************************************************************)
LEMMA ClaimCases ==
  ASSUME NEW c, NEW k, NEW up, NEW p, NEW n, NEW x \in FrameClaims(k, c, up, p, n)
  PROVE  \/ x = <<FPOf(c), Addr(up)>>
         \/ x = <<FPOf(c) + 4, c.ret>>
         \/ \E j \in 1 .. SpillCount(Code[c.fn]) :
               /\ x = <<SlotAddress(c, j), c.keep[Code[c.fn].csi[j].reg]>>
               /\ Spilled(Code[c.fn], p, n, j)
         \/ \E j \in 1 .. StoreCount(Code[c.fn]) :
               /\ x = <<AreaAddress(c, j), Arg(k, Code[c.fn].named + j)>>
               /\ p = "entry" /\ n > SpillsEnd(Code[c.fn]) + j
         \/ \E o \in c.written : x = <<ObjectAddress(c, o), Loc(k, o)>>
  <1>1. CASE x \in FPClaims(c, up, p, n)  BY <1>1 DEF FPClaims
  <1>2. CASE x \in LinkClaims(c, p, n)  BY <1>2 DEF LinkClaims, UNITS_PER_WORD
  <1>3. CASE x \in SlotClaims(c, p, n)  BY <1>3 DEF SlotClaims
  <1>4. CASE x \in AreaClaims(k, c, p, n)  BY <1>4 DEF AreaClaims
  <1>5. CASE x \in WrittenClaims(k, c)  BY <1>5 DEF WrittenClaims
  <1> QED  BY <1>1, <1>2, <1>3, <1>4, <1>5 DEF FrameClaims

\* Objects and slots below FP are the only claims there.
LEMMA BelowFP ==
  ASSUME NEW c, c.fn \in Functions, c.sp \in Int, c.sp % 4 = 0, c.dyn \in Nat, c.dyn % 4 = 0,
         NEW k, NEW up, NEW p, NEW n, NEW x \in FrameClaims(k, c, up, p, n), x[1] < FPOf(c)
  PROVE  \/ \E j \in 1 .. SpillCount(Code[c.fn]) :
               x[1] = SlotAddress(c, j) /\ Spilled(Code[c.fn], p, n, j)
         \/ \E o \in c.written : x = <<ObjectAddress(c, o), Loc(k, o)>>
  <1> DEFINE f == Code[c.fn]
  <1>1. FPOf(c) \in Int  BY BottomOfFrame
  <1>2. x # <<FPOf(c), Addr(up)>>
    <2>1. SUFFICES ASSUME x = <<FPOf(c), Addr(up)>> PROVE FALSE  OBVIOUS
    <2>2. x[1] = FPOf(c)  BY <2>1
    <2> QED  BY <1>1, <2>2
  <1>3. x # <<FPOf(c) + 4, c.ret>>
    <2>1. SUFFICES ASSUME x = <<FPOf(c) + 4, c.ret>> PROVE FALSE  OBVIOUS
    <2>2. x[1] = FPOf(c) + 4  BY <2>1
    <2> QED  BY <1>1, <2>2
  <1>4. ASSUME NEW j \in 1 .. StoreCount(f)
        PROVE  x # <<AreaAddress(c, j), Arg(k, f.named + j)>>
    <2>1. SUFFICES ASSUME x = <<AreaAddress(c, j), Arg(k, f.named + j)>> PROVE FALSE  OBVIOUS
    <2>2. x[1] = AreaAddress(c, j)  BY <2>1
    <2>3. AreaAddress(c, j) \in Int /\ FPOf(c) + 8 <= AreaAddress(c, j)  BY AreaInside
    <2> QED  BY <1>1, <2>2, <2>3
  <1>5. CASE \E j \in 1 .. SpillCount(f) :
                /\ x = <<SlotAddress(c, j), c.keep[f.csi[j].reg]>>
                /\ Spilled(f, p, n, j)
    <2>1. PICK j \in 1 .. SpillCount(f) :
             x = <<SlotAddress(c, j), c.keep[f.csi[j].reg]>> /\ Spilled(f, p, n, j)
      BY <1>5
    <2>2. x[1] = SlotAddress(c, j)  BY <2>1
    <2> QED  BY <2>1, <2>2
  <1> QED  BY <1>2, <1>3, <1>4, <1>5, ClaimCases

\* A callee-saved register goes to a slot no earlier one went to.
LEMMA SlotFresh ==
  ASSUME NEW c, c.fn \in Functions, c.sp \in Int, c.sp % 4 = 0, c.dyn \in Nat, c.dyn % 4 = 0,
         c.written = {}, NEW k, NEW up, NEW n, NEW j \in 1 .. SpillCount(Code[c.fn]),
         n = PrologueEnd(Code[c.fn]) + j
  PROVE  \A x \in FrameClaims(k, c, up, "entry", n) : x[1] # SlotAddress(c, j)
  <1> DEFINE f == Code[c.fn]
  <1>0. Counts(f) /\ Ends(f)  BY PlaceNumbers
  <1>1. SUFFICES ASSUME NEW x \in FrameClaims(k, c, up, "entry", n), x[1] = SlotAddress(c, j)
                 PROVE  FALSE
    OBVIOUS
  <1>2. /\ FPOf(c) \in Int /\ SlotAddress(c, j) \in Int /\ SlotAddress(c, j) + 4 <= FPOf(c)
    BY SlotInside, BottomOfFrame
  <1>3. x[1] < FPOf(c)  BY <1>1, <1>2
  <1>4. PICK l \in 1 .. SpillCount(f) : x[1] = SlotAddress(c, l) /\ Spilled(f, "entry", n, l)
    BY <1>3, BelowFP
  <1>5. l # j  BY <1>0, <1>4 DEF Spilled, Counts, Ends
  <1>6. f.objs[f.csi[j].fi + 1].offset # f.objs[f.csi[l].fi + 1].offset
    BY <1>5, SlotsApart
  <1>7. /\ SlotAddress(c, j) = FPOf(c) + f.objs[f.csi[j].fi + 1].offset
        /\ SlotAddress(c, l) = FPOf(c) + f.objs[f.csi[l].fi + 1].offset
    BY DEF SlotAddress
  <1>8. f.objs[f.csi[j].fi + 1].offset \in Int /\ f.objs[f.csi[l].fi + 1].offset \in Int
    BY SlotFacts, ObjectFacts
  <1>9. PICK u \in Int : u = f.objs[f.csi[j].fi + 1].offset  BY <1>8
  <1>10. PICK v \in Int : v = f.objs[f.csi[l].fi + 1].offset  BY <1>8
  <1> HIDE DEF f
  <1>11. FPOf(c) + u = FPOf(c) + v /\ u # v  BY <1>1, <1>4, <1>6, <1>7, <1>9, <1>10
  <1> QED  BY <1>2, <1>11

\* An argument register goes to a word of the save area of its own.
LEMMA AreaFresh ==
  ASSUME NEW c, c.fn \in Functions, c.sp \in Int, c.sp % 4 = 0, c.dyn \in Nat, c.dyn % 4 = 0,
         c.written = {}, NEW k, NEW up, NEW n, NEW j \in 1 .. StoreCount(Code[c.fn]),
         n = SpillsEnd(Code[c.fn]) + j
  PROVE  \A x \in FrameClaims(k, c, up, "entry", n) : x[1] # AreaAddress(c, j)
  <1> DEFINE f == Code[c.fn]
  <1>0. Counts(f) /\ Ends(f)  BY PlaceNumbers
  <1>1. SUFFICES ASSUME NEW x \in FrameClaims(k, c, up, "entry", n), x[1] = AreaAddress(c, j)
                 PROVE  FALSE
    OBVIOUS
  <1>2. /\ FPOf(c) \in Int /\ AreaAddress(c, j) \in Int /\ FPOf(c) + 8 <= AreaAddress(c, j)
        /\ AreaAddress(c, j) = FPOf(c) + 8 + 4 * (j - 1)
    BY AreaInside, BottomOfFrame
  <1>3. CASE x = <<FPOf(c), Addr(up)>> \/ x = <<FPOf(c) + 4, c.ret>>
    <2>1. x[1] = FPOf(c) \/ x[1] = FPOf(c) + 4  BY <1>3
    <2> QED  BY <1>1, <1>2, <2>1
  <1>4. CASE \E l \in 1 .. SpillCount(f) :
                x = <<SlotAddress(c, l), c.keep[f.csi[l].reg]>> /\ Spilled(f, "entry", n, l)
    <2>1. PICK l \in 1 .. SpillCount(f) : x = <<SlotAddress(c, l), c.keep[f.csi[l].reg]>>
      BY <1>4
    <2>2. x[1] = SlotAddress(c, l)  BY <2>1
    <2>3. SlotAddress(c, l) \in Int /\ SlotAddress(c, l) + 4 <= FPOf(c)  BY SlotInside
    <2> QED  BY <1>1, <1>2, <2>2, <2>3
  <1>5. CASE \E l \in 1 .. StoreCount(f) :
                /\ x = <<AreaAddress(c, l), Arg(k, f.named + l)>>
                /\ "entry" = "entry" /\ n > SpillsEnd(f) + l
    <2>1. PICK l \in 1 .. StoreCount(f) :
             x = <<AreaAddress(c, l), Arg(k, f.named + l)>> /\ n > SpillsEnd(f) + l
      BY <1>5
    <2>2. x[1] = FPOf(c) + 8 + 4 * (l - 1)  BY <2>1, AreaInside
    <2>3. l < j  BY <1>0, <2>1 DEF Counts, Ends
    <2> QED  BY <1>0, <1>1, <1>2, <2>2, <2>3 DEF Counts
  <1> QED  BY <1>3, <1>4, <1>5, ClaimCases

\* A word of an object is nobody's but its own.
LEMMA ObjectFresh ==
  ASSUME NEW c, c.fn \in Functions, c.sp \in Int, c.sp % 4 = 0, c.dyn \in Nat, c.dyn % 4 = 0,
         WrittenInside(c), NEW k, NEW up, NEW p, NEW n, NEW o \in ObjectWords(Code[c.fn])
  PROVE  /\ ObjectAddress(c, o) \in Int /\ ObjectAddress(c, o) % 4 = 0
         /\ Bottom(c) <= ObjectAddress(c, o) /\ ObjectAddress(c, o) + 4 <= FPOf(c)
         /\ \A x \in FrameClaims(k, c, up, p, n) :
               x[1] = ObjectAddress(c, o) => x = <<ObjectAddress(c, o), Loc(k, o)>>
  <1> DEFINE f == Code[c.fn]
             e == [fn |-> c.fn, sp |-> c.sp, dyn |-> c.dyn, written |-> {o}]
  <1>1. o[1] = "obj" /\ o[2] + 1 \in 1 .. Len(f.objs) /\ o[3] \in Nat  BY WordFacts
  <1>2. /\ WrittenInside(e) /\ FPOf(e) = FPOf(c) /\ Bottom(e) = Bottom(c)
        /\ ObjectAddress(e, o) = ObjectAddress(c, o)
    BY <1>1 DEF WrittenInside, FPOf, Bottom, ObjectAddress
  <1>3. /\ ObjectAddress(e, o) \in Int /\ ObjectAddress(e, o) % 4 = 0
        /\ Bottom(e) <= ObjectAddress(e, o) /\ ObjectAddress(e, o) + 4 <= FPOf(e)
        /\ o[1] # "dyn" =>
              /\ ObjectAddress(e, o) = FPOf(e) + f.objs[o[2] + 1].offset + o[3]
              /\ ObjectAddress(e, o) >= FPOf(e) - NumBytes(f)
    <2>1. /\ e.fn \in Functions /\ e.sp \in Int /\ e.sp % 4 = 0 /\ e.dyn \in Nat /\ e.dyn % 4 = 0
          /\ o \in e.written /\ Code[e.fn] = f
      OBVIOUS
    <2> HIDE DEF e, f
    <2> QED  BY <1>2, <2>1, WrittenPlace
  <1> HIDE DEF e
  <1>4. FPOf(c) \in Int /\ NumBytes(f) \in Nat  BY BottomOfFrame, FrameFacts
  <1>5. /\ ObjectAddress(c, o) = FPOf(c) + f.objs[o[2] + 1].offset + o[3]
        /\ ObjectAddress(c, o) >= FPOf(c) - NumBytes(f)
        /\ ObjectAddress(c, o) \in Int /\ ObjectAddress(c, o) + 4 <= FPOf(c)
    BY <1>1, <1>2, <1>3
  <1>6. PICK d \in Int : d = f.objs[o[2] + 1].offset + o[3]
    <2>1. f.objs[o[2] + 1].offset \in Int  BY <1>1, ObjectFacts
    <2> HIDE DEF f
    <2> QED  BY <1>1, <2>1
  <1>7. ObjectAddress(c, o) = FPOf(c) + d
    <2>1. PICK u \in Int : u = f.objs[o[2] + 1].offset  BY <1>1, ObjectFacts
    <2>2. PICK v \in Nat : v = o[3]  BY <1>1
    <2>3. ObjectAddress(c, o) = FPOf(c) + u + v /\ d = u + v  BY <1>5, <1>6, <2>1, <2>2
    <2> QED  BY <1>4, <2>3
  <1>8. ASSUME NEW x \in FrameClaims(k, c, up, p, n), x[1] = ObjectAddress(c, o)
        PROVE  x = <<ObjectAddress(c, o), Loc(k, o)>>
    <2>1. x[1] < FPOf(c)  BY <1>4, <1>5, <1>8
    <2>2. ASSUME NEW j \in 1 .. SpillCount(f), x[1] = SlotAddress(c, j)
          PROVE  FALSE
      <3>1. PICK u \in Int : u = f.objs[f.csi[j].fi + 1].offset  BY SlotFacts, ObjectFacts
      <3>2. SlotAddress(c, j) = FPOf(c) + u  BY <3>1 DEF SlotAddress
      <3>3. d # u  BY <1>6, <3>1, WordsApart
      <3> QED  BY <1>4, <1>7, <1>8, <2>2, <3>2, <3>3
    <2>3. PICK q \in c.written : x = <<ObjectAddress(c, q), Loc(k, q)>>
      BY <2>1, <2>2, BelowFP
    <2>4. x[1] = ObjectAddress(c, q)  BY <2>3
    <2>5. q[1] # "dyn"
      <3>1. SUFFICES ASSUME q[1] = "dyn" PROVE FALSE  OBVIOUS
      <3>2. ObjectAddress(c, q) < Bottom(c) + c.dyn  BY <3>1, WrittenPlace
      <3>3. Bottom(c) = FPOf(c) - NumBytes(f) - c.dyn  BY BottomOfFrame
      <3> QED  BY <1>4, <1>5, <1>8, <2>4, <3>2, <3>3
    <2>6. /\ q \in ObjectWords(f)
          /\ ObjectAddress(c, q) = FPOf(c) + f.objs[q[2] + 1].offset + q[3]
      BY <2>5, WrittenPlace
    <2>7. PICK e2 \in Int : e2 = f.objs[q[2] + 1].offset + q[3]
      BY <2>6, WordFacts, ObjectFacts
    <2>8. ObjectAddress(c, q) = FPOf(c) + e2
      <3>1. PICK u \in Int : u = f.objs[q[2] + 1].offset  BY <2>6, WordFacts, ObjectFacts
      <3>2. PICK v \in Nat : v = q[3]  BY <2>6, WordFacts
      <3>3. ObjectAddress(c, q) = FPOf(c) + u + v /\ e2 = u + v  BY <2>6, <2>7, <3>1, <3>2
      <3> QED  BY <1>4, <3>3
    <2>9. d = e2  BY <1>4, <1>7, <1>8, <2>4, <2>8
    <2>10. o = q  BY <1>6, <2>6, <2>7, <2>9, WordsApart
    <2> QED  BY <2>3, <2>10
  <1> QED  BY <1>2, <1>3, <1>8

\* A word of a dynamic block is nobody's but its own.
LEMMA DynamicFresh ==
  ASSUME NEW c, c.fn \in Functions, c.sp \in Int, c.sp % 4 = 0, c.dyn \in Nat, c.dyn % 4 = 0,
         WrittenInside(c), NEW k, NEW up, NEW p, NEW n,
         NEW a \in Int, Bottom(c) <= a, a < Bottom(c) + c.dyn
  PROVE  \A x \in FrameClaims(k, c, up, p, n) :
            x[1] = a => x = <<a, Loc(k, <<"dyn", a, 0>>)>>
  <1> DEFINE f == Code[c.fn]
  <1>1. /\ FPOf(c) \in Int /\ Bottom(c) \in Int /\ NumBytes(f) \in Nat
        /\ Bottom(c) = FPOf(c) - NumBytes(f) - c.dyn
    BY BottomOfFrame, FrameFacts
  <1>2. a < FPOf(c) - NumBytes(f)
    <2>1. PICK b \in Nat : b = NumBytes(f)  BY <1>1
    <2>2. PICK d \in Nat : d = c.dyn  OBVIOUS
    <2>3. a < FPOf(c) - b - d + d  BY <1>1, <2>1, <2>2
    <2> QED  BY <1>1, <2>1, <2>3
  <1>3. SUFFICES ASSUME NEW x \in FrameClaims(k, c, up, p, n), x[1] = a
                 PROVE  x = <<a, Loc(k, <<"dyn", a, 0>>)>>
    OBVIOUS
  <1>4. x[1] < FPOf(c)  BY <1>1, <1>2, <1>3
  <1>5. ASSUME NEW j \in 1 .. SpillCount(f), x[1] = SlotAddress(c, j)
        PROVE  FALSE
    <2>1. SlotAddress(c, j) >= FPOf(c) - NumBytes(f)  BY SlotInside
    <2> QED  BY <1>1, <1>2, <1>3, <1>5, <2>1
  <1>6. PICK q \in c.written : x = <<ObjectAddress(c, q), Loc(k, q)>>
    BY <1>4, <1>5, BelowFP
  <1>7. x[1] = ObjectAddress(c, q)  BY <1>6
  <1>8. q[1] = "dyn"
    <2>1. SUFFICES ASSUME q[1] # "dyn" PROVE FALSE  OBVIOUS
    <2>2. ObjectAddress(c, q) >= FPOf(c) - NumBytes(f)  BY <2>1, WrittenPlace
    <2> QED  BY <1>1, <1>2, <1>3, <1>7, <2>2
  <1>9. q \notin ObjectWords(f)
    <2>1. SUFFICES ASSUME q \in ObjectWords(f) PROVE FALSE  OBVIOUS
    <2>2. q[1] = "obj"  BY <2>1, WordFacts
    <2> QED  BY <1>8, <2>2
  <1>10. q = <<"dyn", q[2], 0>>  BY <1>9 DEF WrittenInside
  <1>11. q[2] = a  BY <1>3, <1>7, <1>8 DEF ObjectAddress
  <1> QED  BY <1>3, <1>6, <1>7, <1>10, <1>11

\* The outgoing arguments of a call lie above SP and below all objects.
LEMMA SiteFacts ==
  ASSUME NEW g \in Functions, NEW f, f = Code[g], NEW s \in f.calls
  PROVE  /\ f.hasCalls /\ s.fn \in Functions /\ s.nargs \in Nat
         /\ Code[s.fn].named <= s.nargs
         /\ s.nargs > 8 =>
               /\ ~f.hasVarSized
               /\ 4 * (s.nargs - 8) <= NumBytes(f)
               /\ \A k \in 1 .. Len(f.objs) :
                     -NumBytes(f) + 4 * (s.nargs - 8) <= f.objs[k].offset
  <1>1. SoundFrame(f)  BY FrameFacts
  <1>2. /\ f.hasCalls /\ s.fn \in Functions /\ s.nargs \in Nat
        /\ Code[s.fn].named <= s.nargs
        /\ s.nargs > NumArgRegs =>
              /\ ~f.hasVarSized /\ NextStackOffset(s.nargs) <= NumBytes(f)
              /\ \A k \in 1 .. Len(f.objs) :
                    -NumBytes(f) + NextStackOffset(s.nargs) <= f.objs[k].offset
    BY <1>1 DEF SoundFrame
  <1>3. ASSUME s.nargs > 8
        PROVE  NextStackOffset(s.nargs) = 4 * (s.nargs - 8)
    <2>1. PICK m \in Nat : m = s.nargs  BY <1>2
    <2>2. FirstUnallocated(m) = 8  BY <1>3, <2>1 DEF FirstUnallocated, NumArgRegs
    <2>3. NextStackOffset(m) = 4 * (m - 8)  BY <2>2 DEF NextStackOffset, UNITS_PER_WORD
    <2> QED  BY <2>1, <2>3
  <1> QED  BY <1>2, <1>3 DEF NumArgRegs

LEMMA OutgoingFresh ==
  ASSUME NEW c, c.fn \in Functions, c.sp \in Int, c.sp % 4 = 0, c.dyn \in Nat, c.dyn % 4 = 0,
         c.dyn > 0 => Code[c.fn].hasVarSized,
         WrittenInside(c), NEW s \in Code[c.fn].calls, NEW a \in NumArgRegs + 1 .. s.nargs
  PROVE  /\ LocMemOffset(a) = 4 * (a - 9)
         /\ Bottom(c) + LocMemOffset(a) \in Int /\ (Bottom(c) + LocMemOffset(a)) % 4 = 0
         /\ Bottom(c) <= Bottom(c) + LocMemOffset(a)
         /\ Bottom(c) + LocMemOffset(a) + 4 <= FPOf(c)
         /\ \A k, up, p, n : \A x \in FrameClaims(k, c, up, p, n) :
               x[1] # Bottom(c) + LocMemOffset(a)
  <1> DEFINE f == Code[c.fn]
  <1>1. /\ s.nargs \in Nat
        /\ s.nargs > 8 =>
               /\ ~f.hasVarSized
               /\ 4 * (s.nargs - 8) <= NumBytes(f)
               /\ \A k \in 1 .. Len(f.objs) :
                     -NumBytes(f) + 4 * (s.nargs - 8) <= f.objs[k].offset
    BY SiteFacts
  <1>2. PICK m \in Nat : m = s.nargs  BY <1>1
  <1>3. a \in Nat /\ a >= 9 /\ a <= m  BY <1>2 DEF NumArgRegs
  <1>4. LocMemOffset(a) = 4 * (a - 9)
    <2>1. a - 8 - 1 = a - 9  BY <1>3
    <2> QED  BY <2>1 DEF LocMemOffset, UNITS_PER_WORD, NumArgRegs
  <1>5. c.dyn = 0  BY <1>1, <1>2, <1>3
  <1>6. /\ FPOf(c) \in Int /\ Bottom(c) \in Int /\ NumBytes(f) \in Nat /\ Bottom(c) % 4 = 0
        /\ Bottom(c) = FPOf(c) - NumBytes(f)
    <2>1. /\ FPOf(c) \in Int /\ Bottom(c) \in Int /\ Bottom(c) % 4 = 0
          /\ Bottom(c) = FPOf(c) - NumBytes(f) - c.dyn
      BY BottomOfFrame
    <2>2. PICK b \in Nat : b = NumBytes(f)  BY FrameFacts
    <2>3. Bottom(c) = FPOf(c) - b - 0  BY <1>5, <2>1, <2>2
    <2> QED  BY <2>1, <2>2, <2>3
  <1>7. 4 * (m - 8) <= NumBytes(f)  BY <1>1, <1>2, <1>3
  <1>8. PICK w \in Int : w = Bottom(c) + 4 * (a - 9)  BY <1>3, <1>6
  <1>9. w % 4 = 0 /\ Bottom(c) <= w  BY ONLY <1>3, <1>6, <1>8
  <1>10. w < FPOf(c) - NumBytes(f) + 4 * (m - 8) /\ w + 4 <= FPOf(c)
    BY ONLY <1>3, <1>6, <1>7, <1>8, m \in Nat
  <1>11. ASSUME NEW l \in 1 .. Len(f.objs)
         PROVE  w < FPOf(c) + f.objs[l].offset
    <2>1. PICK u \in Int : u = f.objs[l].offset  BY ObjectFacts
    <2>2. -NumBytes(f) + 4 * (m - 8) <= u  BY <1>1, <1>2, <1>3, <2>1
    <2>3. w < FPOf(c) + u  BY ONLY <1>10, <2>2, <1>6, <1>3, m \in Nat, u \in Int, w \in Int
    <2> QED  BY <2>1, <2>3
  <1>12. ASSUME NEW k, NEW up, NEW p, NEW n, NEW x \in FrameClaims(k, c, up, p, n), x[1] = w
         PROVE  FALSE
    <2>1. x[1] < FPOf(c)  BY <1>6, <1>10, <1>12
    <2>2. ASSUME NEW j \in 1 .. SpillCount(f), x[1] = SlotAddress(c, j)
          PROVE  FALSE
      <3>1. SlotAddress(c, j) = FPOf(c) + f.objs[f.csi[j].fi + 1].offset  BY DEF SlotAddress
      <3>2. w < SlotAddress(c, j) /\ SlotAddress(c, j) \in Int
        BY <3>1, <1>11, SlotFacts, SlotInside
      <3> QED  BY <1>12, <2>2, <3>2
    <2>3. PICK q \in c.written : x = <<ObjectAddress(c, q), Loc(k, q)>>
      BY <2>1, <2>2, BelowFP
    <2>4. x[1] = ObjectAddress(c, q) /\ ObjectAddress(c, q) \in Int  BY <2>3, WrittenPlace
    <2>5. CASE q[1] = "dyn"
      <3>1. Bottom(c) <= ObjectAddress(c, q) /\ ObjectAddress(c, q) < Bottom(c) + c.dyn
        BY <2>5, WrittenPlace
      <3> QED  BY <1>5, <1>6, <2>4, <3>1
    <2>6. CASE q[1] # "dyn"
      <3>1. /\ q \in ObjectWords(f)
            /\ ObjectAddress(c, q) = FPOf(c) + f.objs[q[2] + 1].offset + q[3]
        BY <2>6, WrittenPlace
      <3>2. q[2] + 1 \in 1 .. Len(f.objs) /\ q[3] \in Nat  BY <3>1, WordFacts
      <3>3. PICK u \in Int : u = f.objs[q[2] + 1].offset  BY <3>2, ObjectFacts
      <3>4. PICK v \in Nat : v = q[3]  BY <3>2
      <3>5. w < FPOf(c) + u  BY <1>11, <3>2, <3>3
      <3>6. w = FPOf(c) + u + v  BY <1>12, <2>4, <3>1, <3>3, <3>4
      <3> QED  BY <1>6, <3>5, <3>6
    <2> QED  BY <2>5, <2>6
  <1> QED  BY <1>4, <1>8, <1>9, <1>10, <1>12

(***************************************************************************)
(* There is room on the stack.                                             *)
(***************************************************************************)
LEMMA WordAddresses ==
  /\ \A a \in Int : 0 <= a /\ a < StackTop /\ a % 4 = 0 => a \in Words
  /\ \A a \in Words : a \in Int /\ 0 <= a /\ a + 4 <= StackTop /\ a % 4 = 0
  <1>1. StackTop \in Nat /\ StackTop % 4 = 0  BY StackAssumption DEF UNITS_PER_WORD
  <1>2. ASSUME NEW a \in Int, 0 <= a, a < StackTop, a % 4 = 0
        PROVE  a \in Words
    <2>1. PICK w \in Int : w = a \div 4  OBVIOUS
    <2>2. a = 4 * w /\ w \in 0 .. (StackTop \div 4) - 1  BY <1>1, <1>2, <2>1
    <2> QED  BY <2>2 DEF Words
  <1>3. ASSUME NEW a \in Words
        PROVE  a \in Int /\ 0 <= a /\ a + 4 <= StackTop /\ a % 4 = 0
    <2>1. PICK w \in 0 .. (StackTop \div 4) - 1 : a = 4 * w  BY DEF Words
    <2> QED  BY <1>1, <2>1
  <1> QED  BY <1>2, <1>3

LEMMA RoomForFrame ==
  /\ StackBytes \in Nat
  /\ \A m \in Mains : MaxDepth[m] * StackBytes <= StackTop
  /\ \A c : /\ c.fn \in Functions /\ c.sp \in Int /\ c.dyn \in Nat /\ c.dyn <= MaxDynamic
            => c.sp - Bottom(c) <= StackBytes
  <1>1. StackBytes \in 0 .. StackTop /\ BytesEach(StackBytes)
    <2>1. \E bytes \in 0 .. StackTop : BytesEach(bytes)  BY StackAssumption DEF BytesEach
    <2> QED  BY <2>1 DEF StackBytes
  <1>2. StackBytes \in Nat  BY <1>1, StackAssumption
  <1>3. ASSUME NEW c, c.fn \in Functions, c.sp \in Int, c.dyn \in Nat, c.dyn <= MaxDynamic
        PROVE  c.sp - Bottom(c) <= StackBytes
    <2>1. EntrySP(Code[c.fn]) + NumBytes(Code[c.fn]) + MaxDynamic <= StackBytes
      BY <1>1, <1>3 DEF BytesEach
    <2>2. NumBytes(Code[c.fn]) \in Nat  BY <1>3, FrameFacts
    <2>3. FPOf(c) = c.sp - EntrySP(Code[c.fn])  BY DEF FPOf
    <2>4. Bottom(c) = FPOf(c) - NumBytes(Code[c.fn]) - c.dyn  BY DEF Bottom
    <2>5. EntrySP(Code[c.fn]) \in Int
      <3>1. /\ EntrySP(Code[c.fn]) = 4 + Bytes(Code[c.fn].hasCalls, 4) + Code[c.fn].vaSize
            /\ Code[c.fn].vaSize \in Nat
        BY <1>3, FrameFacts
      <3> QED  BY <3>1 DEF Bytes
    <2>6. MaxDynamic \in Nat  BY StackAssumption
    <2>7. PICK e \in Int : e = EntrySP(Code[c.fn])  BY <2>5
    <2>8. PICK b \in Nat : b = NumBytes(Code[c.fn])  BY <2>2
    <2>9. PICK s \in Int : s = c.sp  BY <1>3
    <2>10. PICK d \in Nat : d = c.dyn  BY <1>3
    <2>11. Bottom(c) = s - e - b - d /\ e + b + MaxDynamic <= StackBytes /\ d <= MaxDynamic
      BY <1>3, <2>1, <2>3, <2>4, <2>7, <2>8, <2>9, <2>10
    <2>12. s - (s - e - b - d) <= StackBytes  BY ONLY <2>11, <2>6, <1>2, s \in Int, e \in Int, b \in Nat, d \in Nat
    <2> QED  BY <2>9, <2>11, <2>12
  <1>4. \A m \in Mains : MaxDepth[m] * StackBytes <= StackTop  BY <1>1 DEF BytesEach
  <1> QED  BY <1>2, <1>3, <1>4
(***************************************************************************)
(* Frames of words, with room for what their calls pass, are sound.        *)
(***************************************************************************)
\* A call with arguments that the frame has room for and its callee knows.
SiteSound(s, hasCalls, hasVarSized, reserved) ==
    /\ hasCalls /\ s.fn \in Functions /\ s.nargs \in Nat
    /\ Code[s.fn].named <= s.nargs
    /\ s.nargs > NumArgRegs => ~hasVarSized /\ NextStackOffset(s.nargs) <= reserved

LEMMA WordBytes ==
  ASSUME NEW x \in Nat
  PROVE  RoundUp(4 * x, 4) = 4 * x /\ RoundUp(x, 4) >= x /\ RoundUp(x, 4) \in Nat
  BY DEF RoundUp

\* Frame f is the WordFrame of the arguments, with the registers in saved spilled to
\* its last objects, as assignCalleeSavedSpillSlots() does, and the call sites calls.
IsWordFunction(f, w, saved, calls) ==
    /\ f.named = w.named /\ f.hasCalls = w.hasCalls /\ f.hasVarSized = w.hasVarSized
    /\ f.vaSize = w.vaSize /\ f.vaFI = w.vaFI /\ f.fixed = w.fixed
    /\ f.objs = w.objs /\ f.stackSize = w.stackSize
    /\ f.csi = [k \in 1 .. Len(saved) |->
                   [reg |-> saved[k], fi |-> Len(w.objs) - Len(saved) + k - 1]]
    /\ f.calls = calls

WordObject(k, locals, m, c) ==
    CASE k <= locals -> [size |-> 4, offset |-> -4 * (c + k)]
      [] k > m       -> [size |-> 4, offset |-> -4 * (k - m)]
      [] OTHER       -> [size |-> 0, offset |-> -4 * (c + locals)]

LEMMA WordObjects ==
  ASSUME NEW locals \in Nat, NEW c \in Nat, NEW m \in {locals, locals + 1},
         NEW k \in 1 .. m + c
  PROVE  LET o == WordObject(k, locals, m, c)
         IN  /\ o \in [size : Nat, offset : Int]
             /\ o.offset % 4 = 0
             /\ -4 * (locals + c) <= o.offset /\ o.offset + o.size <= 0
             /\ k > m => o.size = 4
             /\ \A l \in 1 .. m + c : l # k =>
                   LET q == WordObject(l, locals, m, c)
                   IN  o.offset + o.size <= q.offset \/ q.offset + q.size <= o.offset
  <1>1. m \in Nat /\ m >= locals /\ m <= locals + 1  OBVIOUS
  <1>2. ASSUME NEW i \in 1 .. m + c
        PROVE  \/ i <= locals /\ WordObject(i, locals, m, c) = [size |-> 4, offset |-> -4 * (c + i)]
               \/ i > m /\ WordObject(i, locals, m, c) = [size |-> 4, offset |-> -4 * (i - m)]
               \/ i > locals /\ i = m
                    /\ WordObject(i, locals, m, c) = [size |-> 0, offset |-> -4 * (c + locals)]
    BY <1>1 DEF WordObject
  <1>3. ASSUME NEW i \in 1 .. m + c
        PROVE  \E x \in Int :
                  LET o == WordObject(i, locals, m, c)
                  IN  /\ o = [size |-> o.size, offset |-> -4 * x]
                      /\ o.size \in {0, 4}
                      /\ \/ i <= locals /\ o.size = 4 /\ x = c + i
                         \/ i > m /\ o.size = 4 /\ x = i - m
                         \/ i > locals /\ i = m /\ o.size = 0 /\ x = c + locals
    <2>1. CASE i <= locals
      <3>1. WordObject(i, locals, m, c) = [size |-> 4, offset |-> -4 * (c + i)]
        BY <2>1, <1>1, <1>2
      <3> QED  BY <2>1, <3>1
    <2>2. CASE i > m
      <3>1. WordObject(i, locals, m, c) = [size |-> 4, offset |-> -4 * (i - m)]
        BY <2>2, <1>1, <1>2
      <3> QED  BY <2>2, <3>1
    <2>3. CASE i > locals /\ i = m
      <3>1. WordObject(i, locals, m, c) = [size |-> 0, offset |-> -4 * (c + locals)]
        BY <2>3, <1>1, <1>2
      <3> QED  BY <2>3, <3>1
    <2> QED  BY <1>1, <2>1, <2>2, <2>3
  <1> DEFINE o == WordObject(k, locals, m, c)
  <1>4. PICK x \in Int : /\ o = [size |-> o.size, offset |-> -4 * x]
                         /\ o.size \in {0, 4}
                         /\ \/ k <= locals /\ o.size = 4 /\ x = c + k
                            \/ k > m /\ o.size = 4 /\ x = k - m
                            \/ k > locals /\ k = m /\ o.size = 0 /\ x = c + locals
    BY <1>3
  <1> HIDE DEF o
  <1>5. o.offset = -4 * x  BY <1>4
  <1>6. PICK z \in {0, 4} : z = o.size  BY <1>4
  <1>7. x \in Nat /\ x <= c + locals /\ (z = 4 => x >= 1)  BY <1>1, <1>4, <1>6
  <1>8. o \in [size : Nat, offset : Int]
    <2>1. o.size \in Nat /\ -4 * x \in Int  BY <1>6
    <2> QED  BY <1>4, <2>1
  <1>9. (-4 * x) % 4 = 0  OBVIOUS
  <1>10. -4 * (locals + c) <= -4 * x /\ -4 * x + z <= 0  BY <1>6, <1>7
  <1>11. ASSUME NEW l \in 1 .. m + c, l # k
         PROVE  LET q == WordObject(l, locals, m, c)
                IN  o.offset + o.size <= q.offset \/ q.offset + q.size <= o.offset
    <2> DEFINE q == WordObject(l, locals, m, c)
    <2>1. PICK y \in Int : /\ q = [size |-> q.size, offset |-> -4 * y]
                           /\ q.size \in {0, 4}
                           /\ \/ l <= locals /\ q.size = 4 /\ y = c + l
                              \/ l > m /\ q.size = 4 /\ y = l - m
                              \/ l > locals /\ l = m /\ q.size = 0 /\ y = c + locals
      BY <1>3
    <2> HIDE DEF q
    <2>2. q.offset = -4 * y  BY <2>1
    <2>3. PICK u \in {0, 4} : u = q.size  BY <2>1
    <2>4. /\ k \in Nat /\ l \in Nat /\ k # l /\ k <= m + c /\ l <= m + c /\ 1 <= k /\ 1 <= l
          /\ x \in Int /\ y \in Int /\ z \in {0, 4} /\ u \in {0, 4}
      BY <1>1, <1>11
    <2>5. \/ k <= locals /\ z = 4 /\ x = c + k
          \/ k > m /\ z = 4 /\ x = k - m
          \/ k > locals /\ k = m /\ z = 0 /\ x = c + locals
      BY <1>4, <1>6
    <2>6. \/ l <= locals /\ u = 4 /\ y = c + l
          \/ l > m /\ u = 4 /\ y = l - m
          \/ l > locals /\ l = m /\ u = 0 /\ y = c + locals
      BY <2>1, <2>3
    <2>7. -4 * x + z <= -4 * y \/ -4 * y + u <= -4 * x
      <3>1. locals \in Nat /\ c \in Nat  OBVIOUS
      <3> QED  BY ONLY <1>1, <2>4, <2>5, <2>6, <3>1
    <2>8. o.offset + o.size <= q.offset \/ q.offset + q.size <= o.offset
      BY <2>2, <2>3, <2>7, <1>5, <1>6
    <2> QED  BY <2>8 DEF q
  <1>12. k > m => o.size = 4
    <2>1. k \in Nat  BY <1>1
    <2> QED  BY <1>1, <1>4, <2>1
  <1>13. -4 * (locals + c) <= o.offset /\ o.offset + o.size <= 0 /\ o.offset % 4 = 0
    BY <1>5, <1>6, <1>9, <1>10
  <1> QED  BY <1>8, <1>11, <1>12, <1>13 DEF o

LEMMA WordFixed ==
  ASSUME NEW n \in Nat, NEW x
  PROVE  LET S == StackArgs(n)  k == n - FirstUnallocated(n)
         IN  /\ k \in Nat /\ k = (IF n <= NumArgRegs THEN 0 ELSE n - NumArgRegs)
             /\ Len(S) = k
             /\ (S \o <<x>>)[k + 1] = x
             /\ \A j \in 1 .. k : /\ (S \o <<x>>)[j].offset = LocMemOffset(NumArgRegs + j)
                                  /\ (S \o <<>>)[j].offset = LocMemOffset(NumArgRegs + j)
  <1> DEFINE S == StackArgs(n)  k == n - FirstUnallocated(n)
  <1>1. k \in Nat /\ k = (IF n <= NumArgRegs THEN 0 ELSE n - NumArgRegs)
    BY DEF FirstUnallocated, NumArgRegs
  <1>2. S = [j \in 1 .. k |-> FixedObject(UNITS_PER_WORD, LocMemOffset(NumArgRegs + j))]
    BY DEF StackArgs
  <1> DEFINE D == {S[j] : j \in 1 .. k} \cup {x}
  <1>3. S \in Seq(D) /\ Len(S) = k
    <2>1. \A j \in 1 .. k : S[j] \in D  OBVIOUS
    <2>2. S \in [1 .. k -> D]  BY <1>2, <2>1
    <2> HIDE DEF S, k, D
    <2> QED  BY <1>1, <1>2, <2>2
  <1>4. \A j \in 1 .. k : S[j].offset = LocMemOffset(NumArgRegs + j)
    <2> HIDE DEF S, k
    <2> QED  BY <1>2 DEF FixedObject
  <1>5. <<x>> \in Seq(D) /\ Len(<<x>>) = 1 /\ <<x>>[1] = x  OBVIOUS
  <1>6. <<>> \in Seq(D) /\ Len(<<>>) = 0  OBVIOUS
  <1> HIDE DEF S, k, D
  <1>7. /\ \A j \in 1 .. k : (S \o <<x>>)[j] = S[j]
        /\ (S \o <<x>>)[k + 1] = x
    BY <1>1, <1>3, <1>5, ConcatProperties
  <1>8. \A j \in 1 .. k : (S \o <<>>)[j] = S[j]
    BY <1>1, <1>3, <1>6, ConcatProperties
  <1> QED  BY <1>1, <1>3, <1>4, <1>7, <1>8 DEF S, k

\* The frames that PEI lays out for functions of words (ARCFrameInfo:
\* WordFramesPacked) are what ARCStack asks of a frame, as soon as the function is
\* no variadic leaf and PEI has reserved room for the arguments of its calls.
THEOREM WordFramesSound ==
  ASSUME NEW n \in Nat, NEW isVarArg \in BOOLEAN, NEW locals \in Nat,
         NEW hasVarSized \in BOOLEAN, NEW reserved \in Nat, NEW hasCalls \in BOOLEAN,
         NEW saved \in Seq(Registers),
         \A j, l \in 1 .. Len(saved) : j # l => saved[j] # saved[l],
         isVarArg => hasCalls,
         NEW calls, \A s \in calls : SiteSound(s, hasCalls, hasVarSized, reserved),
         NEW f, IsWordFunction(f, WordFrame(n, isVarArg, locals, hasVarSized, Len(saved),
                                            reserved, hasCalls), saved, calls)
  PROVE  SoundFrame(f)
  <1>1. PICK c \in Nat : c = Len(saved)  OBVIOUS
  <1>2. PICK w : w = WordFrame(n, isVarArg, locals, hasVarSized, Len(saved), reserved, hasCalls)
    OBVIOUS
  <1>3. PICK m \in {locals, locals + 1} : m = IF hasVarSized THEN locals + 1 ELSE locals
    OBVIOUS
  <1>4. m \in Nat /\ m >= locals  OBVIOUS
  <1>5. /\ w.named = n /\ w.hasCalls = hasCalls /\ w.hasVarSized = hasVarSized
        /\ w.vaSize = IF isVarArg THEN VARegSaveSize(n) ELSE 0
        /\ w.vaFI = IF isVarArg THEN - Len(StackArgs(n)) - 1 ELSE 0
        /\ w.fixed = StackArgs(n) \o
             (IF isVarArg THEN <<FixedObject(VARegSaveSize(n), VarArgsOffset(n))>> ELSE <<>>)
        /\ w.stackSize = 4 * (locals + c) + reserved
    BY <1>1, <1>2 DEF WordFrame
  <1>6. w.objs = [k \in 1 .. m + c |-> WordObject(k, locals, m, c)]
    BY <1>1, <1>2, <1>3 DEF WordFrame, WordObject
  <1>7. /\ f.named = w.named /\ f.hasCalls = w.hasCalls /\ f.hasVarSized = w.hasVarSized
        /\ f.vaSize = w.vaSize /\ f.vaFI = w.vaFI /\ f.fixed = w.fixed
        /\ f.objs = w.objs /\ f.stackSize = w.stackSize /\ f.calls = calls
        /\ f.csi = [k \in 1 .. Len(saved) |->
                       [reg |-> saved[k], fi |-> Len(w.objs) - Len(saved) + k - 1]]
    BY <1>2 DEF IsWordFunction
  <1> DEFINE Objects == [size : Nat, offset : Int]
  <1>8. \A k \in 1 .. m + c : WordObject(k, locals, m, c) \in Objects
    BY WordObjects
  <1>9. f.objs \in Seq(Objects) /\ Len(f.objs) = m + c
    <2>1. PICK d \in Nat : d = m + c  BY <1>4
    <2>2. f.objs = [k \in 1 .. d |-> WordObject(k, locals, m, c)]  BY <1>6, <1>7, <2>1
    <2>3. f.objs \in [1 .. d -> Objects]  BY <1>8, <2>1, <2>2
    <2> HIDE DEF Objects
    <2>4. f.objs \in Seq(Objects) /\ Len(f.objs) = d  BY <2>2, <2>3
    <2> QED  BY <2>1, <2>4
  <1>10. \A k \in 1 .. m + c : f.objs[k] = WordObject(k, locals, m, c)
    BY <1>6, <1>7
  <1>11. NumBytes(f) \in Nat /\ NumBytes(f) >= 4 * (locals + c) + reserved
    <2>1. PICK z \in Nat : z = 4 * (locals + c) + reserved  OBVIOUS
    <2>2. NumBytes(f) = RoundUp(z, 4)  BY <1>5, <1>7, <2>1 DEF NumBytes, UNITS_PER_WORD
    <2>3. RoundUp(z, 4) >= z /\ RoundUp(z, 4) \in Nat  BY WordBytes
    <2> QED  BY <2>1, <2>2, <2>3
  <1>12. f.csi = [k \in 1 .. c |-> [reg |-> saved[k], fi |-> m + k - 1]]
    <2>1. PICK d \in Nat : d = Len(w.objs) - Len(saved) /\ d = m  BY <1>1, <1>4, <1>7, <1>9
    <2> QED  BY <1>1, <1>7, <2>1
  <1>13. f.csi \in Seq([reg : Registers, fi : Nat]) /\ Len(f.csi) = c
    <2>2. \A k \in 1 .. c : saved[k] \in Registers /\ m + k - 1 \in Nat  BY <1>1, <1>4
    <2>3. \A k \in 1 .. c : [reg |-> saved[k], fi |-> m + k - 1] \in [reg : Registers, fi : Nat]
      BY <2>2
    <2>4. f.csi \in [1 .. c -> [reg : Registers, fi : Nat]]  BY <1>12, <2>3
    <2> QED  BY <1>12, <2>4
  <1>14. ASSUME NEW j \in 1 .. c
         PROVE  f.csi[j].reg = saved[j] /\ f.csi[j].fi = m + j - 1
    BY <1>12
  <1>15. ASSUME NEW k \in 1 .. Len(f.objs)
         PROVE  /\ f.objs[k].offset % UNITS_PER_WORD = 0
                /\ -NumBytes(f) <= f.objs[k].offset /\ f.objs[k].offset + f.objs[k].size <= 0
                /\ \A l \in 1 .. Len(f.objs) \ {k} :
                      \/ f.objs[k].offset + f.objs[k].size <= f.objs[l].offset
                      \/ f.objs[l].offset + f.objs[l].size <= f.objs[k].offset
                /\ -NumBytes(f) + reserved <= f.objs[k].offset
                /\ k > m => f.objs[k].size = 4
    <2>1. k \in 1 .. m + c  BY <1>9
    <2>2. f.objs[k] \in Objects  BY <1>8, <1>10, <2>1
    <2>3. PICK o \in Objects : o = f.objs[k]  BY <2>2
    <2>4. /\ o.offset % 4 = 0 /\ -4 * (locals + c) <= o.offset /\ o.offset + o.size <= 0
          /\ k > m => o.size = 4
          /\ \A l \in 1 .. m + c : l # k =>
                   LET q == WordObject(l, locals, m, c)
                   IN  o.offset + o.size <= q.offset \/ q.offset + q.size <= o.offset
      <3>1. o = WordObject(k, locals, m, c)  BY <1>10, <2>1, <2>3
      <3> HIDE DEF Objects
      <3> QED  BY <2>1, <3>1, WordObjects
    <2>5. \A l \in 1 .. Len(f.objs) \ {k} :
                      \/ o.offset + o.size <= f.objs[l].offset
                      \/ f.objs[l].offset + f.objs[l].size <= o.offset
      BY <1>9, <1>10, <2>4
    <2>6. -NumBytes(f) <= o.offset /\ -NumBytes(f) + reserved <= o.offset
      <3>1. PICK z \in Nat : z = NumBytes(f)  BY <1>11
      <3>2. PICK x \in Int : x = o.offset  OBVIOUS
      <3>3. z >= 4 * (locals + c) + reserved /\ -4 * (locals + c) <= x  BY <1>11, <2>4, <3>1, <3>2
      <3>4. locals \in Nat /\ c \in Nat /\ reserved \in Nat /\ z \in Nat /\ x \in Int  OBVIOUS
      <3>5. -z <= x /\ -z + reserved <= x  BY ONLY <3>3, <3>4
      <3> QED  BY <3>1, <3>2, <3>5
    <2> QED  BY <2>3, <2>4, <2>5, <2>6 DEF UNITS_PER_WORD
  <1>16. ASSUME NEW a \in NumArgRegs + 1 .. f.named
         PROVE  /\ f.vaFI # NumArgRegs - a
                /\ f.fixed[a - NumArgRegs].offset = LocMemOffset(a)
    <2>1. a \in Nat /\ a >= 9 /\ a <= n  BY <1>5, <1>7 DEF NumArgRegs
    <2>2. PICK j \in Nat : j = a - NumArgRegs /\ j >= 1  BY <2>1 DEF NumArgRegs
    <2>3. PICK k \in Nat : k = n - FirstUnallocated(n)  BY WordFixed
    <2>4. k = n - 8  BY <2>1, <2>3 DEF FirstUnallocated, NumArgRegs
    <2>5. j \in 1 .. k  BY <2>1, <2>2, <2>4 DEF NumArgRegs
    <2>6. NumArgRegs + j = a /\ NumArgRegs - a = -j  BY <2>1, <2>2 DEF NumArgRegs
    <2>7. f.fixed[j].offset = LocMemOffset(NumArgRegs + j)
      BY <1>5, <1>7, <2>3, <2>5, WordFixed
    <2>8. Len(StackArgs(n)) = k  BY <2>3, WordFixed
    <2>9. f.vaFI = -k - 1 \/ f.vaFI = 0  BY <1>5, <1>7, <2>8
    <2>10. f.vaFI # -j
      <3>1. j \in Nat /\ k \in Nat /\ 1 <= j /\ j <= k  BY <2>5
      <3>2. -k - 1 # -j /\ 0 # -j  BY ONLY <3>1
      <3> QED  BY <2>9, <3>2
    <2> QED  BY <2>2, <2>6, <2>7, <2>10
  <1>17. ASSUME f.vaSize # 0
         PROVE  /\ f.hasCalls /\ f.vaSize = VARegSaveSize(f.named)
                /\ f.vaFI < 0 /\ f.fixed[-f.vaFI].offset = VarArgsOffset(f.named)
    <2>1. isVarArg  BY <1>5, <1>7, <1>17
    <2>2. PICK k \in Nat : k = n - FirstUnallocated(n)  BY WordFixed
    <2>3. Len(StackArgs(n)) = k  BY <2>2, WordFixed
    <2>4. f.vaFI = -k - 1  BY <1>5, <1>7, <2>1, <2>3
    <2>5. f.vaFI < 0 /\ -f.vaFI = k + 1
      <3>1. -k - 1 < 0 /\ -(-k - 1) = k + 1  OBVIOUS
      <3> QED  BY <2>4, <3>1
    <2>6. PICK x : x = FixedObject(VARegSaveSize(n), VarArgsOffset(n))  OBVIOUS
    <2>7. f.fixed = StackArgs(n) \o <<x>>  BY <1>5, <1>7, <2>1, <2>6
    <2>8. f.fixed[k + 1] = x
      <3>1. (StackArgs(n) \o <<x>>)[(n - FirstUnallocated(n)) + 1] = x  BY WordFixed
      <3> QED  BY <2>2, <2>7, <3>1
    <2>9. x.offset = VarArgsOffset(n)  BY <2>6 DEF FixedObject
    <2> QED  BY <1>5, <1>7, <2>1, <2>5, <2>8, <2>9
  <1>18. ASSUME NEW j \in 1 .. Len(f.csi)
         PROVE  /\ f.csi[j].fi < Len(f.objs) /\ f.objs[f.csi[j].fi + 1].size >= UNITS_PER_WORD
                /\ \A l \in 1 .. Len(f.csi) \ {j} : /\ f.csi[j].reg # f.csi[l].reg
                                                   /\ f.csi[j].fi # f.csi[l].fi
    <2>1. j \in 1 .. c  BY <1>13
    <2>2. f.csi[j].fi = m + j - 1  BY <1>14, <2>1
    <2>3. m + j - 1 < m + c /\ (m + j - 1) + 1 = m + j /\ m + j > m /\ m + j \in 1 .. m + c
      BY <1>4, <2>1
    <2>4. f.objs[m + j].size = 4  BY <1>9, <1>15, <2>3
    <2>5. ASSUME NEW l \in 1 .. Len(f.csi) \ {j}
          PROVE  f.csi[j].reg # f.csi[l].reg /\ f.csi[j].fi # f.csi[l].fi
      <3>1. l \in 1 .. c /\ l # j  BY <1>13, <2>5
      <3>2. f.csi[l].reg = saved[l] /\ f.csi[l].fi = m + l - 1  BY <1>14, <3>1
      <3>3. f.csi[j].reg = saved[j]  BY <1>14, <2>1
      <3>4. saved[j] # saved[l]  BY <1>1, <2>1, <3>1
      <3>5. m + j - 1 # m + l - 1  BY <1>4, <2>1, <3>1
      <3> QED  BY <2>2, <3>2, <3>3, <3>4, <3>5
    <2>6. PICK p \in Nat : p = m + j - 1 /\ p + 1 = m + j /\ p < m + c  BY <1>4, <2>1, <2>3
    <2>7. f.csi[j].fi = p /\ p < Len(f.objs) /\ f.objs[p + 1].size = 4
      BY <1>9, <2>2, <2>4, <2>6
    <2> QED  BY <2>5, <2>7 DEF UNITS_PER_WORD
  <1>19. ASSUME NEW s \in f.calls
         PROVE  /\ f.hasCalls /\ s.fn \in Functions /\ s.nargs \in Nat
                /\ Code[s.fn].named <= s.nargs
                /\ s.nargs > NumArgRegs =>
                      /\ ~f.hasVarSized /\ NextStackOffset(s.nargs) <= NumBytes(f)
                      /\ \A k \in 1 .. Len(f.objs) :
                            -NumBytes(f) + NextStackOffset(s.nargs) <= f.objs[k].offset
    <2>1. SiteSound(s, hasCalls, hasVarSized, reserved)  BY <1>7, <1>19
    <2>2. s.nargs \in Nat /\ s.fn \in Functions /\ Code[s.fn].named <= s.nargs /\ f.hasCalls
      BY <1>5, <1>7, <2>1 DEF SiteSound
    <2>3. ASSUME s.nargs > NumArgRegs
          PROVE  /\ ~f.hasVarSized /\ NextStackOffset(s.nargs) <= NumBytes(f)
                 /\ \A k \in 1 .. Len(f.objs) :
                       -NumBytes(f) + NextStackOffset(s.nargs) <= f.objs[k].offset
      <3>1. ~f.hasVarSized /\ NextStackOffset(s.nargs) <= reserved
        BY <1>5, <1>7, <2>1, <2>3 DEF SiteSound
      <3>2. PICK e \in Int : e = NextStackOffset(s.nargs)
        BY <2>2, <2>3 DEF NextStackOffset, FirstUnallocated, NumArgRegs, UNITS_PER_WORD
      <3>3. PICK z \in Nat : z = NumBytes(f) /\ z >= 4 * (locals + c) + reserved  BY <1>11
      <3>4. e <= reserved  BY <3>1, <3>2
      <3>5. e <= z
        <4>1. locals \in Nat /\ c \in Nat /\ reserved \in Nat /\ z \in Nat /\ e \in Int  OBVIOUS
        <4>2. z >= 4 * (locals + c) + reserved  BY <3>3
        <4> QED  BY ONLY <4>1, <4>2, <3>4
      <3>6. ASSUME NEW k \in 1 .. Len(f.objs)
            PROVE  -z + e <= f.objs[k].offset
        <4>1. f.objs[k] \in Objects  BY <1>8, <1>9, <1>10
        <4>2. PICK x \in Int : x = f.objs[k].offset  BY <4>1
        <4>3. -z + reserved <= x  BY <1>15, <3>3, <4>2
        <4>4. reserved \in Nat /\ z \in Nat /\ e \in Int /\ x \in Int  OBVIOUS
        <4>5. -z + e <= x  BY ONLY <4>3, <4>4, <3>4
        <4> QED  BY <4>2, <4>5
      <3> QED  BY <3>1, <3>2, <3>3, <3>5, <3>6
    <2> QED  BY <2>2, <2>3
  <1>20. /\ f.named \in Nat /\ f.stackSize \in Nat /\ f.vaSize \in Nat
         /\ f.hasCalls \in BOOLEAN /\ f.hasVarSized \in BOOLEAN
    <2>1. VARegSaveSize(n) \in Nat
      <3>1. VARegSize(n) \in Nat
        BY DEF VARegSize, FirstUnallocated, NumArgRegs, UNITS_PER_WORD
      <3> QED  BY <3>1, WordBytes DEF VARegSaveSize, StackAlignment
    <2> QED  BY <1>5, <1>7, <2>1
  <1> HIDE DEF Objects
  <1>21. f.objs \in Seq([size : Nat, offset : Int])  BY <1>9 DEF Objects
  <1> QED  BY <1>13, <1>15, <1>16, <1>17, <1>18, <1>19, <1>20, <1>21 DEF SoundFrame
=============================================================================
