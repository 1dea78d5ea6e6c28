------------------------ MODULE ARCFrameInfo_proofs -------------------------
(***************************************************************************)
(* Proofs about ARCFrameInfo, for every set of argument counts, object     *)
(* sizes and power-of-two alignments up to 16.                             *)
(***************************************************************************)
EXTENDS ARCFrameInfo, TLAPS

\* Rounding up to an alignment gives the next multiple: the C expressions
\* (Offset + Align - 1) / Align * Align and (x + a - 1) & ~(a - 1).
LEMMA RoundUpNext ==
    ASSUME NEW x \in Nat, NEW a \in {1, 2, 4, 8, 16}
    PROVE  /\ RoundUp(x, a) \in Nat
           /\ x <= RoundUp(x, a) /\ RoundUp(x, a) < x + a
           /\ RoundUp(x, a) % a = 0
  <1>1. CASE a = 1  BY <1>1 DEF RoundUp
  <1>2. CASE a = 2  BY <1>2 DEF RoundUp
  <1>3. CASE a = 4  BY <1>3 DEF RoundUp
  <1>4. CASE a = 8  BY <1>4 DEF RoundUp
  <1>5. CASE a = 16 BY <1>5 DEF RoundUp
  <1> QED BY <1>1, <1>2, <1>3, <1>4, <1>5

\* The alignments of the model's objects are powers of two up to 16.
LEMMA AlignsArePowers == Aligns \subseteq {1, 2, 4, 8, 16}
  BY SizesAssumption DEF Aligns, StackAlignment

LEMMA SizesAreNat == Sizes \subseteq Nat
  BY SizesAssumption DEF Sizes, UNITS_PER_WORD

\* The largest of two alignments is one of them.
LEMMA MaxOfAligns ==
    /\ \A a, b \in Aligns \cup {0} : MaxOf(a, b) \in Aligns \cup {0}
    /\ \A a \in Aligns, b \in Aligns \cup {0} :
          a # 0 => MaxOf(a, b) \in Aligns /\ MaxOf(b, a) \in Aligns
  <1> SUFFICES ASSUME NEW a \in Aligns \cup {0}, NEW b \in Aligns \cup {0}
               PROVE  /\ MaxOf(a, b) \in Aligns \cup {0}
                      /\ a # 0 => MaxOf(a, b) \in Aligns /\ MaxOf(b, a) \in Aligns
    OBVIOUS
  <1>1. a \in Nat /\ b \in Nat  BY AlignsArePowers
  <1> QED BY <1>1 DEF MaxOf

\* The register save area is 4 bytes per free argument register, exactly.
LEMMA SaveAreaExact ==
    ASSUME NEW n \in Nat
    PROVE  /\ FirstUnallocated(n) \in 0 .. 8 /\ FirstUnallocated(n) <= n
           /\ n > 8 => FirstUnallocated(n) = 8
           /\ n <= 8 => FirstUnallocated(n) = n
           /\ NextStackOffset(n) = 4 * (n - FirstUnallocated(n))
           /\ VARegSize(n) = 4 * (8 - FirstUnallocated(n))
           /\ VARegSaveSize(n) = VARegSize(n)
  <1> USE DEF FirstUnallocated, NumArgRegs, UNITS_PER_WORD, StackAlignment
  <1>1. FirstUnallocated(n) \in 0 .. 8  OBVIOUS
  <1>2. VARegSize(n) = 4 * (8 - FirstUnallocated(n))  BY DEF VARegSize
  <1>3. VARegSaveSize(n) = VARegSize(n)
    BY <1>1, <1>2 DEF VARegSaveSize, RoundUp
  <1> QED BY <1>1, <1>2, <1>3 DEF NextStackOffset
-----------------------------------------------------------------------------
\* The objects the model creates have the types the invariant gives them.
LEMMA ObjectTypes ==
    /\ SpillSlot \in Objects
    /\ \A s \in ObjectSizes, a \in ObjectAligns, m \in BOOLEAN :
          Object(s, a, FALSE, m) \in Objects
    /\ \A a \in ObjectAligns \cup {1} : Object(0, a, FALSE, TRUE) \in Objects
    /\ \A s \in Nat, o \in Int : FixedObject(s, o) \in FixedObjects
  BY DEF SpillSlot, Object, Objects, Sizes, Aligns, FixedObject, FixedObjects,
         UNITS_PER_WORD, StackAlignment

\* Appending an object, or n callee-saved slots.
LEMMA AppendObject ==
    ASSUME NEW s \in Seq(Objects), NEW o \in Objects
    PROVE  /\ Append(s, o) \in Seq(Objects) /\ Len(Append(s, o)) = Len(s) + 1
           /\ 1 .. Len(s) \subseteq 1 .. Len(s) + 1
           /\ 0 .. Len(s) \subseteq 0 .. Len(s) + 1
           /\ \A k \in 1 .. Len(s) : Append(s, o)[k] = s[k]
           /\ Append(s, o)[Len(s) + 1] = o
  OBVIOUS

LEMMA AppendSlots ==
    ASSUME NEW s \in Seq(Objects), NEW n \in Nat,
           NEW t, t = s \o [k \in 1 .. n |-> SpillSlot]
    PROVE  /\ t \in Seq(Objects) /\ Len(t) = Len(s) + n
           /\ 1 .. Len(s) \subseteq 1 .. Len(s) + n
           /\ 0 .. Len(s) \subseteq 0 .. Len(s) + n
           /\ \A k \in 1 .. Len(s) : t[k] = s[k]
           /\ \A k \in Len(s) + 1 .. Len(s) + n : t[k] = SpillSlot
  BY ObjectTypes

LEMMA StackArgsType ==
    ASSUME NEW n \in Nat
    PROVE  /\ StackArgs(n) \in Seq(FixedObjects)
           /\ Len(StackArgs(n)) = n - FirstUnallocated(n)
           /\ \A j \in 1 .. n - FirstUnallocated(n) :
                 StackArgs(n)[j] = FixedObject(4, 4 * (j - 1))
  <1>1. n - FirstUnallocated(n) \in Nat  BY SaveAreaExact
  <1>2. \A j \in 1 .. n - FirstUnallocated(n) :
           LocMemOffset(NumArgRegs + j) = 4 * (j - 1)
    BY <1>1 DEF LocMemOffset, NumArgRegs, UNITS_PER_WORD
  <1>3. \A j \in 1 .. n - FirstUnallocated(n) :
           FixedObject(4, 4 * (j - 1)) \in FixedObjects
    BY <1>1, ObjectTypes
  <1> QED BY <1>1, <1>2, <1>3 DEF StackArgs, UNITS_PER_WORD

\* An allocation keeps the types: only offsets change, and Offset stays >= 0.
LEMMA AllocateType ==
    ASSUME TypeOK, NEW k \in 1 .. Len(objs), Allocate(k)
    PROVE  /\ objs' \in Seq(Objects) /\ Len(objs') = Len(objs)
           /\ offset' \in Nat /\ offset' = Below(k)
           /\ placed' = placed \cup {k}
           /\ objs[k].align \in Aligns
           /\ offset + objs[k].size <= Below(k)
           /\ objs'[k].offset = - Below(k)
           /\ \A l \in 1 .. Len(objs) :
                 /\ objs'[l].size = objs[l].size
                 /\ objs'[l].align = objs[l].align
                 /\ objs'[l].isSS = objs[l].isSS
                 /\ objs'[l].mayNeedSP = objs[l].mayNeedSP
                 /\ l # k => objs'[l].offset = objs[l].offset
  <1>1. objs[k] \in Objects  BY DEF TypeOK, ObjsTypeOK, LoopTypeOK, SizesTypeOK
  <1>2. objs[k].align \in {1, 2, 4, 8, 16} /\ objs[k].size \in Nat
    BY <1>1, AlignsArePowers, SizesAreNat DEF Objects
  <1>3. offset + objs[k].size \in Nat  BY <1>2 DEF TypeOK, ObjsTypeOK, LoopTypeOK
  <1>4. Below(k) \in Nat /\ offset + objs[k].size <= Below(k)
    BY <1>2, <1>3, RoundUpNext DEF Below
  <1>5. objs' = [objs EXCEPT ![k].offset = - Below(k)]  BY DEF Allocate
  <1>6. [objs[k] EXCEPT !.offset = - Below(k)] \in Objects
    BY <1>1, <1>4 DEF Objects
  <1>7. objs' \in Seq(Objects) /\ Len(objs') = Len(objs)
    BY <1>5, <1>6 DEF TypeOK, ObjsTypeOK
  <1>8. \A l \in 1 .. Len(objs) : objs[l] \in Objects  BY DEF TypeOK, ObjsTypeOK, LoopTypeOK, SizesTypeOK
  <1>9. /\ objs'[k].offset = - Below(k)
        /\ \A l \in 1 .. Len(objs) :
             /\ objs'[l].size = objs[l].size
             /\ objs'[l].align = objs[l].align
             /\ objs'[l].isSS = objs[l].isSS
             /\ objs'[l].mayNeedSP = objs[l].mayNeedSP
             /\ l # k => objs'[l].offset = objs[l].offset
    <2>1. objs'[k] = [objs[k] EXCEPT !.offset = - Below(k)]
      BY <1>5 DEF TypeOK, ObjsTypeOK
    <2>2. \A l \in 1 .. Len(objs) : l # k => objs'[l] = objs[l]
      BY <1>5 DEF TypeOK, ObjsTypeOK
    <2>3. /\ objs'[k].offset = - Below(k)
          /\ objs'[k].size = objs[k].size /\ objs'[k].align = objs[k].align
          /\ objs'[k].isSS = objs[k].isSS
          /\ objs'[k].mayNeedSP = objs[k].mayNeedSP
      BY <2>1, <1>1 DEF Objects
    <2> QED BY <2>2, <2>3
  <1> QED BY <1>1, <1>4, <1>7, <1>9 DEF Allocate, Objects

\* The frame size SetStackSize records covers the objects and, when the call
\* frame is reserved, the outgoing arguments below them.
LEMMA FrameSizeRounded ==
    ASSUME TypeOK, SetStackSize
    PROVE  /\ stackSize' \in Nat /\ offset' = stackSize'
           /\ offset <= stackSize'
           /\ (adjustsStack /\ hasReservedCallFrame) =>
                 offset + maxCallFrame <= stackSize'
  <1> DEFINE reserved == offset + (IF adjustsStack /\ hasReservedCallFrame
                                   THEN maxCallFrame ELSE 0)
             align == IF adjustsStack \/ hasVarSized THEN StackAlignment
                                                     ELSE TransientStackAlignment
             boundary == MaxOf(align, maxAlign)
  <1>1. reserved \in Nat /\ offset <= reserved
    BY DEF TypeOK, LoopTypeOK, SizesTypeOK
  <1>2. (adjustsStack /\ hasReservedCallFrame)
           => reserved = offset + maxCallFrame
    OBVIOUS
  <1>3. boundary \in {1, 2, 4, 8, 16}
    <2>1. align \in {1, 4}  BY DEF StackAlignment, TransientStackAlignment
    <2>2. maxAlign \in {0, 1, 2, 4, 8, 16}
      BY AlignsArePowers DEF TypeOK, LoopTypeOK
    <2> QED BY <2>1, <2>2 DEF MaxOf
  <1>4. offset' = RoundUp(reserved, boundary) /\ stackSize' = offset'
    BY DEF SetStackSize
  <1> HIDE DEF reserved, boundary
  <1>5. RoundUp(reserved, boundary) \in Nat
        /\ reserved <= RoundUp(reserved, boundary)
    BY <1>1, <1>3, RoundUpNext
  <1>6. offset <= stackSize'
    BY <1>1, <1>4, <1>5 DEF TypeOK, LoopTypeOK
  <1>7. ASSUME adjustsStack, hasReservedCallFrame
        PROVE  offset + maxCallFrame <= stackSize'
    BY <1>1, <1>2, <1>4, <1>5, <1>7
  <1> QED BY <1>4, <1>5, <1>6, <1>7
-----------------------------------------------------------------------------
LEMMA InitType == Init => TypeOK
  <1> SUFFICES ASSUME Init PROVE TypeOK
    OBVIOUS
  <1>1. FuncTypeOK   BY DEF Init, FuncTypeOK, Passes
  <1>2. SizesTypeOK  BY DEF Init, SizesTypeOK
  <1>3. ObjsTypeOK   BY DEF Init, ObjsTypeOK
  <1>4. LoopTypeOK   BY <1>3 DEF Init, LoopTypeOK
  <1> QED BY <1>1, <1>2, <1>3, <1>4 DEF TypeOK

LEMMA SelectionType == TypeOK /\ Selection => TypeOK'
  <1> SUFFICES ASSUME TypeOK, Selection PROVE TypeOK'
    OBVIOUS
  <1> USE DEF TypeOK, Goto, funcVars, bodyVars, afiVars, peiVars, flagVars
  <1>1. ASSUME NEW s \in ObjectSizes, NEW a \in ObjectAligns,
               NEW m \in BOOLEAN, CreateStackObject(s, a, m)
        PROVE  TypeOK'
    <2> USE <1>1 DEF CreateStackObject
    <2> DEFINE o == Object(s, a, FALSE, m)
    <2>1. o \in Objects  BY ObjectTypes, Zenon
    <2>2. objs' = Append(objs, o)  OBVIOUS
    <2> HIDE DEF o
    <2>3. /\ objs' \in Seq(Objects) /\ Len(objs') = Len(objs) + 1
          /\ 1 .. Len(objs) \subseteq 1 .. Len(objs')
          /\ 0 .. Len(objs) \subseteq 0 .. Len(objs')
      BY ONLY <2>1, <2>2, ObjsTypeOK, AppendObject DEF ObjsTypeOK
    <2>4. maxAlign' \in Aligns \cup {0}
      BY MaxOfAligns DEF LoopTypeOK, Aligns
    <2>5. FuncTypeOK'   BY DEF FuncTypeOK
    <2>6. SizesTypeOK'  BY DEF SizesTypeOK
    <2>7. ObjsTypeOK'   BY <2>3 DEF ObjsTypeOK
    <2>8. LoopTypeOK'   BY <2>3, <2>4 DEF LoopTypeOK, ObjsTypeOK
    <2> QED BY <2>5, <2>6, <2>7, <2>8
  <1>2. ASSUME LowerFormalArguments PROVE TypeOK'
    <2> USE <1>2 DEF LowerFormalArguments
    <2>1. named \in Nat  BY CountsAssumption DEF FuncTypeOK
    <2>2. VARegSaveSize(named) \in Nat /\ VarArgsOffset(named) \in Int
      BY ONLY <2>1, SaveAreaExact DEF VarArgsOffset
    <2>3. StackArgs(named) \in Seq(FixedObjects)
      BY <2>1, StackArgsType
    <2>4. vaSize' \in Nat
      BY <2>2 DEF SizesTypeOK
    <2>5. FixedObject(vaSize', VarArgsOffset(named)) \in FixedObjects
      BY <2>2, <2>4, ObjectTypes
    <2>6. fixed' \in Seq(FixedObjects)
      BY <2>3, <2>5
    <2>7. vaFI' \in Int
      BY <2>6 DEF SizesTypeOK
    <2>8. FuncTypeOK'   BY DEF FuncTypeOK, Passes
    <2>9. SizesTypeOK'  BY <2>4, <2>7 DEF SizesTypeOK
    <2>10. ObjsTypeOK'  BY <2>6 DEF ObjsTypeOK
    <2>11. LoopTypeOK'  BY DEF LoopTypeOK
    <2> QED BY <2>8, <2>9, <2>10, <2>11
  <1>3. ASSUME NEW n \in CallCounts, LowerCall(n) PROVE TypeOK'
    <2> USE <1>3 DEF LowerCall
    <2>1. NextStackOffset(n) \in Nat  BY SaveAreaExact, CountsAssumption
    <2>2. FuncTypeOK'   BY DEF FuncTypeOK
    <2>3. SizesTypeOK'  BY <2>1 DEF SizesTypeOK
    <2>4. ObjsTypeOK'   BY DEF ObjsTypeOK
    <2>5. LoopTypeOK'   BY DEF LoopTypeOK
    <2> QED BY <2>2, <2>3, <2>4, <2>5
  <1>4. ASSUME getReturnAddressFrameIndex PROVE TypeOK'
    <2> USE <1>4 DEF getReturnAddressFrameIndex
    <2>1. fixed' \in Seq(FixedObjects) /\ Len(fixed') = Len(fixed) + 1
      BY ObjectTypes DEF ObjsTypeOK, ReturnAddressSlot, UNITS_PER_WORD
    <2>2. FuncTypeOK'   BY DEF FuncTypeOK
    <2>3. SizesTypeOK'  BY <2>1 DEF SizesTypeOK
    <2>4. ObjsTypeOK'   BY <2>1 DEF ObjsTypeOK
    <2>5. LoopTypeOK'   BY DEF LoopTypeOK
    <2> QED BY <2>2, <2>3, <2>4, <2>5
  <1>5. ASSUME NEW a \in ObjectAligns, DynamicStackAlloc(a) PROVE TypeOK'
    <2> USE <1>5 DEF DynamicStackAlloc
    <2> DEFINE b == IF a <= StackAlignment THEN 1 ELSE a
               o == Object(0, b, FALSE, TRUE)
    <2>1. b \in ObjectAligns \cup {1}  OBVIOUS
    <2>2. o \in Objects  BY <2>1, ObjectTypes, Zenon
    <2>3. objs' = Append(objs, o) /\ maxAlign' = MaxOf(maxAlign, b)
      OBVIOUS
    <2> HIDE DEF b, o
    <2>4. /\ objs' \in Seq(Objects) /\ Len(objs') = Len(objs) + 1
          /\ 1 .. Len(objs) \subseteq 1 .. Len(objs')
          /\ 0 .. Len(objs) \subseteq 0 .. Len(objs')
      BY ONLY <2>2, <2>3, ObjsTypeOK, AppendObject DEF ObjsTypeOK
    <2>5. maxAlign' \in Aligns \cup {0}
      BY <2>1, <2>3, MaxOfAligns DEF LoopTypeOK, Aligns
    <2>6. FuncTypeOK'   BY DEF FuncTypeOK
    <2>7. SizesTypeOK'  BY DEF SizesTypeOK
    <2>8. ObjsTypeOK'   BY <2>4 DEF ObjsTypeOK
    <2>9. LoopTypeOK'   BY <2>4, <2>5 DEF LoopTypeOK, ObjsTypeOK
    <2> QED BY <2>6, <2>7, <2>8, <2>9
  <1>6. ASSUME StackAligningInlineAsm PROVE TypeOK'
    BY <1>6 DEF StackAligningInlineAsm, FuncTypeOK, SizesTypeOK, ObjsTypeOK,
                LoopTypeOK
  <1>7. ASSUME NEW k \in 1 .. Len(objs), StackProtector(k) PROVE TypeOK'
    BY <1>7 DEF StackProtector, FuncTypeOK, SizesTypeOK, ObjsTypeOK, LoopTypeOK
  <1>8. ASSUME FinishSelection PROVE TypeOK'
    BY <1>8 DEF FinishSelection, Passes, FuncTypeOK, SizesTypeOK, ObjsTypeOK,
                LoopTypeOK
  <1> QED BY <1>1, <1>2, <1>3, <1>4, <1>5, <1>6, <1>7, <1>8 DEF Selection

LEMMA RegAllocType == TypeOK /\ RegAlloc => TypeOK'
  <1> SUFFICES ASSUME TypeOK, RegAlloc PROVE TypeOK'
    OBVIOUS
  <1> USE DEF TypeOK, Goto, funcVars, bodyVars, afiVars, peiVars, flagVars
  <1>1. ASSUME CreateSpillStackObject PROVE TypeOK'
    <2> USE <1>1 DEF CreateSpillStackObject
    <2>1. SpillSlot \in Objects /\ objs' = Append(objs, SpillSlot)
      BY ObjectTypes
    <2>2. /\ objs' \in Seq(Objects) /\ Len(objs') = Len(objs) + 1
          /\ 1 .. Len(objs) \subseteq 1 .. Len(objs')
          /\ 0 .. Len(objs) \subseteq 0 .. Len(objs')
      BY ONLY <2>1, ObjsTypeOK, AppendObject DEF ObjsTypeOK
    <2>3. maxAlign' \in Aligns \cup {0}
      BY MaxOfAligns DEF LoopTypeOK, Aligns
    <2>4. FuncTypeOK'   BY DEF FuncTypeOK
    <2>5. SizesTypeOK'  BY DEF SizesTypeOK
    <2>6. ObjsTypeOK'   BY <2>2 DEF ObjsTypeOK
    <2>7. LoopTypeOK'   BY <2>2, <2>3 DEF LoopTypeOK, ObjsTypeOK
    <2> QED BY <2>4, <2>5, <2>6, <2>7
  <1>2. ASSUME NEW k \in 1 .. Len(objs), RemoveStackObject(k) PROVE TypeOK'
    BY <1>2 DEF RemoveStackObject, FuncTypeOK, SizesTypeOK, ObjsTypeOK,
                LoopTypeOK
  <1> QED BY <1>1, <1>2 DEF RegAlloc

\* A loop step that allocates objs[k] and moves the loop index keeps the types.
LEMMA AllocateKeepsTypes ==
    ASSUME TypeOK, NEW k \in 1 .. Len(objs), Allocate(k),
           UNCHANGED <<funcVars, fixed, dead, guard, bodyVars, afiVars,
                       flagVars, minCS, maxCS, stackSize>>,
           maxAlign' = maxAlign \/ maxAlign' = MaxOf(maxAlign, objs[k].align),
           large' = large \/ large' = large \cup {k},
           pc' \in {"csrslots", "large", "objects"},
           pc' = "csrslots" => i' \in minCS .. maxCS + 1,
           pc' # "csrslots" => i' \in 1 .. Len(objs) + 1
    PROVE  TypeOK'
  <1> USE DEF TypeOK, funcVars, bodyVars, afiVars, flagVars
  <1>1. /\ objs' \in Seq(Objects) /\ Len(objs') = Len(objs)
        /\ offset' \in Nat /\ placed' = placed \cup {k}
        /\ objs[k].align \in Aligns
    BY AllocateType
  <1>2. maxAlign' \in Aligns \cup {0}
    BY <1>1, MaxOfAligns DEF LoopTypeOK
  <1>3. FuncTypeOK'   BY DEF FuncTypeOK, Passes
  <1>4. SizesTypeOK'  BY DEF SizesTypeOK
  <1>5. ObjsTypeOK'   BY <1>1 DEF ObjsTypeOK
  <1>6. i' \in Int   BY DEF LoopTypeOK, ObjsTypeOK
  <1>7. LoopTypeOK'   BY <1>1, <1>2, <1>6 DEF LoopTypeOK, ObjsTypeOK
  <1> QED BY <1>3, <1>4, <1>5, <1>7

\* So does a step that skips an object or goes on to the next loop.
LEMMA SkipKeepsTypes ==
    ASSUME TypeOK,
           UNCHANGED <<funcVars, fixed, objs, dead, guard, bodyVars, afiVars,
                       flagVars, offset, placed, maxAlign, large, minCS, maxCS,
                       stackSize>>,
           i' \in 1 .. Len(objs) + 1,
           pc' \in {"guard", "large", "objects", "size"}
    PROVE  TypeOK'
  <1> USE DEF TypeOK, funcVars, bodyVars, afiVars, flagVars
  <1>1. FuncTypeOK'   BY DEF FuncTypeOK, Passes
  <1>2. SizesTypeOK'  BY DEF SizesTypeOK
  <1>3. ObjsTypeOK'   BY DEF ObjsTypeOK
  <1>4. i' \in Int /\ pc' \notin {"fixed", "csrslots"}
    BY DEF ObjsTypeOK
  <1>5. LoopTypeOK'
    BY <1>4 DEF LoopTypeOK
  <1> QED BY <1>1, <1>2, <1>3, <1>5

LEMMA PEIType == TypeOK /\ PEI => TypeOK'
  <1> SUFFICES ASSUME TypeOK, PEI PROVE TypeOK'
    OBVIOUS
  <1> USE DEF TypeOK, Goto, funcVars, bodyVars, afiVars, peiVars, flagVars
  <1>1. ASSUME calculateCallsInformation PROVE TypeOK'
    <2> USE <1>1 DEF calculateCallsInformation
    <2>1. FuncTypeOK'   BY DEF FuncTypeOK, Passes
    <2>2. SizesTypeOK'  BY DEF SizesTypeOK
    <2>3. ObjsTypeOK'   BY DEF ObjsTypeOK
    <2>4. LoopTypeOK'   BY DEF LoopTypeOK
    <2> QED BY <2>1, <2>2, <2>3, <2>4
  <1>2. ASSUME NEW n \in CalleeSaved, calculateCalleeSavedRegisters(n)
        PROVE  TypeOK'
    <2> USE <1>2 DEF calculateCalleeSavedRegisters
    <2>1. n \in Nat  BY CountsAssumption
    <2>2. /\ objs' \in Seq(Objects) /\ Len(objs') = Len(objs) + n
          /\ 1 .. Len(objs) \subseteq 1 .. Len(objs')
          /\ 0 .. Len(objs) \subseteq 0 .. Len(objs')
      <3>1. objs' = objs \o [k \in 1 .. n |-> SpillSlot]  OBVIOUS
      <3> QED BY ONLY <3>1, <2>1, ObjsTypeOK, AppendSlots DEF ObjsTypeOK
    <2>3. Len(objs) \in Nat /\ Len(fixed) \in Nat  BY DEF ObjsTypeOK
    <2>4. maxAlign' \in Aligns \cup {0}
      BY MaxOfAligns DEF LoopTypeOK, Aligns
    <2>5. /\ minCS' \in 1 .. Len(objs') + 1 /\ maxCS' \in 0 .. Len(objs')
          /\ minCS' <= maxCS' + 1
      BY <2>1, <2>2 DEF LoopTypeOK
    <2>6. FuncTypeOK'   BY DEF FuncTypeOK, Passes
    <2>7. SizesTypeOK'  BY DEF SizesTypeOK
    <2>8. ObjsTypeOK'   BY <2>2, <2>3 DEF ObjsTypeOK
    <2>9. LoopTypeOK'
      <3>1. /\ i' \in Int /\ i' \in - Len(fixed') .. 0 /\ offset' \in Nat
            /\ pc' = "fixed"
        BY <2>3
      <3>2. large' \subseteq 1 .. Len(objs') /\ placed' \subseteq 1 .. Len(objs')
        BY <2>2 DEF LoopTypeOK
      <3> QED BY ONLY <2>4, <2>5, <3>1, <3>2 DEF LoopTypeOK
    <2> QED BY <2>6, <2>7, <2>8, <2>9
  <1>3. ASSUME SkipFixedObject PROVE TypeOK'
    <2> USE <1>3 DEF SkipFixedObject
    <2>1. FuncTypeOK'   BY DEF FuncTypeOK, Passes
    <2>2. SizesTypeOK'  BY DEF SizesTypeOK
    <2>3. ObjsTypeOK'   BY DEF ObjsTypeOK
    <2>4. LoopTypeOK'
      <3>1. CASE i = 0
        BY <3>1 DEF LoopTypeOK
      <3>2. CASE i # 0
        <4>1. i \in - Len(fixed) .. 0 /\ -i \in 1 .. Len(fixed)
          BY <3>2 DEF LoopTypeOK, ObjsTypeOK
        <4>2. fixed[-i] \in FixedObjects  BY <4>1 DEF ObjsTypeOK
        <4>3. fixed[-i].offset \in Int  BY <4>2 DEF FixedObjects
        <4>4. offset' \in Nat
          BY <3>2, <4>3 DEF LoopTypeOK, MaxOf
        <4> QED BY <3>2, <4>1, <4>4 DEF LoopTypeOK
      <3> QED BY <3>1, <3>2
    <2> QED BY <2>1, <2>2, <2>3, <2>4
  <1>4. ASSUME AllocateCalleeSaved PROVE TypeOK'
    <2> USE <1>4 DEF AllocateCalleeSaved
    <2>1. CASE i <= maxCS
      <3>1. i \in 1 .. Len(objs) /\ Allocate(i)
            /\ i' \in minCS .. maxCS + 1 /\ pc' = "csrslots"
        BY <2>1 DEF LoopTypeOK, ObjsTypeOK
      <3> QED BY <3>1, AllocateKeepsTypes
    <2>2. CASE ~(i <= maxCS)
      <3>1. FuncTypeOK'   BY <2>2 DEF FuncTypeOK, Passes
      <3>2. SizesTypeOK'  BY <2>2 DEF SizesTypeOK
      <3>3. ObjsTypeOK'   BY <2>2 DEF ObjsTypeOK
      <3>4. LoopTypeOK'   BY <2>2 DEF LoopTypeOK, ObjsTypeOK
      <3> QED BY <3>1, <3>2, <3>3, <3>4
    <2> QED BY <2>1, <2>2
  <1>5. ASSUME AllocateGuard PROVE TypeOK'
    <2> USE <1>5 DEF AllocateGuard
    <2>1. CASE guard > 0
      <3>1. guard \in 1 .. Len(objs) /\ Allocate(guard)
            /\ i' \in 1 .. Len(objs) + 1 /\ pc' = "large"
        BY <2>1 DEF ObjsTypeOK
      <3>2. maxAlign' = MaxOf(maxAlign, objs[guard].align)  BY <2>1
      <3> QED BY <3>1, <3>2, AllocateKeepsTypes
    <2>2. CASE ~(guard > 0)
      <3>1. i' = 1 /\ i' \in 1 .. Len(objs) + 1  BY DEF ObjsTypeOK
      <3> QED BY <2>2, <3>1, SkipKeepsTypes
    <2> QED BY <2>1, <2>2
  <1>6. ASSUME AllocateLarge PROVE TypeOK'
    <2> USE <1>6 DEF AllocateLarge
    <2>1. CASE i <= Len(objs) /\ ~NotLarge(i)
      <3>1. i \in 1 .. Len(objs) /\ Allocate(i)
            /\ i' \in 1 .. Len(objs) + 1 /\ pc' = "large"
        BY <2>1 DEF LoopTypeOK, ObjsTypeOK
      <3>2. /\ maxAlign' = MaxOf(maxAlign, objs[i].align)
            /\ large' = large \cup {i}
        BY <2>1
      <3> QED BY <3>1, <3>2, AllocateKeepsTypes
    <2>2. CASE i <= Len(objs) /\ NotLarge(i)
      <3>1. i' \in 1 .. Len(objs) + 1
        BY <2>2 DEF LoopTypeOK, ObjsTypeOK
      <3> QED BY <2>2, <3>1, SkipKeepsTypes
    <2>3. CASE ~(i <= Len(objs))
      <3>1. i' = 1 /\ i' \in 1 .. Len(objs) + 1  BY <2>3 DEF ObjsTypeOK
      <3> QED BY <2>3, <3>1, SkipKeepsTypes
    <2> QED BY <2>1, <2>2, <2>3
  <1>7. ASSUME AllocateObject PROVE TypeOK'
    <2> USE <1>7 DEF AllocateObject
    <2>1. CASE i <= Len(objs) /\ ~AlreadyPlaced(i)
      <3>1. i \in 1 .. Len(objs) /\ Allocate(i)
            /\ i' \in 1 .. Len(objs) + 1 /\ pc' = "objects"
        BY <2>1 DEF LoopTypeOK, ObjsTypeOK
      <3>2. maxAlign' = MaxOf(maxAlign, objs[i].align)
        BY <2>1
      <3> QED BY <3>1, <3>2, AllocateKeepsTypes
    <2>2. CASE i <= Len(objs) /\ AlreadyPlaced(i)
      <3>1. i' \in 1 .. Len(objs) + 1
        BY <2>2 DEF LoopTypeOK, ObjsTypeOK
      <3> QED BY <2>2, <3>1, SkipKeepsTypes
    <2>3. CASE ~(i <= Len(objs))
      <3>1. i' \in 1 .. Len(objs) + 1
        BY <2>3 DEF LoopTypeOK, ObjsTypeOK
      <3> QED BY <2>3, <3>1, SkipKeepsTypes
    <2> QED BY <2>1, <2>2, <2>3
  <1>8. ASSUME SetStackSize PROVE TypeOK'
    <2> USE <1>8 DEF SetStackSize
    <2>1. stackSize' \in Nat /\ offset' = stackSize'
      BY FrameSizeRounded
    <2>2. FuncTypeOK'   BY DEF FuncTypeOK, Passes
    <2>3. SizesTypeOK'  BY <2>1 DEF SizesTypeOK
    <2>4. ObjsTypeOK'   BY DEF ObjsTypeOK
    <2>5. LoopTypeOK'   BY <2>1 DEF LoopTypeOK
    <2> QED BY <2>2, <2>3, <2>4, <2>5
  <1> QED BY <1>1, <1>2, <1>3, <1>4, <1>5, <1>6, <1>7, <1>8 DEF PEI

\* Every variable keeps its type in every behaviour of the code generator.
THEOREM TypeCorrect == Spec => []TypeOK
  <1>1. Init => TypeOK  BY InitType
  <1>2. TypeOK /\ [Next]_vars => TypeOK'
    <2> SUFFICES ASSUME TypeOK, [Next]_vars PROVE TypeOK'
      OBVIOUS
    <2>1. CASE UNCHANGED vars
      BY <2>1 DEF vars, funcVars, bodyVars, afiVars, peiVars, flagVars, TypeOK,
                  FuncTypeOK, SizesTypeOK, ObjsTypeOK, LoopTypeOK
    <2> QED BY <2>1, SelectionType, RegAllocType, PEIType DEF Next, Finished
  <1> QED BY <1>1, <1>2, PTL DEF Spec

(***************************************************************************)
(* The frame that calculateFrameObjectOffsets() lays out is correct for    *)
(* every number of objects, arguments and calls: the objects are disjoint, *)
(* inside the frame and clear of the outgoing arguments.  One inductive    *)
(* invariant follows the loops:                                            *)
(*   GeometryInv  what has been placed lies in [-Offset, 0), disjoint;     *)
(*   StagesInv    which objects each finished loop has placed;             *)
(*   CallInv      MaxCallFrameSize covers every call of the body.          *)
(* A second one, on top of it, says in which order they are placed:        *)
(*   KindsInv     the guard is no spill slot; dead objects and callee-     *)
(*                saved slots are: no loop takes another's objects;        *)
(*   TurnsInv     what the loops so far can have placed, and no more;      *)
(*   ArraysInv    the loop for arrays takes all of them;                   *)
(*   OrderInv     guard, then arrays, then the rest, downwards.            *)
(***************************************************************************)
Loops == {"csrslots", "guard", "large", "objects", "size", "done"}

\* Offset bounds what the loops have placed; SetStackSize keeps that bound.
GeometryInv ==
    /\ pc \notin Loops => placed = {}
    /\ \A k \in placed : - offset <= Lo(k) /\ Hi(k) <= 0
    /\ ObjectsDisjoint
    /\ pc = "done" =>
          /\ offset = stackSize
          /\ (adjustsStack /\ hasReservedCallFrame) =>
                \A k \in placed : maxCallFrame - stackSize <= Lo(k)

\* A loop that has ended has placed all that it is for.
StagesInv ==
    /\ large \subseteq placed
    /\ pc = "csrslots" => minCS .. i - 1 \subseteq placed
    /\ pc \in {"guard", "large", "objects"} => minCS .. maxCS \subseteq placed
    /\ (pc \in {"large", "objects"} /\ guard > 0) => guard \in placed
    /\ pc = "objects" => (1 .. i - 1) \ dead \subseteq placed
    /\ pc \in {"size", "done"} => Live \subseteq placed

Counted == {"csr", "fixed"} \cup Loops

CallInv ==
    pc \in Counted => /\ \A n \in callSeqs : n <= maxCallFrame
                      /\ callSeqs # {} => adjustsStack

LayoutInv == GeometryInv /\ StagesInv /\ CallInv
-----------------------------------------------------------------------------
LEMMA ObjectFields ==
    ASSUME TypeOK, NEW k \in 1 .. Len(objs)
    PROVE  /\ objs[k].size \in Nat /\ objs[k].offset \in Int
           /\ Lo(k) \in Int /\ Hi(k) \in Int
  <1>1. objs[k] \in Objects  BY DEF TypeOK, ObjsTypeOK
  <1>2. objs[k].size \in Nat /\ objs[k].offset \in Int
    BY <1>1, SizesAreNat DEF Objects
  <1> QED BY <1>2 DEF Lo, Hi

\* Placing an object below everything placed so far keeps the layout disjoint.
LEMMA AllocateKeepsGeometry ==
    ASSUME TypeOK, GeometryInv, NEW k \in 1 .. Len(objs), Allocate(k)
    PROVE  /\ \A l \in placed' : - offset' <= Lo(l)' /\ Hi(l)' <= 0
           /\ ObjectsDisjoint'
  <1>1. /\ offset \in Nat /\ offset' \in Nat /\ offset' = Below(k)
        /\ objs[k].size \in Nat /\ offset + objs[k].size <= Below(k)
        /\ placed' = placed \cup {k} /\ placed \subseteq 1 .. Len(objs)
    <2>1. objs[k].size \in Nat  BY ObjectFields
    <2> QED BY <2>1, AllocateType DEF TypeOK, LoopTypeOK
  <1>2. Lo(k)' = - offset' /\ Hi(k)' <= - offset
    BY <1>1, AllocateType DEF Lo, Hi
  <1>3. \A l \in placed : l # k =>
           /\ Lo(l)' = Lo(l) /\ Hi(l)' = Hi(l)
           /\ Lo(l) \in Int /\ Hi(l) \in Int
           /\ - offset <= Lo(l) /\ Hi(l) <= 0
    <2> SUFFICES ASSUME NEW l \in placed, l # k
                 PROVE  /\ Lo(l)' = Lo(l) /\ Hi(l)' = Hi(l)
                        /\ Lo(l) \in Int /\ Hi(l) \in Int
                        /\ - offset <= Lo(l) /\ Hi(l) <= 0
      OBVIOUS
    <2>1. objs'[l].offset = objs[l].offset /\ objs'[l].size = objs[l].size
      BY <1>1, AllocateType
    <2>2. objs[l].offset \in Int /\ objs[l].size \in Int
      BY <1>1, ObjectFields
    <2> QED BY <2>1, <2>2 DEF Lo, Hi, GeometryInv
  <1>4. offset <= offset'  BY <1>1
  <1>5. Lo(k)' \in Int /\ Hi(k)' \in Int
    BY <1>1, <1>2, AllocateType DEF Lo, Hi
  <1>6. \A l \in placed' : - offset' <= Lo(l)' /\ Hi(l)' <= 0
    BY ONLY <1>1, <1>2, <1>3, <1>4, <1>5
  <1>7. ASSUME NEW l \in placed', NEW m \in placed', l # m
        PROVE  Hi(l)' <= Lo(m)' \/ Hi(m)' <= Lo(l)'
    <2>1. CASE l = k
      BY ONLY <1>1, <1>2, <1>3, <1>5, <1>7, <2>1
    <2>2. CASE m = k
      BY ONLY <1>1, <1>2, <1>3, <1>5, <1>7, <2>2
    <2>3. CASE l # k /\ m # k
      <3>1. Hi(l) <= Lo(m) \/ Hi(m) <= Lo(l)
        BY <1>1, <1>7, <2>3 DEF GeometryInv, ObjectsDisjoint
      <3> QED BY <1>1, <1>3, <2>3, <3>1
    <2> QED BY <2>1, <2>2, <2>3
  <1>8. ObjectsDisjoint'
    BY <1>7 DEF ObjectsDisjoint
  <1> QED BY <1>6, <1>8

\* A step that places nothing and leaves the placed objects alone.
LEMMA SkipKeepsGeometry ==
    ASSUME GeometryInv, UNCHANGED <<objs, placed, offset>>,
           pc' # "done", pc' \in Loops
    PROVE  GeometryInv'
  BY DEF GeometryInv, ObjectsDisjoint, Lo, Hi

\* Before the loops nothing is placed.
LEMMA NothingPlaced ==
    ASSUME placed = {}, UNCHANGED placed, pc' # "done"
    PROVE  GeometryInv'
  BY DEF GeometryInv, ObjectsDisjoint

LEMMA InitLayout == Init => LayoutInv
  BY DEF Init, LayoutInv, GeometryInv, StagesInv, CallInv, ObjectsDisjoint,
         Loops, Counted

LEMMA SelectionLayout == LayoutInv /\ Selection => LayoutInv'
  <1> SUFFICES ASSUME LayoutInv, Selection PROVE LayoutInv'
    OBVIOUS
  <1>1. /\ pc \in {"allocas", "select"}
        /\ pc' \in {"allocas", "select", "regalloc", "abort"}
        /\ UNCHANGED <<placed, large>>
    BY DEF Selection, CreateStackObject, LowerFormalArguments, LowerCall,
           getReturnAddressFrameIndex, DynamicStackAlloc,
           StackAligningInlineAsm, StackProtector, FinishSelection, Goto,
           peiVars
  <1>2. GeometryInv'
    BY <1>1, NothingPlaced DEF LayoutInv, GeometryInv, Loops
  <1>3. StagesInv'
    BY <1>1 DEF LayoutInv, StagesInv
  <1>4. CallInv'
    BY <1>1 DEF CallInv, Counted, Loops
  <1> QED BY <1>2, <1>3, <1>4 DEF LayoutInv

LEMMA RegAllocLayout == LayoutInv /\ RegAlloc => LayoutInv'
  <1> SUFFICES ASSUME LayoutInv, RegAlloc PROVE LayoutInv'
    OBVIOUS
  <1>1. /\ pc = "regalloc" /\ pc' = "regalloc"
        /\ UNCHANGED <<placed, large>>
    BY DEF RegAlloc, CreateSpillStackObject, RemoveStackObject, peiVars
  <1>2. GeometryInv'
    BY <1>1, NothingPlaced DEF LayoutInv, GeometryInv, Loops
  <1>3. StagesInv'
    BY <1>1 DEF LayoutInv, StagesInv
  <1>4. CallInv'
    BY <1>1 DEF CallInv, Counted, Loops
  <1> QED BY <1>2, <1>3, <1>4 DEF LayoutInv

\* The loops leave the calls of the body and what is known of them alone.
LEMMA LoopsKeepCallInv ==
    ASSUME CallInv, pc \in Counted,
           UNCHANGED <<callSeqs, maxCallFrame, adjustsStack>>
    PROVE  CallInv'
  BY DEF CallInv

LEMMA PEIGeometry == TypeOK /\ LayoutInv /\ PEI => GeometryInv'
  <1> SUFFICES ASSUME TypeOK, LayoutInv, PEI PROVE GeometryInv'
    OBVIOUS
  <1> USE DEF LayoutInv, Goto, funcVars, bodyVars, afiVars, peiVars, flagVars
  <1>1. CASE \/ calculateCallsInformation
             \/ \E n \in CalleeSaved : calculateCalleeSavedRegisters(n)
    BY <1>1, NothingPlaced
    DEF calculateCallsInformation, calculateCalleeSavedRegisters, GeometryInv,
        Loops
  <1>2. CASE SkipFixedObject
    <2>1. placed = {} /\ placed' = placed /\ pc' # "done"
      BY <1>2 DEF SkipFixedObject, GeometryInv, Loops
    <2> QED BY <2>1, NothingPlaced
  <1>3. ASSUME NEW k \in 1 .. Len(objs), Allocate(k),
               pc' \in {"csrslots", "large", "objects"}
        PROVE  GeometryInv'
    BY <1>3, AllocateKeepsGeometry DEF GeometryInv, Loops
  <1>4. CASE AllocateCalleeSaved
    <2>1. CASE i <= maxCS
      <3>1. i \in 1 .. Len(objs) /\ Allocate(i) /\ pc' = "csrslots"
        BY <1>4, <2>1
        DEF AllocateCalleeSaved, TypeOK, LoopTypeOK, ObjsTypeOK
      <3> QED BY <3>1, <1>3
    <2>2. CASE ~(i <= maxCS)
      BY <1>4, <2>2, SkipKeepsGeometry DEF AllocateCalleeSaved, Loops
    <2> QED BY <2>1, <2>2
  <1>5. CASE AllocateGuard
    <2>1. CASE guard > 0
      <3>1. guard \in 1 .. Len(objs) /\ Allocate(guard) /\ pc' = "large"
        BY <1>5, <2>1 DEF AllocateGuard, TypeOK, ObjsTypeOK
      <3> QED BY <3>1, <1>3
    <2>2. CASE ~(guard > 0)
      BY <1>5, <2>2, SkipKeepsGeometry DEF AllocateGuard, Loops
    <2> QED BY <2>1, <2>2
  <1>6. CASE AllocateLarge
    <2>1. CASE i <= Len(objs) /\ ~NotLarge(i)
      <3>1. i \in 1 .. Len(objs) /\ Allocate(i) /\ pc' = "large"
        BY <1>6, <2>1 DEF AllocateLarge, TypeOK, LoopTypeOK, ObjsTypeOK
      <3> QED BY <3>1, <1>3
    <2>2. CASE ~(i <= Len(objs) /\ ~NotLarge(i))
      <3>1. UNCHANGED <<objs, placed, offset>> /\ pc' \in {"large", "objects"}
        BY <1>6, <2>2 DEF AllocateLarge
      <3> QED BY <3>1, SkipKeepsGeometry DEF Loops
    <2> QED BY <2>1, <2>2
  <1>7. CASE AllocateObject
    <2>1. CASE i <= Len(objs) /\ ~AlreadyPlaced(i)
      <3>1. i \in 1 .. Len(objs) /\ Allocate(i) /\ pc' = "objects"
        BY <1>7, <2>1 DEF AllocateObject, TypeOK, LoopTypeOK, ObjsTypeOK
      <3> QED BY <3>1, <1>3
    <2>2. CASE ~(i <= Len(objs) /\ ~AlreadyPlaced(i))
      <3>1. UNCHANGED <<objs, placed, offset>> /\ pc' \in {"objects", "size"}
        BY <1>7, <2>2 DEF AllocateObject
      <3> QED BY <3>1, SkipKeepsGeometry DEF Loops
    <2> QED BY <2>1, <2>2
  <1>8. CASE SetStackSize
    <2>1. /\ UNCHANGED <<objs, placed, adjustsStack, maxCallFrame, hasVarSized,
                         disableFPElim>>
          /\ pc' = "done" /\ pc = "size"
      BY <1>8 DEF SetStackSize
    <2>2. /\ offset' = stackSize' /\ stackSize' \in Nat /\ offset <= stackSize'
          /\ (adjustsStack /\ hasReservedCallFrame) =>
                offset + maxCallFrame <= stackSize'
      BY <1>8, FrameSizeRounded
    <2>3. /\ offset \in Nat /\ maxCallFrame \in Nat
          /\ placed \subseteq 1 .. Len(objs)
      BY DEF TypeOK, LoopTypeOK, SizesTypeOK
    <2>4. hasReservedCallFrame' = hasReservedCallFrame
      BY <2>1 DEF hasReservedCallFrame, hasFP
    <2>5. \A k \in placed : Lo(k)' = Lo(k) /\ Hi(k)' = Hi(k) /\ Lo(k) \in Int
      BY <2>1, <2>3, ObjectFields DEF Lo, Hi
    <2>6. \A k \in placed' : - offset' <= Lo(k)' /\ Hi(k)' <= 0
      BY <2>1, <2>2, <2>3, <2>5 DEF GeometryInv
    <2>7. (adjustsStack /\ hasReservedCallFrame) =>
             \A k \in placed : maxCallFrame - stackSize' <= Lo(k)'
      BY <2>2, <2>3, <2>5 DEF GeometryInv
    <2>8. ObjectsDisjoint'
      BY <2>1, <2>5 DEF ObjectsDisjoint, GeometryInv
    <2> QED BY <2>1, <2>2, <2>4, <2>6, <2>7, <2>8 DEF GeometryInv, Loops
  <1> QED BY <1>1, <1>2, <1>4, <1>5, <1>6, <1>7, <1>8 DEF PEI

LEMMA PEIStages == TypeOK /\ LayoutInv /\ PEI => StagesInv'
  <1> SUFFICES ASSUME TypeOK, LayoutInv, PEI PROVE StagesInv'
    OBVIOUS
  <1> USE DEF Goto, funcVars, bodyVars, afiVars, peiVars, flagVars
  <1>1. CASE \/ calculateCallsInformation
             \/ \E n \in CalleeSaved : calculateCalleeSavedRegisters(n)
    BY <1>1
    DEF calculateCallsInformation, calculateCalleeSavedRegisters, LayoutInv,
        StagesInv
  <1>2. CASE SkipFixedObject
    <2>1. minCS \in Nat  BY DEF TypeOK, LoopTypeOK
    <2>2. minCS .. minCS - 1 = {}  BY <2>1
    <2> QED BY <1>2, <2>2 DEF SkipFixedObject, LayoutInv, StagesInv
  <1>3. large \subseteq placed  BY DEF LayoutInv, StagesInv
  <1>4. CASE AllocateCalleeSaved
    <2>1. minCS .. i - 1 \subseteq placed /\ i \in minCS .. maxCS + 1
          /\ minCS \in Nat /\ maxCS \in Nat
      BY <1>4 DEF AllocateCalleeSaved, TypeOK, LoopTypeOK, ObjsTypeOK,
                  LayoutInv, StagesInv
    <2>2. CASE i <= maxCS
      <3>1. /\ placed' = placed \cup {i} /\ i' = i + 1 /\ pc' = "csrslots"
            /\ UNCHANGED <<large, minCS>>
        BY <1>4, <2>2 DEF AllocateCalleeSaved, Allocate
      <3>2. minCS .. i' - 1 \subseteq placed'
        BY <2>1, <3>1
      <3> QED BY <1>3, <3>1, <3>2 DEF StagesInv
    <2>3. CASE ~(i <= maxCS)
      <3>1. UNCHANGED <<placed, large, minCS, maxCS>> /\ pc' = "guard"
        BY <1>4, <2>3 DEF AllocateCalleeSaved
      <3>2. minCS .. maxCS \subseteq placed
        BY <2>1, <2>3
      <3> QED BY <1>3, <3>1, <3>2 DEF StagesInv
    <2> QED BY <2>2, <2>3
  <1>5. CASE AllocateGuard
    <2>1. /\ minCS .. maxCS \subseteq placed /\ i' = 1
          /\ UNCHANGED <<large, guard, minCS, maxCS, dead>>
      BY <1>5 DEF AllocateGuard, LayoutInv, StagesInv
    <2>2. 1 .. i' - 1 = {}  BY <2>1
    <2>3. CASE guard > 0
      BY <1>3, <1>5, <2>1, <2>3 DEF AllocateGuard, Allocate, StagesInv
    <2>4. CASE ~(guard > 0)
      BY <1>3, <1>5, <2>1, <2>2, <2>4 DEF AllocateGuard, StagesInv
    <2> QED BY <2>3, <2>4
  <1>6. CASE AllocateLarge
    <2>1. /\ minCS .. maxCS \subseteq placed
          /\ guard > 0 => guard \in placed
          /\ UNCHANGED <<guard, minCS, maxCS, dead>>
      BY <1>6 DEF AllocateLarge, LayoutInv, StagesInv
    <2>2. placed \subseteq placed' /\ large' \subseteq placed'
      BY <1>3, <1>6 DEF AllocateLarge, Allocate
    <2>3. \/ pc' = "large"
          \/ pc' = "objects" /\ i' = 1
      BY <1>6 DEF AllocateLarge
    <2>4. i' = 1 => 1 .. i' - 1 = {}  OBVIOUS
    <2> QED BY <2>1, <2>2, <2>3, <2>4 DEF StagesInv
  <1>7. CASE AllocateObject
    <2>1. /\ minCS .. maxCS \subseteq placed
          /\ guard > 0 => guard \in placed
          /\ (1 .. i - 1) \ dead \subseteq placed
          /\ UNCHANGED <<guard, minCS, maxCS, dead, large>>
      BY <1>7 DEF AllocateObject, LayoutInv, StagesInv
    <2>2. i \in 1 .. Len(objs) + 1 /\ Len(objs) \in Nat
      BY <1>7 DEF AllocateObject, TypeOK, LoopTypeOK, ObjsTypeOK
    <2>3. placed \subseteq placed'
      BY <1>7 DEF AllocateObject, Allocate
    <2>4. CASE i <= Len(objs)
      <3>1. pc' = "objects" /\ i' = i + 1
        BY <1>7, <2>4 DEF AllocateObject
      <3>2. i \in dead \/ i \in placed'
        BY <1>3, <1>7, <2>1, <2>2, <2>3, <2>4
        DEF AllocateObject, Allocate, AlreadyPlaced, Skipped, TypeOK, ObjsTypeOK
      <3>3. 1 .. i' - 1 = (1 .. i - 1) \cup {i}
        BY <2>2, <3>1
      <3>4. (1 .. i' - 1) \ dead \subseteq placed'
        BY <2>1, <2>3, <3>2, <3>3
      <3> QED BY <1>3, <2>1, <2>3, <3>1, <3>4 DEF StagesInv
    <2>5. CASE ~(i <= Len(objs))
      <3>1. pc' = "size" /\ UNCHANGED <<objs, placed>>
        BY <1>7, <2>5 DEF AllocateObject
      <3>2. i - 1 = Len(objs)  BY <2>2, <2>5
      <3>3. Live' \subseteq placed'
        BY <2>1, <3>1, <3>2 DEF Live
      <3> QED BY <1>3, <2>1, <3>1, <3>3 DEF StagesInv
    <2> QED BY <2>4, <2>5
  <1>8. CASE SetStackSize
    BY <1>3, <1>8 DEF SetStackSize, LayoutInv, StagesInv, Live
  <1> QED BY <1>1, <1>2, <1>4, <1>5, <1>6, <1>7, <1>8 DEF PEI

LEMMA PEICalls == TypeOK /\ LayoutInv /\ PEI => CallInv'
  <1> SUFFICES ASSUME TypeOK, LayoutInv, PEI PROVE CallInv'
    OBVIOUS
  <1> USE DEF Goto, funcVars, bodyVars, afiVars, peiVars, flagVars
  <1>1. CASE calculateCallsInformation
    BY <1>1 DEF calculateCallsInformation, CoversCalls, CallInv
  <1>2. CASE ~calculateCallsInformation
    <2>1. pc \in Counted /\ UNCHANGED <<callSeqs, maxCallFrame, adjustsStack>>
      BY <1>2 DEF PEI, calculateCalleeSavedRegisters, SkipFixedObject,
         AllocateCalleeSaved, AllocateGuard, AllocateLarge, AllocateObject,
         SetStackSize, Counted, Loops
    <2> QED BY <2>1, LoopsKeepCallInv DEF LayoutInv
  <1> QED BY <1>1, <1>2

LEMMA StutterLayout == LayoutInv /\ UNCHANGED vars => LayoutInv'
  BY DEF vars, funcVars, bodyVars, afiVars, peiVars, flagVars, LayoutInv,
         GeometryInv, StagesInv, CallInv, ObjectsDisjoint, Lo, Hi, Live,
         hasReservedCallFrame, hasFP

THEOREM LayoutCorrect == Spec => []LayoutInv
  <1>1. TypeOK /\ LayoutInv /\ [Next]_vars => LayoutInv'
    BY SelectionLayout, RegAllocLayout, PEIGeometry, PEIStages, PEICalls,
       StutterLayout
    DEF Next, Finished, LayoutInv
  <1> QED BY InitLayout, TypeCorrect, <1>1, PTL DEF Spec
-----------------------------------------------------------------------------
\* No two placed objects share a byte (PEI::calculateFrameObjectOffsets).
THEOREM FrameObjectsDisjoint == Spec => []ObjectsDisjoint
  <1>1. LayoutInv => ObjectsDisjoint  BY DEF LayoutInv, GeometryInv
  <1> QED BY <1>1, LayoutCorrect, PTL

\* The prologue's own rounding never shrinks the frame.
LEMMA NumBytesCovers ==
    TypeOK => NumBytes(Frame) \in Nat /\ stackSize <= NumBytes(Frame)
  BY RoundUpNext DEF TypeOK, SizesTypeOK, NumBytes, Frame, UNITS_PER_WORD

\* Every live object has its place between the SP of the body and the frame
\* pointer when the layout is done.
THEOREM FrameCoversObjects == Spec => []ObjectsInFrame
  <1>1. TypeOK /\ LayoutInv => ObjectsInFrame
    <2> SUFFICES ASSUME TypeOK, LayoutInv, pc = "done", NEW k \in Live
                 PROVE  /\ k \in placed /\ Hi(k) <= 0
                        /\ - NumBytes(Frame) <= Lo(k)
      BY DEF ObjectsInFrame
    <2>1. k \in placed /\ Hi(k) <= 0 /\ - stackSize <= Lo(k)
      BY DEF LayoutInv, StagesInv, GeometryInv
    <2>2. Lo(k) \in Int  BY ObjectFields DEF Live
    <2> QED BY <2>1, <2>2, NumBytesCovers DEF TypeOK, SizesTypeOK
  <1> QED BY <1>1, TypeCorrect, LayoutCorrect, PTL

\* The layout gives every live object bytes of its own within the frame, for any
\* number, size and alignment of objects (PEI::calculateFrameObjectOffsets).
THEOREM LayoutSound == Spec => []FrameLaidOut
  <1>1. ObjectsDisjoint /\ ObjectsInFrame => FrameLaidOut
    BY DEF FrameLaidOut
  <1> QED BY <1>1, FrameObjectsDisjoint, FrameCoversObjects, PTL

\* Without a frame pointer, the outgoing arguments of every call lie below
\* every live object.
THEOREM CallFrameReserved == Spec => []OutgoingArgsReserved
  <1>1. TypeOK /\ LayoutInv => OutgoingArgsReserved
    <2> SUFFICES ASSUME TypeOK, LayoutInv, pc = "done", ~hasFP,
                        NEW n \in callSeqs, NEW k \in Live
                 PROVE  n - NumBytes(Frame) <= Lo(k)
      BY DEF OutgoingArgsReserved
    <2>1. n <= maxCallFrame /\ adjustsStack
      BY DEF LayoutInv, CallInv, Counted, Loops
    <2>2. maxCallFrame - stackSize <= Lo(k)
      BY <2>1 DEF LayoutInv, StagesInv, GeometryInv, hasReservedCallFrame
    <2>3. Lo(k) \in Int  BY ObjectFields DEF Live
    <2>4. n \in Nat /\ maxCallFrame \in Nat /\ stackSize \in Nat
      BY DEF TypeOK, SizesTypeOK
    <2> QED BY <2>1, <2>2, <2>3, <2>4, NumBytesCovers
  <1> QED BY <1>1, TypeCorrect, LayoutCorrect, PTL
-----------------------------------------------------------------------------
KindsInv ==
    /\ pc \in {"allocas", "select"} => \A k \in 1 .. Len(objs) : ~objs[k].isSS
    /\ guard > 0 => ~objs[guard].isSS
    /\ \A k \in dead \cup minCS .. maxCS : objs[k].isSS

\* What the first two loops place.
First == minCS .. maxCS \cup {guard}

TurnsInv ==
    /\ pc \notin {"large", "objects", "size", "done"} \/ guard = 0 => large = {}
    /\ pc = "csrslots" => placed \subseteq minCS .. i - 1
    /\ pc = "guard" => placed \subseteq minCS .. maxCS
    /\ pc = "large" => guard > 0 /\ placed \subseteq First \cup large
    /\ pc = "objects" => placed \subseteq First \cup large \cup 1 .. i - 1

\* The arrays among the first m objects that get their place in the array loop.
Arrays(m) == {k \in 1 .. m : ~NotLarge(k)}

ArraysInv ==
    guard > 0 =>
        /\ pc = "large" => large = Arrays(i - 1)
        /\ pc \in {"objects", "size", "done"} => large = Arrays(Len(objs))

OrderInv ==
    (guard > 0 /\ pc \in {"large", "objects", "size", "done"}) =>
        /\ \A k \in placed \ First : Hi(k) <= Lo(guard)
        /\ \A k \in large : \A l \in placed \ (First \cup large) : Hi(l) <= Lo(k)

SequenceInv == KindsInv /\ TurnsInv /\ ArraysInv /\ OrderInv

\* An object that is placed now lies below every object placed before, which
\* stays where it is.
LEMMA AllocatedBelow ==
    ASSUME TypeOK, LayoutInv, NEW k \in 1 .. Len(objs), Allocate(k)
    PROVE  /\ \A l \in placed : l # k => /\ Lo(l)' = Lo(l) /\ Hi(l)' = Hi(l)
                                         /\ Hi(k)' <= Lo(l)
           /\ placed' = placed \cup {k} /\ Len(objs') = Len(objs)
           /\ \A l \in 1 .. Len(objs) : /\ objs'[l].isSS = objs[l].isSS
                                        /\ objs'[l].mayNeedSP = objs[l].mayNeedSP
  <1>1. /\ offset \in Nat /\ objs[k].size \in Nat /\ Below(k) \in Nat
        /\ offset + objs[k].size <= Below(k)
    <2>1. objs[k].size \in Nat  BY ObjectFields
    <2> QED BY <2>1, AllocateType DEF TypeOK, LoopTypeOK
  <1>2. Hi(k)' <= - offset
    BY <1>1, AllocateType DEF Hi
  <1>3. Hi(k)' \in Int
    BY <1>1, AllocateType DEF Hi
  <1>4. ASSUME NEW l \in placed, l # k
        PROVE  Lo(l)' = Lo(l) /\ Hi(l)' = Hi(l) /\ Hi(k)' <= Lo(l)
    <2>1. l \in 1 .. Len(objs)  BY DEF TypeOK, LoopTypeOK
    <2>2. Lo(l)' = Lo(l) /\ Hi(l)' = Hi(l)
      BY <1>4, <2>1, AllocateType DEF Lo, Hi
    <2>3. Lo(l) \in Int /\ - offset <= Lo(l)
      BY <2>1, ObjectFields DEF LayoutInv, GeometryInv
    <2> QED BY <1>1, <1>2, <1>3, <2>2, <2>3
  <1> QED BY <1>4, AllocateType

LEMMA InitSequence == Init => SequenceInv
  BY DEF Init, SequenceInv, KindsInv, TurnsInv, ArraysInv, OrderInv

\* Objects of known kinds are appended; the kinds of the others stay.
LEMMA KindsKept ==
    ASSUME TypeOK, KindsInv, Len(objs') >= Len(objs), Len(objs') \in Nat,
           \A k \in 1 .. Len(objs) : objs'[k].isSS = objs[k].isSS,
           UNCHANGED <<guard, dead, minCS, maxCS>>,
           pc' \in {"allocas", "select"} =>
              /\ pc \in {"allocas", "select"}
              /\ \A k \in 1 .. Len(objs') : ~objs'[k].isSS
    PROVE  KindsInv'
  <1>1. dead \subseteq 1 .. Len(objs) /\ guard \in 0 .. Len(objs)
    BY DEF TypeOK, ObjsTypeOK
  <1>2. minCS .. maxCS \subseteq 1 .. Len(objs)
    BY DEF TypeOK, LoopTypeOK, ObjsTypeOK
  <1>3. guard' > 0 => ~objs'[guard'].isSS
    BY <1>1 DEF KindsInv
  <1>4. \A k \in dead' \cup minCS' .. maxCS' : objs'[k].isSS
    BY <1>1, <1>2 DEF KindsInv
  <1> QED BY <1>3, <1>4 DEF KindsInv

LEMMA SelectionKinds == TypeOK /\ KindsInv /\ Selection => KindsInv'
  <1> SUFFICES ASSUME TypeOK, KindsInv, Selection PROVE KindsInv'
    OBVIOUS
  <1> USE DEF Goto, funcVars, bodyVars, afiVars, peiVars, flagVars
  <1>1. objs \in Seq(Objects) /\ Len(objs) \in Nat
    BY DEF TypeOK, ObjsTypeOK
  <1>2. ASSUME NEW o \in Objects, ~o.isSS, objs' = Append(objs, o),
               pc \in {"allocas", "select"}, UNCHANGED <<guard, dead, minCS, maxCS>>
        PROVE  KindsInv'
    <2>1. /\ Len(objs') = Len(objs) + 1
          /\ \A k \in 1 .. Len(objs) : objs'[k] = objs[k]
          /\ objs'[Len(objs) + 1] = o
      BY <1>1, <1>2, AppendObject
    <2>2. \A k \in 1 .. Len(objs') : ~objs'[k].isSS
      BY <1>1, <1>2, <2>1 DEF KindsInv
    <2> QED BY <1>1, <1>2, <2>1, <2>2, KindsKept
  <1>3. CASE \E s \in ObjectSizes, a \in ObjectAligns, m \in BOOLEAN :
                CreateStackObject(s, a, m)
    <2>1. PICK s \in ObjectSizes, a \in ObjectAligns, m \in BOOLEAN :
                  CreateStackObject(s, a, m)
      BY <1>3
    <2>2. Object(s, a, FALSE, m) \in Objects /\ ~Object(s, a, FALSE, m).isSS
      BY ObjectTypes DEF Object
    <2> QED BY <2>1, <2>2, <1>2 DEF CreateStackObject
  <1>4. CASE \E a \in ObjectAligns : DynamicStackAlloc(a)
    <2>1. PICK a \in ObjectAligns : DynamicStackAlloc(a)
      BY <1>4
    <2> DEFINE b == IF a <= StackAlignment THEN 1 ELSE a
    <2>2. Object(0, b, FALSE, TRUE) \in Objects /\ ~Object(0, b, FALSE, TRUE).isSS
      BY ObjectTypes DEF Object
    <2>3. objs' = Append(objs, Object(0, b, FALSE, TRUE))
      BY <2>1 DEF DynamicStackAlloc
    <2> QED BY <2>1, <2>2, <2>3, <1>2 DEF DynamicStackAlloc
  <1>5. CASE \E k \in 1 .. Len(objs) : StackProtector(k)
    BY <1>5 DEF StackProtector, KindsInv
  <1>6. CASE LowerFormalArguments \/ (\E n \in CallCounts : LowerCall(n))
             \/ getReturnAddressFrameIndex \/ StackAligningInlineAsm
             \/ FinishSelection
    <2>1. /\ UNCHANGED <<objs, guard, dead, minCS, maxCS>>
          /\ pc \in {"allocas", "select"}
      BY <1>6 DEF LowerFormalArguments, LowerCall, getReturnAddressFrameIndex,
                  StackAligningInlineAsm, FinishSelection
    <2>2. \A k \in 1 .. Len(objs) : ~objs[k].isSS  BY <2>1 DEF KindsInv
    <2> QED BY <1>1, <2>1, <2>2, KindsKept
  <1> QED BY <1>3, <1>4, <1>5, <1>6 DEF Selection

LEMMA RegAllocKinds == TypeOK /\ KindsInv /\ RegAlloc => KindsInv'
  <1> SUFFICES ASSUME TypeOK, KindsInv, RegAlloc PROVE KindsInv'
    OBVIOUS
  <1> USE DEF funcVars, bodyVars, afiVars, peiVars, flagVars
  <1>1. objs \in Seq(Objects) /\ Len(objs) \in Nat
    BY DEF TypeOK, ObjsTypeOK
  <1>2. CASE CreateSpillStackObject
    <2>1. SpillSlot \in Objects /\ objs' = Append(objs, SpillSlot) /\ pc' = "regalloc"
          /\ UNCHANGED <<guard, dead, minCS, maxCS>>
      BY <1>2, ObjectTypes DEF CreateSpillStackObject
    <2>2. /\ Len(objs') = Len(objs) + 1
          /\ \A k \in 1 .. Len(objs) : objs'[k] = objs[k]
      BY <1>1, <2>1, AppendObject
    <2> QED BY <1>1, <2>1, <2>2, KindsKept
  <1>3. CASE \E k \in 1 .. Len(objs) : RemoveStackObject(k)
    BY <1>3 DEF RemoveStackObject, KindsInv
  <1> QED BY <1>2, <1>3 DEF RegAlloc

LEMMA PEIKinds == TypeOK /\ LayoutInv /\ KindsInv /\ PEI => KindsInv'
  <1> SUFFICES ASSUME TypeOK, LayoutInv, KindsInv, PEI PROVE KindsInv'
    OBVIOUS
  <1> USE DEF Goto, funcVars, bodyVars, afiVars, peiVars, flagVars
  <1>1. Len(objs) \in Nat  BY DEF TypeOK, ObjsTypeOK
  <1>2. CASE \E n \in CalleeSaved : calculateCalleeSavedRegisters(n)
    <2>1. PICK n \in CalleeSaved : calculateCalleeSavedRegisters(n)
      BY <1>2
    <2>2. /\ Len(objs') = Len(objs) + n /\ n \in Nat
          /\ \A k \in 1 .. Len(objs) : objs'[k] = objs[k]
          /\ \A k \in Len(objs) + 1 .. Len(objs) + n : objs'[k] = SpillSlot
      <3>1. objs' = objs \o [k \in 1 .. n |-> SpillSlot] /\ n \in Nat
        BY <2>1, CountsAssumption DEF calculateCalleeSavedRegisters
      <3> QED BY ONLY <3>1, TypeOK, AppendSlots DEF TypeOK, ObjsTypeOK
    <2>3. \A k \in dead : objs'[k].isSS
      BY <2>2 DEF TypeOK, ObjsTypeOK, KindsInv
    <2>4. guard > 0 => ~objs'[guard].isSS
      BY <2>2 DEF TypeOK, ObjsTypeOK, KindsInv
    <2>5. \A k \in minCS' .. maxCS' : objs'[k].isSS
      <3>1. CASE n = 0
        BY <1>1, <2>1, <2>2, <3>1
        DEF calculateCalleeSavedRegisters, TypeOK, LoopTypeOK, ObjsTypeOK, KindsInv
      <3>2. CASE n # 0
        BY <2>1, <2>2, <3>2 DEF calculateCalleeSavedRegisters, SpillSlot, Object
      <3> QED BY <3>1, <3>2
    <2> QED BY <2>1, <2>3, <2>4, <2>5 DEF calculateCalleeSavedRegisters, KindsInv
  <1>3. ASSUME NEW k \in 1 .. Len(objs), Allocate(k), UNCHANGED <<guard, dead, minCS, maxCS>>,
               pc' \in Loops
        PROVE  KindsInv'
    BY <1>1, <1>3, AllocatedBelow, KindsKept DEF Loops
  <1>4. ASSUME UNCHANGED <<objs, guard, dead, minCS, maxCS>>,
               pc' \notin {"allocas", "select"}
        PROVE  KindsInv'
    BY <1>1, <1>4, KindsKept
  <1>5. CASE calculateCallsInformation \/ SkipFixedObject \/ SetStackSize
    BY <1>4, <1>5 DEF calculateCallsInformation, SkipFixedObject, SetStackSize
  <1>6. CASE AllocateCalleeSaved
    <2>1. i <= maxCS => i \in 1 .. Len(objs)
      BY <1>6 DEF AllocateCalleeSaved, TypeOK, LoopTypeOK, ObjsTypeOK
    <2> QED BY <1>3, <1>4, <1>6, <2>1 DEF AllocateCalleeSaved, Loops
  <1>7. CASE AllocateGuard
    <2>1. guard > 0 => guard \in 1 .. Len(objs)
      BY DEF TypeOK, ObjsTypeOK
    <2> QED BY <1>3, <1>4, <1>7, <2>1 DEF AllocateGuard, Loops
  <1>8. CASE AllocateLarge
    <2>1. i <= Len(objs) => i \in 1 .. Len(objs)
      BY <1>8 DEF AllocateLarge, TypeOK, LoopTypeOK
    <2> QED BY <1>3, <1>4, <1>8, <2>1 DEF AllocateLarge, Loops
  <1>9. CASE AllocateObject
    <2>1. i <= Len(objs) => i \in 1 .. Len(objs)
      BY <1>9 DEF AllocateObject, TypeOK, LoopTypeOK
    <2> QED BY <1>3, <1>4, <1>9, <2>1 DEF AllocateObject, Loops
  <1> QED BY <1>2, <1>5, <1>6, <1>7, <1>8, <1>9 DEF PEI

\* Before the loops there is nothing to say of their order.
LEMMA EarlyOrder ==
    ASSUME large' = {}, pc' \notin {"csrslots", "guard", "large", "objects", "size", "done"}
    PROVE  (TurnsInv /\ ArraysInv /\ OrderInv)'
  BY DEF TurnsInv, ArraysInv, OrderInv

LEMMA EarlyStepsOrder ==
    TypeOK /\ SequenceInv /\ (Selection \/ RegAlloc) => (TurnsInv /\ ArraysInv /\ OrderInv)'
  <1> SUFFICES ASSUME TypeOK, SequenceInv, Selection \/ RegAlloc
               PROVE  (TurnsInv /\ ArraysInv /\ OrderInv)'
    OBVIOUS
  <1>1. /\ pc \in {"allocas", "select", "regalloc"} /\ large' = large
        /\ pc' \in {"allocas", "select", "regalloc", "abort"}
    BY DEF Selection, CreateStackObject, LowerFormalArguments, LowerCall,
           getReturnAddressFrameIndex, DynamicStackAlloc,
           StackAligningInlineAsm, StackProtector, FinishSelection, Goto,
           peiVars, RegAlloc, CreateSpillStackObject, RemoveStackObject
  <1>2. large = {}  BY <1>1 DEF SequenceInv, TurnsInv
  <1> QED BY <1>1, <1>2, EarlyOrder

\* A step of the last two loops that places nothing, or goes on.
LEMMA SkipKeepsOrder ==
    ASSUME TypeOK, LayoutInv, OrderInv, pc \in {"large", "objects", "size"} \/ guard = 0,
           UNCHANGED <<objs, placed, large, guard, minCS, maxCS>>
    PROVE  OrderInv'
  BY DEF OrderInv, First, Lo, Hi

\* Which objects the array loop takes depends on what no later step changes.
LEMMA ArraysKept ==
    ASSUME TypeOK, NEW m \in Int, m <= Len(objs),
           \A k \in 1 .. Len(objs) : objs'[k].mayNeedSP = objs[k].mayNeedSP,
           UNCHANGED <<guard, dead, minCS, maxCS>>
    PROVE  Arrays(m)' = Arrays(m)
  <1>1. \A k \in 1 .. m : k \in 1 .. Len(objs)  BY DEF TypeOK, ObjsTypeOK
  <1> QED BY <1>1 DEF Arrays, NotLarge, Skipped

\* The guard is placed below the callee-saved slots, and is none of them.
LEMMA GuardOrder ==
    TypeOK /\ LayoutInv /\ SequenceInv /\ AllocateGuard => (TurnsInv /\ ArraysInv /\ OrderInv)'
  <1> SUFFICES ASSUME TypeOK, LayoutInv, SequenceInv, AllocateGuard
               PROVE  (TurnsInv /\ ArraysInv /\ OrderInv)'
    OBVIOUS
  <1>1. /\ pc = "guard" /\ i' = 1 /\ large = {} /\ large' = {}
        /\ placed \subseteq minCS .. maxCS
        /\ UNCHANGED <<guard, dead, minCS, maxCS>>
    BY DEF AllocateGuard, SequenceInv, TurnsInv
  <1>2. CASE guard > 0
    <2>1. placed' = placed \cup {guard} /\ pc' = "large"
      BY <1>2 DEF AllocateGuard, Allocate, Goto
    <2>2. ArraysInv'
      BY <1>1, <2>1 DEF ArraysInv, Arrays
    <2>3. TurnsInv'  BY <1>1, <1>2, <2>1 DEF TurnsInv, First
    <2>4. OrderInv'  BY <1>1, <2>1 DEF OrderInv, First
    <2> QED BY <2>2, <2>3, <2>4
  <1>3. CASE ~(guard > 0)
    <2>1. placed' = placed /\ pc' = "objects"
      BY <1>3 DEF AllocateGuard, Goto
    <2> QED BY <1>1, <1>3, <2>1 DEF TurnsInv, ArraysInv, OrderInv, First
  <1> QED BY <1>2, <1>3

\* The array loop places below the guard the arrays that it passes.
LEMMA LargeOrder ==
    TypeOK /\ LayoutInv /\ SequenceInv /\ AllocateLarge => (TurnsInv /\ ArraysInv /\ OrderInv)'
  <1> SUFFICES ASSUME TypeOK, LayoutInv, SequenceInv, AllocateLarge
               PROVE  (TurnsInv /\ ArraysInv /\ OrderInv)'
    OBVIOUS
  <1>1. /\ pc = "large" /\ i \in 1 .. Len(objs) + 1 /\ Len(objs) \in Nat /\ guard > 0
        /\ placed \subseteq First \cup large
        /\ UNCHANGED <<guard, dead, minCS, maxCS>>
    BY DEF AllocateLarge, SequenceInv, TurnsInv, TypeOK, LoopTypeOK, ObjsTypeOK
  <1>2. First' = First  BY <1>1 DEF First
  <1>3. guard > 0 => /\ large = Arrays(i - 1) /\ guard \in placed
                     /\ \A k \in placed \ First : Hi(k) <= Lo(guard)
                     /\ \A k \in large : \A l \in placed \ (First \cup large) : Hi(l) <= Lo(k)
    BY <1>1 DEF SequenceInv, ArraysInv, OrderInv, LayoutInv, StagesInv
  <1>4. CASE i <= Len(objs) /\ ~NotLarge(i)
    <2>1. PICK k \in 1 .. Len(objs) :
                 /\ k = i /\ Allocate(k) /\ ~NotLarge(k)
                 /\ pc' = "large" /\ i' = k + 1 /\ large' = large \cup {k}
      BY <1>1, <1>4 DEF AllocateLarge, Goto
    <2>2. /\ placed' = placed \cup {k}
          /\ \A l \in placed : l # k => /\ Lo(l)' = Lo(l) /\ Hi(l)' = Hi(l)
                                        /\ Hi(k)' <= Lo(l)
          /\ \A l \in 1 .. Len(objs) : objs'[l].mayNeedSP = objs[l].mayNeedSP
          /\ Len(objs') = Len(objs)
      BY <2>1, AllocatedBelow
    <2>3. k \notin First  BY <2>1 DEF NotLarge, Skipped, First
    <2>4. TurnsInv'  BY <1>1, <1>2, <2>1, <2>2 DEF TurnsInv
    <2>5. ArraysInv'
      <3>1. Arrays(k) = Arrays(k - 1) \cup {k}
        BY <1>1, <2>1 DEF Arrays
      <3>2. Arrays(k)' = Arrays(k)
        BY <1>1, <2>1, <2>2, ArraysKept
      <3>3. i' - 1 = k  BY <2>1
      <3>4. Arrays(i - 1) = Arrays(k - 1)  BY <2>1
      <3>5. guard > 0 => large' = Arrays(k)'
        BY <1>3, <2>1, <3>1, <3>2, <3>4
      <3> QED BY <1>1, <2>1, <3>3, <3>5 DEF ArraysInv, Arrays
    <2>6. OrderInv'
      <3>1. ASSUME guard > 0, NEW l \in placed' \ First PROVE Hi(l)' <= Lo(guard)'
        <4>1. PICK g \in placed : g = guard  BY <1>3, <3>1
        <4>2. g # k /\ l # g  BY <2>3, <3>1, <4>1 DEF First
        <4>3. Lo(guard)' = Lo(g)'  BY <1>1, <4>1 DEF Lo
        <4>4. Lo(g)' = Lo(guard)  BY <2>2, <4>1, <4>2
        <4>5. CASE l = k  BY <2>2, <4>1, <4>2, <4>3, <4>4, <4>5
        <4>6. CASE l # k
          BY <1>3, <2>2, <3>1, <4>3, <4>4, <4>6
        <4> QED BY <4>5, <4>6
      <3>2. placed' \ (First \cup large') = {}
        BY <1>1, <2>1, <2>2
      <3> QED BY <1>1, <1>2, <2>1, <3>1, <3>2 DEF OrderInv
    <2> QED BY <2>4, <2>5, <2>6
  <1>5. CASE i <= Len(objs) /\ NotLarge(i)
    <2>1. /\ UNCHANGED <<objs, placed, large>> /\ pc' = "large" /\ i' = i + 1
      BY <1>5 DEF AllocateLarge, Goto
    <2>2. Arrays(i) = Arrays(i - 1)
      BY <1>1, <1>5 DEF Arrays
    <2>3. ArraysInv'
      BY <1>1, <1>3, <2>1, <2>2 DEF ArraysInv, Arrays, NotLarge, Skipped
    <2> QED BY <1>1, <1>2, <2>1, <2>3, SkipKeepsOrder DEF TurnsInv, SequenceInv
  <1>6. CASE ~(i <= Len(objs))
    <2>1. UNCHANGED <<objs, placed, large>> /\ pc' = "objects"
      BY <1>6 DEF AllocateLarge, Goto
    <2>2. i - 1 = Len(objs)  BY <1>1, <1>6
    <2>3. ArraysInv'
      BY <1>1, <1>3, <2>1, <2>2 DEF ArraysInv, Arrays, NotLarge, Skipped
    <2> QED BY <1>1, <1>2, <2>1, <2>3, SkipKeepsOrder DEF TurnsInv, SequenceInv
  <1> QED BY <1>4, <1>5, <1>6

\* The last loop places below the arrays what is left.
LEMMA ObjectOrder ==
    TypeOK /\ LayoutInv /\ SequenceInv /\ AllocateObject => (TurnsInv /\ ArraysInv /\ OrderInv)'
  <1> SUFFICES ASSUME TypeOK, LayoutInv, SequenceInv, AllocateObject
               PROVE  (TurnsInv /\ ArraysInv /\ OrderInv)'
    OBVIOUS
  <1>1. /\ pc = "objects" /\ i \in 1 .. Len(objs) + 1 /\ Len(objs) \in Nat
        /\ placed \subseteq First \cup large \cup 1 .. i - 1
        /\ guard = 0 => large = {}
        /\ UNCHANGED <<guard, dead, minCS, maxCS, large>>
    BY DEF AllocateObject, SequenceInv, TurnsInv, TypeOK, LoopTypeOK, ObjsTypeOK
  <1>2. First' = First  BY <1>1 DEF First
  <1>3. guard > 0 => /\ large = Arrays(Len(objs)) /\ guard \in placed
                     /\ \A l \in placed \ First : Hi(l) <= Lo(guard)
                     /\ \A l \in large : \A m \in placed \ (First \cup large) : Hi(m) <= Lo(l)
    BY <1>1 DEF SequenceInv, ArraysInv, OrderInv, LayoutInv, StagesInv
  <1>4. CASE i <= Len(objs) /\ ~AlreadyPlaced(i)
    <2>1. PICK k \in 1 .. Len(objs) :
                 /\ k = i /\ Allocate(k) /\ ~AlreadyPlaced(k)
                 /\ pc' = "objects" /\ i' = k + 1
      BY <1>1, <1>4 DEF AllocateObject, Goto
    <2>2. /\ placed' = placed \cup {k}
          /\ \A l \in placed : l # k => /\ Lo(l)' = Lo(l) /\ Hi(l)' = Hi(l)
                                        /\ Hi(k)' <= Lo(l)
          /\ \A l \in 1 .. Len(objs) : objs'[l].mayNeedSP = objs[l].mayNeedSP
          /\ Len(objs') = Len(objs)
      BY <2>1, AllocatedBelow
    <2>3. k \notin First /\ k \notin large
      BY <2>1 DEF AlreadyPlaced, Skipped, First
    <2>4. TurnsInv'
      <3>1. 1 .. i' - 1 = (1 .. i - 1) \cup {k}  BY <1>1, <2>1
      <3> QED BY <1>1, <1>2, <2>1, <2>2, <3>1 DEF TurnsInv
    <2>5. ArraysInv'
      <3>1. PICK m \in Nat : m = Len(objs)  BY <1>1
      <3>2. Arrays(m)' = Arrays(m)
        BY <1>1, <2>2, <3>1, ArraysKept
      <3> QED BY <1>1, <1>3, <2>1, <2>2, <3>1, <3>2 DEF ArraysInv, Arrays
    <2>6. OrderInv'
      <3>1. ASSUME guard > 0, NEW l \in placed' \ First PROVE Hi(l)' <= Lo(guard)'
        <4>1. PICK g \in placed : g = guard  BY <1>3, <3>1
        <4>2. g # k /\ l # g  BY <2>3, <3>1, <4>1 DEF First
        <4>3. Lo(guard)' = Lo(g)'  BY <1>1, <4>1 DEF Lo
        <4>4. Lo(g)' = Lo(guard)  BY <2>2, <4>1, <4>2
        <4>5. CASE l = k  BY <2>2, <4>1, <4>2, <4>3, <4>4, <4>5
        <4>6. CASE l # k
          BY <1>3, <2>2, <3>1, <4>3, <4>4, <4>6
        <4> QED BY <4>5, <4>6
      <3>2. ASSUME guard > 0, NEW l \in large, NEW m \in placed' \ (First \cup large)
            PROVE  Hi(m)' <= Lo(l)'
        <4>1. l \in placed /\ l # k
          BY <2>3 DEF LayoutInv, StagesInv
        <4>2. CASE m = k  BY <2>2, <4>1, <4>2
        <4>3. CASE m # k  BY <1>3, <2>2, <3>2, <4>1, <4>3
        <4> QED BY <4>2, <4>3
      <3> QED BY <1>1, <1>2, <3>1, <3>2 DEF OrderInv
    <2> QED BY <2>4, <2>5, <2>6
  <1>5. CASE ~(i <= Len(objs) /\ ~AlreadyPlaced(i))
    <2>1. /\ UNCHANGED <<objs, placed>>
          /\ \/ pc' = "objects" /\ i' = i + 1
             \/ pc' = "size"
      BY <1>5 DEF AllocateObject, Goto
    <2>2. TurnsInv'  BY <1>1, <1>2, <2>1 DEF TurnsInv
    <2>3. ArraysInv'
      BY <1>1, <1>3, <2>1 DEF ArraysInv, Arrays, NotLarge, Skipped
    <2> QED BY <1>1, <2>1, <2>2, <2>3, SkipKeepsOrder DEF SequenceInv
  <1> QED BY <1>4, <1>5

LEMMA PEIOrder == TypeOK /\ LayoutInv /\ SequenceInv /\ PEI => (TurnsInv /\ ArraysInv /\ OrderInv)'
  <1> SUFFICES ASSUME TypeOK, LayoutInv, SequenceInv, PEI
               PROVE  (TurnsInv /\ ArraysInv /\ OrderInv)'
    OBVIOUS
  <1> USE DEF Goto
  <1>1. CASE \/ calculateCallsInformation
             \/ \E n \in CalleeSaved : calculateCalleeSavedRegisters(n)
    BY <1>1, EarlyOrder DEF calculateCallsInformation,
       calculateCalleeSavedRegisters, SequenceInv, TurnsInv, peiVars
  <1>2. CASE SkipFixedObject
    <2>1. /\ placed' = {} /\ large' = {} /\ pc' \in {"fixed", "csrslots"}
      BY <1>2 DEF SkipFixedObject, LayoutInv, GeometryInv, Loops, SequenceInv, TurnsInv
    <2> QED BY <2>1 DEF TurnsInv, ArraysInv, OrderInv
  <1>3. CASE AllocateCalleeSaved
    <2>1. /\ placed \subseteq minCS .. i - 1 /\ i \in minCS .. maxCS + 1
          /\ minCS \in Nat /\ maxCS \in Nat /\ large' = {}
          /\ UNCHANGED <<minCS, maxCS>>
      BY <1>3 DEF AllocateCalleeSaved, SequenceInv, TurnsInv, TypeOK, LoopTypeOK, ObjsTypeOK
    <2>2. CASE i <= maxCS
      <3>1. placed' = placed \cup {i} /\ i' = i + 1 /\ pc' = "csrslots"
        BY <1>3, <2>2 DEF AllocateCalleeSaved, Allocate
      <3>2. placed' \subseteq minCS .. i' - 1  BY <2>1, <3>1
      <3> QED BY <2>1, <3>1, <3>2 DEF TurnsInv, ArraysInv, OrderInv
    <2>3. CASE ~(i <= maxCS)
      <3>1. placed' = placed /\ pc' = "guard"
        BY <1>3, <2>3 DEF AllocateCalleeSaved
      <3>2. placed' \subseteq minCS .. maxCS  BY <2>1, <2>3, <3>1
      <3> QED BY <2>1, <3>1, <3>2 DEF TurnsInv, ArraysInv, OrderInv
    <2> QED BY <2>2, <2>3
  <1>4. CASE SetStackSize
    <2>1. /\ pc = "size" /\ pc' = "done"
          /\ UNCHANGED <<objs, placed, large, guard, dead, minCS, maxCS>>
      BY <1>4 DEF SetStackSize
    <2>2. ArraysInv'
      BY <2>1 DEF SequenceInv, ArraysInv, Arrays, NotLarge, Skipped
    <2>3. TurnsInv'  BY <2>1 DEF SequenceInv, TurnsInv
    <2> QED BY <2>1, <2>2, <2>3, SkipKeepsOrder DEF SequenceInv
  <1> QED BY <1>1, <1>2, <1>3, <1>4, GuardOrder, LargeOrder, ObjectOrder DEF PEI

LEMMA StutterSequence == SequenceInv /\ UNCHANGED vars => SequenceInv'
  BY DEF vars, funcVars, bodyVars, afiVars, peiVars, flagVars, SequenceInv,
         KindsInv, TurnsInv, ArraysInv, OrderInv, First, Arrays, NotLarge,
         Skipped, Lo, Hi

\* The loops place what they are for, in their order, and nothing else.
THEOREM SequenceCorrect == Spec => []SequenceInv
  <1>1. TypeOK /\ LayoutInv /\ SequenceInv /\ [Next]_vars => SequenceInv'
    BY SelectionKinds, RegAllocKinds, PEIKinds, EarlyStepsOrder, PEIOrder, StutterSequence
    DEF Next, Finished, SequenceInv
  <1> QED BY InitSequence, TypeCorrect, LayoutCorrect, <1>1, PTL DEF Spec

\* PEI::calculateFrameObjectOffsets gives an object its offset once: no later
\* loop moves a placed object, for any mix of objects.
THEOREM PlacedForGood == Spec => PlacedOnce
  <1> DEFINE Kept == \A k \in placed : /\ k \in placed'
                                       /\ objs'[k].offset = objs[k].offset
  <1>1. ASSUME TypeOK, LayoutInv, SequenceInv, [Next]_vars PROVE Kept
    <2> USE DEF Goto, funcVars, bodyVars, afiVars, peiVars, flagVars
    <2>1. Len(objs) \in Nat /\ placed \subseteq 1 .. Len(objs)
      BY <1>1 DEF TypeOK, ObjsTypeOK, LoopTypeOK
    <2>2. ASSUME NEW k \in 1 .. Len(objs), k \notin placed, Allocate(k)
          PROVE  Kept
      BY <1>1, <2>1, <2>2, AllocateType
    <2>3. CASE Selection \/ RegAlloc
      <3>1. pc \notin Loops
        BY <2>3 DEF Selection, CreateStackObject, LowerFormalArguments, LowerCall,
           getReturnAddressFrameIndex, DynamicStackAlloc, StackAligningInlineAsm,
           StackProtector, FinishSelection, RegAlloc, CreateSpillStackObject,
           RemoveStackObject, Loops
      <3> QED BY <1>1, <3>1 DEF LayoutInv, GeometryInv
    <2>4. CASE \/ calculateCallsInformation
               \/ \E n \in CalleeSaved : calculateCalleeSavedRegisters(n)
               \/ SkipFixedObject
      <3>1. pc \notin Loops
        BY <2>4 DEF calculateCallsInformation, calculateCalleeSavedRegisters,
                    SkipFixedObject, Loops
      <3> QED BY <1>1, <3>1 DEF LayoutInv, GeometryInv
    <2>5. CASE AllocateCalleeSaved
      <3>1. /\ placed \subseteq minCS .. i - 1 /\ i \in minCS .. maxCS + 1
            /\ minCS \in Nat /\ maxCS \in 0 .. Len(objs) /\ minCS >= 1
        BY <1>1, <2>5 DEF AllocateCalleeSaved, SequenceInv, TurnsInv, TypeOK, LoopTypeOK
      <3>2. i <= maxCS => i \in 1 .. Len(objs) /\ i \notin placed
        BY <2>1, <3>1
      <3> QED BY <2>2, <2>5, <3>2 DEF AllocateCalleeSaved
    <2>6. CASE AllocateGuard
      <3>1. guard > 0 => guard \in 1 .. Len(objs) /\ guard \notin placed
        BY <1>1, <2>6 DEF AllocateGuard, SequenceInv, TurnsInv, KindsInv, TypeOK, ObjsTypeOK
      <3> QED BY <2>2, <2>6, <3>1 DEF AllocateGuard
    <2>7. CASE AllocateLarge
      <3>1. /\ i \in 1 .. Len(objs) + 1 /\ guard > 0 /\ large = Arrays(i - 1)
            /\ placed \subseteq First \cup large
        BY <1>1, <2>7 DEF AllocateLarge, SequenceInv, TurnsInv, ArraysInv, TypeOK, LoopTypeOK
      <3>2. large \subseteq 1 .. i - 1
        BY <3>1 DEF Arrays
      <3>3. i <= Len(objs) /\ ~NotLarge(i) => i \in 1 .. Len(objs) /\ i \notin placed
        BY <2>1, <3>1, <3>2 DEF NotLarge, Skipped, First
      <3> QED BY <2>2, <2>7, <3>3 DEF AllocateLarge
    <2>8. CASE AllocateObject
      <3>1. /\ i \in 1 .. Len(objs) + 1
            /\ placed \subseteq First \cup large \cup 1 .. i - 1
        BY <1>1, <2>8 DEF AllocateObject, SequenceInv, TurnsInv, TypeOK, LoopTypeOK
      <3>2. i <= Len(objs) /\ ~AlreadyPlaced(i) => i \in 1 .. Len(objs) /\ i \notin placed
        BY <2>1, <3>1 DEF AlreadyPlaced, Skipped, First
      <3> QED BY <2>2, <2>8, <3>2 DEF AllocateObject
    <2>9. CASE SetStackSize \/ Finished \/ UNCHANGED vars
      BY <2>9 DEF SetStackSize, Finished, vars
    <2> QED BY <1>1, <2>3, <2>4, <2>5, <2>6, <2>7, <2>8, <2>9 DEF Next, PEI
  <1>2. TypeOK /\ LayoutInv /\ SequenceInv /\ [Next]_vars => [Kept]_vars
    BY <1>1
  <1>3. Spec => [][Kept]_vars
    BY <1>2, TypeCorrect, LayoutCorrect, SequenceCorrect, PTL DEF Spec
  <1> QED BY <1>3 DEF PlacedOnce

\* In a function with a stack guard every array lies above every object that is
\* not one and below the guard, whatever was created in which order
\* (StackProtectorIndex and LargeStackObjs in calculateFrameObjectOffsets).
THEOREM GuardThenArrays == Spec => []ArraysNextToGuard
  <1>1. TypeOK /\ LayoutInv /\ SequenceInv => ArraysNextToGuard
    <2> SUFFICES ASSUME TypeOK, LayoutInv, SequenceInv, pc = "done", guard > 0,
                        NEW k \in Live \ minCS .. maxCS, NEW l \in Live \ minCS .. maxCS
                 PROVE  /\ k # guard => Hi(k) <= Lo(guard)
                        /\ (k # guard /\ l # guard /\ objs[k].mayNeedSP /\ ~objs[l].mayNeedSP)
                              => Hi(l) <= Lo(k)
      BY DEF ArraysNextToGuard
    <2>1. k \in placed /\ l \in placed
      BY DEF LayoutInv, StagesInv
    <2>2. large = {a \in 1 .. Len(objs) : ~NotLarge(a)}
      BY DEF SequenceInv, ArraysInv, Arrays
    <2>3. k # guard => Hi(k) <= Lo(guard)
      BY <2>1 DEF SequenceInv, OrderInv, First
    <2>4. ASSUME k # guard, l # guard, objs[k].mayNeedSP, ~objs[l].mayNeedSP
          PROVE  Hi(l) <= Lo(k)
      <3>1. k \in large
        BY <2>2, <2>4 DEF NotLarge, Skipped, Live
      <3>2. l \notin large /\ l \notin First
        BY <2>2, <2>4 DEF NotLarge, First
      <3> QED BY <2>1, <3>1, <3>2 DEF SequenceInv, OrderInv
    <2> QED BY <2>3, <2>4
  <1> QED BY <1>1, TypeCorrect, LayoutCorrect, SequenceCorrect, PTL
-----------------------------------------------------------------------------
\* What eliminateFrameIndex() leaves in an instruction reaches the address that
\* it computed, and a store's displacement fits, for every offset.
LEMMA EliminatedAddress ==
    ASSUME NEW f, NEW fi, NEW imm, NEW st \in BOOLEAN, FrameOffset(f, fi, imm) \in Int
    PROVE  LET e == EliminateFrameIndex(f, fi, imm, st)
           IN  /\ e.moved + e.disp = FrameOffset(f, fi, imm)
               /\ st => FitsInt9(e.disp)
  <1> DEFINE o == FrameOffset(f, fi, imm)
             d == IF o > 255 THEN o - 255 ELSE o + 256
  <1>1. o \in Int  OBVIOUS
  <1> HIDE DEF o
  <1>2. CASE st /\ ~FitsInt9(o)
    <2>1. d \in Int /\ o - d \in -256 .. 255 /\ d + (o - d) = o
      BY <1>1, <1>2 DEF FitsInt9
    <2>2. EliminateFrameIndex(f, fi, imm, st) = [base |-> "T4", moved |-> d, disp |-> o - d]
      BY <1>2 DEF EliminateFrameIndex, o
    <2> QED BY <2>1, <2>2 DEF FitsInt9, o
  <1>3. CASE ~(st /\ ~FitsInt9(o))
    <2>1. EliminateFrameIndex(f, fi, imm, st) = [base |-> "FP", moved |-> 0, disp |-> o]
      BY <1>3 DEF EliminateFrameIndex, o
    <2> QED BY <1>1, <1>3, <2>1 DEF o
  <1> QED BY <1>2, <1>3

\* After frame-index elimination every byte of every live object is reached at its
\* own address, however large the frame (ARCompactRegisterInfo::eliminateFrameIndex).
THEOREM FrameIndexesEliminated == Spec => []FrameIndexEncodable
  <1>1. TypeOK => FrameIndexEncodable
    <2> SUFFICES ASSUME TypeOK, NEW k \in Live, NEW imm \in 0 .. objs[k].size - 1,
                        NEW st \in BOOLEAN
                 PROVE  LET e == EliminateFrameIndex(Frame, k - 1, imm, st)
                        IN  /\ e.moved + e.disp = Lo(k) + imm
                            /\ st => FitsInt9(e.disp)
      BY DEF FrameIndexEncodable
    <2>1. k \in 1 .. Len(objs) /\ objs[k].size \in Nat /\ Lo(k) \in Int
      BY ObjectFields DEF Live
    <2>2. FrameOffset(Frame, k - 1, imm) = Lo(k) + imm
      BY <2>1 DEF FrameOffset, ObjectOffset, Frame, Lo
    <2> QED BY <2>1, <2>2, EliminatedAddress
  <1> QED BY <1>1, TypeCorrect, PTL

(***************************************************************************)
(* The fixed objects of a frame describe the caller's words: the incoming  *)
(* stack arguments, the register save area of a variadic function and the  *)
(* saved return address, for every number of named arguments.  ArgsInv     *)
(* says which fixed object is which; the selection passes only append.     *)
(*                                                                         *)
(* Then the closed form of a frame of words, WordFrame: PackedInv follows  *)
(* Offset through the loops, where no alignment ever leaves a gap.         *)
(***************************************************************************)
\* How many named arguments are passed on the stack.
OnStack == named - FirstUnallocated(named)

ArgsInv ==
    /\ pc = "allocas" => fixed = <<>> /\ vaSize = 0 /\ vaFI = 0 /\ raFI = 0
    /\ pc \notin {"allocas", "abort"} =>
         /\ OnStack <= Len(fixed)
         /\ \A j \in 1 .. OnStack : fixed[j].offset = 4 * (j - 1)
         /\ isVarArg => /\ vaSize = VARegSize(named) /\ vaFI = - (OnStack + 1)
                        /\ OnStack + 1 <= Len(fixed)
                        /\ fixed[OnStack + 1].offset = VarArgsOffset(named)
         /\ ~isVarArg => vaSize = 0 /\ vaFI = 0
         /\ raFI # 0 => /\ - raFI \in 1 .. Len(fixed) /\ raFI # vaFI
                        /\ fixed[- raFI].offset = -4

LEMMA OnStackType == TypeOK => named \in Nat /\ OnStack \in Nat
  BY SaveAreaExact, CountsAssumption DEF TypeOK, FuncTypeOK, OnStack

LEMMA LowerFormalArgumentsArgs ==
    TypeOK /\ ArgsInv /\ LowerFormalArguments => ArgsInv'
  <1> SUFFICES ASSUME TypeOK, ArgsInv, LowerFormalArguments PROVE ArgsInv'
    OBVIOUS
  <1> USE DEF LowerFormalArguments, Goto, funcVars, bodyVars, afiVars, peiVars,
              flagVars
  <1> DEFINE args == StackArgs(named)
  <1>1. /\ named \in Nat /\ OnStack \in Nat /\ args \in Seq(FixedObjects)
        /\ Len(args) = OnStack
        /\ \A j \in 1 .. OnStack : args[j].offset = 4 * (j - 1)
    <2>1. named \in Nat /\ OnStack \in Nat  BY ONLY TypeOK, OnStackType
    <2>2. /\ args \in Seq(FixedObjects) /\ Len(args) = OnStack
          /\ \A j \in 1 .. OnStack : args[j] = FixedObject(4, 4 * (j - 1))
      BY ONLY <2>1, StackArgsType DEF OnStack
    <2> HIDE DEF args
    <2> QED BY ONLY <2>1, <2>2 DEF FixedObject
  <1>2. /\ raFI' = 0 /\ vaSize = 0 /\ vaFI = 0
        /\ OnStack' = OnStack /\ VarArgsOffset(named)' = VarArgsOffset(named)
        /\ VARegSize(named)' = VARegSize(named) /\ pc' # "allocas"
    BY DEF ArgsInv, OnStack, VarArgsOffset
  <1>3. VARegSaveSize(named) = VARegSize(named) /\ VARegSize(named) \in Nat
    <2>1. named \in Nat  BY <1>1
    <2> QED BY ONLY <2>1, SaveAreaExact
  <1>4. VarArgsOffset(named) \in Int
    <2>1. named \in Nat  BY <1>1
    <2>2. NextStackOffset(named) \in Int
      BY ONLY <2>1, SaveAreaExact
    <2> QED BY ONLY <1>3, <2>2 DEF VarArgsOffset
  <1> HIDE DEF args
  <1>5. CASE ~isVarArg
    <2>1. fixed' = args /\ vaSize' = 0 /\ vaFI' = 0 /\ isVarArg' = isVarArg
      BY <1>2, <1>5 DEF args
    <2> QED BY <1>1, <1>2, <1>5, <2>1 DEF ArgsInv
  <1>6. CASE isVarArg /\ pc' # "abort"
    <2> DEFINE area == FixedObject(vaSize', VarArgsOffset(named))
    <2>1. /\ fixed' = Append(args, area) /\ vaFI' = - Len(fixed')
          /\ vaSize' = VARegSize(named) /\ isVarArg'
      BY <1>3, <1>6 DEF args
    <2>2. area \in FixedObjects /\ area.offset = VarArgsOffset(named)
      BY <1>3, <1>4, <2>1, ObjectTypes DEF FixedObject
    <2> HIDE DEF area
    <2>3. /\ Len(fixed') = OnStack + 1 /\ fixed'[OnStack + 1] = area
          /\ \A j \in 1 .. OnStack : fixed'[j] = args[j]
      BY ONLY <1>1, <2>1, <2>2
    <2> QED BY <1>1, <1>2, <2>1, <2>2, <2>3 DEF ArgsInv
  <1>7. CASE pc' = "abort"
    BY <1>7 DEF ArgsInv
  <1> QED BY <1>5, <1>6, <1>7

LEMMA ReturnAddressArgs ==
    TypeOK /\ ArgsInv /\ getReturnAddressFrameIndex => ArgsInv'
  <1> SUFFICES ASSUME TypeOK, ArgsInv, getReturnAddressFrameIndex
               PROVE  ArgsInv'
    OBVIOUS
  <1> DEFINE word == ReturnAddressSlot
  <1>1. /\ fixed' = Append(fixed, word) /\ raFI' = - Len(fixed')
        /\ UNCHANGED <<named, isVarArg, vaSize, vaFI>>
        /\ pc = "select" /\ pc' = "select"
    BY DEF getReturnAddressFrameIndex, funcVars
  <1>2. word \in FixedObjects /\ word.offset = -4
    BY ObjectTypes DEF ReturnAddressSlot, FixedObject, UNITS_PER_WORD
  <1> HIDE DEF word
  <1>3. fixed \in Seq(FixedObjects)  BY DEF TypeOK, ObjsTypeOK
  <1>4. /\ Len(fixed') = Len(fixed) + 1 /\ fixed'[Len(fixed) + 1] = word
        /\ \A j \in 1 .. Len(fixed) : fixed'[j] = fixed[j]
        /\ Len(fixed) \in Nat
    BY ONLY <1>1, <1>2, <1>3
  <1>5. /\ OnStack' = OnStack /\ OnStack \in Nat
        /\ VarArgsOffset(named)' = VarArgsOffset(named) /\ VARegSize(named)' = VARegSize(named)
    BY <1>1, OnStackType DEF OnStack, VarArgsOffset
  <1>6. /\ OnStack <= Len(fixed)
        /\ \A j \in 1 .. OnStack : fixed[j].offset = 4 * (j - 1)
        /\ isVarArg => /\ vaSize = VARegSize(named) /\ vaFI = - (OnStack + 1)
                       /\ OnStack + 1 <= Len(fixed)
                       /\ fixed[OnStack + 1].offset = VarArgsOffset(named)
        /\ ~isVarArg => vaSize = 0 /\ vaFI = 0
    BY <1>1 DEF ArgsInv
  <1>7. /\ - raFI' \in 1 .. Len(fixed') /\ raFI' # vaFI'
        /\ fixed'[- raFI'].offset = -4
    <2>1. - raFI' = Len(fixed) + 1  BY ONLY <1>1, <1>4
    <2>2. vaFI = 0 \/ vaFI = - (OnStack + 1)
      BY <1>6 DEF TypeOK, FuncTypeOK
    <2>3. raFI' # vaFI'
      BY ONLY <1>1, <1>4, <1>5, <1>6, <2>1, <2>2
    <2> QED BY <1>2, <1>4, <2>1, <2>3
  <1>8. /\ OnStack' <= Len(fixed')
        /\ \A j \in 1 .. OnStack' : fixed'[j].offset = 4 * (j - 1)
    BY <1>4, <1>5, <1>6
  <1>9. isVarArg' => /\ vaSize' = VARegSize(named)' /\ vaFI' = - (OnStack' + 1)
                     /\ OnStack' + 1 <= Len(fixed')
                     /\ fixed'[OnStack' + 1].offset = VarArgsOffset(named)'
    BY <1>1, <1>4, <1>5, <1>6
  <1> QED BY <1>1, <1>6, <1>7, <1>8, <1>9 DEF ArgsInv

\* Every other step leaves the fixed objects alone.
LEMMA OtherStepsKeepArgs ==
    ASSUME ArgsInv, UNCHANGED <<named, isVarArg, fixed, vaSize, vaFI, raFI>>,
           pc' = "allocas" => pc = "allocas",
           pc' # "allocas" => pc \notin {"allocas", "abort"}
    PROVE  ArgsInv'
  BY DEF ArgsInv, OnStack, VarArgsOffset

LEMMA NextArgs == TypeOK /\ ArgsInv /\ [Next]_vars => ArgsInv'
  <1> SUFFICES ASSUME TypeOK, ArgsInv, [Next]_vars PROVE ArgsInv'
    OBVIOUS
  <1> USE DEF Goto, funcVars, bodyVars, afiVars, peiVars, flagVars
  <1>1. CASE UNCHANGED vars
    BY <1>1 DEF vars, ArgsInv, OnStack, VarArgsOffset
  <1>2. CASE Selection
    <2>1. CASE LowerFormalArguments
      BY <2>1, LowerFormalArgumentsArgs
    <2>2. CASE getReturnAddressFrameIndex
      BY <2>2, ReturnAddressArgs
    <2>3. CASE ~LowerFormalArguments /\ ~getReturnAddressFrameIndex
      <3>1. /\ UNCHANGED <<named, isVarArg, fixed, vaSize, vaFI, raFI>>
            /\ pc' = "allocas" => pc = "allocas"
            /\ pc' # "allocas" => pc = "select"
        BY <1>2, <2>3
        DEF Selection, CreateStackObject, LowerCall, DynamicStackAlloc,
            StackAligningInlineAsm, StackProtector, FinishSelection
      <3> QED BY <3>1, OtherStepsKeepArgs
    <2> QED BY <2>1, <2>2, <2>3
  <1>3. CASE RegAlloc \/ PEI
    <2>1. /\ UNCHANGED <<named, isVarArg, fixed, vaSize, vaFI, raFI>>
          /\ pc' # "allocas" /\ pc \notin {"allocas", "abort"}
      BY <1>3
      DEF RegAlloc, CreateSpillStackObject, RemoveStackObject, PEI,
          calculateCallsInformation, calculateCalleeSavedRegisters,
          SkipFixedObject, AllocateCalleeSaved, AllocateGuard, AllocateLarge,
          AllocateObject, SetStackSize
    <2> QED BY <2>1, OtherStepsKeepArgs
  <1>4. CASE Finished
    BY <1>1, <1>4 DEF Finished
  <1> QED BY <1>1, <1>2, <1>3, <1>4 DEF Next

THEOREM ArgsCorrect == Spec => []ArgsInv
  <1>1. Init => ArgsInv  BY DEF Init, ArgsInv
  <1> QED BY <1>1, NextArgs, TypeCorrect, PTL DEF Spec
-----------------------------------------------------------------------------
\* A fixed object other than the save area is addressed above the saved words.
LEMMA FixedFrameOffset ==
    ASSUME NEW j \in Nat, j # 0
    PROVE  FrameOffset(Frame, - j, 0) =
              fixed[j].offset + 0 + (IF - j # vaFI THEN SavedBytes(Frame) ELSE 0)
  BY DEF FrameOffset, ObjectOffset, Frame

LEMMA FrameFields ==
    /\ SavedBytes(Frame) = 4 + (IF hasCalls THEN 4 ELSE 0)
    /\ EntrySP(Frame) = SavedBytes(Frame) + vaSize
  BY DEF SavedBytes, EntrySP, Frame, UNITS_PER_WORD

\* A named argument passed on the stack is read where the caller stored it,
\* for every number of arguments and every shape of the frame.
THEOREM StackArgumentsFound == Spec => []IncomingArgs
  <1>1. TypeOK /\ ArgsInv => IncomingArgs
    <2> SUFFICES ASSUME TypeOK, ArgsInv, pc = "done",
                        NEW a \in NumArgRegs + 1 .. named
                 PROVE  FrameOffset(Frame, NumArgRegs - a, 0)
                           = EntrySP(Frame) + LocMemOffset(a)
      BY DEF IncomingArgs
    <2>1. named \in Nat /\ OnStack \in Nat  BY OnStackType
    <2>2. a - 8 \in 1 .. OnStack /\ named > 8 /\ OnStack = named - 8
      BY ONLY <2>1 DEF OnStack, FirstUnallocated, NumArgRegs
    <2>3. fixed[a - 8].offset = 4 * (a - 9)
      BY <2>2 DEF ArgsInv
    <2>4. vaSize = 0 /\ vaFI \in {0, - (OnStack + 1)}
      <3>1. VARegSize(named) = 0
        BY ONLY <2>1, <2>2 DEF VARegSize, FirstUnallocated, NumArgRegs,
                               UNITS_PER_WORD
      <3> QED BY <3>1 DEF ArgsInv, TypeOK, FuncTypeOK
    <2>5. - (a - 8) # vaFI  BY <2>1, <2>2, <2>4
    <2>6. FrameOffset(Frame, - (a - 8), 0)
             = fixed[a - 8].offset + SavedBytes(Frame)
      <3>1. a - 8 \in Nat /\ a - 8 # 0  BY <2>1, <2>2
      <3> QED BY <2>3, <2>5, <3>1, FixedFrameOffset
    <2>7. NumArgRegs - a = - (a - 8)  BY <2>2 DEF NumArgRegs
    <2>8. LocMemOffset(a) = 4 * (a - 9)
      BY <2>2 DEF LocMemOffset, NumArgRegs, UNITS_PER_WORD
    <2>9. EntrySP(Frame) = SavedBytes(Frame) /\ SavedBytes(Frame) \in Int
      BY <2>4, FrameFields
    <2> QED BY <2>2, <2>3, <2>6, <2>7, <2>8, <2>9
  <1> QED BY <1>1, TypeCorrect, ArgsCorrect, PTL

\* __builtin_return_address(0) of a function that makes calls reads the word
\* the prologue pushed BLINK to, just above the saved FP.
THEOREM ReturnAddressFound == Spec => []ReturnAddressInCallers
  <1>1. TypeOK /\ ArgsInv => ReturnAddressInCallers
    <2> SUFFICES ASSUME TypeOK, ArgsInv, pc = "done", raFI # 0, hasCalls
                 PROVE  FrameOffset(Frame, raFI, 0) = UNITS_PER_WORD
      BY DEF ReturnAddressInCallers
    <2> DEFINE j == - raFI
    <2>1. raFI \in Int  BY DEF TypeOK, SizesTypeOK
    <2>2. /\ j \in 1 .. Len(fixed) /\ raFI # vaFI /\ fixed[j].offset = -4
      BY DEF ArgsInv
    <2>3. raFI = - j /\ j \in Nat /\ j # 0  BY <2>1, <2>2
    <2> HIDE DEF j
    <2>4. FrameOffset(Frame, - j, 0) = -4 + 0 + SavedBytes(Frame)
      BY <2>2, <2>3, FixedFrameOffset
    <2> QED BY <2>3, <2>4, FrameFields DEF UNITS_PER_WORD
  <1> QED BY <1>1, TypeCorrect, ArgsCorrect, PTL

\* A variadic function that makes calls finds every variable argument: the
\* walk from the save area continues into the caller's stack words.
THEOREM VariableArgumentsFound == Spec => []VarArgsInCallers
  <1>1. TypeOK /\ ArgsInv => VarArgsInCallers
    <2> SUFFICES ASSUME TypeOK, ArgsInv, pc = "done", isVarArg, hasCalls
                 PROVE  VarArgsWalk
      BY DEF VarArgsInCallers
    <2> DEFINE F == FirstUnallocated(named)
               start == FrameOffset(Frame, vaFI, 0)
    <2>1. /\ named \in Nat /\ OnStack \in Nat /\ OnStack = named - F
          /\ F \in 0 .. 8 /\ (named > 8 => F = 8) /\ (named <= 8 => F = named)
      <3>1. named \in Nat /\ OnStack \in Nat  BY OnStackType
      <3> QED BY ONLY <3>1, SaveAreaExact DEF OnStack
    <2>2. vaSize = 4 * (8 - F) /\ VarArgsOffset(named) = 4 * (named - F) + 8
      <3>1. named \in Nat  BY <2>1
      <3>2. /\ VARegSize(named) = 4 * (8 - F)
            /\ VARegSaveSize(named) = VARegSize(named)
            /\ NextStackOffset(named) = 4 * (named - F)
        BY ONLY <3>1, SaveAreaExact
      <3>3. VarArgsOffset(named) = 4 * (named - F) + 8
        BY <2>1, <3>2 DEF VarArgsOffset
      <3> QED BY <3>2, <3>3 DEF ArgsInv
    <2>3. start = VarArgsOffset(named)
      <3>1. vaFI = - (OnStack + 1) /\ fixed[OnStack + 1].offset = VarArgsOffset(named)
        BY DEF ArgsInv
      <3>2. OnStack + 1 \in Nat /\ OnStack + 1 # 0  BY <2>1
      <3>3. start = fixed[OnStack + 1].offset + 0 + 0
        BY <3>1, <3>2, FixedFrameOffset
      <3>4. VarArgsOffset(named) \in Int  BY <2>1, <2>2
      <3> QED BY <3>1, <3>3, <3>4
    <2>4. EntrySP(Frame) = 8 + 4 * (8 - F)
      BY <2>1, <2>2, FrameFields
    <2> HIDE DEF F, start
    <2>5. start = 4 * (named - F) + 8  BY <2>2, <2>3
    <2>6. vaSize > 0 => start + vaSize <= EntrySP(Frame)
      BY <2>1, <2>2, <2>4, <2>5
    <2>7. ASSUME NEW a \in named + 1 .. named + NumArgRegs + 1
          PROVE  start + UNITS_PER_WORD * (a - named - 1) = VarArgPlace(a)
      <3>1. a \in Nat /\ a > named  BY <2>1 DEF NumArgRegs
      <3>2. CASE a <= 8
        <4>1. VarArgPlace(a) = EntrySP(Frame) - 4 * (9 - a)
          BY <3>1, <3>2 DEF VarArgPlace, NumArgRegs, UNITS_PER_WORD
        <4> QED BY <2>1, <2>4, <2>5, <3>1, <3>2, <4>1 DEF UNITS_PER_WORD
      <3>3. CASE ~(a <= 8)
        <4>1. VarArgPlace(a) = EntrySP(Frame) + 4 * (a - 9)
          BY <3>1, <3>3
          DEF VarArgPlace, LocMemOffset, NumArgRegs, UNITS_PER_WORD
        <4> QED BY <2>1, <2>4, <2>5, <3>1, <3>3, <4>1 DEF UNITS_PER_WORD
      <3> QED BY <3>2, <3>3
    <2> QED BY <2>6, <2>7 DEF VarArgsWalk, start
  <1> QED BY <1>1, TypeCorrect, ArgsCorrect, PTL

\* A function with calls finds every word of its caller's frame, and its return
\* address, whatever the number of arguments (eliminateFrameIndex).
THEOREM CallersWordsAlwaysFound == Spec => []CallersWordsFound
  <1>1. IncomingArgs /\ VarArgsInCallers /\ ReturnAddressInCallers => CallersWordsFound
    BY DEF CallersWordsFound
  <1> QED BY <1>1, StackArgumentsFound, VariableArgumentsFound, ReturnAddressFound, PTL
-----------------------------------------------------------------------------
\* Callee-saved slots, the other objects, and those of them that are locals.
Slots == maxCS - minCS + 1
Rest == Len(objs) - Slots
Locals == Rest - (IF hasVarSized THEN 1 ELSE 0)
SmallerOf(a, b) == IF a <= b THEN a ELSE b

\* The fixed objects of a function that does not ask for its return address.
FixedInv ==
    (pc \notin {"allocas", "abort"} /\ raFI = 0) =>
        fixed = StackArgs(named) \o
            (IF isVarArg THEN <<FixedObject(VARegSaveSize(named), VarArgsOffset(named))>>
                         ELSE <<>>)

\* Calls pass whole words.
MultiplesInv == (\A n \in callSeqs : n % 4 = 0) /\ maxCallFrame % 4 = 0

\* The callee-saved slots come last, and the frame's alignment is the largest.
ObjectsInv ==
    /\ \A k \in 1 .. Len(objs) : objs[k].align <= maxAlign
    /\ \A k \in minCS .. maxCS : objs[k].size = 4
    /\ Slots = 0 \/ maxCS = Len(objs)
    /\ pc \in {"allocas", "select", "regalloc", "csr"} => Slots = 0
    /\ hasVarSized => Rest >= 1

\* The frames that WordFrame describes, and where it puts object k.
WordCase ==
    /\ guard = 0 /\ dead = {} /\ raFI = 0 /\ maxAlign <= 4
    /\ \A k \in 1 .. Locals : objs[k].size = 4
    /\ hasVarSized => objs[Locals + 1].size = 0
Place(k) == IF k > Rest THEN -4 * (k - Rest)
            ELSE -4 * (Slots + SmallerOf(k, Locals))
Reserved == IF adjustsStack /\ ~hasFP THEN maxCallFrame ELSE 0

PackedInv ==
    WordCase =>
        /\ pc = "fixed" => offset = 0
        /\ pc = "csrslots" => /\ offset = 4 * (i - minCS)
                              /\ \A k \in minCS .. i - 1 : objs[k].offset = Place(k)
        /\ pc \in {"guard", "objects"} => \A k \in minCS .. maxCS : objs[k].offset = Place(k)
        /\ pc = "guard" => offset = 4 * Slots
        /\ pc = "objects" => /\ offset = 4 * (Slots + SmallerOf(i - 1, Locals))
                             /\ \A k \in 1 .. i - 1 : objs[k].offset = Place(k)
        /\ pc \in {"size", "done"} => \A k \in 1 .. Len(objs) : objs[k].offset = Place(k)
        /\ pc = "size" => offset = 4 * (Slots + Locals)
        /\ pc = "done" => stackSize = 4 * (Slots + Locals) + Reserved

WordInv == FixedInv /\ MultiplesInv /\ ObjectsInv /\ PackedInv

\* Words need no padding where nothing is aligned to more than a word.
LEMMA RoundUpWord ==
    ASSUME NEW x \in Nat, NEW a \in {1, 2, 4}
    PROVE  RoundUp(4 * x, a) = 4 * x
  <1>1. CASE a = 1  BY <1>1 DEF RoundUp
  <1>2. CASE a = 2  BY <1>2 DEF RoundUp
  <1>3. CASE a = 4  BY <1>3 DEF RoundUp
  <1> QED BY <1>1, <1>2, <1>3

\* The numbers of objects are natural numbers.
LEMMA CountTypes ==
    TypeOK /\ ObjectsInv => /\ Slots \in Nat /\ Rest \in Nat /\ Locals \in Nat
                            /\ Locals <= Rest /\ Len(objs) \in Nat
                            /\ Locals + (IF hasVarSized THEN 1 ELSE 0) = Rest
                            /\ \A k \in 1 .. Len(objs) : k \in minCS .. maxCS <=> k > Rest
  <1> SUFFICES ASSUME TypeOK, ObjectsInv
               PROVE  /\ Slots \in Nat /\ Rest \in Nat /\ Locals \in Nat
                      /\ Locals <= Rest /\ Len(objs) \in Nat
                      /\ Locals + (IF hasVarSized THEN 1 ELSE 0) = Rest
                      /\ \A k \in 1 .. Len(objs) : k \in minCS .. maxCS <=> k > Rest
    OBVIOUS
  <1>1. /\ Len(objs) \in Nat /\ minCS \in 1 .. Len(objs) + 1 /\ maxCS \in 0 .. Len(objs)
        /\ minCS <= maxCS + 1
    BY DEF TypeOK, ObjsTypeOK, LoopTypeOK
  <1>2. /\ Slots = 0 \/ maxCS = Len(objs)
        /\ hasVarSized => Rest >= 1
    BY DEF ObjectsInv
  <1>3. Slots \in Nat /\ Rest \in Nat
    BY ONLY <1>1 DEF Slots, Rest
  <1>4. Locals \in Nat /\ Locals <= Rest /\ Locals + (IF hasVarSized THEN 1 ELSE 0) = Rest
    BY ONLY <1>2, <1>3 DEF Locals
  <1>5. \A k \in 1 .. Len(objs) : k \in minCS .. maxCS <=> k > Rest
    BY ONLY <1>1, <1>2 DEF Slots, Rest
  <1> QED BY <1>1, <1>3, <1>4, <1>5

LEMMA InitWord == Init => WordInv
  BY DEF Init, WordInv, FixedInv, MultiplesInv, ObjectsInv, PackedInv, Slots, Rest

LEMMA NextFixed == TypeOK /\ ArgsInv /\ FixedInv /\ [Next]_vars => FixedInv'
  <1> SUFFICES ASSUME TypeOK, ArgsInv, FixedInv, [Next]_vars PROVE FixedInv'
    OBVIOUS
  <1> USE DEF Goto, funcVars, bodyVars, afiVars, peiVars, flagVars
  <1>1. ASSUME UNCHANGED <<named, isVarArg, fixed, raFI>>,
               pc' \notin {"allocas", "abort"} => pc \notin {"allocas", "abort"}
        PROVE  FixedInv'
    BY <1>1 DEF FixedInv
  <1>2. CASE UNCHANGED vars
    BY <1>1, <1>2 DEF vars
  <1>3. CASE LowerFormalArguments
    <2> DEFINE args == StackArgs(named)
               area == FixedObject(VARegSaveSize(named), VarArgsOffset(named))
    <2>1. /\ named' = named /\ isVarArg' = isVarArg
          /\ (isVarArg /\ pc' # "abort") => fixed' = Append(args, area)
          /\ ~isVarArg => fixed' = args
      BY <1>3 DEF LowerFormalArguments
    <2>2. named \in Nat /\ args \in Seq(FixedObjects)
      BY OnStackType, StackArgsType
    <2> HIDE DEF args, area
    <2>3. Append(args, area) = args \o <<area>> /\ args = args \o <<>>
      BY <2>2
    <2>4. /\ named' = named /\ isVarArg' = isVarArg
          /\ pc' # "abort" => fixed' = args \o (IF isVarArg THEN <<area>> ELSE <<>>)
      BY <2>1, <2>3
    <2> QED BY <2>4 DEF FixedInv, args, area
  <1>4. CASE getReturnAddressFrameIndex
    <2>1. Len(fixed') > 0
      BY <1>4, ObjectTypes DEF getReturnAddressFrameIndex, TypeOK, ObjsTypeOK
    <2> QED BY <1>4, <2>1 DEF getReturnAddressFrameIndex, FixedInv
  <1>5. CASE Selection /\ ~LowerFormalArguments /\ ~getReturnAddressFrameIndex
    BY <1>1, <1>5
    DEF Selection, CreateStackObject, LowerCall, DynamicStackAlloc,
        StackAligningInlineAsm, StackProtector, FinishSelection
  <1>6. CASE RegAlloc \/ PEI
    <2>1. UNCHANGED <<named, isVarArg, fixed, raFI>> /\ pc \notin {"allocas", "abort"}
      BY <1>6
      DEF RegAlloc, CreateSpillStackObject, RemoveStackObject, PEI,
          calculateCallsInformation, calculateCalleeSavedRegisters,
          SkipFixedObject, AllocateCalleeSaved, AllocateGuard, AllocateLarge,
          AllocateObject, SetStackSize
    <2> QED BY <1>1, <2>1
  <1> QED BY <1>2, <1>3, <1>4, <1>5, <1>6 DEF Next, Finished

LEMMA NextMultiples == TypeOK /\ MultiplesInv /\ [Next]_vars => MultiplesInv'
  <1> SUFFICES ASSUME TypeOK, MultiplesInv, [Next]_vars PROVE MultiplesInv'
    OBVIOUS
  <1> USE DEF Goto, funcVars, bodyVars, afiVars, peiVars, flagVars
  <1>1. ASSUME NEW n \in CallCounts, LowerCall(n) PROVE MultiplesInv'
    <2>1. n \in Nat  BY CountsAssumption
    <2>2. NextStackOffset(n) % 4 = 0
      <3>1. n - FirstUnallocated(n) \in Nat /\ NextStackOffset(n) = 4 * (n - FirstUnallocated(n))
        BY <2>1, SaveAreaExact
      <3> QED BY <3>1
    <2> QED BY <1>1, <2>2 DEF LowerCall, MultiplesInv
  <1>2. CASE \E a \in ObjectAligns : DynamicStackAlloc(a)
    BY <1>2 DEF DynamicStackAlloc, MultiplesInv
  <1>3. CASE calculateCallsInformation
    BY <1>3 DEF calculateCallsInformation, MultiplesInv
  <1>4. ASSUME UNCHANGED <<callSeqs, maxCallFrame>> PROVE MultiplesInv'
    BY <1>4 DEF MultiplesInv
  <1>5. CASE Selection
    <2>1. \/ UNCHANGED <<callSeqs, maxCallFrame>>
          \/ \E n \in CallCounts : LowerCall(n)
          \/ \E a \in ObjectAligns : DynamicStackAlloc(a)
      BY <1>5
      DEF Selection, CreateStackObject, LowerFormalArguments, getReturnAddressFrameIndex,
          StackAligningInlineAsm, StackProtector, FinishSelection
    <2> QED BY <1>1, <1>2, <1>4, <2>1
  <1>6. CASE RegAlloc \/ PEI
    <2>1. UNCHANGED <<callSeqs, maxCallFrame>> \/ calculateCallsInformation
      BY <1>6
      DEF RegAlloc, CreateSpillStackObject, RemoveStackObject, PEI,
          calculateCalleeSavedRegisters, SkipFixedObject, AllocateCalleeSaved,
          AllocateGuard, AllocateLarge, AllocateObject, SetStackSize
    <2> QED BY <1>3, <1>4, <2>1
  <1>7. CASE Finished \/ UNCHANGED vars
    BY <1>4, <1>7 DEF Finished, vars
  <1> QED BY <1>5, <1>6, <1>7 DEF Next

\* Alignments are natural numbers.
LEMMA AlignsAreNat ==
    TypeOK => /\ maxAlign \in Nat
              /\ \A k \in 1 .. Len(objs) : objs[k].align \in Nat
  <1>1. \A x \in Objects : x.align \in Aligns  BY DEF Objects
  <1>2. TypeOK => /\ maxAlign \in Aligns \cup {0}
                  /\ \A k \in 1 .. Len(objs) : objs[k] \in Objects
    BY DEF TypeOK, ObjsTypeOK, LoopTypeOK
  <1>3. Aligns \cup {0} \subseteq Nat  BY AlignsArePowers
  <1> QED BY <1>1, <1>2, <1>3

\* An object is appended in the passes before the callee-saved slots are.
LEMMA AppendKeepsObjects ==
    ASSUME TypeOK, ObjectsInv, NEW o \in Objects, objs' = Append(objs, o),
           maxAlign' = MaxOf(maxAlign, o.align), UNCHANGED <<pc, minCS, maxCS>>,
           pc \in {"allocas", "select", "regalloc"}
    PROVE  ObjectsInv'
  <1>1. /\ Len(objs') = Len(objs) + 1 /\ Len(objs) \in Nat
        /\ \A k \in 1 .. Len(objs) : objs'[k] = objs[k]
        /\ objs'[Len(objs) + 1] = o
    BY AppendObject DEF TypeOK, ObjsTypeOK
  <1>2. /\ \A k \in 1 .. Len(objs) : objs[k].align \in Nat
        /\ o.align \in Nat /\ maxAlign \in Nat
    <2> DEFINE a == o.align
    <2>1. a \in Aligns  BY DEF Objects
    <2> HIDE DEF a
    <2>2. a \in Nat  BY ONLY <2>1, AlignsArePowers
    <2> QED BY <2>2, AlignsAreNat DEF a
  <1>3. maxAlign' >= maxAlign /\ maxAlign' >= o.align /\ maxAlign' \in Nat
    BY <1>2 DEF MaxOf
  <1>4. \A k \in 1 .. Len(objs') : objs'[k].align <= maxAlign'
    <2> SUFFICES ASSUME NEW k \in 1 .. Len(objs') PROVE objs'[k].align <= maxAlign'
      OBVIOUS
    <2>1. CASE k = Len(objs) + 1  BY <1>1, <1>2, <1>3, <2>1
    <2>2. CASE k # Len(objs) + 1
      <3>1. k \in 1 .. Len(objs)  BY <1>1, <2>2
      <3>2. objs[k].align <= maxAlign  BY <3>1 DEF ObjectsInv
      <3> QED BY <1>1, <1>2, <1>3, <3>1, <3>2
    <2> QED BY <2>1, <2>2
  <1>5. Slots = 0 /\ Slots' = 0 /\ Rest' = Len(objs) + 1 /\ Rest = Len(objs)
    BY <1>1 DEF ObjectsInv, Slots, Rest
  <1>6. minCS' .. maxCS' = {}
    BY <1>5 DEF Slots, TypeOK, LoopTypeOK
  <1> QED BY <1>1, <1>4, <1>5, <1>6 DEF ObjectsInv

\* The loops give objects offsets and the frame a larger alignment.
LEMMA LoopsKeepObjects ==
    ASSUME TypeOK, ObjectsInv, Len(objs') = Len(objs),
           \A k \in 1 .. Len(objs) : /\ objs'[k].align = objs[k].align
                                     /\ objs'[k].size = objs[k].size,
           maxAlign' \in Nat, maxAlign' >= maxAlign,
           UNCHANGED <<minCS, maxCS, hasVarSized>>,
           pc' \notin {"allocas", "select", "regalloc", "csr"} \/ pc' = pc
    PROVE  ObjectsInv'
  <1>1. minCS .. maxCS \subseteq 1 .. Len(objs)
    BY DEF TypeOK, LoopTypeOK, ObjsTypeOK
  <1>2. maxAlign \in Nat /\ \A k \in 1 .. Len(objs) : objs[k].align \in Nat
    BY AlignsAreNat
  <1>3. \A k \in 1 .. Len(objs') : objs'[k].align <= maxAlign'
    BY <1>2 DEF ObjectsInv
  <1>4. \A k \in minCS' .. maxCS' : objs'[k].size = 4
    BY <1>1 DEF ObjectsInv
  <1> QED BY <1>3, <1>4 DEF ObjectsInv, Slots, Rest

LEMMA NextObjects == TypeOK /\ LayoutInv /\ ObjectsInv /\ [Next]_vars => ObjectsInv'
  <1> SUFFICES ASSUME TypeOK, LayoutInv, ObjectsInv, [Next]_vars PROVE ObjectsInv'
    OBVIOUS
  <1> USE DEF Goto, funcVars, bodyVars, afiVars, peiVars, flagVars
  <1>1. /\ Len(objs) \in Nat /\ maxAlign \in Nat
        /\ \A k \in 1 .. Len(objs) : objs[k].align \in Nat
        /\ \A a, b \in Nat : MaxOf(a, b) \in Nat /\ MaxOf(a, b) >= a /\ MaxOf(a, b) >= b
    <2>1. Len(objs) \in Nat  BY DEF TypeOK, ObjsTypeOK
    <2>2. \A a, b \in Nat : MaxOf(a, b) \in Nat /\ MaxOf(a, b) >= a /\ MaxOf(a, b) >= b
      BY DEF MaxOf
    <2> QED BY <2>1, <2>2, AlignsAreNat
  <1>2. ASSUME UNCHANGED <<objs, minCS, maxCS, hasVarSized, maxAlign>>,
               pc' \in {"allocas", "select", "regalloc", "csr"} =>
                  pc \in {"allocas", "select", "regalloc", "csr"}
        PROVE  ObjectsInv'
    BY <1>2 DEF ObjectsInv, Slots, Rest
  <1>3. CASE Selection
    <2>1. ASSUME NEW s \in ObjectSizes, NEW a \in ObjectAligns,
                 NEW m \in BOOLEAN, CreateStackObject(s, a, m)
          PROVE  ObjectsInv'
      <3>1. Object(s, a, FALSE, m) \in Objects /\ Object(s, a, FALSE, m).align = a
        BY ObjectTypes DEF Object
      <3> QED BY <2>1, <3>1, AppendKeepsObjects DEF CreateStackObject
    <2>2. ASSUME NEW a \in ObjectAligns, DynamicStackAlloc(a)
          PROVE  ObjectsInv'
      <3> DEFINE b == IF a <= StackAlignment THEN 1 ELSE a
                 o == Object(0, b, FALSE, TRUE)
      <3>1. o \in Objects /\ o.align = b
        BY ObjectTypes DEF Object
      <3>2. /\ objs' = Append(objs, o) /\ maxAlign' = MaxOf(maxAlign, b)
            /\ UNCHANGED <<pc, minCS, maxCS>> /\ pc = "select"
        BY <2>2 DEF DynamicStackAlloc
      <3> HIDE DEF b, o
      <3> QED BY <3>1, <3>2, AppendKeepsObjects
    <2>3. CASE LowerFormalArguments \/ (\E n \in CallCounts : LowerCall(n))
               \/ getReturnAddressFrameIndex \/ StackAligningInlineAsm
               \/ FinishSelection \/ \E k \in 1 .. Len(objs) : StackProtector(k)
      BY <1>2, <2>3 DEF LowerFormalArguments, LowerCall, getReturnAddressFrameIndex,
         StackAligningInlineAsm, FinishSelection, StackProtector
    <2> QED BY <1>3, <2>1, <2>2, <2>3 DEF Selection
  <1>4. CASE RegAlloc
    <2>1. CASE CreateSpillStackObject
      <3>1. SpillSlot \in Objects /\ SpillSlot.align = StackAlignment
        BY ObjectTypes DEF SpillSlot, Object
      <3> QED BY <2>1, <3>1, AppendKeepsObjects DEF CreateSpillStackObject
    <2>2. CASE \E k \in 1 .. Len(objs) : RemoveStackObject(k)
      BY <1>2, <2>2 DEF RemoveStackObject
    <2> QED BY <1>4, <2>1, <2>2 DEF RegAlloc
  <1>5. CASE calculateCallsInformation
    BY <1>2, <1>5 DEF calculateCallsInformation
  <1>6. ASSUME NEW n \in CalleeSaved, calculateCalleeSavedRegisters(n)
        PROVE  ObjectsInv'
    <2>1. /\ Len(objs') = Len(objs) + n /\ n \in Nat
          /\ \A k \in 1 .. Len(objs) : objs'[k] = objs[k]
          /\ \A k \in Len(objs) + 1 .. Len(objs) + n : objs'[k] = SpillSlot
      <3>1. objs' = objs \o [k \in 1 .. n |-> SpillSlot] /\ n \in Nat
        BY <1>6, CountsAssumption DEF calculateCalleeSavedRegisters
      <3> QED BY ONLY <3>1, TypeOK, AppendSlots DEF TypeOK, ObjsTypeOK
    <2>2. Slots = 0 /\ Rest = Len(objs) /\ minCS \in Nat /\ maxCS \in Nat
      <3>1. Slots = 0  BY <1>6 DEF calculateCalleeSavedRegisters, ObjectsInv
      <3> QED BY <1>1, <3>1 DEF Rest, TypeOK, LoopTypeOK
    <2>3. SpillSlot.size = 4 /\ SpillSlot.align = 4 /\ StackAlignment = 4
      BY DEF SpillSlot, Object, UNITS_PER_WORD, StackAlignment
    <2>4. CASE n = 0
      <3>1. UNCHANGED <<minCS, maxCS, maxAlign, hasVarSized>> /\ pc' = "fixed"
        BY <1>6, <2>4 DEF calculateCalleeSavedRegisters
      <3>2. \A k \in 1 .. Len(objs) : objs'[k] = objs[k]  BY <2>1
      <3>3. Len(objs') = Len(objs)  BY ONLY <1>1, <2>1, <2>4
      <3>4. maxAlign' \in Nat /\ maxAlign' >= maxAlign  BY ONLY <1>1, <3>1
      <3> QED BY ONLY TypeOK, ObjectsInv, <3>1, <3>2, <3>3, <3>4, LoopsKeepObjects
    <2>5. CASE n # 0
      <3>1. /\ minCS' = Len(objs) + 1 /\ maxCS' = Len(objs) + n /\ pc' = "fixed"
            /\ maxAlign' = MaxOf(maxAlign, 4) /\ hasVarSized' = hasVarSized
        BY <1>6, <2>3, <2>5 DEF calculateCalleeSavedRegisters
      <3>2. maxAlign' \in Nat /\ maxAlign' >= maxAlign /\ maxAlign' >= 4
        BY <1>1, <3>1
      <3>3. \A k \in 1 .. Len(objs') : objs'[k].align <= maxAlign'
        <4> SUFFICES ASSUME NEW k \in 1 .. Len(objs') PROVE objs'[k].align <= maxAlign'
          OBVIOUS
        <4>1. CASE k \in 1 .. Len(objs)
          <5>1. objs[k].align <= maxAlign  BY <4>1 DEF ObjectsInv
          <5> DEFINE a == objs[k].align
          <5>2. a \in Nat /\ a <= maxAlign  BY <1>1, <4>1, <5>1
          <5>3. objs'[k].align = a  BY <2>1, <4>1
          <5> HIDE DEF a
          <5> QED BY ONLY <1>1, <3>2, <5>2, <5>3
        <4>2. CASE k \notin 1 .. Len(objs)
          <5>1. k \in Len(objs) + 1 .. Len(objs) + n
            BY ONLY <1>1, <2>1, <4>2, k \in 1 .. Len(objs')
          <5> QED BY ONLY <2>1, <2>3, <3>2, <5>1
        <4> QED BY <4>1, <4>2
      <3>4. Slots' = n /\ Rest' = Len(objs)
        BY <1>1, <2>1, <3>1 DEF Slots, Rest
      <3>5. \A k \in minCS' .. maxCS' : objs'[k].size = 4
        BY <2>1, <2>3, <3>1
      <3> QED BY <2>1, <2>2, <3>1, <3>3, <3>4, <3>5 DEF ObjectsInv
    <2> QED BY <2>4, <2>5
  <1>7. ASSUME NEW k \in 1 .. Len(objs), Allocate(k), UNCHANGED <<minCS, maxCS, hasVarSized>>,
               maxAlign' = maxAlign \/ maxAlign' = MaxOf(maxAlign, objs[k].align),
               pc' \in Loops
        PROVE  ObjectsInv'
    <2>1. maxAlign' \in Nat /\ maxAlign' >= maxAlign
      <3> DEFINE a == objs[k].align
      <3>1. a \in Nat  BY <1>1
      <3>2. maxAlign' = maxAlign \/ maxAlign' = MaxOf(maxAlign, a)  BY <1>7
      <3> HIDE DEF a
      <3>3. maxAlign \in Nat  BY <1>1
      <3> QED BY ONLY <3>1, <3>2, <3>3 DEF MaxOf
    <2> QED BY <1>7, <2>1, AllocateType, LoopsKeepObjects DEF Loops
  <1>8. CASE SkipFixedObject \/ SetStackSize
    BY <1>2, <1>8 DEF SkipFixedObject, SetStackSize
  <1>9. CASE AllocateCalleeSaved
    <2>1. i <= maxCS => i \in 1 .. Len(objs)
      BY <1>9 DEF AllocateCalleeSaved, TypeOK, LoopTypeOK, ObjsTypeOK
    <2> QED BY <1>2, <1>7, <1>9, <2>1 DEF AllocateCalleeSaved, Loops
  <1>10. CASE AllocateGuard
    <2>1. guard > 0 => guard \in 1 .. Len(objs)
      BY DEF TypeOK, ObjsTypeOK
    <2> QED BY <1>2, <1>7, <1>10, <2>1 DEF AllocateGuard, Loops
  <1>11. CASE AllocateLarge
    <2>1. i <= Len(objs) => i \in 1 .. Len(objs)
      BY <1>11 DEF AllocateLarge, TypeOK, LoopTypeOK
    <2> QED BY <1>2, <1>7, <1>11, <2>1 DEF AllocateLarge, Loops
  <1>12. CASE AllocateObject
    <2>1. i <= Len(objs) => i \in 1 .. Len(objs)
      BY <1>12 DEF AllocateObject, TypeOK, LoopTypeOK
    <2> QED BY <1>2, <1>7, <1>12, <2>1 DEF AllocateObject, Loops
  <1>13. CASE Finished \/ UNCHANGED vars
    BY <1>2, <1>13 DEF Finished, vars
  <1> QED BY <1>3, <1>4, <1>5, <1>6, <1>8, <1>9, <1>10, <1>11, <1>12, <1>13 DEF Next, PEI

\* The arguments and the save area lie above the saved frame pointer.
LEMMA FixedAbove ==
    ASSUME TypeOK, FixedInv, pc = "fixed", raFI = 0, NEW j \in 1 .. Len(fixed)
    PROVE  fixed[j].offset \in Nat
  <1> DEFINE args == StackArgs(named)
             area == FixedObject(VARegSaveSize(named), VarArgsOffset(named))
  <1>1. fixed = args \o (IF isVarArg THEN <<area>> ELSE <<>>)
    BY DEF FixedInv
  <1>2. named \in Nat /\ OnStack \in Nat  BY OnStackType
  <1>3. /\ args \in Seq(FixedObjects) /\ Len(args) = OnStack
        /\ \A l \in 1 .. OnStack : args[l].offset \in Nat
    <2>1. /\ args \in Seq(FixedObjects) /\ Len(args) = OnStack
          /\ \A l \in 1 .. OnStack : args[l] = FixedObject(4, 4 * (l - 1))
      BY <1>2, StackArgsType DEF OnStack
    <2> QED BY <1>2, <2>1 DEF FixedObject
  <1>4. area \in FixedObjects /\ area.offset \in Nat
    <2>1. VARegSaveSize(named) \in Nat /\ VarArgsOffset(named) \in Nat
      <3> DEFINE F == FirstUnallocated(named)
      <3>1. /\ F \in 0 .. 8 /\ F <= named
            /\ VARegSaveSize(named) = 4 * (8 - F) /\ VARegSize(named) = 4 * (8 - F)
            /\ NextStackOffset(named) = 4 * (named - F)
        BY ONLY <1>2, SaveAreaExact
      <3> HIDE DEF F
      <3> QED BY ONLY <1>2, <3>1 DEF VarArgsOffset
    <2> QED BY <2>1, ObjectTypes DEF FixedObject
  <1> HIDE DEF args, area
  <1>5. CASE isVarArg
    <2>1. /\ Len(fixed) = OnStack + 1 /\ fixed[OnStack + 1] = area
          /\ \A l \in 1 .. OnStack : fixed[l] = args[l]
      BY <1>1, <1>2, <1>3, <1>4, <1>5
    <2>2. j \in 1 .. OnStack \/ j = OnStack + 1  BY <1>2, <2>1
    <2> QED BY <1>3, <1>4, <2>1, <2>2
  <1>6. CASE ~isVarArg
    <2>1. fixed = args  BY <1>1, <1>3, <1>6
    <2> QED BY <1>3, <2>1
  <1> QED BY <1>5, <1>6

\* A step of the loops leaves a frame of words one, or was never in one.
LEMMA WordCaseKept ==
    ASSUME TypeOK, ObjectsInv, Len(objs') = Len(objs),
           \A k \in 1 .. Len(objs) : objs'[k].size = objs[k].size,
           maxAlign' \in Nat, maxAlign' >= maxAlign,
           UNCHANGED <<guard, dead, raFI, minCS, maxCS, hasVarSized>>
    PROVE  /\ UNCHANGED <<Slots, Rest, Locals>>
           /\ WordCase' => WordCase
  <1>1. UNCHANGED <<Slots, Rest, Locals>>  BY DEF Slots, Rest, Locals
  <1>2. /\ Locals \in Nat /\ Rest \in Nat /\ Len(objs) \in Nat /\ Rest <= Len(objs)
        /\ Locals <= Rest
        /\ hasVarSized => Locals + 1 = Rest
    <2>1. /\ Slots \in Nat /\ Locals \in Nat /\ Rest \in Nat /\ Len(objs) \in Nat
          /\ Locals <= Rest /\ Locals + (IF hasVarSized THEN 1 ELSE 0) = Rest
      BY CountTypes
    <2> QED BY <2>1 DEF Rest
  <1>3. \A k \in 1 .. Locals : k \in 1 .. Len(objs)  BY ONLY <1>2
  <1>4. hasVarSized => Locals + 1 \in 1 .. Len(objs)  BY ONLY <1>2
  <1>5. maxAlign' <= 4 => maxAlign <= 4  BY AlignsAreNat
  <1>6. ASSUME WordCase' PROVE WordCase
    <2>1. /\ guard = 0 /\ dead = {} /\ raFI = 0 /\ maxAlign <= 4
          /\ \A k \in 1 .. Locals : objs'[k].size = 4
          /\ hasVarSized => objs'[Locals + 1].size = 0
      BY <1>1, <1>5, <1>6 DEF WordCase
    <2> QED BY <1>3, <1>4, <2>1 DEF WordCase
  <1> QED BY <1>1, <1>6

\* A word, or nothing, goes right below the words that are there.
LEMMA WordBelow ==
    ASSUME TypeOK, ObjectsInv, WordCase, NEW k \in 1 .. Len(objs),
           NEW x \in Nat, offset = 4 * x, NEW s \in {0, 1}, objs[k].size = 4 * s
    PROVE  Below(k) = 4 * (x + s)
  <1> DEFINE a == objs[k].align
  <1>1. a \in {1, 2, 4, 8, 16}
    <2>1. objs[k] \in Objects  BY DEF TypeOK, ObjsTypeOK
    <2> QED BY <2>1, AlignsArePowers DEF Objects
  <1>2. a <= maxAlign /\ maxAlign <= 4 /\ maxAlign \in Nat
    BY AlignsAreNat DEF ObjectsInv, WordCase
  <1>3. Below(k) = RoundUp(4 * x + 4 * s, a)  BY DEF Below
  <1> HIDE DEF a
  <1>4. a \in {1, 2, 4}  BY ONLY <1>1, <1>2
  <1>5. 4 * x + 4 * s = 4 * (x + s) /\ x + s \in Nat  OBVIOUS
  <1> QED BY ONLY <1>3, <1>4, <1>5, RoundUpWord

\* So Allocate puts it at its place when Place is the next word down.
LEMMA AllocateWord ==
    ASSUME TypeOK, ObjectsInv, WordCase, NEW k \in 1 .. Len(objs),
           NEW x \in Nat, offset = 4 * x, NEW s \in {0, 1}, objs[k].size = 4 * s,
           Allocate(k), Place(k) = -4 * (x + s)
    PROVE  /\ offset' = 4 * (x + s)
           /\ objs'[k].offset = Place(k)
           /\ \A l \in 1 .. Len(objs) : l # k => objs'[l].offset = objs[l].offset
  <1>1. Below(k) = 4 * (x + s)  BY WordBelow
  <1>2. /\ offset' = Below(k) /\ objs'[k].offset = - Below(k)
        /\ \A l \in 1 .. Len(objs) : l # k => objs'[l].offset = objs[l].offset
    BY AllocateType
  <1>3. - (4 * (x + s)) = -4 * (x + s)  OBVIOUS
  <1> QED BY <1>1, <1>2, <1>3

LEMMA SkipPacked == TypeOK /\ WordInv /\ SkipFixedObject => PackedInv'
  <1> SUFFICES ASSUME TypeOK, WordInv, SkipFixedObject, WordCase'
               PROVE  PackedInv'
    BY DEF PackedInv
  <1>1. /\ pc = "fixed" /\ UNCHANGED <<objs, guard, dead, raFI, minCS, maxCS, hasVarSized, maxAlign>>
        /\ i \in - Len(fixed) .. 0 /\ minCS \in Nat
    BY DEF SkipFixedObject, funcVars, bodyVars, afiVars, flagVars, TypeOK, LoopTypeOK,
           ObjsTypeOK
  <1>2. WordCase  BY <1>1 DEF WordCase, Locals, Rest, Slots
  <1>3. offset = 0 /\ raFI = 0  BY <1>1, <1>2 DEF WordInv, PackedInv, WordCase
  <1>4. CASE i # 0
    <2>1. Len(fixed) \in Nat  BY DEF TypeOK, ObjsTypeOK
    <2>2. PICK j \in 1 .. Len(fixed) : - i = j
      BY ONLY <1>1, <1>4, <2>1
    <2>3. fixed[j].offset \in Nat  BY <1>1, <1>3, FixedAbove DEF WordInv
    <2>4. offset' = MaxOf(0, - fixed[j].offset) /\ pc' = "fixed"
      BY <1>1, <1>3, <1>4, <2>2 DEF SkipFixedObject
    <2>5. offset' = 0
      <3> DEFINE a == fixed[j].offset
      <3>1. a \in Nat /\ offset' = MaxOf(0, - a)  BY <2>3, <2>4
      <3> HIDE DEF a
      <3> QED BY ONLY <3>1 DEF MaxOf
    <2> QED BY <2>4, <2>5 DEF PackedInv
  <1>5. CASE i = 0
    <2>1. pc' = "csrslots" /\ i' = minCS /\ minCS' = minCS /\ offset' = 0
      BY <1>1, <1>3, <1>5 DEF SkipFixedObject, Goto
    <2>2. offset' = 4 * (i' - minCS')
      BY ONLY <1>1, <2>1
    <2>3. \A k \in minCS' .. i' - 1 : FALSE
      BY ONLY <1>1, <2>1
    <2> QED BY <2>1, <2>2, <2>3 DEF PackedInv
  <1> QED BY <1>4, <1>5

LEMMA CalleeSavedPacked ==
    TypeOK /\ WordInv /\ AllocateCalleeSaved => PackedInv'
  <1> SUFFICES ASSUME TypeOK, WordInv, AllocateCalleeSaved, WordCase'
               PROVE  PackedInv'
    BY DEF PackedInv
  <1> USE DEF funcVars, bodyVars, afiVars, flagVars
  <1>1. /\ pc = "csrslots" /\ i \in minCS .. maxCS + 1 /\ minCS \in 1 .. Len(objs) + 1
        /\ maxCS \in 0 .. Len(objs) /\ Len(objs) \in Nat /\ offset \in Nat
        /\ UNCHANGED <<guard, dead, raFI, minCS, maxCS, hasVarSized, maxAlign>>
    BY DEF AllocateCalleeSaved, TypeOK, LoopTypeOK, ObjsTypeOK
  <1>2. ObjectsInv  BY DEF WordInv
  <1>3. CASE i <= maxCS
    <2>1. Allocate(i) /\ i' = i + 1 /\ pc' = "csrslots"
      BY <1>1, <1>3 DEF AllocateCalleeSaved
    <2>2. PICK k \in 1 .. Len(objs) : k = i  BY ONLY <1>1, <1>3
    <2>3. Allocate(k)  BY <2>1, <2>2
    <2>4. /\ Len(objs') = Len(objs)
          /\ \A l \in 1 .. Len(objs) : objs'[l].size = objs[l].size
      BY <2>3, AllocateType
    <2>5. maxAlign' \in Nat /\ maxAlign' >= maxAlign  BY <1>1, AlignsAreNat
    <2>6. UNCHANGED <<Slots, Rest, Locals>> /\ WordCase
      BY <1>1, <1>2, <2>4, <2>5, WordCaseKept
    <2>7. /\ offset = 4 * (i - minCS)
          /\ \A l \in minCS .. i - 1 : objs[l].offset = Place(l)
      BY <1>1, <2>6 DEF WordInv, PackedInv
    <2> DEFINE x == k - minCS
    <2>8. x \in Nat /\ offset = 4 * x  BY ONLY <1>1, <2>2, <2>7
    <2>9. objs[k].size = 4 * 1
      <3>1. k \in minCS .. maxCS  BY ONLY <1>1, <1>3, <2>2
      <3> QED BY <1>2, <3>1 DEF ObjectsInv
    <2>10. Place(k) = -4 * (x + 1)
      <3>1. maxCS = Len(objs)
        <4>1. Slots = 0 \/ maxCS = Len(objs)  BY <1>2 DEF ObjectsInv
        <4> QED BY ONLY <1>1, <1>3, <4>1 DEF Slots
      <3>2. Rest = minCS - 1 /\ k > Rest  BY ONLY <1>1, <1>3, <2>2, <3>1 DEF Rest, Slots
      <3> QED BY ONLY <1>1, <2>2, <3>2 DEF Place
    <2> HIDE DEF x
    <2>11. /\ offset' = 4 * (x + 1) /\ objs'[k].offset = Place(k)
           /\ \A l \in 1 .. Len(objs) : l # k => objs'[l].offset = objs[l].offset
      BY <1>2, <2>3, <2>6, <2>8, <2>9, <2>10, AllocateWord
    <2>12. offset' = 4 * (i' - minCS')
      BY ONLY <1>1, <2>1, <2>2, <2>11 DEF x
    <2>13. ASSUME NEW l \in minCS .. i PROVE objs'[l].offset = Place(l)
      <3>1. l = k \/ (l # k /\ l \in minCS .. i - 1 /\ l \in 1 .. Len(objs))
        BY ONLY <1>1, <1>3, <2>2, <2>13
      <3> QED BY ONLY <2>7, <2>11, <3>1
    <2>14. \A l \in minCS' .. i' - 1 : objs'[l].offset = Place(l)'
      <3>1. minCS' .. i' - 1 = minCS .. i  BY ONLY <1>1, <2>1
      <3> QED BY <2>6, <2>13, <3>1 DEF Place
    <2> QED BY <2>1, <2>12, <2>14 DEF PackedInv
  <1>4. CASE ~(i <= maxCS)
    <2>1. /\ pc' = "guard" /\ UNCHANGED <<i, offset, objs>>
      BY <1>1, <1>4 DEF AllocateCalleeSaved, Goto
    <2>2. WordCase /\ UNCHANGED <<Slots, Rest, Locals>>
      BY <1>1, <2>1 DEF WordCase, Locals, Rest, Slots
    <2>3. i = maxCS + 1  BY ONLY <1>1, <1>4
    <2>4. /\ offset = 4 * (i - minCS)
          /\ \A k \in minCS .. i - 1 : objs[k].offset = Place(k)
      BY <1>1, <2>2 DEF WordInv, PackedInv
    <2>5. offset' = 4 * Slots'
      BY ONLY <1>1, <2>1, <2>2, <2>3, <2>4 DEF Slots
    <2>6. \A k \in minCS' .. maxCS' : objs'[k].offset = Place(k)'
      <3>1. minCS .. i - 1 = minCS' .. maxCS'  BY ONLY <1>1, <2>3
      <3> QED BY <2>1, <2>2, <2>4, <3>1 DEF Place
    <2> QED BY <2>1, <2>5, <2>6 DEF PackedInv
  <1> QED BY <1>3, <1>4

LEMMA GuardPacked == TypeOK /\ WordInv /\ AllocateGuard => PackedInv'
  <1> SUFFICES ASSUME TypeOK, WordInv, AllocateGuard, WordCase'
               PROVE  PackedInv'
    BY DEF PackedInv
  <1>1. guard' = 0 /\ UNCHANGED <<guard, dead, raFI, minCS, maxCS, hasVarSized>> /\ pc = "guard"
    BY DEF AllocateGuard, funcVars, bodyVars, afiVars, flagVars, WordCase
  <1>2. pc' = "objects" /\ i' = 1 /\ UNCHANGED <<offset, objs, maxAlign>>
    BY <1>1 DEF AllocateGuard, Goto
  <1>3. WordCase /\ UNCHANGED <<Slots, Rest, Locals>>
    BY <1>1, <1>2 DEF WordCase, Locals, Rest, Slots
  <1>4. /\ offset = 4 * Slots
        /\ \A k \in minCS .. maxCS : objs[k].offset = Place(k)
    BY <1>1, <1>3 DEF WordInv, PackedInv
  <1>5. Slots \in Nat /\ Locals \in Nat  BY CountTypes DEF WordInv
  <1>6. offset' = 4 * (Slots' + SmallerOf(i' - 1, Locals')) /\ 1 .. i' - 1 = {}
    BY ONLY <1>2, <1>3, <1>4, <1>5 DEF SmallerOf
  <1>7. \A k \in minCS' .. maxCS' : objs'[k].offset = Place(k)'
    BY <1>1, <1>2, <1>3, <1>4 DEF Place
  <1> QED BY <1>2, <1>6, <1>7 DEF PackedInv

LEMMA ObjectPacked ==
    TypeOK /\ SequenceInv /\ WordInv /\ AllocateObject => PackedInv'
  <1> SUFFICES ASSUME TypeOK, SequenceInv, WordInv, AllocateObject, WordCase'
               PROVE  PackedInv'
    BY DEF PackedInv
  <1> USE DEF funcVars, bodyVars, afiVars, flagVars
  <1>1. /\ pc = "objects" /\ i \in 1 .. Len(objs) + 1 /\ Len(objs) \in Nat /\ offset \in Nat
        /\ UNCHANGED <<guard, dead, raFI, minCS, maxCS, hasVarSized>>
        /\ i <= Len(objs) => pc' = pc /\ i' = i + 1
        /\ ~(i <= Len(objs)) => pc' = "size" /\ i' = i
    BY DEF AllocateObject, TypeOK, LoopTypeOK, ObjsTypeOK, Goto
  <1>2. ObjectsInv  BY DEF WordInv
  <1>3. /\ Slots \in Nat /\ Rest \in Nat /\ Locals \in Nat /\ Locals <= Rest
        /\ Locals + (IF hasVarSized THEN 1 ELSE 0) = Rest
        /\ \A k \in 1 .. Len(objs) : k \in minCS .. maxCS <=> k > Rest
    BY <1>2, CountTypes
  <1>4. ASSUME UNCHANGED <<objs, offset, maxAlign>>,
               i <= Len(objs) => i \in minCS .. maxCS
        PROVE  PackedInv'
    <2>1. WordCase /\ UNCHANGED <<Slots, Rest, Locals>>
      BY <1>1, <1>4 DEF WordCase, Locals, Rest, Slots
    <2>2. /\ offset = 4 * (Slots + SmallerOf(i - 1, Locals))
          /\ \A k \in minCS .. maxCS : objs[k].offset = Place(k)
          /\ \A k \in 1 .. i - 1 : objs[k].offset = Place(k)
      BY <1>1, <2>1 DEF WordInv, PackedInv
    <2>3. i - 1 >= Locals /\ Rest <= Len(objs)
      <3>1. Rest = Len(objs) - Slots  BY DEF Rest
      <3>2. Rest <= Len(objs)  BY ONLY <1>1, <1>3, <3>1
      <3>3. i <= Len(objs) => i > Rest  BY ONLY <1>1, <1>3, <1>4
      <3> QED BY ONLY <1>1, <1>3, <3>2, <3>3
    <2>4. offset = 4 * (Slots + Locals)
      BY ONLY <1>1, <1>3, <2>2, <2>3 DEF SmallerOf
    <2>5. \A k \in minCS' .. maxCS' : objs'[k].offset = Place(k)'
      BY <1>1, <1>4, <2>1, <2>2 DEF Place
    <2>6. CASE i <= Len(objs)
      <3>1. offset' = 4 * (Slots' + SmallerOf(i' - 1, Locals'))
        BY ONLY <1>1, <1>3, <1>4, <2>1, <2>3, <2>4, <2>6 DEF SmallerOf
      <3>2. \A k \in 1 .. i : objs[k].offset = Place(k)
        <4> SUFFICES ASSUME NEW k \in 1 .. i PROVE objs[k].offset = Place(k)
          OBVIOUS
        <4>1. k = i \/ k \in 1 .. i - 1  BY ONLY <1>1, k \in 1 .. i
        <4>2. k = i => k \in minCS .. maxCS  BY ONLY <1>4, <2>6
        <4> QED BY ONLY <2>2, <4>1, <4>2
      <3>3. \A k \in 1 .. i' - 1 : objs'[k].offset = Place(k)'
        <4>1. i' - 1 = i  BY ONLY <1>1, <2>6
        <4> QED BY <1>4, <2>1, <3>2, <4>1 DEF Place
      <3> QED BY <1>1, <2>5, <2>6, <3>1, <3>3 DEF PackedInv
    <2>7. CASE ~(i <= Len(objs))
      <3>1. i - 1 = Len(objs)  BY ONLY <1>1, <2>7
      <3>2. \A k \in 1 .. Len(objs') : objs'[k].offset = Place(k)'
        BY <1>4, <2>1, <2>2, <3>1 DEF Place
      <3> QED BY <1>1, <1>4, <2>1, <2>4, <2>7, <3>2 DEF PackedInv
    <2> QED BY <2>6, <2>7
  <1>5. ASSUME i <= Len(objs), ~AlreadyPlaced(i) PROVE PackedInv'
    <2>1. PICK k \in 1 .. Len(objs) : k = i  BY ONLY <1>1, <1>5
    <2>2. Allocate(k) /\ maxAlign' = MaxOf(maxAlign, objs[k].align) /\ k \notin minCS .. maxCS
      BY <1>1, <1>5, <2>1 DEF AllocateObject, AlreadyPlaced, Skipped
    <2>3. /\ Len(objs') = Len(objs)
          /\ \A l \in 1 .. Len(objs) : objs'[l].size = objs[l].size
      BY <2>2, AllocateType
    <2>4. maxAlign' \in Nat /\ maxAlign' >= maxAlign
      <3> DEFINE a == objs[k].align
      <3>1. a \in Nat /\ maxAlign \in Nat /\ maxAlign' = MaxOf(maxAlign, a)
        BY <2>2, AlignsAreNat
      <3> HIDE DEF a
      <3> QED BY ONLY <3>1 DEF MaxOf
    <2>5. UNCHANGED <<Slots, Rest, Locals>> /\ WordCase
      BY <1>1, <1>2, <2>3, <2>4, WordCaseKept
    <2>6. /\ offset = 4 * (Slots + SmallerOf(i - 1, Locals))
          /\ \A l \in minCS .. maxCS : objs[l].offset = Place(l)
          /\ \A l \in 1 .. i - 1 : objs[l].offset = Place(l)
      BY <1>1, <2>5 DEF WordInv, PackedInv
    <2>7. k <= Rest  BY ONLY <1>3, <1>1, <2>2
    <2> DEFINE x == Slots + SmallerOf(k - 1, Locals)
               s == IF k <= Locals THEN 1 ELSE 0
    <2>8. x \in Nat /\ offset = 4 * x /\ s \in {0, 1}
      BY ONLY <1>3, <2>1, <2>6 DEF SmallerOf
    <2>9. objs[k].size = 4 * s
      <3>1. k \in 1 .. Locals \/ (k > Locals /\ hasVarSized /\ k = Locals + 1)
        BY ONLY <1>3, <2>7
      <3> QED BY ONLY <1>3, <2>5, <3>1 DEF WordCase
    <2>10. Place(k) = -4 * (x + s) /\ x + s = Slots + SmallerOf(k, Locals)
      BY ONLY <1>3, <2>7 DEF Place, SmallerOf
    <2> HIDE DEF x, s
    <2>11. /\ offset' = 4 * (x + s) /\ objs'[k].offset = Place(k)
           /\ \A l \in 1 .. Len(objs) : l # k => objs'[l].offset = objs[l].offset
      BY <1>2, <2>2, <2>5, <2>8, <2>9, <2>10, AllocateWord
    <2>12. offset' = 4 * (Slots' + SmallerOf(i' - 1, Locals'))
      <3>1. i' - 1 = k  BY ONLY <1>1, <1>5, <2>1
      <3> QED BY ONLY <2>5, <2>10, <2>11, <3>1
    <2>13. \A l \in minCS' .. maxCS' : objs'[l].offset = Place(l)'
      <3>1. \A l \in minCS .. maxCS : l \in 1 .. Len(objs) /\ l # k
        <4>1. minCS .. maxCS \subseteq 1 .. Len(objs)
          BY DEF TypeOK, LoopTypeOK, ObjsTypeOK
        <4> QED BY <2>2, <4>1
      <3> QED BY <1>1, <2>5, <2>6, <2>11, <3>1 DEF Place
    <2>14. \A l \in 1 .. k : objs'[l].offset = Place(l)
      <3> SUFFICES ASSUME NEW l \in 1 .. k PROVE objs'[l].offset = Place(l)
        OBVIOUS
      <3>1. l = k \/ (l # k /\ l \in 1 .. i - 1 /\ l \in 1 .. Len(objs))
        BY ONLY <1>1, <2>1
      <3> QED BY ONLY <2>6, <2>11, <3>1
    <2>15. \A l \in 1 .. i' - 1 : objs'[l].offset = Place(l)'
      <3>1. i' - 1 = k  BY ONLY <1>1, <1>5, <2>1
      <3> QED BY <2>5, <2>14, <3>1 DEF Place
    <2> QED BY <1>1, <1>5, <2>12, <2>13, <2>15 DEF PackedInv
  <1>6. (i <= Len(objs) /\ AlreadyPlaced(i)) => i \in minCS .. maxCS
    <2>1. guard = 0 /\ dead = {}  BY <1>1 DEF WordCase
    <2>2. large = {}  BY <2>1 DEF SequenceInv, TurnsInv
    <2> QED BY <1>1, <2>1, <2>2 DEF AlreadyPlaced, Skipped
  <1>7. (i <= Len(objs) => AlreadyPlaced(i)) => UNCHANGED <<objs, offset, maxAlign>>
    BY DEF AllocateObject
  <1> QED BY <1>4, <1>5, <1>6, <1>7

LEMMA SizePacked == TypeOK /\ WordInv /\ SetStackSize => PackedInv'
  <1> SUFFICES ASSUME TypeOK, WordInv, SetStackSize, WordCase'
               PROVE  PackedInv'
    BY DEF PackedInv
  <1>1. /\ pc = "size" /\ pc' = "done"
        /\ UNCHANGED <<objs, guard, dead, raFI, minCS, maxCS, hasVarSized, maxAlign>>
        /\ UNCHANGED <<adjustsStack, disableFPElim, maxCallFrame>>
    BY DEF SetStackSize, Goto, funcVars, bodyVars, afiVars, flagVars
  <1>2. WordCase /\ UNCHANGED <<Slots, Rest, Locals, Reserved>>
    BY <1>1 DEF WordCase, Locals, Rest, Slots, Reserved, hasFP
  <1>3. /\ offset = 4 * (Slots + Locals)
        /\ \A k \in 1 .. Len(objs) : objs[k].offset = Place(k)
    BY <1>1, <1>2 DEF WordInv, PackedInv
  <1>4. Slots \in Nat /\ Locals \in Nat  BY CountTypes DEF WordInv
  <1>5. Reserved \in Nat /\ Reserved % 4 = 0
    BY DEF Reserved, WordInv, MultiplesInv, TypeOK, SizesTypeOK
  <1>6. PICK q \in Nat : Reserved = 4 * q
    <2>1. Reserved = 4 * (Reserved \div 4) /\ Reserved \div 4 \in Nat
      BY ONLY <1>5
    <2> QED BY <2>1
  <1> DEFINE x == Slots + Locals + q
  <1>7. PICK a \in {1, 2, 4} : stackSize' = RoundUp(offset + Reserved, a)
    <2> DEFINE align == IF adjustsStack \/ hasVarSized THEN StackAlignment
                                                       ELSE TransientStackAlignment
    <2>1. stackSize' = RoundUp(offset + Reserved, MaxOf(align, maxAlign))
      BY DEF SetStackSize, Reserved, hasReservedCallFrame
    <2>2. align \in {1, 4}  BY DEF StackAlignment, TransientStackAlignment
    <2>3. maxAlign \in {0, 1, 2, 4}
      <3>1. maxAlign \in Aligns \cup {0} /\ maxAlign <= 4
        BY <1>2 DEF WordCase, TypeOK, LoopTypeOK
      <3> QED BY ONLY <3>1, AlignsArePowers
    <2> HIDE DEF align
    <2>4. MaxOf(align, maxAlign) \in {1, 2, 4}  BY ONLY <2>2, <2>3 DEF MaxOf
    <2> QED BY <2>1, <2>4
  <1>8. x \in Nat /\ offset + Reserved = 4 * x /\ 4 * x = 4 * (Slots + Locals) + Reserved
    BY ONLY <1>3, <1>4, <1>6
  <1> HIDE DEF x
  <1>9. stackSize' = 4 * (Slots' + Locals') + Reserved'
    BY ONLY <1>2, <1>7, <1>8, RoundUpWord
  <1>10. \A k \in 1 .. Len(objs') : objs'[k].offset = Place(k)'
    BY <1>1, <1>2, <1>3 DEF Place
  <1> QED BY <1>1, <1>9, <1>10 DEF PackedInv

LEMMA NextPacked ==
    TypeOK /\ SequenceInv /\ WordInv /\ [Next]_vars => PackedInv'
  <1> SUFFICES ASSUME TypeOK, SequenceInv, WordInv, [Next]_vars PROVE PackedInv'
    OBVIOUS
  <1> DEFINE Early == {"allocas", "select", "regalloc", "csr", "abort"}
  <1>1. pc' \in Early => PackedInv'
    BY DEF PackedInv
  <1>2. Selection \/ RegAlloc \/ calculateCallsInformation => pc' \in Early
    BY DEF Selection, CreateStackObject, LowerFormalArguments, LowerCall,
       getReturnAddressFrameIndex, DynamicStackAlloc, StackAligningInlineAsm,
       StackProtector, FinishSelection, RegAlloc, CreateSpillStackObject,
       RemoveStackObject, calculateCallsInformation, Goto
  <1>3. ASSUME NEW n \in CalleeSaved, calculateCalleeSavedRegisters(n)
        PROVE  PackedInv'
    BY <1>3 DEF calculateCalleeSavedRegisters, Goto, PackedInv
  <1>4. AllocateLarge => PackedInv'
    <2> SUFFICES ASSUME AllocateLarge PROVE guard' # 0
      BY DEF PackedInv, WordCase
    <2> QED BY DEF AllocateLarge, SequenceInv, TurnsInv
  <1>5. CASE UNCHANGED vars
    BY <1>5 DEF vars, funcVars, bodyVars, afiVars, peiVars, flagVars, WordInv, PackedInv,
       WordCase, Place, Slots, Rest, Locals, Reserved, hasFP
  <1>6. CASE PEI
    BY <1>1, <1>2, <1>3, <1>4, <1>6, SkipPacked, CalleeSavedPacked, GuardPacked,
       ObjectPacked, SizePacked DEF PEI
  <1> QED BY <1>1, <1>2, <1>5, <1>6 DEF Next, Finished

\* The frames of words are packed by every run of the loops.
THEOREM WordCorrect == Spec => []WordInv
  <1>1. TypeOK /\ LayoutInv /\ ArgsInv /\ SequenceInv /\ WordInv /\ [Next]_vars => WordInv'
    BY NextFixed, NextMultiples, NextObjects, NextPacked DEF WordInv
  <1> QED BY <1>1, InitWord, TypeCorrect, LayoutCorrect, ArgsCorrect, SequenceCorrect, PTL
      DEF Spec

\* What ARCStack runs on is what the code generator lays out: a frame of words
\* has the closed form WordFrame, whatever its numbers of arguments, locals,
\* callee-saved registers and outgoing words (calculateFrameObjectOffsets).
THEOREM WordFramesAlwaysPacked == Spec => []WordFramesPacked
  <1> DEFINE w == WordFrame(named, isVarArg, Locals, hasVarSized, Slots, Reserved, hasCalls)
  <1>1. ASSUME TypeOK, ArgsInv, WordInv, pc = "done", WordCase
        PROVE  /\ \A k \in 1 .. Len(objs) : /\ objs[k].size = w.objs[k].size
                                            /\ objs[k].offset = w.objs[k].offset
               /\ \A fld \in DOMAIN Frame \ {"objs"} : Frame[fld] = w[fld]
    <2> DEFINE m == IF hasVarSized THEN Locals + 1 ELSE Locals
               o == [k \in 1 .. m + Slots |->
                       CASE k <= Locals -> [size |-> 4, offset |-> -4 * (Slots + k)]
                         [] k > m       -> [size |-> 4, offset |-> -4 * (k - m)]
                         [] OTHER       -> [size |-> 0, offset |-> -4 * (Slots + Locals)]]
    <2>1. /\ Slots \in Nat /\ Rest \in Nat /\ Locals \in Nat /\ Locals <= Rest
          /\ Len(objs) \in Nat
          /\ Locals + (IF hasVarSized THEN 1 ELSE 0) = Rest
          /\ \A k \in 1 .. Len(objs) : k \in minCS .. maxCS <=> k > Rest
      BY <1>1, CountTypes DEF WordInv
    <2>2. m = Rest /\ Rest + Slots = Len(objs)
      BY ONLY <2>1 DEF Rest
    <2>3. w.objs = o  BY DEF WordFrame
    <2> HIDE DEF w, m
    <2>4. ASSUME NEW k \in 1 .. Len(objs)
          PROVE  objs[k].size = o[k].size /\ objs[k].offset = o[k].offset
      <3>1. objs[k].offset = Place(k)  BY <1>1 DEF WordInv, PackedInv
      <3>2. CASE k > Rest
        <4>1. objs[k].size = 4  BY <1>1, <2>1, <3>2 DEF WordInv, ObjectsInv
        <4>2. o[k] = [size |-> 4, offset |-> -4 * (k - Rest)]
          BY ONLY <2>1, <2>2, <3>2
        <4> QED BY <3>1, <3>2, <4>1, <4>2 DEF Place
      <3>3. CASE k <= Locals
        <4>1. objs[k].size = 4
          <5>1. k \in 1 .. Locals  BY ONLY <2>1, <3>3
          <5> QED BY <1>1, <5>1 DEF WordCase
        <4>2. o[k] = [size |-> 4, offset |-> -4 * (Slots + k)]
          BY ONLY <2>1, <2>2, <3>3
        <4>3. Place(k) = -4 * (Slots + k)
          BY ONLY <2>1, <3>3 DEF Place, SmallerOf
        <4> QED BY <3>1, <4>1, <4>2, <4>3
      <3>4. CASE k > Locals /\ k <= Rest
        <4>1. hasVarSized /\ k = Locals + 1  BY ONLY <2>1, <3>4
        <4>2. objs[k].size = 0  BY <1>1, <4>1 DEF WordCase
        <4>3. o[k] = [size |-> 0, offset |-> -4 * (Slots + Locals)]
          BY ONLY <2>1, <2>2, <3>4
        <4>4. Place(k) = -4 * (Slots + Locals)
          BY ONLY <2>1, <3>4, <4>1 DEF Place, SmallerOf
        <4> QED BY <3>1, <4>2, <4>3, <4>4
      <3> QED BY ONLY <2>1, <3>2, <3>3, <3>4
    <2>5. /\ w.named = named
          /\ w.hasCalls = hasCalls /\ w.hasVarSized = hasVarSized
          /\ w.vaSize = (IF isVarArg THEN VARegSaveSize(named) ELSE 0)
          /\ w.vaFI = (IF isVarArg THEN - Len(StackArgs(named)) - 1 ELSE 0)
          /\ w.fixed = StackArgs(named) \o
               (IF isVarArg THEN <<FixedObject(VARegSaveSize(named), VarArgsOffset(named))>>
                            ELSE <<>>)
          /\ w.stackSize = 4 * (Locals + Slots) + Reserved
      BY DEF WordFrame, w
    <2>6. fixed = w.fixed
      BY <1>1, <2>5 DEF WordInv, FixedInv, WordCase
    <2>7. vaSize = w.vaSize /\ vaFI = w.vaFI
      <3>1. named \in Nat /\ OnStack \in Nat  BY <1>1, OnStackType
      <3>2. Len(StackArgs(named)) = OnStack /\ VARegSaveSize(named) = VARegSize(named)
        BY ONLY <3>1, StackArgsType, SaveAreaExact DEF OnStack
      <3>3. /\ isVarArg => vaSize = VARegSize(named) /\ vaFI = - (OnStack + 1)
            /\ ~isVarArg => vaSize = 0 /\ vaFI = 0
        BY <1>1 DEF ArgsInv
      <3> QED BY ONLY <2>5, <3>1, <3>2, <3>3
    <2>8. stackSize = w.stackSize
      <3>1. stackSize = 4 * (Slots + Locals) + Reserved
        BY <1>1 DEF WordInv, PackedInv
      <3> QED BY ONLY <2>1, <2>5, <3>1
    <2>9. \A fld \in DOMAIN Frame \ {"objs"} : Frame[fld] = w[fld]
      <3>1. DOMAIN Frame = {"fixed", "objs", "hasCalls", "hasVarSized", "vaSize",
                            "vaFI", "stackSize"}
        BY DEF Frame
      <3>2. /\ Frame.fixed = fixed /\ Frame.hasCalls = hasCalls
            /\ Frame.hasVarSized = hasVarSized /\ Frame.vaSize = vaSize
            /\ Frame.vaFI = vaFI /\ Frame.stackSize = stackSize
        BY DEF Frame
      <3> QED BY ONLY <2>5, <2>6, <2>7, <2>8, <3>1, <3>2
    <2> HIDE DEF o
    <2> QED BY <2>3, <2>4, <2>9
  <1>2. TypeOK /\ ArgsInv /\ WordInv => WordFramesPacked
    BY <1>1 DEF WordFramesPacked, WordCase, Locals, Rest, Slots, Reserved
  <1> QED BY <1>2, TypeCorrect, ArgsCorrect, WordCorrect, PTL

=============================================================================
