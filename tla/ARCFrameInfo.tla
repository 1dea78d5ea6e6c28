---------------------------- MODULE ARCFrameInfo ----------------------------
(***************************************************************************)
(* The life of one function's MachineFrameInfo and                         *)
(* ARCompactMachineFunctionInfo in the code generator: instruction         *)
(* selection creates the frame objects (the ARCompact lowering hooks       *)
(* LowerFormalArguments, LowerCall, LowerRETURNADDR and the generic        *)
(* alloca lowering), register allocation adds spill slots, and the         *)
(* prologue/epilogue inserter (PEI) assigns every object an offset, one    *)
(* loop iteration per step.  At pc = "done" the prologue, the epilogue and *)
(* the frame-index elimination of ARCFrame are applied to the result.      *)
(***************************************************************************)
EXTENDS ARCFrame

CONSTANTS
    NamedCounts,    \* numbers of named i32 arguments of the function
    CallCounts,     \* numbers of i32 arguments of the calls it makes
    ObjectSizes,    \* sizes of its allocas
    ObjectAligns,   \* their alignments, powers of two
    CalleeSaved,    \* how many callee-saved registers it may modify
    MaxObjects,     \* bound: allocas and spill slots created before PEI
    NDEBUG          \* TRUE: the compiler was built without assertions

ASSUME CountsAssumption ==
    /\ NamedCounts \subseteq Nat
    /\ CallCounts \subseteq Nat
    /\ CalleeSaved \subseteq 0 .. 13    \* T5-T7, S0-S9
    /\ MaxObjects \in Nat
    /\ NDEBUG \in BOOLEAN
ASSUME SizesAssumption ==
    /\ ObjectSizes \subseteq Nat \ {0}
    /\ ObjectAligns \subseteq {1, 2, 4, 8, 16}

VARIABLES
    pc,             \* the pass, and in PEI the loop, that runs next
    named, isVarArg, disableFPElim,   \* the function under compilation
    fixed, objs,    \* MachineFrameInfo: fixed and other objects
    dead,           \* indices into objs that RemoveStackObject() marked
    guard,          \* StackProtectorIndex + 1, 0 for none
    hasVarSized, hasCalls, adjustsStack, maxCallFrame, stackSize,
    vaSize, vaFI, raFI,   \* ARCompactMachineFunctionInfo
    callSeqs,       \* operands of the ADJCALLSTACKDOWN pseudos in the body
    callInsts, asmAligns,  \* the body has a call, a stack-aligning inline asm
    i, offset, maxAlign,   \* locals of calculateFrameObjectOffsets()
    minCS, maxCS,   \* its callee-saved slots: objs[minCS .. maxCS]
    large,          \* LargeStackObjs
    placed          \* history: objects given an offset so far

funcVars == <<named, isVarArg, disableFPElim>>
bodyVars == <<callSeqs, callInsts, asmAligns>>
afiVars == <<vaSize, vaFI, raFI>>
peiVars == <<i, offset, maxAlign, minCS, maxCS, large, placed, stackSize>>
flagVars == <<hasVarSized, hasCalls, adjustsStack, maxCallFrame>>
vars == <<pc, funcVars, fixed, objs, dead, guard, bodyVars, afiVars, peiVars,
          flagVars>>

\* The frame information as ARCFrame's operators take it.
Frame == [fixed |-> fixed, objs |-> objs, hasCalls |-> hasCalls,
          hasVarSized |-> hasVarSized, vaSize |-> vaSize, vaFI |-> vaFI,
          stackSize |-> stackSize]

hasFP == disableFPElim \/ hasVarSized
MutantReservedCallFrame == TRUE    \* the call frame reserved whatever hasFP says
hasReservedCallFrame == ~hasFP

Object(size, align, isSS, mayNeedSP) ==
    [size |-> size, align |-> align, isSS |-> isSS, mayNeedSP |-> mayNeedSP,
     offset |-> 0]
SpillSlot == Object(UNITS_PER_WORD, StackAlignment, TRUE, FALSE)

Init ==
    /\ pc = "allocas"
    /\ named \in NamedCounts /\ isVarArg \in BOOLEAN
    /\ disableFPElim \in BOOLEAN
    /\ fixed = <<>> /\ objs = <<>> /\ dead = {} /\ guard = 0
    /\ hasVarSized = FALSE /\ hasCalls = FALSE /\ adjustsStack = FALSE
    /\ maxCallFrame = 0 /\ stackSize = 0
    /\ vaSize = 0 /\ vaFI = 0 /\ raFI = 0
    /\ callSeqs = {} /\ callInsts = FALSE /\ asmAligns = FALSE
    /\ i = 0 /\ offset = 0 /\ maxAlign = 0
    /\ minCS = 1 /\ maxCS = 0 /\ large = {} /\ placed = {}
-----------------------------------------------------------------------------
(***************************************************************************)
(* Instruction selection.                                                  *)
(***************************************************************************)
Goto(there) == pc' = there

\* A static alloca of the entry block (FunctionLoweringInfo::set).
CreateStackObject(size, align, mayNeedSP) ==
    /\ pc = "allocas" /\ Len(objs) < MaxObjects
    /\ objs' = Append(objs, Object(size, align, FALSE, mayNeedSP))
    /\ maxAlign' = MaxOf(maxAlign, align)
    /\ UNCHANGED <<pc, funcVars, fixed, dead, guard, bodyVars, afiVars,
                   flagVars, i, offset, minCS, maxCS, large, placed,
                   stackSize>>

\* One fixed object per named argument passed on the stack, then the save
\* area of a variadic function.  Its size is 0 when all eight argument
\* registers carry named arguments, which CreateFixedObject() asserts against.
LowerFormalArguments ==
    /\ pc = "allocas"
    /\ IF isVarArg
       THEN /\ vaSize' = VARegSaveSize(named)
            /\ IF vaSize' = 0 /\ ~NDEBUG
               THEN Goto("abort") /\ fixed' = StackArgs(named) /\ vaFI' = vaFI
               ELSE /\ fixed' = Append(StackArgs(named),
                                       FixedObject(vaSize', VarArgsOffset(named)))
                    /\ vaFI' = - Len(fixed')
                    /\ Goto("select")
       ELSE /\ fixed' = StackArgs(named) /\ Goto("select")
            /\ UNCHANGED <<vaSize, vaFI>>
    /\ UNCHANGED <<funcVars, objs, dead, guard, bodyVars, raFI, flagVars,
                   peiVars>>

\* The call of n arguments is bracketed by ADJCALLSTACKDOWN/UP.
LowerCall(n) ==
    /\ pc = "select"
    /\ callSeqs' = callSeqs \cup {NextStackOffset(n)}
    /\ callInsts' = TRUE
    /\ UNCHANGED <<pc, funcVars, fixed, objs, dead, guard, asmAligns, afiVars,
                   flagVars, peiVars>>

\* The word below the caller's SP, as getReturnAddressFrameIndex() sees it.
ReturnAddressSlot == FixedObject(UNITS_PER_WORD, - UNITS_PER_WORD)

\* __builtin_return_address(0): the first use creates the slot's object.
getReturnAddressFrameIndex ==
    /\ pc = "select" /\ raFI = 0
    /\ fixed' = Append(fixed, ReturnAddressSlot)
    /\ raFI' = - Len(fixed')
    /\ UNCHANGED <<pc, funcVars, objs, dead, guard, bodyVars, vaSize, vaFI,
                   flagVars, peiVars>>

\* An alloca outside the entry block or of unknown size: visitAlloca notes a
\* variable-sized object and the expansion moves SP inside CALLSEQ(0).
DynamicStackAlloc(align) ==
    /\ pc = "select" /\ Len(objs) < MaxObjects
    /\ LET a == IF align <= StackAlignment THEN 1 ELSE align
       IN  /\ objs' = Append(objs, Object(0, a, FALSE, TRUE))
           /\ maxAlign' = MaxOf(maxAlign, a)
    /\ hasVarSized' = TRUE
    /\ callSeqs' = callSeqs \cup {0}
    /\ UNCHANGED <<pc, funcVars, fixed, dead, guard, callInsts, asmAligns,
                   afiVars, hasCalls, adjustsStack, maxCallFrame, i, offset,
                   minCS, maxCS, large, placed, stackSize>>

StackAligningInlineAsm ==
    /\ pc = "select" /\ asmAligns' = TRUE
    /\ UNCHANGED <<pc, funcVars, fixed, objs, dead, guard, callSeqs, callInsts,
                   afiVars, flagVars, peiVars>>

\* llvm.stackprotector stores the guard into one of the static allocas.
StackProtector(k) ==
    /\ pc = "select" /\ guard = 0
    /\ objs[k].size = UNITS_PER_WORD /\ ~objs[k].mayNeedSP
    /\ guard' = k
    /\ UNCHANGED <<pc, funcVars, fixed, objs, dead, bodyVars, afiVars,
                   flagVars, peiVars>>

FinishSelection ==
    /\ pc = "select" /\ Goto("regalloc")
    /\ hasCalls' = (callInsts \/ asmAligns)
    /\ UNCHANGED <<funcVars, fixed, objs, dead, guard, bodyVars, afiVars,
                   hasVarSized, adjustsStack, maxCallFrame, peiVars>>
-----------------------------------------------------------------------------
(***************************************************************************)
(* Register allocation.                                                    *)
(***************************************************************************)
CreateSpillStackObject ==
    /\ pc = "regalloc" /\ Len(objs) < MaxObjects
    /\ objs' = Append(objs, SpillSlot)
    /\ maxAlign' = MaxOf(maxAlign, StackAlignment)
    /\ UNCHANGED <<pc, funcVars, fixed, dead, guard, bodyVars, afiVars,
                   flagVars, i, offset, minCS, maxCS, large, placed,
                   stackSize>>

\* StackSlotColoring deletes the last spill slots when it shares others.
RemoveStackObject(k) ==
    /\ pc = "regalloc" /\ objs[k].isSS /\ k \notin dead
    /\ dead' = dead \cup {k}
    /\ UNCHANGED <<pc, funcVars, fixed, objs, guard, bodyVars, afiVars,
                   flagVars, peiVars>>
-----------------------------------------------------------------------------
(***************************************************************************)
(* Prologue/epilogue insertion, PEI::runOnMachineFunction.                 *)
(***************************************************************************)
MutantCoversCalls(max) == TRUE      \* the last call seen, not the largest
CoversCalls(max) == \A s \in callSeqs : s <= max

calculateCallsInformation ==
    /\ pc = "regalloc" /\ Goto("csr")
    /\ \E max \in callSeqs \cup {0} : CoversCalls(max) /\ maxCallFrame' = max
    /\ adjustsStack' = (adjustsStack \/ callSeqs # {} \/ asmAligns)
    /\ UNCHANGED <<funcVars, fixed, objs, dead, guard, bodyVars, afiVars,
                   hasVarSized, hasCalls, peiVars>>

\* A 4-byte slot for each of the n callee-saved registers the body modifies.
calculateCalleeSavedRegisters(n) ==
    /\ pc = "csr" /\ Goto("fixed")
    /\ objs' = objs \o [k \in 1 .. n |-> SpillSlot]
    /\ IF n = 0 THEN UNCHANGED <<minCS, maxCS, maxAlign>>
       ELSE /\ minCS' = Len(objs) + 1 /\ maxCS' = Len(objs) + n
            /\ maxAlign' = MaxOf(maxAlign, StackAlignment)
    /\ i' = - Len(fixed)
    /\ offset' = 0
    /\ UNCHANGED <<funcVars, fixed, dead, guard, bodyVars, afiVars, flagVars,
                   large, placed, stackSize>>

\* Start below the lowest fixed object.
SkipFixedObject ==
    /\ pc = "fixed"
    /\ IF i # 0
       THEN /\ offset' = MaxOf(offset, - fixed[-i].offset)
            /\ i' = i + 1 /\ UNCHANGED pc
       ELSE Goto("csrslots") /\ i' = minCS /\ UNCHANGED offset
    /\ UNCHANGED <<funcVars, fixed, objs, dead, guard, bodyVars, afiVars,
                   flagVars, maxAlign, minCS, maxCS, large, placed, stackSize>>

\* AdjustStackOffset(): below everything placed so far, then down to the
\* object's alignment.
Below(k) == RoundUp(offset + objs[k].size, objs[k].align)

Allocate(k) ==
    /\ offset' = Below(k)
    /\ objs' = [objs EXCEPT ![k].offset = - Below(k)]
    /\ placed' = placed \cup {k}

AllocateCalleeSaved ==
    /\ pc = "csrslots"
    /\ IF i <= maxCS
       THEN Allocate(i) /\ i' = i + 1 /\ UNCHANGED pc
       ELSE /\ Goto("guard") /\ UNCHANGED <<i, offset, objs, placed>>
    /\ UNCHANGED <<funcVars, fixed, dead, guard, bodyVars, afiVars, flagVars,
                   maxAlign, minCS, maxCS, large, stackSize>>

AllocateGuard ==
    /\ pc = "guard" /\ i' = 1
    /\ IF guard > 0
       THEN /\ Allocate(guard) /\ Goto("large")
            /\ maxAlign' = MaxOf(maxAlign, objs[guard].align)
       ELSE Goto("objects") /\ UNCHANGED <<offset, objs, placed, maxAlign>>
    /\ UNCHANGED <<funcVars, fixed, dead, guard, bodyVars, afiVars, flagVars,
                   minCS, maxCS, large, stackSize>>

\* The objects the last two loops skip: LargeStackObjs takes the arrays only,
\* the last loop takes what is left.
Skipped(k) == k \in minCS .. maxCS \/ k \in dead \/ k = guard
MutantNotLarge(k) == Skipped(k)
NotLarge(k) == Skipped(k) \/ ~objs[k].mayNeedSP
MutantAlreadyPlaced(k) == Skipped(k)
AlreadyPlaced(k) == Skipped(k) \/ k \in large

AllocateLarge ==
    /\ pc = "large"
    /\ IF i <= Len(objs)
       THEN /\ i' = i + 1 /\ UNCHANGED pc
            /\ IF NotLarge(i)
               THEN UNCHANGED <<offset, objs, placed, maxAlign, large>>
               ELSE /\ Allocate(i) /\ large' = large \cup {i}
                    /\ maxAlign' = MaxOf(maxAlign, objs[i].align)
       ELSE /\ Goto("objects") /\ i' = 1
            /\ UNCHANGED <<offset, objs, placed, maxAlign, large>>
    /\ UNCHANGED <<funcVars, fixed, dead, guard, bodyVars, afiVars, flagVars,
                   minCS, maxCS, stackSize>>

AllocateObject ==
    /\ pc = "objects"
    /\ IF i <= Len(objs)
       THEN /\ i' = i + 1 /\ UNCHANGED pc
            /\ IF AlreadyPlaced(i)
               THEN UNCHANGED <<offset, objs, placed, maxAlign>>
               ELSE /\ Allocate(i)
                    /\ maxAlign' = MaxOf(maxAlign, objs[i].align)
       ELSE /\ Goto("size") /\ UNCHANGED <<i, offset, objs, placed, maxAlign>>
    /\ UNCHANGED <<funcVars, fixed, dead, guard, bodyVars, afiVars, flagVars,
                   minCS, maxCS, large, stackSize>>

\* Reserve the outgoing arguments of the largest call, round, and record.
SetStackSize ==
    /\ pc = "size" /\ Goto("done")
    /\ LET reserved == offset + (IF adjustsStack /\ hasReservedCallFrame
                                 THEN maxCallFrame ELSE 0)
           align == IF adjustsStack \/ hasVarSized THEN StackAlignment
                                                   ELSE TransientStackAlignment
       IN  /\ offset' = RoundUp(reserved, MaxOf(align, maxAlign))
           /\ stackSize' = offset'
    /\ UNCHANGED <<funcVars, fixed, objs, dead, guard, bodyVars, afiVars,
                   flagVars, i, maxAlign, minCS, maxCS, large, placed>>
-----------------------------------------------------------------------------
Selection ==
    \/ \E s \in ObjectSizes, a \in ObjectAligns, m \in BOOLEAN :
          CreateStackObject(s, a, m)
    \/ LowerFormalArguments
    \/ \E n \in CallCounts : LowerCall(n)
    \/ getReturnAddressFrameIndex
    \/ \E a \in ObjectAligns : DynamicStackAlloc(a)
    \/ StackAligningInlineAsm
    \/ \E k \in 1 .. Len(objs) : StackProtector(k)
    \/ FinishSelection

RegAlloc ==
    \/ CreateSpillStackObject
    \/ \E k \in 1 .. Len(objs) : RemoveStackObject(k)

PEI ==
    \/ calculateCallsInformation
    \/ \E n \in CalleeSaved : calculateCalleeSavedRegisters(n)
    \/ SkipFixedObject
    \/ AllocateCalleeSaved
    \/ AllocateGuard
    \/ AllocateLarge
    \/ AllocateObject
    \/ SetStackSize

\* The function is compiled, or an assertion has stopped the compiler.
Finished == pc \in {"done", "abort"} /\ UNCHANGED vars

Next == Selection \/ RegAlloc \/ PEI \/ Finished

Spec == Init /\ [][Next]_vars
-----------------------------------------------------------------------------
(***************************************************************************)
(* Properties.                                                             *)
(***************************************************************************)
Sizes == ObjectSizes \cup {0, UNITS_PER_WORD}
Aligns == ObjectAligns \cup {1, StackAlignment}
Objects == [size: Sizes, align: Aligns, isSS: BOOLEAN, mayNeedSP: BOOLEAN,
            offset: Int]
FixedObjects == [size: Nat, offset: Int]
Passes == {"allocas", "select", "regalloc", "csr", "fixed", "csrslots",
           "guard", "large", "objects", "size", "done", "abort"}

FuncTypeOK ==
    /\ pc \in Passes
    /\ named \in NamedCounts /\ isVarArg \in BOOLEAN
    /\ disableFPElim \in BOOLEAN
    /\ hasVarSized \in BOOLEAN /\ hasCalls \in BOOLEAN
    /\ adjustsStack \in BOOLEAN /\ callInsts \in BOOLEAN
    /\ asmAligns \in BOOLEAN
SizesTypeOK ==
    /\ maxCallFrame \in Nat /\ stackSize \in Nat /\ callSeqs \subseteq Nat
    /\ vaSize \in Nat /\ vaFI \in Int /\ raFI \in Int
ObjsTypeOK ==
    /\ fixed \in Seq(FixedObjects) /\ objs \in Seq(Objects)
    /\ dead \subseteq 1 .. Len(objs) /\ guard \in 0 .. Len(objs)
LoopTypeOK ==
    /\ i \in Int /\ offset \in Nat /\ maxAlign \in Aligns \cup {0}
    /\ minCS \in 1 .. Len(objs) + 1 /\ maxCS \in 0 .. Len(objs)
    /\ minCS <= maxCS + 1
    /\ large \subseteq 1 .. Len(objs) /\ placed \subseteq 1 .. Len(objs)
    /\ pc = "fixed" => i \in - Len(fixed) .. 0
    /\ pc = "csrslots" => i \in minCS .. maxCS + 1
    /\ pc \in {"large", "objects"} => i \in 1 .. Len(objs) + 1
TypeOK == FuncTypeOK /\ SizesTypeOK /\ ObjsTypeOK /\ LoopTypeOK

Live == 1 .. Len(objs) \ dead
Lo(k) == objs[k].offset
Hi(k) == objs[k].offset + objs[k].size

\* No two objects of the frame share a byte, whatever the mix of callee-saved
\* slots, stack guard, arrays, other objects, sizes and alignments
\* (PEI::calculateFrameObjectOffsets).
ObjectsDisjoint ==
    \A k, l \in placed : k # l => Hi(k) <= Lo(l) \/ Hi(l) <= Lo(k)

\* When the layout ends, the four loops together have placed every live
\* object, below the saved frame pointer and at or above the SP that the
\* prologue sets: nothing an interrupt or a callee may overwrite is live.
ObjectsInFrame ==
    pc = "done" =>
        \A k \in Live : /\ k \in placed
                        /\ Hi(k) <= 0
                        /\ - NumBytes(Frame) <= Lo(k)

\* Both: the layout gives every live object bytes of its own within the frame.
FrameLaidOut == ObjectsDisjoint /\ ObjectsInFrame

\* In a function with a stack guard every array lies above every object that
\* is not one (so that an overrun reaches the guard before anything else),
\* callee-saved slots excepted.
ArraysNextToGuard ==
    (pc = "done" /\ guard > 0) =>
        \A k, l \in Live \ minCS .. maxCS :
            /\ (k # guard /\ objs[k].size > 0) => Hi(k) <= Lo(guard)
            /\ (k # guard /\ l # guard /\ objs[k].size > 0 /\ objs[l].size > 0
                  /\ objs[k].mayNeedSP /\ ~objs[l].mayNeedSP) => Hi(l) <= Lo(k)

\* Without a frame pointer, the words LowerCall stores outgoing arguments to,
\* [SP, SP + NumBytes of the call), are below every object of the frame.
OutgoingArgsReserved ==
    (pc = "done" /\ ~hasFP) =>
        \A n \in callSeqs, k \in Live : n - NumBytes(Frame) <= Lo(k)

\* Every named argument the caller passed on the stack is read from the word
\* the caller stored it to, LocMemOffset above SP on entry.
IncomingArgs ==
    pc = "done" =>
        \A a \in NumArgRegs + 1 .. named :
            FrameOffset(Frame, NumArgRegs - a, 0)
                = EntrySP(Frame) + LocMemOffset(a)

\* Where variable argument a (counted with the named ones) is, relative to
\* FP: the save area while registers last, else where the caller stored it.
VarArgPlace(a) ==
    IF a <= NumArgRegs
    THEN EntrySP(Frame) - UNITS_PER_WORD * (NumArgRegs + 1 - a)
    ELSE EntrySP(Frame) + LocMemOffset(a)

\* va_arg steps from the start of the save area by 4 per argument; the step
\* that passes the last register's word must land on the first stack word,
\* and the save area must not reach past SP on entry into the caller's frame.
VarArgsWalk ==
    LET start == FrameOffset(Frame, vaFI, 0)
    IN  /\ vaSize > 0 => start + vaSize <= EntrySP(Frame)
        /\ \A a \in named + 1 .. named + NumArgRegs + 1 :
              start + UNITS_PER_WORD * (a - named - 1) = VarArgPlace(a)

\* A variadic function that makes calls finds its variable arguments.
VarArgsInCallers == (pc = "done" /\ isVarArg /\ hasCalls) => VarArgsWalk

\* In a function that makes calls, __builtin_return_address(0) reads the word
\* the prologue saved BLINK to.
ReturnAddressInCallers ==
    (pc = "done" /\ raFI # 0 /\ hasCalls) =>
        FrameOffset(Frame, raFI, 0) = UNITS_PER_WORD

\* All words of the caller that a function with calls reads through a fixed
\* object are where the caller, or the prologue, has put them: the offsets
\* LowerFormalArguments chose before the register allocator knew whether
\* BLINK would be saved are still right when the frame index is eliminated.
CallersWordsFound == IncomingArgs /\ VarArgsInCallers /\ ReturnAddressInCallers

\* After frame-index elimination every byte of every live object is reached
\* at its own address, and a store's displacement fits its nine bits.
FrameIndexEncodable ==
    pc = "done" =>
        \A k \in Live : \A imm \in 0 .. objs[k].size - 1, st \in BOOLEAN :
            LET e == EliminateFrameIndex(Frame, k - 1, imm, st)
            IN  /\ e.moved + e.disp = Lo(k) + imm
                /\ st => FitsInt9(e.disp)

\* PEI gives an object its offset once: no later loop moves a placed object.
PlacedOnce == [][\A k \in placed : /\ k \in placed'
                                   /\ objs'[k].offset = objs[k].offset]_vars

\* A frame whose objects are locals of one word, at most one variable-sized
\* object after them and the callee-saved slots is packed as WordFrame says:
\* what the frames that ARCStack runs on are assumed to be.
WordFramesPacked ==
    LET c == maxCS - minCS + 1
        locals == Len(objs) - c - (IF hasVarSized THEN 1 ELSE 0)
        reserved == IF adjustsStack /\ ~hasFP THEN maxCallFrame ELSE 0
        w == WordFrame(named, isVarArg, locals, hasVarSized, c, reserved, hasCalls)
    IN  (/\ pc = "done" /\ guard = 0 /\ dead = {} /\ raFI = 0 /\ maxAlign <= 4
         /\ \A k \in 1 .. locals : objs[k].size = 4
         /\ hasVarSized => objs[locals + 1].size = 0) =>
            /\ \A k \in 1 .. Len(objs) : /\ objs[k].size = w.objs[k].size
                                         /\ objs[k].offset = w.objs[k].offset
            /\ \A fld \in DOMAIN Frame \ {"objs"} : Frame[fld] = w[fld]
-----------------------------------------------------------------------------
(***************************************************************************)
(* What the comments and diagrams of the source say of every function.     *)
(***************************************************************************)

\* "the save locations starts at least 8 above the FP"
\* (ARCompactISelLowering.cpp:244): also in a function without calls.
VarArgsEverywhere == (pc = "done" /\ isVarArg) => VarArgsWalk

\* "Just load the return address." (ARCompactISelLowering.cpp:635): the word
\* read must not be the saved frame pointer.
ReturnAddressEverywhere ==
    (pc = "done" /\ raFI # 0) => FrameOffset(Frame, raFI, 0) >= UNITS_PER_WORD

\* The frame diagram (ARCompactFrameLowering.cpp:57-64) gives locals and
\* "arguments on stack" areas of their own, in every function.
OutgoingArgsEverywhere ==
    pc = "done" =>
        \A n \in callSeqs, k \in Live :
            objs[k].size > 0 => n - NumBytes(Frame) <= Lo(k)

\* "Cannot allocate zero size fixed stack objects!" (MachineFunction.cpp:445)
NoZeroSizeFixedObject == pc # "abort"
=============================================================================
