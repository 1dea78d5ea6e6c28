------------------------------ MODULE ARCFrame ------------------------------
(***************************************************************************)
(* The arithmetic of an ARCompact stack frame: where the calling           *)
(* convention puts an argument, what the prologue and the epilogue do to   *)
(* SP, and where eliminateFrameIndex() says an object of the frame lives.  *)
(* There is no state here.  Addresses and offsets are in bytes; an offset  *)
(* of a frame object is relative to the frame pointer the prologue sets.   *)
(***************************************************************************)
EXTENDS Integers, Sequences

UNITS_PER_WORD == 4             \* ARCompactFrameLowering.h:28
StackAlignment == 4             \* TargetFrameLowering(StackGrowsDown, 4, 0)
TransientStackAlignment == 1    \* the default of TargetFrameLowering
NumArgRegs == 8                 \* R0 .. R7

\* (x + a - 1) & ~(a - 1) and (x + a - 1) / a * a, for a power of two a.
RoundUp(x, a) == ((x + a - 1) \div a) * a

MaxOf(a, b) == IF a >= b THEN a ELSE b
-----------------------------------------------------------------------------
(***************************************************************************)
(* The calling convention CC_ARCompact32.  Every argument is an i32 after  *)
(* type legalisation: the first eight go in R0-R7, the others in 4-byte    *)
(* slots from offset 0 of the caller's outgoing area.                      *)
(***************************************************************************)

\* CCState::getFirstUnallocated(ArgumentRegisters) after n arguments.
FirstUnallocated(n) == IF n < NumArgRegs THEN n ELSE NumArgRegs

\* CCState::getNextStackOffset() after n arguments.
NextStackOffset(n) == UNITS_PER_WORD * (n - FirstUnallocated(n))

\* getLocMemOffset() of the i-th argument, i > NumArgRegs, counted from 1.
LocMemOffset(i) == UNITS_PER_WORD * (i - NumArgRegs - 1)

\* The register save area of a variadic function with n named arguments.
VARegSize(n) == UNITS_PER_WORD * (NumArgRegs - FirstUnallocated(n))
VARegSaveSize(n) == RoundUp(VARegSize(n), StackAlignment)
VarArgsOffset(n) == NextStackOffset(n) + VARegSaveSize(n) - VARegSize(n) + 8

\* The fixed objects of the n named arguments that are passed on the stack.
FixedObject(size, off) == [size |-> size, offset |-> off]
StackArgs(n) == [j \in 1 .. n - FirstUnallocated(n) |->
                    FixedObject(UNITS_PER_WORD, LocMemOffset(NumArgRegs + j))]
-----------------------------------------------------------------------------
(***************************************************************************)
(* A compiled function's frame information is a record f with              *)
(*   fixed       the fixed objects, <<frame index -1, frame index -2, ..>> *)
(*   objs        the other objects, <<frame index 0, frame index 1, ...>>  *)
(*   hasCalls, hasVarSized, vaSize, vaFI, stackSize                        *)
(* where an object is a record with at least the fields size and offset.   *)
(***************************************************************************)

\* The locals, after the target's own rounding.
MutantTruncated(f) == (f.stackSize \div UNITS_PER_WORD) * UNITS_PER_WORD
NumBytes(f) == RoundUp(f.stackSize, UNITS_PER_WORD)

\* The words the prologue saves between the frame pointer and the save area.
SavedBytes(f) == UNITS_PER_WORD + (IF f.hasCalls THEN UNITS_PER_WORD ELSE 0)

\* SP on entry to the function, relative to the FP its prologue sets.
EntrySP(f) == SavedBytes(f) + f.vaSize

\* MFI->getObjectOffset(fi).
ObjectOffset(f, fi) == IF fi < 0 THEN f.fixed[-fi].offset
                                 ELSE f.objs[fi + 1].offset

\* The offset from FP that eliminateFrameIndex() computes for operand
\* (fi, imm): a fixed object that is not the varargs area is taken to be a
\* memory argument, above the saved FP and the saved BLINK.
MutantNoBlink(f, fi, imm) ==
    ObjectOffset(f, fi) + imm
      + (IF fi < 0 /\ fi # f.vaFI THEN UNITS_PER_WORD ELSE 0)
MutantAllFixed(f, fi, imm) ==
    ObjectOffset(f, fi) + imm + (IF fi < 0 THEN SavedBytes(f) ELSE 0)
FrameOffset(f, fi, imm) ==
    ObjectOffset(f, fi) + imm
      + (IF fi < 0 /\ fi # f.vaFI THEN SavedBytes(f) ELSE 0)

FitsInt9(x) == x \in -256 .. 255

\* What eliminateFrameIndex() leaves in the instruction: a base register, a
\* displacement, and how far an ADD into T4 moved the base from FP.
MutantEliminateFrameIndex(f, fi, imm, isStore) ==
    LET Offset == FrameOffset(f, fi, imm)
    IN  IF isStore /\ Offset > 255
        THEN [base |-> "T4", moved |-> Offset - 255, disp |-> 255]
        ELSE [base |-> "FP", moved |-> 0, disp |-> Offset]
EliminateFrameIndex(f, fi, imm, isStore) ==
    LET Offset == FrameOffset(f, fi, imm)
        Difference == IF Offset > 255 THEN Offset - 255 ELSE Offset + 256
    IN  IF isStore /\ ~FitsInt9(Offset)
        THEN [base |-> "T4", moved |-> Difference, disp |-> Offset - Difference]
        ELSE [base |-> "FP", moved |-> 0, disp |-> Offset]
-----------------------------------------------------------------------------
(***************************************************************************)
(* The frame of a function with n named arguments whose objects are words: *)
(* locals of 4 bytes, a variable-sized object or none, and c callee-saved  *)
(* slots, above reserved bytes for outgoing arguments.  This is the layout *)
(* ARCFrameInfo computes for it in closed form, for ARCStack to run on.    *)
(***************************************************************************)
WordFrame(n, isVarArg, locals, hasVarSized, c, reserved, hasCalls) ==
    LET m == IF hasVarSized THEN locals + 1 ELSE locals
    IN  [named |-> n, hasCalls |-> hasCalls, hasVarSized |-> hasVarSized,
         vaSize |-> IF isVarArg THEN VARegSaveSize(n) ELSE 0,
         vaFI |-> IF isVarArg THEN - Len(StackArgs(n)) - 1 ELSE 0,
         fixed |-> StackArgs(n) \o
             (IF isVarArg THEN <<FixedObject(VARegSaveSize(n), VarArgsOffset(n))>>
                          ELSE <<>>),
         objs |-> [k \in 1 .. m + c |->
             CASE k <= locals -> [size |-> 4, offset |-> -4 * (c + k)]
               [] k > m       -> [size |-> 4, offset |-> -4 * (k - m)]
               [] OTHER       -> [size |-> 0, offset |-> -4 * (c + locals)]],
         stackSize |-> 4 * (locals + c) + reserved]
=============================================================================
