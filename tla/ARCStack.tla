------------------------------ MODULE ARCStack ------------------------------
(***************************************************************************)
(* Compiled functions running on one stack: memory, SP, FP, BLINK and the  *)
(* callee-saved registers, one emitted instruction per step.  Entry and    *)
(* exit of a function are the instructions of emitPrologue(), the          *)
(* callee-saved spills, the register save area, the restores and           *)
(* emitEpilogue(); between them the body writes its objects, allocates     *)
(* dynamically, calls and returns.  An interrupt may overwrite everything  *)
(* below SP between any two instructions.                                  *)
(***************************************************************************)
EXTENDS ARCFrame, FiniteSets, SequencesExt

CONSTANTS
    Functions,
    Mains,          \* those that the start-up code may call
    Halt,           \* where it goes on
    Code,           \* the frame of each function, as ARCFrame takes it, with
                    \* named (its named arguments), csi (its callee-saved
                    \* registers and their frame indexes) and calls (the
                    \* [fn, nargs] of its call sites)
    Registers,      \* callee-saved registers
    StackTop,       \* SP at start-up; addresses are 0 .. StackTop - 4
    MaxDepth,       \* bound: activations at a time, for each of Mains
    MaxDynamic      \* bound: bytes an activation allocates dynamically

\* What the code generator makes of a function, where all it stores are words
\* (ARCFrameInfo): no two objects overlap and all lie between FP and the SP of the
\* body, above the arguments of its calls; fixed objects are where
\* LowerFormalArguments() puts them.  What it does not achieve is left out: a leaf is
\* not variadic, and where SP moves inside the body no call has stack arguments.
SoundFrame(f) ==
    /\ f.named \in Nat /\ f.stackSize \in Nat /\ f.vaSize \in Nat
    /\ f.hasCalls \in BOOLEAN /\ f.hasVarSized \in BOOLEAN
    /\ f.objs \in Seq([size : Nat, offset : Int])
    /\ \A k \in 1 .. Len(f.objs) :
          /\ f.objs[k].offset % UNITS_PER_WORD = 0
          /\ -NumBytes(f) <= f.objs[k].offset /\ f.objs[k].offset + f.objs[k].size <= 0
          /\ \A l \in 1 .. Len(f.objs) \ {k} :
                \/ f.objs[k].offset + f.objs[k].size <= f.objs[l].offset
                \/ f.objs[l].offset + f.objs[l].size <= f.objs[k].offset
    /\ \A a \in NumArgRegs + 1 .. f.named :
          /\ f.vaFI # NumArgRegs - a
          /\ f.fixed[a - NumArgRegs].offset = LocMemOffset(a)
    /\ f.vaSize # 0 => /\ f.hasCalls /\ f.vaSize = VARegSaveSize(f.named)
                       /\ f.vaFI < 0 /\ f.fixed[-f.vaFI].offset = VarArgsOffset(f.named)
    /\ f.csi \in Seq([reg : Registers, fi : Nat])
    /\ \A j \in 1 .. Len(f.csi) :
          /\ f.csi[j].fi < Len(f.objs) /\ f.objs[f.csi[j].fi + 1].size >= UNITS_PER_WORD
          /\ \A l \in 1 .. Len(f.csi) \ {j} : /\ f.csi[j].reg # f.csi[l].reg
                                             /\ f.csi[j].fi # f.csi[l].fi
    /\ \A c \in f.calls :
          /\ f.hasCalls /\ c.fn \in Functions /\ c.nargs \in Nat
          /\ Code[c.fn].named <= c.nargs
          /\ c.nargs > NumArgRegs =>
                /\ ~f.hasVarSized /\ NextStackOffset(c.nargs) <= NumBytes(f)
                /\ \A k \in 1 .. Len(f.objs) :
                      -NumBytes(f) + NextStackOffset(c.nargs) <= f.objs[k].offset

ASSUME CodeAssumption ==
    /\ Mains \subseteq Functions /\ Halt \notin Functions
    /\ \A g \in Functions : SoundFrame(Code[g])
    /\ \A m \in Mains : Code[m].named <= NumArgRegs

\* The stack is large enough for as many activations as there may be.
ASSUME StackAssumption ==
    /\ StackTop \in Nat /\ StackTop % UNITS_PER_WORD = 0 /\ MaxDynamic \in Nat
    /\ \A m \in Mains : MaxDepth[m] \in Nat \ {0}
    /\ \E bytes \in 0 .. StackTop :
          /\ \A g \in Functions : EntrySP(Code[g]) + NumBytes(Code[g]) + MaxDynamic <= bytes
          /\ \A m \in Mains : MaxDepth[m] * bytes <= StackTop

Words == {4 * w : w \in 0 .. (StackTop \div 4) - 1}

VARIABLES
    mem, SP, FP, BLINK, regs,
    fn, part, at,   \* the next instruction: number at of the entry or the exit
                    \* of fn; past the entry's last one is the body
    pend,           \* the call sequence in progress: callee, arguments, next
    acts            \* history: the activations, that of one of Mains first

regVars == <<SP, FP, BLINK, regs>>
vars == <<mem, regVars, fn, part, at, pend, acts>>

\* What a word or a register may hold.
Addr(a) == <<"addr", a, 0>>
Ret(f, g) == <<"ret", f, g>>        \* the return address after f's call of g
Arg(d, a) == <<"arg", d, a>>        \* argument a of the activation at depth d
Loc(d, o) == <<"loc", d, o>>        \* what it writes to its own word o
Reg(d, r) == <<"reg", d, r>>        \* what it puts in register r
Junk == <<"junk", 0, 0>>
-----------------------------------------------------------------------------
(***************************************************************************)
(* The instructions around a body.                                         *)
(***************************************************************************)
Ins(op, reg, imm) == [op |-> op, reg |-> reg, imm |-> imm]
If(condition, ins) == IF condition THEN <<ins>> ELSE <<>>

MutantLeafRedZone(f) ==     \* a leaf does not move SP over its locals
    If(f.vaSize # 0, Ins("SUBrsi", "SP", f.vaSize))
    \o If(f.hasCalls, Ins("STrri_a", "BLINK", 0))
    \o <<Ins("STrri_a", "FP", 0), Ins("MOVrr", "FP", 0)>>
    \o If(NumBytes(f) > 0 /\ f.hasCalls, Ins("SUBrsi", "SP", NumBytes(f)))
MutantFPFirst(f) ==         \* FP pushed before BLINK
    If(f.vaSize # 0, Ins("SUBrsi", "SP", f.vaSize))
    \o <<Ins("STrri_a", "FP", 0)>>
    \o If(f.hasCalls, Ins("STrri_a", "BLINK", 0))
    \o <<Ins("MOVrr", "FP", 0)>>
    \o If(NumBytes(f) > 0, Ins("SUBrsi", "SP", NumBytes(f)))
Prologue(f) ==
    If(f.vaSize # 0, Ins("SUBrsi", "SP", f.vaSize))
    \o If(f.hasCalls, Ins("STrri_a", "BLINK", 0))
    \o <<Ins("STrri_a", "FP", 0), Ins("MOVrr", "FP", 0)>>
    \o If(NumBytes(f) > 0, Ins("SUBrsi", "SP", NumBytes(f)))

MutantKeepsArea(f) ==       \* the save area is not popped
    If(NumBytes(f) > 0, Ins("ADDrsi", "SP", NumBytes(f)))
    \o If(f.hasVarSized, Ins("MOVrr", "SP", 0))
    \o <<Ins("LDri_ab", "FP", 0)>>
    \o If(f.hasCalls, Ins("LDri_ab", "BLINK", 0))
Epilogue(f) ==
    If(NumBytes(f) > 0, Ins("ADDrsi", "SP", NumBytes(f)))
    \o If(f.hasVarSized, Ins("MOVrr", "SP", 0))
    \o <<Ins("LDri_ab", "FP", 0)>>
    \o If(f.hasCalls, Ins("LDri_ab", "BLINK", 0))
    \o If(f.vaSize # 0, Ins("ADDrsi", "SP", f.vaSize))

\* insertCSRSpillsAndRestores(): the restores undo the spills in reverse.
Spills(f) == [k \in 1 .. Len(f.csi) |-> Ins("STrri", f.csi[k].reg, f.csi[k].fi)]
MutantRestores(f) ==        \* one register short
    [k \in 1 .. Len(f.csi) - 1 |-> LET c == f.csi[Len(f.csi) + 1 - k]
                                   IN  Ins("LDri", c.reg, c.fi)]
Restores(f) ==
    [k \in 1 .. Len(f.csi) |-> LET c == f.csi[Len(f.csi) + 1 - k]
                               IN  Ins("LDri", c.reg, c.fi)]

\* LowerFormalArguments() stores R(named) .. R7 of a variadic function.
SaveArgRegs(f) ==
    [k \in 1 .. f.vaSize \div UNITS_PER_WORD |-> Ins("STva", f.named + k, k - 1)]

Entry(f) == Prologue(f) \o Spills(f) \o SaveArgRegs(f)
Exit(f) == Restores(f) \o Epilogue(f)
EntryCode == [f \in Functions |-> Entry(Code[f])]
ExitCode == [f \in Functions |-> Exit(Code[f])]
Instructions == IF part = "entry" THEN EntryCode[fn] ELSE ExitCode[fn]
-----------------------------------------------------------------------------
depth == Len(acts)
NoCall == [fn |-> Halt, nargs |-> 0, next |-> 0]

\* The frame pointer that activation k's prologue sets.
Frame(k) == Code[acts[k].fn]
FramePointer(k) == acts[k].sp - EntrySP(Frame(k))

\* The words of its own an activation of f writes: those of its frame objects
\* other than the callee-saved slots, named by frame index and displacement,
\* and those it allocates dynamically, named by address.
Slots(f) == {f.csi[k].fi : k \in 1 .. Len(f.csi)}
ObjectWords(f) ==
    UNION {{<<"obj", fi, 4 * w>> : w \in 0 .. (f.objs[fi + 1].size \div 4) - 1} :
              fi \in (0 .. Len(f.objs) - 1) \ Slots(f)}

\* Where an instruction with frame index fi and displacement imm goes.
Address(fp, f, fi, imm, isStore) ==
    LET e == EliminateFrameIndex(f, fi, imm, isStore)
    IN  fp + e.moved + e.disp
WordAddress(k, o) == IF o[1] = "dyn" THEN o[2]
                     ELSE Address(FramePointer(k), Frame(k), o[2], o[3], TRUE)

Activation(f, sp, ret, nargs) ==
    [fn |-> f, sp |-> sp, ret |-> ret, nargs |-> nargs, keep |-> regs,
     written |-> {}, dyn |-> 0]

Init ==
    /\ mem = [a \in Words |-> Junk]
    /\ fn \in Mains /\ part = "entry" /\ at = 1 /\ pend = NoCall
    /\ SP = StackTop /\ FP = StackTop /\ BLINK = Ret(Halt, fn)
    /\ regs = [r \in Registers |-> Reg(0, r)]
    /\ acts = <<Activation(fn, StackTop, Ret(Halt, fn), 0)>>
-----------------------------------------------------------------------------
(***************************************************************************)
(* One action per kind of instruction.                                     *)
(***************************************************************************)
Fetch(op) ==
    /\ fn # Halt /\ at <= Len(Instructions)
    /\ Instructions[at].op = op
    /\ at' = at + 1 /\ UNCHANGED <<fn, part, pend, acts>>
ins == Instructions[at]

SUBrsi == Fetch("SUBrsi") /\ SP' = SP - ins.imm /\ UNCHANGED <<mem, FP, BLINK, regs>>
ADDrsi == Fetch("ADDrsi") /\ SP' = SP + ins.imm /\ UNCHANGED <<mem, FP, BLINK, regs>>

\* ST.a reg, [SP, -4]
STrri_a ==
    /\ Fetch("STrri_a")
    /\ SP' = SP - UNITS_PER_WORD
    /\ mem' = [mem EXCEPT ![SP'] = IF ins.reg = "FP" THEN Addr(FP) ELSE BLINK]
    /\ UNCHANGED <<FP, BLINK, regs>>

\* LD.ab reg, [SP, 4]
LDri_ab ==
    /\ Fetch("LDri_ab")
    /\ SP' = SP + UNITS_PER_WORD
    /\ IF ins.reg = "FP" THEN /\ mem[SP][1] = "addr" /\ FP' = mem[SP][2]
                              /\ UNCHANGED BLINK
                         ELSE BLINK' = mem[SP] /\ UNCHANGED FP
    /\ UNCHANGED <<mem, regs>>

MOVrr ==
    /\ Fetch("MOVrr")
    /\ IF ins.reg = "FP" THEN FP' = SP /\ UNCHANGED SP
                         ELSE SP' = FP /\ UNCHANGED FP
    /\ UNCHANGED <<mem, BLINK, regs>>

\* A callee-saved register to and from its slot.
STrri ==
    /\ Fetch("STrri")
    /\ mem' = [mem EXCEPT ![Address(FP, Code[fn], ins.imm, 0, TRUE)] = regs[ins.reg]]
    /\ UNCHANGED regVars
LDri ==
    /\ Fetch("LDri")
    /\ regs' = [regs EXCEPT ![ins.reg] = mem[Address(FP, Code[fn], ins.imm, 0, FALSE)]]
    /\ UNCHANGED <<mem, SP, FP, BLINK>>

\* Argument register ins.reg, still as the caller left it, to the save area.
STva ==
    /\ Fetch("STva")
    /\ mem' = [mem EXCEPT ![Address(FP, Code[fn], Code[fn].vaFI,
                                    UNITS_PER_WORD * ins.imm, TRUE)]
                             = Arg(depth, ins.reg)]
    /\ UNCHANGED regVars

\* An interrupt handler runs on the same stack.
Interrupt ==
    /\ mem' = [a \in Words |-> IF a < SP THEN Junk ELSE mem[a]]
    /\ mem' # mem /\ UNCHANGED <<regVars, fn, part, at, pend, acts>>
-----------------------------------------------------------------------------
(***************************************************************************)
(* The body.                                                               *)
(***************************************************************************)
InBody == fn # Halt /\ part = "entry" /\ at > Len(Instructions)
Running == InBody /\ pend = NoCall

WriteObject(o) ==
    /\ Running
    /\ mem' = [mem EXCEPT ![Address(FP, Code[fn], o[2], o[3], TRUE)] = Loc(depth, o)]
    /\ acts' = [acts EXCEPT ![depth].written = @ \cup {o}]
    /\ UNCHANGED <<regVars, fn, part, at, pend>>

UseCalleeSaved(r) ==
    /\ Running /\ \E k \in 1 .. Len(Code[fn].csi) : Code[fn].csi[k].reg = r
    /\ regs' = [regs EXCEPT ![r] = Reg(depth, r)]
    /\ UNCHANGED <<mem, SP, FP, BLINK, fn, part, at, pend, acts>>

\* ExpandDYNAMIC_STACKALLOC(): the block starts at the new SP.
DynamicStackAlloc(size) ==
    /\ Running /\ Code[fn].hasVarSized
    /\ acts[depth].dyn + size <= MaxDynamic
    /\ SP' = SP - size
    /\ acts' = [acts EXCEPT ![depth].dyn = @ + size]
    /\ UNCHANGED <<mem, FP, BLINK, regs, fn, part, at, pend>>

DynamicWords == {a \in Words : SP <= a /\ a < SP + acts[depth].dyn}

WriteDynamic(a) ==
    /\ Running /\ a \in DynamicWords
    /\ LET o == <<"dyn", a, 0>>
       IN  /\ mem' = [mem EXCEPT ![a] = Loc(depth, o)]
           /\ acts' = [acts EXCEPT ![depth].written = @ \cup {o}]
    /\ UNCHANGED <<regVars, fn, part, at, pend>>

\* STACKRESTORE to the SP saved before the blocks.
StackRestore ==
    /\ Running /\ acts[depth].dyn > 0
    /\ SP' = SP + acts[depth].dyn
    /\ acts' = [acts EXCEPT ![depth].dyn = 0,
                            ![depth].written = {o \in @ : o[1] = "obj"}]
    /\ UNCHANGED <<mem, FP, BLINK, regs, fn, part, at, pend>>

\* LowerCall(): the arguments past the eighth are stored from SP upwards, the
\* ADJCALLSTACK pseudos around them are erased, and JL sets BLINK.
BeginCall(c) ==
    /\ Running /\ depth < MaxDepth[acts[1].fn]
    /\ pend' = [fn |-> c.fn, nargs |-> c.nargs, next |-> NumArgRegs + 1]
    /\ UNCHANGED <<mem, regVars, fn, part, at, acts>>

PassArgument ==
    /\ pend # NoCall /\ pend.next <= pend.nargs
    /\ mem' = [mem EXCEPT ![SP + LocMemOffset(pend.next)] = Arg(depth + 1, pend.next)]
    /\ pend' = [pend EXCEPT !.next = @ + 1]
    /\ UNCHANGED <<regVars, fn, part, at, acts>>

JL ==
    /\ pend # NoCall /\ pend.next > pend.nargs
    /\ BLINK' = Ret(fn, pend.fn)
    /\ fn' = pend.fn /\ part' = "entry" /\ at' = 1 /\ pend' = NoCall
    /\ acts' = Append(acts, Activation(pend.fn, SP, BLINK', pend.nargs))
    /\ UNCHANGED <<mem, SP, FP, regs>>

BeginReturn ==
    /\ Running /\ part' = "exit" /\ at' = 1
    /\ acts' = [acts EXCEPT ![depth].written = {}]
    /\ UNCHANGED <<mem, regVars, fn, pend>>

\* j [blink]: to the body of the function that made the call, or to Halt.
AtReturn == fn # Halt /\ part = "exit" /\ at > Len(Instructions)
RET ==
    /\ AtReturn /\ BLINK[1] = "ret"
    /\ fn' = BLINK[2] /\ part' = "entry"
    /\ at' = IF fn' = Halt THEN 1 ELSE Len(EntryCode[fn']) + 1
    /\ acts' = Front(acts)
    /\ UNCHANGED <<mem, regVars, pend>>

Halted == fn = Halt /\ UNCHANGED vars

Instruction ==
    \/ SUBrsi \/ ADDrsi \/ STrri_a \/ LDri_ab \/ MOVrr \/ STrri \/ LDri \/ STva
    \/ RET

Body ==
    \/ \E o \in ObjectWords(Code[fn]) : WriteObject(o)
    \/ \E r \in Registers : UseCalleeSaved(r)
    \/ DynamicStackAlloc(UNITS_PER_WORD)
    \/ \E a \in Words : WriteDynamic(a)
    \/ StackRestore
    \/ \E c \in Code[fn].calls : BeginCall(c)
    \/ PassArgument
    \/ JL
    \/ BeginReturn

Next == Instruction \/ (fn # Halt /\ Body) \/ Interrupt \/ Halted

Spec == Init /\ [][Next]_vars
-----------------------------------------------------------------------------
(***************************************************************************)
(* Properties.                                                             *)
(***************************************************************************)
Depths == 0 .. IF acts = <<>> THEN 0 ELSE MaxDepth[acts[1].fn]
TypeOK ==
    /\ SP \in Words \cup {StackTop} /\ FP \in Words \cup {StackTop}
    /\ DOMAIN mem = Words /\ DOMAIN regs = Registers
    /\ fn \in Functions \cup {Halt} /\ part \in {"entry", "exit"}
    /\ at \in Nat \ {0} /\ depth \in Depths
    /\ pend.fn \in Functions \cup {Halt}
    /\ \A k \in 1 .. depth :
          /\ acts[k].fn \in Functions /\ acts[k].sp \in Words \cup {StackTop}
          /\ acts[k].dyn \in 0 .. MaxDynamic

\* In a body FP and SP are where the layout of the frame assumes them: after
\* the prologue, and again after every call, whatever the callee was.
BodyPointers ==
    InBody => /\ FP = FramePointer(depth)
              /\ SP = FP - NumBytes(Frame(depth)) - acts[depth].dyn

\* Every word an activation has written to its objects and dynamic blocks
\* still holds what it wrote, in the middle of any callee's prologue, epilogue
\* or body and after any interrupt.
LocalsIntact ==
    \A k \in 1 .. depth : \A o \in acts[k].written :
        mem[WordAddress(k, o)] = Loc(k, o)

\* The body reads from its frame every argument its caller passed on the
\* stack, and a variadic one walks from its save area into those words.
ArgsDelivered ==
    InBody =>
        LET f == Frame(depth)
        IN  /\ \A a \in NumArgRegs + 1 .. f.named :
                  mem[FP + FrameOffset(f, NumArgRegs - a, 0)] = Arg(depth, a)
            /\ f.vaSize > 0 =>
                  \A a \in f.named + 1 .. acts[depth].nargs :
                      mem[FP + FrameOffset(f, f.vaFI, 4 * (a - f.named - 1))]
                         = Arg(depth, a)

\* LowerFRAMEADDR() loads from FP once per level.
FrameAddr[d \in 0 .. depth - 1] ==
    IF d = 0 THEN FP
    ELSE LET up == FrameAddr[d - 1]
         IN  IF up \in Words /\ mem[up][1] = "addr" THEN mem[up][2] ELSE 0

\* From any body __builtin_frame_address(d) is the frame of the d-th caller,
\* and __builtin_return_address(d), the word above it for d > 0, is where that
\* caller returns to.
FrameChain ==
    InBody =>
        \A d \in 0 .. depth - 1 :
            /\ FrameAddr[d] = FramePointer(depth - d)
            /\ d > 0 => mem[FrameAddr[d] + UNITS_PER_WORD] = acts[depth - d].ret

\* All: in every body SP and FP are words of the stack, where the layout of its own
\* frame assumes them, and the saved frame pointers lead to those of all its callers.
PointersSound == TypeOK /\ BodyPointers /\ FrameChain

\* When control goes back, SP, FP and the callee-saved registers are what they
\* were at the call, and BLINK holds this call's return address.
ReturnsAsCalled ==
    AtReturn =>
        /\ SP = acts[depth].sp
        /\ FP = IF depth = 1 THEN StackTop ELSE FramePointer(depth - 1)
        /\ regs = acts[depth].keep
        /\ BLINK = acts[depth].ret

\* The machine implements the abstract procedure stack: what an activation's
\* variables and arguments are is read from memory.
AbsActivation(k) ==
    [proc |-> acts[k].fn,
     args |-> [a \in NumArgRegs + 1 .. acts[k].nargs |->
                  mem[acts[k].sp + LocMemOffset(a)]],
     vars |-> [o \in acts[k].written |-> mem[WordAddress(k, o)]],
     keep |-> acts[k].keep]
AbsStack == [k \in 1 .. depth |-> AbsActivation(k)]
Procedures == INSTANCE ProcedureStack
                WITH stack <- AbsStack, running <- fn, saved <- regs
ImplementsProcedures == Procedures!Spec
=============================================================================
