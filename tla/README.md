# A verification project for the ARCompact back end and the LLVM under it

The repository is a fork of LLVM. Its own program is the code generator for
the ARC ARCompact processor in `lib/Target/ARCompact` (about 4000 lines, and
no tests of its own); the rest is the LLVM it is built on. What can go wrong
silently in it is the protocol between three parties that never see each
other: the lowering hooks that decide, during instruction selection, where a
word of the stack *will* be; the prologue/epilogue inserter (PEI) that decides,
after register allocation, where it *is*; and the compiled code of other
functions, which shares the stack at run time. The modules here model that
protocol from both ends: the compiler's bookkeeping of one frame, and the
emitted code running on a stack of them. A second group of modules follows a
condition of the program through the passes that rewrite it to the branch that
decides it, and then through the passes that move, fold and predicate blocks
through the target's branch hooks. A third group is about the parts of LLVM's
support library that several threads, processes or signal handlers enter at
once.

Paths below are relative to the repository; ARCompact files are named without
`lib/Target/ARCompact/ARCompact`.

## 1. Inventory

| Part | State | Operations | Talks to | Hard because | Correct when |
|---|---|---|---|---|---|
| Calling convention (`CallingConv.td`, `ISelLowering.cpp`) | `CCState`: registers and stack bytes used | `LowerFormalArguments`, `LowerCall`, `LowerReturn`, `LowerVASTART` | creates fixed frame objects, bracket pseudos around calls | offsets are guessed before the prologue exists; 8 registers, then stack; variadic functions mix both | every argument is read where it was stored |
| Function info (`MachineFunctionInfo.h`) | varargs frame index and size, return address index | getters/setters | written in selection, read in PEI and frame-index elimination | 0 means "none" | consumers agree on what an index means |
| Frame objects (`MachineFrameInfo.h`) | objects, sizes, alignments, offsets, flags | create, spill slot, remove, variable-sized | all passes | negative and positive index spaces; dead objects keep their index | |
| PEI (`CodeGen/PrologEpilogInserter.cpp`) | loop locals, `LargeStackObjs`, min/max CSR index | calls information, callee-saved registers, offsets, prologue/epilogue, frame-index replacement | target hooks | four placement loops with separate skip conditions | each live object placed once, disjoint, inside the frame |
| Frame lowering (`FrameLowering.cpp`) | none | `emitPrologue`, `emitEpilogue`, `hasFP` | PEI | order of pushes is an ABI | SP, FP, BLINK restored on every path |
| Frame-index elimination (`RegisterInfo.cpp`) | none | `eliminateFrameIndex`, `eliminateCallFramePseudoInstr` | PEI | guesses which negative index is an argument; stores have a 9-bit displacement | address = object's address |
| Run-time stack | memory, SP, FP, BLINK, registers | emitted instructions, interrupts | all compiled functions | interleaving of a body, its callees and interrupts on one stack | each activation's words are its own; procedure calls behave as calls |
| Conditions (`ARCompact.h`, `ISelLowering.cpp`, `CodeGen/SelectionDAG`) | the DAG node of a condition, its code | `LowerBR_CC`, `LowerSELECT_CC`, `EmitCMP`, `getOppositeCondition`, `SubsumesPredicate` | type and operation legalization, branch analysis, if-conversion | signed and unsigned order, overflow, 16 codes | each code holds exactly when the comparison does |
| Branch analysis (`InstrInfo.cpp`) | the terminators of a block | `AnalyzeBranch`, `RemoveBranch`, `InsertBranch`, `ReverseBranchCondition` | branch folding, placement, if-conversion | it deletes code while it looks; debug values; fall-through depends on layout | a block goes where it went |
| If-conversion hooks (`InstrInfo.cpp`) | none | `isPredicable`, `PredicateInstruction`, `DefinesPredicate`, `isProfitableToIfCvt` | `CodeGen/IfConversion.cpp` | 32-bit cost arithmetic; predicates clobbered in the middle | same effect for every flag value |
| Select expansion (`ISelLowering.cpp`) | blocks, CFG edges, PHIs | `EmitInstrWithCustomInserter` | instruction emission | edges, PHIs and layout change together | CFG stays consistent |
| Address modes (`ISelDAGToDAG.cpp`) | none | `SelectADDRri` and others | patterns | base or displacement chosen from shapes of the DAG | base + displacement = address |
| Branch folding (`CodeGen/BranchFolding.cpp`) | layout, terminators, edges | `OptimizeFunction`, `OptimizeBlock` | branch analysis | fall-through is an edge nobody writes down; every case of `OptimizeBlock` returns to another | control goes as before; it ends |
| Block placement (`CodeGen/MachineBlockPlacement.cpp`) | layout | splice, `updateTerminator` | branch analysis | the old layout is needed to know what a block meant | control goes as before |
| If-conversion (`CodeGen/IfConversion.cpp`) | candidates, a queue of tokens, edges | analysis, conversion of shapes, merging | the hooks above | tokens go stale when a block is merged; an edge removed too early | the program computes what it did; no token is used stale |
| If-conversion costs (`BranchProbabilityInfo`, `isProfitableToIfCvt`) | none | 32-bit fractions | | products wrap around | never converts at a loss |
| Lock files (`Support/LockFileManager.cpp`) | a lock file, a unique file per process | construct, `getState`, `waitForUnlock`, destruct | the file system | processes die; link() may lie; disks fill up; the lock is removed by name | lock complete, owner known, nothing left, everybody returns but for a full disk |
| Managed statics (`Support/ManagedStatic.cpp`) | `Ptr`, `StaticList`, the global lock | dereference, construct, `llvm_shutdown` | constructors that use other statics | looks without a lock; weak memory; nested construction | whole objects only, built once, destroyed in order |
| Signals and output files (`Support/Unix/Signals.inc`, `ToolOutputFile.cpp`) | `FilesToRemove`, the table of old handlers, the mutex | `RemoveFileOnSignal`, the handler, `keep` | every tool | a handler runs between any two steps, also of itself | a killed tool leaves no half file; a kept file stays |
| Assembly output, registration, patterns | none | printers, tables | | | not modelled: output and tables |

## 2. Modules

| Module | What it models |
|---|---|
| `ARCFrame` | Operators without state: the calling convention's slots, the sizes the prologue uses, `eliminateFrameIndex`. `f` is a record of what the compiler knows of one function's frame. |
| `ARCFrameInfo` | The compilation of one function as far as the frame is concerned, as a state machine over `MachineFrameInfo`, `ARCompactMachineFunctionInfo` and PEI's locals. |
| `ProcedureStack` | Abstract: what a procedure call promises. No memory, no SP. |
| `ARCStack` | Emitted code of several functions running on one stack, one instruction per step. Implements `ProcedureStack`. |
| `ARCCondCodes` | Operators without state: ISD comparisons, the flags of CMP, ARCompact condition codes, and the tables that relate them. |
| `ARCConditions` | One `br`, `select` or `icmp` from the IR to the instruction that decides it, one pass per step. |
| `ARCBranch` | A function as blocks in a layout with terminators and edges; `AnalyzeBranch`, `RemoveBranch`, `InsertBranch`, `updateTerminator` and the other operations on them. Used by the next three. |
| `BranchFolding` | `BranchFolder::OptimizeFunction`, one visit of a block per step. |
| `BlockPlacement` | Extends `BranchFolding`: after it, the blocks of the function are put into another order. |
| `IfConversion` | The if-converter: analysis, token queue, conversion, rounds. |
| `ARCIfCvtCost` | Branch probabilities and the cost comparison, in unsigned arithmetic of a given width. |
| `LockFile` | Processes on one or two machines that use one lock file. |
| `ManagedStatics` | Threads that dereference lazily constructed globals, and `llvm_shutdown`. |
| `SignalFiles` | Threads that write output files, and signals. |
| `MCFrameInfo`, `MCStack`, `MCBlockPlacement`, .. | Instances for TLC (`ARCConditions` needs none: its one constant is a number). |
| `ARCFrameInfo_proofs` | Theorems about `ARCFrameInfo`: the layout, the order of the layout, the arguments. |
| `ARCStackFrames_proofs`, `ARCStack_proofs` | Theorems about `ARCStack`: the first has the lemmas about one frame (what each instruction of an entry or exit is, where its words are), the second the invariant, the properties and the refinement. |
| `IfConversion_proofs` | Theorems about `IfConversion`, and at its end about `ARCIfCvtCost`. |
| `ARCConditions_proofs`, `LockFile_proofs`, `ManagedStatics_proofs`, `SignalFiles_proofs` | Theorems about these modules. |

### `ARCFrameInfo`: state and actions

`pc` is the pass, and inside PEI the loop, that runs next: `allocas`, `select`,
`regalloc`, `csr`, `fixed`, `csrslots`, `guard`, `large`, `objects`, `size`,
`done`; `abort` after a failed assertion. `fixed` holds the fixed objects
(frame index -1, -2, ..), `objs` the others (frame index 0, 1, .. at position
1, 2, ..). `vaSize`, `vaFI`, `raFI` are the three fields of
`ARCompactMachineFunctionInfo` that matter. The function body is reduced to
what PEI asks of it: the byte counts of its call sequences (`callSeqs`), whether
it contains a call instruction (`callInsts`) and a stack-aligning inline asm.
PEI's own loops step once per iteration with the loop index `i` and the running
`offset`, so that the skip conditions of the four loops are guards of actions
and their interplay is checked, not assumed.

| Action | Code |
|---|---|
| `CreateStackObject` | static allocas, `FunctionLoweringInfo::set` |
| `LowerFormalArguments` | stack arguments and the varargs save area; `abort` is the assertion in `CreateFixedObject` |
| `LowerCall(n)`, `DynamicStackAlloc`, `StackAligningInlineAsm`, `StackProtector`, `getReturnAddressFrameIndex` | what selection of a body may do, any number of times in any order |
| `FinishSelection` | `SelectionDAGISel` computes `hasCalls` |
| `CreateSpillStackObject`, `RemoveStackObject` | register allocation, stack slot coloring |
| `calculateCallsInformation` ... `SetStackSize` | PEI in order |

`hasCalls` (there is a call instruction; the prologue saves BLINK by it) and
`adjustsStack` (there is a call sequence; PEI reserves the call frame by it)
are computed by two passes from different facts and are kept apart here for
that reason: a dynamic allocation sets only the second, and an inline asm sets
both without any bytes.

### `ARCStack`: state and actions

`mem`, `SP`, `FP`, `BLINK`, `regs` are the machine. `EntryCode[f]` and
`ExitCode[f]` are the instruction sequences that `emitPrologue`,
the spills and the argument saves, and the restores and `emitEpilogue`, produce
for a function with frame `Code[f]`; each instruction is a step. In between
the body nondeterministically writes its objects, allocates dynamically,
releases, uses a callee-saved register it was compiled to use, calls and
returns. A word holds a tagged value (which activation wrote it and why)
rather than a number: every property asks whose value it is.

`Interrupt` may run between any two instructions and overwrites every word
below SP. `acts` is history: each activation's function, SP, return address and
register values at its call, what it wrote, and how much it allocated.

The frames in `Code` are `WordFrame`s: words only. That this closed form is
what PEI produces for such functions is not assumed: `WordFramesPacked` is
checked by the run `frame_info` and proved.

`ProcedureStack` is implemented under the mapping in `ImplementsProcedures`:
an activation's variables and arguments are *read from memory* through the
frame-index addresses, so a word overwritten by anybody shows up as an
abstract variable that changed without a `Write`.

### `ARCConditions`: state and actions

`node` is the DAG node or instruction that stands for the condition and `cond`
the comparison it makes: of two words, or of the i1 values in bit 0 of two
words. `inverted` says that an XOR with 1 stands in between. `arms` is what
happens when the node's condition holds and when it does not: the destinations
of a branch, the operands of a select, the constants 1 and 0 of a SETCC. A pass
that inverts must swap the arms; that they always do both is what the
properties are about.

| Action | Code |
|---|---|
| `VisitBr`, `VisitSelect`, `VisitICmp` | `SelectionDAGBuilder`; a branch whose true block comes next is inverted |
| `CombineComparison`, `CombineXor`, `CombineNothing` | `DAGCombiner::visitXOR`, `visitBRCOND`, `visitSELECT` |
| `PromoteSetCCOperands`, `PromoteTargetBoolean`, `TypesLegal` | `DAGTypeLegalizer`: an i1 is widened, zero-extended in a comparison, with whatever bits are there as a condition |
| `ExpandBRCOND`, `ExpandSELECT`, `ExpandSETCC`, `NothingToExpand` | `SelectionDAGLegalize`, as `ISelLowering.cpp:64-74` asks |
| `LowerBR_CC`, `LowerSELECT_CC`, `EmitInstrWithCustomInserter` | the ARCompact hooks; the PHI of the select's diamond decides which operand the taken branch picks |
| `ReverseBranchCondition` | any pass that wants to branch to the other block, any number of times |
| `RunCMP`, `RunBCC` | the processor |
| `CopyFromReg` | the value of an `icmp` is the condition of a branch or select in another block |

A register that holds an i1 is any word whose bit 0 it is, as after a
truncation. The flags are computed from the bits of the difference, the
comparisons from the order of the numbers; that the two agree is a result, not
a definition. What CMP and each code mean is the processor's and external.

### `ARCBranch` and the passes over branches

A function `f` is a record: its blocks in layout order and, for each, its body
(the stretches of code in it), its terminators, and the lists of its successors
and predecessors. The stretch of code that starts out in block `b` is called
`b`, so that a merge or a move can be followed. An assertion of the code that
fails leaves the terminator `Failed` behind. What a stretch of code *means*
does not mention blocks: `Meaning` says, for every value of the flags, which
stretch or end control comes to next, through empty blocks and by fall-through.
`meant` is that of the function at the start, and `KeepsMeaning` and
`RunsAsMeant` compare the two after every step. `RemoveBranch` deletes while it
looks and `InsertBranch` trusts the layout, so both are functions of the whole `f`.

| Module | Action | Code |
|---|---|---|
| `BranchFolding` | `FixCFG` | the first loop of `OptimizeFunction` |
| | `TailMergeBlocks` | the canonical branches it makes and takes back; no tails are alike |
| | `EmptyBlock`, `AnalyzePrior`, `SimplifyPrior`, `PlaceBlock` | a round of `OptimizeBlock`, from its label to the next goto or return |
| `BlockPlacement` | `Place` | a block is spliced after those in place, and the terminators of the one before it are updated: the end of `buildCFGChains` |
| | `FixupLast`, `SkipSingle` | the last block's terminators; a function of one block is left alone |
| `IfConversion` | `AnalyzeBlocks`, `Skip`, `IfConvertTriangle`, `NextRound` | `runOnMachineFunction` |

In `IfConversion` a stretch of code also has a predicate, and `info` and
`Tokens` are `BBInfo` and the queue: a set, of which the code's order makes one token
the last (`IsLast`). The calls of `AnalyzeBlock` are nested; `Begin`, `Finish` and
`Enqueue` are what one call does before and after the two inside it (`Analyze`), and
`AnalyzeBlock[depth]` is a call within which calls may be nested `depth` deep. The
analysis considers all seven kinds of candidates. With ARCompact's hooks a block with a terminator cannot
be predicated and none is duplicated, so that only triangles whose block falls
through are found (`TargetCases`, half of `TokensSound`), and only
`IfConvertTriangle` is an action.

`BlockPlacement` takes over the function that branch folding hands on, whatever
it looks like by then; how the order is chosen (frequencies, loops, chains) is left
open, so every order that starts with the entry is tried. In between, while blocks
are being spliced, the edges are still true of the code that was, and the updates
rely on it.

### `LockFile`, `ManagedStatics`, `SignalFiles`

One action per system call in `LockFile`; a process may die before any of
them, `link()` may fail although there is no lock file, or report an error after it
made the link (`FlakyLink`), disks may be full. On a full disk the constructor
removes its unique file (`Full`) and leaves the block of the stream that failed;
the stream's destructor finds the error flag set and ends the process
(`FatalError`, from `raw_ostream.cpp:513`). `alive` is false of it then and its `pc`
is `"exited"`, while a process that was killed stays where it was (`Killed`). From another machine nobody can tell whether a process lives. In
`ManagedStatics` a thread's stores are `pending` until it fences or releases a
lock and reach memory in any order before that, which is the weakest machine
the fences in the code are there for; `stack[t]` holds the nested dereferences
of thread `t`. In `SignalFiles` a signal may come between any two steps of a
thread, also of a handler; `stack[t]` holds the tool's own code and above it
the handlers that interrupted one another, and the mutex is the recursive one
of the code. `SignalsMutex` is a `SmartMutex<true>`: it really locks only once
`llvm_start_multithreaded` was called. The model takes it that a tool with two threads
has done so before it starts the second; for one thread a recursive mutex and one that
only counts are the same. What tool is running (its threads, the signals it is sent, whether
it has set an interrupt function, whether it registers
`PrintStackTraceOnErrorSignal` first) is chosen from `Tools` in the initial state.

## 3. Runs

| Run | Instance | Shows |
|---|---|---|
| `frame_info` | 0, 7, 8 or 10 named arguments, calls with 3 or 10, two allocas/spills of 4 or 261 bytes aligned 1 or 8, 0 or 2 callee-saved registers; built without assertions | `FrameLaidOut`: the layout is a frame; `CallersWordsFound`, `FrameIndexEncodable`: arguments, varargs, return address and every object are addressed where they are; `OutgoingArgsReserved`; `WordFramesPacked`: the frames `ARCStack` runs on |
| `frame_guard` | four objects, stack guard, one callee-saved register | `PlacedOnce`, `ArraysNextToGuard`: the four placement loops partition the live objects, arrays next to the guard |
| `stack` | a main, a leaf, a function with nine arguments, a variadic one with seven named, to depth 3; a recursive one with dynamic allocation and restore, to depth 2 | arguments delivered, frames chained, words intact, calls return, also while SP moves inside a body; the code implements `ProcedureStack` |
| `conditions` | words of four bits: every comparison of every two words, every i1 in a register, every layout | branches, selects and values decide as the IR says, signed overflow included; every code can be reversed; predicate subsumption is sound |
| `branches` | every function of four blocks whose first ends in a conditional branch, and a family of five; then every order | control goes as before after each step of both passes, edges are true, no assertion fails, nothing is left to fold or trim, the passes end |
| `if_conversion` | every function of four blocks that starts with a branch; two triangles next to or in one another in five blocks | the program computes what it did, no code is lost, edges are true, no token is stale, only triangles are converted, the rounds end |
| `if_cvt_cost` | eight-bit words, weights at the limits | fractions are legal and no conversion loses |
| `lock` | three processes on two machines, deaths, full disks, true and false errors of `link()` | `LockFileSound`: lock files complete, makers know their locks; one owner of two that call once each; nothing left; every call returns, but for a constructor that finds the disk full and exits (`EveryCallEnds`); stale locks go |
| `lock_steal` | three processes, no faults | expected violation (section 6) |
| `managed_statics` | three threads and three statics that use each other in constructors and destructors, two sessions | no half-built object, each built once, destroyed before what it used, nothing survives; operators return and shutdown ends |
| `signals` | one thread, three files, three signals; the same with an interrupt function and two files; two threads and a signal | no half file after a handled signal, kept files stay, the handler table has space, nobody waits for ever |
| `varargs_leaf` | small functions | expected violation (section 6) |

Why the bounds are enough. Argument counts 7, 8 and 10 are on both sides of the
eight registers. 261 bytes is beyond the nine-bit displacement and not a
multiple of a word, so rounding and the T4 correction both happen; alignment 8
exceeds the stack's 4 and 1 is below it. Two objects show every pair of kinds;
four are needed for a guard, an array and two others in any order. Two
activations show any caller/callee interaction, three a chain; the words of a
frame are independent, so one local and one register per function suffice.
In `conditions` nothing is bounded but the width of words: four bits have both
signs, the extremes, an overflow either way and garbage above bit 0, and the
theorems hold for every width. Four blocks hold every shape that one
`OptimizeBlock` or one conversion looks at (a block, its two successors, its
layout neighbours); five let a block be moved between two others and let two
triangles share a block. Placement starts from what folding leaves of these functions. Functions with both ways of a branch to one block are
left out where the code asserts them away. Three processes are needed to steal
a lock (an owner, a thief who saw the previous lock, a victim); `MaxWait` is
large enough for two sleeps. Of three statics one constructs another and its
destructor looks at the third, which may be gone by then or never have been there.
Three signals let one come between every two steps of another's handler, and a third
of that one's. `MaxObjects`, `MaxDepth`, `MaxDynamic`, `MaxRounds`, `MaxWait`,
`MaxStarts` and the `outputs` and `signals` of a tool are the only bounds in guards.

A property that is a conjunction is one promise with two sides, each a named
definition with its own comment: `FrameLaidOut` is disjointness and containment,
`CallersWordsFound` is about arguments, variable arguments and the return address,
`NobodyWaits` about handlers and what they interrupt. The type invariants of
`ARCFrameInfo`, `ARCConditions`, `LockFile` and `ManagedStatics` are not run: they
are proved, for every instance. Those of `ARCStack`, of the passes over branches and of
`SignalFiles` are part of `PointersSound`, `EdgesTrue` and `FilesKept`.

Deadlock is checked in every run; the terminal states stutter by
`Finished` and `Halted`, so a machine that cannot go on (a pop that does not
find a frame pointer, a return through a word that is no return address, a DAG
node that no pass handles) is reported. Only the two lock runs switch it off: there everybody may be dead.

**Fairness.** Weak fairness of steps that only the code takes: a compiler pass
(`FairPasses` of `BlockPlacement`, `FairSpec` of `IfConversion`) is one thread that
keeps running; in
`ManagedStatics` each thread's operator and Main's shutdown are scheduled, and
the lock needs no strong fairness because nobody asks for it on account of a
static that has been constructed; in `LockFile` each live process is scheduled,
a death or a new call never has to come; in `SignalFiles` every thread runs on,
and nobody has to construct a file or send a signal. (The compiler passes state
`WF_vars(Next)` with what enables a step written out, which TLC evaluates faster.)

## 4. Proofs

TLAPS proves the following for every number of arguments, calls, objects and
callee-saved registers, for all sizes and the alignments 1, 2, 4, 8 and 16
(the assumptions `CountsAssumption` and `SizesAssumption` of `ARCFrameInfo`),
for words of every width (`HalfAssumption` of `ARCCondCodes`), for functions of
any number of blocks with the terminators that this target makes
(`FunctionsAssumption` of `IfConversion`), for all numbers of processes, machines, threads, statics and starts, for all files, signals and
tools (`SignalsAssumption` of `SignalFiles`: there are finitely many threads and
at least one signal of each kind), and for every program of functions whose frames are
sound, with a stack that holds `MaxDepth` activations (`CodeAssumption` and
`StackAssumption` of `ARCStack`, below); nothing else is assumed.

| Theorem | Says |
|---|---|
| `TypeCorrect` | `Spec => []TypeOK` |
| `FrameObjectsDisjoint` | no two placed objects overlap |
| `FrameCoversObjects` | at the end every live object is placed, between FP and SP |
| `LayoutSound` | both: `FrameLaidOut` |
| `SequenceCorrect`, `PlacedForGood` | the four placement loops place what they are for, in their order; no later loop moves a placed object |
| `GuardThenArrays` | with a stack guard, arrays lie between the guard and all other objects |
| `FrameIndexesEliminated` | every byte of every object is addressed where it is, stores within nine bits |
| `WordFramesAlwaysPacked` | frames of words have the closed form that `ARCStack` runs on |
| `CallFrameReserved` | without a frame pointer outgoing arguments lie below all objects |
| `StackArgumentsFound` | stack arguments are read from the caller's words |
| `ReturnAddressFound` | with calls, the return address slot is BLINK's word |
| `VariableArgumentsFound` | with calls, va_arg walks from the save area into the stack arguments |
| `CallersWordsAlwaysFound` | the three together: `CallersWordsFound` |
| `WordFramesSound` | the closed form is what `ARCStack` asks of a frame |
| `InvHolds` | the inductive invariant of `ARCStack` |
| `AlwaysLocalsIntact` | nobody changes what an activation wrote to its locals |
| `AlwaysArgsDelivered` | the body of a function reads its arguments as they were passed |
| `AlwaysPointersSound` | SP and FP stay aligned and on the stack; the saved FPs chain the frames |
| `AlwaysReturnsAsCalled` | at a return SP, FP, BLINK and the callee-saved registers are as they were at the call |
| `StackImplements` | `ARCStack` implements `ProcedureStack` |
| `BranchesAsWritten` | a branch goes where its IR condition says |
| `SelectsAsWritten` | so do the value of an `icmp` and a select on a register with 0 or 1 in it |
| `CodesReversible` | every code of a branch has an opposite |
| `SubsumptionsSound` | `SubsumesPredicate` claims only what all flags confirm |
| `ConditionTypes` | the type invariant of `ARCConditions` |
| `IInvAlways` | the inductive invariant of the if-converter |
| `EdgesTrueAlways` | after each step of the if-converter the edges are the ways control can go, in the lists of both blocks |
| `TokensSoundAlways` | no token that is converted is stale; all are of triangles whose block falls through, is entered from the head alone and was not predicated |
| `RInvAlways`, `RunsAsMeantAlways` | predicated execution goes where the branches went, from the entry and from every stretch of code, under all flags; no code is lost or copied |
| `ProbabilityAlwaysSound`, `AlwaysNeverALoss` | branch probabilities are fractions; a conversion is never chosen at a loss, whatever wraps around |
| `LockFile_proofs!AlwaysTypeOK`, `AlwaysCompleteLock`, `AlwaysNoOrphanLock`, `LockFileAlwaysSound`, `AlwaysNothingLeft` | a lock file has its content, its maker knows it (`LockFileSound`), and nothing is left |
| `AlwaysOneOwner` | two processes that call once each never both own the lock |
| `ManagedStatics_proofs!AlwaysTypeOK`, `AlwaysNeverHalfBuilt`, `AlwaysBuiltOnce` | whoever uses a static sees the whole object; each is built once |
| `AlwaysShutdownInOrder` | statics are destroyed before those they used while they were constructed, and none survives |
| `AlwaysFilesKept` | the types of `SignalFiles`; no kept file is removed, and none that is being written unless a signal is ending the tool |
| `SpaceForOneThread` | the table of handlers has space, when the tool has one thread |
| `SafeToolLeavesNoFile` | `HandledLeavesNoFile`, when the tool has one thread or its main() registers the handlers first |

**Types.** `TypeOK` is inductive; it carries the range of the loop index for
each `pc`, without which an array access of PEI's loops could be out of range.

**Layout.** `ObjectsDisjoint` alone is not inductive: placing an object says
nothing about earlier ones unless they are all above `offset`. `LayoutInv` adds
the geometry (every placed object lies in `[-offset, 0]`, placed objects are
disjoint), the stages (which objects have been placed when a loop is at `i`,
stated per loop in terms of the skip conditions), and the call frame
(`stackSize` covers `offset` plus the largest call sequence). Each placement is
one lemma about `Allocate`, used by the four loops. That rounding up to an
alignment never goes below its argument is proved for each of the five
alignments, division by a variable being outside the solver's arithmetic.

**Order of the layout.** `SequenceInv` adds to `LayoutInv` what each loop has left
for those after it (`KindsInv`: which objects a loop skips, by their kind),
that objects placed by an earlier loop lie above those of a later one
(`OrderInv`, `ArraysInv`), and that an object is placed only on its own loop's
turn (`TurnsInv`), from which `PlacedForGood` follows as an action property.
`WordInv` is about functions all of whose objects are words: rounding changes
nothing, so that `offset` is four times the number of objects placed
(`PackedInv`) and every object's place is known before the loops run.

**Arguments.** `ArgsInv` says what `fixed` holds after `LowerFormalArguments`
and that later steps only append the return address slot and never change
`vaFI`; with `hasCalls` the constants of the prologue and of
`eliminateFrameIndex` then agree by arithmetic. The hypothesis `hasCalls` is
what items 1 and 2 of section 6 are about: without it the theorems are false.

**The stack.** `CodeAssumption` asks of every function what the code generator
gives it (`SoundFrame`: objects are aligned words
between FP and the body's SP, disjoint, and above the outgoing arguments; the fixed
objects of arguments are where `LowerFormalArguments` puts them), that spilled
registers are different and have slots of their own, and that a call passes at least
the named arguments. It leaves out what section 6 shows the code generator does not
achieve: a leaf is not variadic (item 1), and a function that PEI reserves no
outgoing arguments for (dynamic allocation, `-disable-fp-elim`) makes no calls with
stack arguments (item 3). That the frames PEI lays out for
functions of words satisfy it is `WordFramesSound`, with `WordFramesAlwaysPacked` of
`ARCFrameInfo`. `StackAssumption` is about the
machine, not the code: nothing in the program tests SP against the end of the
stack. TLC evaluates both for the frames of the run `stack`, which `WordFrame` makes.

An invariant by program counter would need as many cases as functions have
instructions, so the place, the `at`-th instruction of an entry or exit, is turned
into numbers first: `EntryAt` and `ExitAt` say which instruction is where, as sums of
how many the area, BLINK, locals, spills and saves take, which are 0 or 1 or a
length. From the place alone follow SP and FP (`SPAt`, `FPAt`) and the words that the
activation relies on then, with what they hold: `FrameClaims` are the saved FP, the
saved BLINK, the spilled registers, the register save area and every local written
so far, and `ArgClaims` the stack arguments. `Inv` says that SP, FP, BLINK
and the callee-saved registers are as the place has it (`PointersInv`,
`RegistersInv`), that the activations were each called by the one below and lie
one under the other with room for the rest (`Stacked`), and that memory honours all
claims of all activations (`MemoryInv`). The five properties alone are not
inductive: a callee keeps its caller's locals only because SP is where it
should be, and SP comes back only because the saved FP was not overwritten.

Each instruction is one lemma, and all have the same form: the claims after it are
claims before it, but for the word it stores (`EntryClaims`, `ExitClaims`), and that
word is claimed by nobody else (`SlotFresh`, `AreaFresh`, `ObjectFresh`, `DynamicFresh`,
`OutgoingFresh` inside a frame, `OuterPlaced` for the frames above). An interrupt
overwrites only what is below SP, where no claim is (`TopClaimsPlaced`). A return drops the
topmost activation's claims, and what it leaves in SP, FP, BLINK and the registers
is what its caller's place asks for, one instruction after the call.

The refinement maps the memory to `AbsStack`, each activation's variables read from
its words. Each step is a step of `ProcedureStack` or a stutter (`StepSeen`): a store to
a local changes one variable of the running activation, a call pushes, the
return pops and brings the registers back, and all the rest, interrupts included,
is not seen.

**Conditions.** Four lemmas are about the tables: the flags after CMP are the
order of the operands (`FlagTests`: overflow makes N and V differ exactly when
the signed order says less), `EmitCMP` picks the code of the comparison
(`CMPExact`), and the two inverses negate (`InverseExact`, `OppositeExact`).
`DecisionInv` then says that at every pass, what the node, the instructions or
the flags decide through `arms` is what the IR wants. It is inductive with
`ShapeInv` (which nodes and comparisons a pass can meet, so that for instance
an expansion is never applied under a pending XOR) and `SelectInv` (a register
under a SELECT holds 0 or 1 if it did at first). The selection steps are
instances of one lemma, `KeepsDecision`: the comparison keeps its truth value
and the arms stay, or it flips and the arms are swapped. `ZeroOrOne` in
`SelectAsWritten` is what item 5 of section 6 is about: without it the theorem is false.

**If-conversion.** `EdgesTrue` is not inductive: the edges stay true only
because a conversion is of a triangle, and that is what tokens promise. `IInv`
has three parts. `FunctionRight`: the blocks are where they were, with terminators of
the target's five forms; each edge is there once, in both lists, and is a way that
control can go; no stretch of code is in two places. `InfoRight`: what is known of a
block that is analyzed and not done with is what `AnalyzeBranch` says of it *now*
(`Fresh`), and one with predicated code will not be predicated again. `TokensRight`: a
token that has not been evicted is of a triangle that is there, worth its while and
not predicated (`IsHead`, `IsTarget`), and a reversed triangle comes with the plain one
(`Twins`), which is worked off first and evicts it.

`AnalyzeForms` evaluates `AnalyzeBranch` on the five forms, `TakenForms` where control
goes. A conversion then has one of two results (`ConversionIs`): the head falls
through into the emptied block, or branches to the other one. Either way two blocks
and two edges change (`ConvertedTo`), from which the edges (`ConvertedEdges`), the code
(`ConvertedCode`), what is known (`InfoAfter`) and the other tokens (`TokenAfter`)
stay right: whoever had an edge to a block that changed is among the predecessors that
`InvalidatePreds` marks. A merge with the third block never happens, because
it has two predecessors (`NextHasTwo`).

The analysis changes only what is known. `AInv` is the invariant between two calls,
`Later` what a call does: it visits its block, changes none that had been visited and
leaves no more half done than before. By induction on the number of blocks that have
not been visited (`CallsAnalyze`), nested calls never run out of depth, and every
block is visited. `Build` makes a right function of any shapes whose edges are the ways
control can go (`BuiltRight`).

`RunsAsMeant` follows branches through blocks in which nothing runs. `Lands` does so
for as many blocks as there are; `WalksSettle` shows that this is enough: the set of
blocks whose walk has ended grows with every step or never again, so that a walk
that has not ended after `n` steps goes round for ever. Walks over any two functions
can then be compared without counting steps (`BypassSame`): if they differ only in that
one block stops where the other first went on to a block `C` that stops there, they end up
at the same stretch. A conversion is such a bypass (`ConvertingBypass`), for each value
of the flags: where its condition holds the head runs the code that `C` had, where it
does not hold that code is passed over and `C`'s successor comes next (`Converting`).
`RInv` adds to `IInv` that the meaning is the one at the start, that only code that
can be predicated has been, and that nobody goes to the entry, whose code a conversion could
otherwise take away. `Init` asks for the last: `Verifier.cpp:700` rejects an IR
function whose "Entry block to function must not have predecessors!".

**Costs.** The comparison multiplies what may have wrapped around by a numerator
not above the denominator; rounding down only helps the branch.

**Lock files.** The invariant says of each program counter whether the unique
file exists and is complete (`UniqueOK`, `WrittenOK`), and that the lock file is
the unique file of a process that has gone past `link()` (`LinkOK`). Mutual
exclusion is false for three callers (section 6), and for two when one calls
again. For two that call once each, `PairInv` says what either knows of the other
(`Knows`): who is about to delete a lock file that it could not read, or whose
owner it found dead, knows that the other's turn is over (`Gone`: dead, or
returned), so that it deletes no lock that somebody works under. Only a process whose
own `link()` has failed may do that, when no lock file was there and the other has made
one since; but it does not try again in that call (`AgainOK`), so the other stays the
only owner.

**Managed statics.** Five layers. The shape of a thread's stack of operators
(`StackOK`). Who may have stores that others do not see, and that who sees a
pointer sees its object (`Visible`): this is where the fence before the store to
`Ptr` is needed.
The recursive lock counted against the stack (`LockOK`). And for `BuiltOnce`
that what is being made ranks below what is made around it, is not on the list,
and that all that is on the list is seen by somebody, hence by who has the lock
(`OnceOK`). `ShutdownInOrder` needs that what a thread has used while it
constructs a static is on the list already, while the static is not (`MadeOK`,
for every frame of a stack), so that pushing it keeps the list in order, and
destruction takes the newest away (`OrderOK`).

**Signals and files.** The invariant is built in layers, too. `BasicOK` has the
types, the shape of a stack (the tool's own frame below handlers' frames) and the
recursive mutex: its depth is the number of frames in the owner's stack that are
between lock and unlock, and no other stack has such a frame. `FilesOK`: no two
threads have the same file, the list names a file once and only while some
thread has it, a file that was kept is not on the list. `CalmOK`: without an
interrupt function no handler ever returns into the tool's code, so that as long
as all threads are in the tool's code no signal has come; this is what makes
`FilesKept` inductive. `SpaceOK` says that the loop that registers handlers is
ahead of the number it counts, whatever handlers empty the table in between.
`UntouchedOK` is about the time before the first signal: every file at work is on
the list, and all handlers are there before a file is opened. `OpenedOK` takes
over from there: a file that is open and exists is on the list or was opened
late, and late once a handler has found the list empty (`Decided`: it is about to
raise the signal again, or was). A tool that is killed with its handlers done
has such a handler, which is `HandledLeavesNoFile`. The conditions of the two theorems
are needed: where two threads may register the handlers at the same time both are
false (item 10 of section 6).

Only model-checked: the invariants of `BranchFolding` and `BlockPlacement`. Out
of the prover's reach and in no theorem: liveness, `ENABLED`, recursion over data.

## 5. Not modelled

* Assembly printing, MC lowering, target registration: output and tables.
* Instruction patterns (`InstrInfo.td`): a table; only the instructions that
  touch the stack appear, as actions of `ARCStack`.
* Values: a word's content is a token. Floating point and i64 arguments are
  split into i32 before the calling convention sees them.
* In PEI: the register scavenger, the local stack allocation block, shrink
  wrapping, stacks that grow upwards, realignment. ARCompact uses none of them.
* Of conditions: those joined by and/or that `FindMergedConditions` splits, the
  range tests of a switch, folds of constant comparisons, and glue, which keeps
  a CMP next to its user.
* Of branch folding: merging of common tails and hoisting. Of if-conversion:
  simple, diamond, copying and early-exit conversions, which this target's hooks
  never allow. Debug values and landing pads in both.
* `AddSignalHandler` callbacks; a signal inside `push_back` or `erase` of the
  list of files.
* The rest of LLVM: 770 thousand lines of analyses, transformations, other
  targets and tools. Most of it is sequential code over large data (instruction
  selectors, parsers, arithmetic), where a model would be a transliteration; the
  parts with shared state or protocols between passes are taken one at a time.

## 6. Where the code and its own words differ

Two of these are runs whose counterexample TLC must find: the first (`varargs_leaf`,
`VarArgsEverywhere`) and the sixth (`lock_steal`, `RemovedMeansFinished`). The
others were noted while modelling; where an invariant is named, giving it to the
run of the module in place of its own shows a counterexample.

1. `ISelLowering.cpp:244`: "the save locations starts at least 8 above the FP".
   BLINK is pushed only when the function has calls. In a variadic leaf the
   area starts 4 above FP and `va_start` is one word too high.
2. `ISelLowering.cpp:635`: "Just load the return address." In a leaf the word
   loaded is the saved FP: BLINK is in no word at all (`ReturnAddressEverywhere`).
3. `FrameLowering.cpp:57`: the diagram has an area for stack arguments
   below the locals. With a frame pointer (`-disable-fp-elim`, dynamic
   allocation) PEI does not reserve it and the call pseudos are erased
   without moving SP, so outgoing arguments overwrite locals
   (`OutgoingArgsEverywhere`).
4. `MachineFunction.cpp:445`: "Cannot allocate zero size fixed stack objects!".
   A variadic function with eight named arguments asks for one
   (`NoZeroSizeFixedObject`, with `NDEBUG = FALSE`).
5. `include/llvm/Target/TargetLowering.h:103`: "Only bit 0 counts, the rest can
   hold garbage." ARCompact leaves its boolean contents undefined and its
   SELECT to the expansion that compares the whole register with zero. A
   select on the truncation of 2 to i1 takes its true operand. (ARM has the
   same contents and masks: `ARMISelLowering.cpp:2869`.) `SelectOnBitZero`.
6. `LockFileManager.h:26`: "When the lock file is removed, the owning process has
   finished the operation." A process that sees the lock file vanish between
   `exists()` and `open()` removes it *by name*, and so the next owner's.
7. `LockFileManager.cpp:176`: "Don't wait more than an hour". The next sleep is
   compared with an hour, not the sum: it waits 70 minutes
   (`WaitsNoLonger`, with `MaxWait = 5`).
8. `Signals.h:29`: "Remove a file if a fatal signal occurs". With an interrupt
   function the signal is not fatal, the file is removed all the same, and its
   name is off the list.
9. `ToolOutputFile.h:23`: "The file is automatically deleted if the process is
   killed." A second signal during the handler finds the default action
   (`KilledLeavesNoFile`).
10. `Signals.inc:84`: "Out of space for signal handlers!" Registering is outside
    the mutex, so two threads that open their first files at once may register twice.
11. `LockFileManager.cpp:105`: "We failed to write out PID, so make up an excuse, remove
    the unique lock file, and fail." The unique file is removed, but nobody sees the
    excuse: the error flag of `Out` is not cleared (`raw_ostream.cpp:509` asks for
    that), so its destructor ends the process (`FullDiskReported`).
12. `LockFileManager.cpp:132`: "Someone else managed to create the lock file first."
    Where `link()` fails for another reason there is no lock file, and what
    `:139` takes for "a lock file that nobody owns" is one that another process has
    made in the meantime and works under.
13. `ARCompactInstrInfo.cpp:330`: costs are said to be products; in 32 bits they
    wrap around (`ConvertedIfCheaper`).

## 7. Plan

Done: everything in sections 2 to 4.

1. Proofs: `EdgesTrue` of `BranchFolding`, `KeepsMeaning` of `BlockPlacement`.
2. `ARCSelect`: the blocks, edges and PHIs of `EmitInstrWithCustomInserter`
   when several selects follow one another in a block.
3. Tail merging, the other half of `BranchFolding`.
4. Liveness of PEI; conditions joined by and/or (`FindMergedConditions`).
