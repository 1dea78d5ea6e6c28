----------------------------- MODULE SignalFiles -----------------------------
(***************************************************************************)
(* The output files of a tool and the signals that may end it              *)
(* (tool_output_file, Unix/Signals.inc).  Threads write files under a      *)
(* tool_output_file each; its constructor puts the file on the list of     *)
(* those to remove and installs the handlers, its destructor takes it off. *)
(* A signal may come between any two steps; its handler runs on top of     *)
(* whatever the thread was doing, and another signal on top of that.       *)
(*                                                                         *)
(* stack[t] holds what thread t is doing: the tool's own code at the       *)
(* bottom, above it the handlers that interrupted one another.  An update  *)
(* of the list is one step: what a handler sees that interrupts push_back  *)
(* itself is left out.                                                     *)
(***************************************************************************)
EXTENDS Integers, Sequences, FiniteSets, SequencesExt

CONSTANTS
    Threads, NoThread,
    Main,           \* the thread that runs main()
    Files,          \* file names
    IntSigs,        \* sequence of the signals that interrupt
    KillSigs,       \* and of those a fault of the program raises
    Tools           \* the programs: see below

\* Of a program: its threads; does main() begin with PrintStackTraceOnErrorSignal()
\* and does it set an interrupt function?  Two bounds: how many tool_output_files are
\* constructed, and how many signals come, of the set sent and from faults.
ASSUME SignalsAssumption ==
    /\ Main \in Threads /\ NoThread \notin Threads /\ IsFiniteSet(Threads)
    /\ IntSigs \in Seq(STRING) \ {<<>>} /\ KillSigs \in Seq(STRING) \ {<<>>}
    /\ \A x \in Tools :
          /\ Main \in x.threads /\ x.threads \subseteq Threads
          /\ x.StackTrace \in BOOLEAN /\ x.Interruptible \in BOOLEAN
          /\ x.sent \subseteq ToSet(IntSigs)
          /\ x.outputs \in Nat /\ x.signals \in Nat

VARIABLES
    tool,               \* the program that runs
    disk,               \* the files that exist
    FilesToRemove,
    disposition,        \* what a signal does: "default" kills, "handler" runs ours
    table, Num,         \* RegisteredSignalInfo, NumRegisteredSignals
    mutex,              \* SignalsMutex: who has it, and how often.  It locks only in
                        \* multithreaded mode, which a tool enters before its second thread
    InterruptFunction,  \* is it set?
    stack, killed,
    kept,               \* files there when their tool_output_file was destroyed
    late,               \* files opened after the first signal came
    outputs, signals    \* left of the bounds
vars == <<tool, disk, FilesToRemove, disposition, table, Num, mutex, InterruptFunction,
          stack, killed, kept, late, outputs, signals>>
sigs == <<disposition, table, Num>>
names == <<disk, FilesToRemove, kept, late>>
bounds == <<tool, outputs, signals>>

AllSigs == IntSigs \o KillSigs
Slots == 0 .. Len(AllSigs) - 1

\* A frame: the step that comes next, and the file or signal it is about.  i goes
\* through the signals; after registering the tool goes on with next.
Tool(pc) == [pc |-> pc, file |-> "", keep |-> FALSE, opened |-> FALSE, i |-> 0, next |-> "idle"]
Handler(s) == [pc |-> "restore", sig |-> s]

Init ==
    /\ tool \in Tools
    /\ disk = {} /\ FilesToRemove = <<>> /\ kept = {} /\ late = {}
    /\ disposition = [s \in ToSet(AllSigs) |-> IF tool.StackTrace THEN "handler" ELSE "default"]
    /\ table = [i \in Slots |-> [SigNo |-> AllSigs[i + 1], SA |-> "default"]]
    /\ Num = IF tool.StackTrace THEN Len(AllSigs) ELSE 0
    /\ mutex = [owner |-> NoThread, depth |-> 0]
    /\ InterruptFunction = FALSE
    /\ stack = [t \in Threads |->
                   <<Tool(IF tool.Interruptible /\ t = Main THEN "set" ELSE "idle")>>]
    /\ killed = FALSE
    /\ outputs = tool.outputs /\ signals = tool.signals

Top(t) == Last(stack[t])
At(t, pc) == ~killed /\ Top(t).pc = pc
Become(t, frame) == stack' = [stack EXCEPT ![t] = Append(Front(@), frame)]
Goto(t, pc) == Become(t, [Top(t) EXCEPT !.pc = pc])
Remaining == <<killed, InterruptFunction, mutex>>

acquire(t) ==
    /\ mutex.owner \in {NoThread, t}
    /\ mutex' = [owner |-> t, depth |-> mutex.depth + 1]
release ==
    mutex' = IF mutex.depth = 1 THEN [owner |-> NoThread, depth |-> 0]
             ELSE [mutex EXCEPT !.depth = @ - 1]
-----------------------------------------------------------------------------
(* The tool.                                                               *)

SetInterruptFunction(t) ==
    /\ At(t, "set")
    /\ InterruptFunction' = TRUE
    /\ Become(t, [Top(t) EXCEPT !.pc = "register", !.next = "idle"])
    /\ UNCHANGED <<sigs, names, bounds, killed, mutex>>

\* The constructor of a tool_output_file whose name no other one has.
Construct(t, f) ==
    /\ At(t, "idle") /\ t \in tool.threads /\ outputs > 0
    /\ \A u \in Threads : Head(stack[u]).file # f
    /\ outputs' = outputs - 1
    /\ kept' = kept \ {f}
    /\ Become(t, [Tool("push") EXCEPT !.file = f])
    /\ UNCHANGED <<tool, sigs, disk, FilesToRemove, late, signals, Remaining>>

RemoveFileOnSignal(t) ==
    /\ At(t, "push") /\ acquire(t)
    /\ FilesToRemove' = Append(FilesToRemove, Top(t).file)
    /\ Goto(t, "unlock")
    /\ UNCHANGED <<sigs, disk, kept, late, bounds, killed, InterruptFunction>>

Unlock(t) ==
    /\ At(t, "unlock") /\ release
    /\ Become(t, [Top(t) EXCEPT !.pc = "register", !.next = "open"])
    /\ UNCHANGED <<sigs, names, bounds, killed, InterruptFunction>>

\* Mutant: the handlers are registered again for every file.
MutantRegisterHandlers(t) ==
    /\ At(t, "register")
    /\ Become(t, [Top(t) EXCEPT !.pc = "sigaction", !.i = 1])
    /\ UNCHANGED <<sigs, names, bounds, Remaining>>

\* The handlers are registered one by one, unless some are already.
RegisterHandlers(t) ==
    /\ At(t, "register")
    /\ IF Num # 0 THEN Goto(t, Top(t).next)
       ELSE Become(t, [Top(t) EXCEPT !.pc = "sigaction", !.i = 1])
    /\ UNCHANGED <<sigs, names, bounds, Remaining>>

Sigaction(t) ==
    /\ At(t, "sigaction") /\ Num \in Slots
    /\ table' = [table EXCEPT ![Num].SA = disposition[AllSigs[Top(t).i]]]
    /\ disposition' = [disposition EXCEPT ![AllSigs[Top(t).i]] = "handler"]
    /\ Goto(t, "count")
    /\ UNCHANGED <<Num, names, bounds, Remaining>>

Count(t) ==
    /\ At(t, "count") /\ Num \in Slots
    /\ table' = [table EXCEPT ![Num].SigNo = AllSigs[Top(t).i]]
    /\ Num' = Num + 1
    /\ IF Top(t).i = Len(AllSigs) THEN Goto(t, Top(t).next)
       ELSE Become(t, [Top(t) EXCEPT !.pc = "sigaction", !.i = @ + 1])
    /\ UNCHANGED <<disposition, names, bounds, Remaining>>

\* The stream opens the file, or cannot.
Open(t) ==
    /\ At(t, "open")
    /\ \/ /\ disk' = disk \cup {Top(t).file}
          /\ late' = IF signals = tool.signals THEN late \ {Top(t).file} ELSE late \cup {Top(t).file}
          /\ Become(t, [Top(t) EXCEPT !.pc = "work", !.opened = TRUE])
       \/ /\ Become(t, [Top(t) EXCEPT !.pc = "forget", !.keep = TRUE])
          /\ UNCHANGED <<disk, late>>
    /\ UNCHANGED <<sigs, FilesToRemove, kept, bounds, Remaining>>

\* The tool has written the file, and keeps it or not.
Finish(t) ==
    /\ At(t, "work")
    /\ \E keep \in BOOLEAN : Become(t, [Top(t) EXCEPT !.pc = "erase", !.keep = keep])
    /\ UNCHANGED <<sigs, names, bounds, Remaining>>

\* The destructor, after the stream is closed.
Erase(t) ==
    /\ At(t, "erase")
    /\ disk' = IF Top(t).keep THEN disk ELSE disk \ {Top(t).file}
    /\ Goto(t, "forget")
    /\ UNCHANGED <<sigs, FilesToRemove, kept, late, bounds, Remaining>>

DontRemoveFileOnSignal(t) ==
    /\ At(t, "forget") /\ acquire(t)
    /\ LET I == SelectLastInSeq(FilesToRemove, LAMBDA f : f = Top(t).file)
       IN  FilesToRemove' = IF I = 0 THEN FilesToRemove ELSE RemoveAt(FilesToRemove, I)
    /\ kept' = IF Top(t).keep /\ Top(t).file \in disk THEN kept \cup {Top(t).file} ELSE kept
    /\ Become(t, [Top(t) EXCEPT !.pc = "unlock at end", !.opened = FALSE])
    /\ UNCHANGED <<sigs, disk, late, bounds, killed, InterruptFunction>>

Destroyed(t) ==
    /\ At(t, "unlock at end") /\ release
    /\ Become(t, Tool("idle"))
    /\ UNCHANGED <<sigs, names, bounds, killed, InterruptFunction>>
-----------------------------------------------------------------------------
(* Signals.                                                                *)

\* Signal s comes to thread t, whose top frame becomes frame first.  A handler is
\* reset to the default as it is entered.
Comes(t, s, frame) ==
    IF disposition[s] = "default"
    THEN /\ killed' = TRUE
         /\ UNCHANGED <<disposition, stack>>
    ELSE /\ killed' = FALSE
         /\ disposition' = [disposition EXCEPT ![s] = "default"]
         /\ stack' = [stack EXCEPT ![t] = Front(@) \o <<frame, Handler(s)>>]

\* From outside, to any thread.
Interrupt(t, s) ==
    /\ ~killed /\ t \in tool.threads /\ signals > 0 /\ s \in tool.sent
    /\ signals' = signals - 1
    /\ Comes(t, s, Top(t))
    /\ UNCHANGED <<tool, table, Num, names, outputs, mutex, InterruptFunction>>

\* The tool crashes while it works on a file.
Crash(t, s) ==
    /\ At(t, "work") /\ signals > 0 /\ s \in ToSet(KillSigs)
    /\ signals' = signals - 1
    /\ Comes(t, s, Top(t))
    /\ UNCHANGED <<tool, table, Num, names, outputs, mutex, InterruptFunction>>

\* UnregisterHandlers(): the old handlers are restored, then the table is empty.
Restored == [s \in DOMAIN disposition |->
    IF \E i \in 0 .. Num - 1 : table[i].SigNo = s
    THEN table[CHOOSE i \in 0 .. Num - 1 : /\ table[i].SigNo = s
                                           /\ \A j \in i + 1 .. Num - 1 : table[j].SigNo # s].SA
    ELSE disposition[s]]

Restore(t) ==
    /\ At(t, "restore")
    /\ disposition' = Restored
    /\ Goto(t, "empty")
    /\ UNCHANGED <<table, Num, names, bounds, Remaining>>

UnregisterHandlers(t) ==
    /\ At(t, "empty")
    /\ Num' = 0
    /\ Goto(t, "lock")
    /\ UNCHANGED <<disposition, table, names, bounds, Remaining>>

\* Mutant: the handler takes its mutex only when nobody has it.
MutantLock(t) ==
    /\ At(t, "lock")
    /\ IF mutex.owner = NoThread THEN acquire(t) /\ Goto(t, "remove")
       ELSE Goto(t, "lock") /\ UNCHANGED mutex
    /\ UNCHANGED <<sigs, names, bounds, killed, InterruptFunction>>

Lock(t) ==
    /\ At(t, "lock") /\ acquire(t)
    /\ Goto(t, "remove")
    /\ UNCHANGED <<sigs, names, bounds, killed, InterruptFunction>>

\* Mutant: only one file is removed.
MutantRemoveFiles(t) ==
    /\ At(t, "remove")
    /\ IF FilesToRemove = <<>> THEN UNCHANGED <<disk, FilesToRemove>>
       ELSE disk' = disk \ {Last(FilesToRemove)} /\ FilesToRemove' = Front(FilesToRemove)
    /\ Goto(t, "decide")
    /\ UNCHANGED <<sigs, kept, late, bounds, Remaining>>

RemoveFilesToRemove(t) ==
    /\ At(t, "remove")
    /\ IF FilesToRemove = <<>>
       THEN Goto(t, "decide") /\ UNCHANGED <<disk, FilesToRemove>>
       ELSE /\ disk' = disk \ {Last(FilesToRemove)}
            /\ FilesToRemove' = Front(FilesToRemove)
            /\ UNCHANGED stack
    /\ UNCHANGED <<sigs, kept, late, bounds, Remaining>>

Decide(t) ==
    /\ At(t, "decide") /\ release
    /\ Goto(t, IF Top(t).sig \in ToSet(KillSigs) THEN "fault"
               ELSE IF InterruptFunction THEN "call" ELSE "raise")
    /\ UNCHANGED <<sigs, names, bounds, killed, InterruptFunction>>

\* The interrupt function takes note, and the tool goes on.
CallInterruptFunction(t) ==
    /\ At(t, "call")
    /\ InterruptFunction' = FALSE
    /\ Goto(t, "return")
    /\ UNCHANGED <<sigs, names, bounds, killed, mutex>>

\* Mutant: the handler returns without raising the signal again.
MutantRaise(t) ==
    /\ At(t, "raise")
    /\ Goto(t, "return")
    /\ UNCHANGED <<sigs, names, bounds, Remaining>>

\* The signal is raised again.
Raise(t) ==
    /\ At(t, "raise")
    /\ Comes(t, Top(t).sig, [Top(t) EXCEPT !.pc = "return"])
    /\ UNCHANGED <<table, Num, names, bounds, mutex, InterruptFunction>>

\* The callbacks are run; back in the tool the fault occurs again.
Fault(t) ==
    /\ At(t, "fault")
    /\ Comes(t, Top(t).sig, Top(t))
    /\ UNCHANGED <<table, Num, names, bounds, mutex, InterruptFunction>>

Return(t) ==
    /\ At(t, "return")
    /\ stack' = [stack EXCEPT ![t] = Front(@)]
    /\ UNCHANGED <<sigs, names, bounds, Remaining>>

\* Killed, or nothing more to write.
Stop ==
    /\ killed \/ (outputs = 0 /\ \A t \in Threads : Top(t).pc = "idle")
    /\ UNCHANGED vars
-----------------------------------------------------------------------------
HandlerStep(t) ==
    \/ Restore(t) \/ UnregisterHandlers(t) \/ Lock(t) \/ RemoveFilesToRemove(t)
    \/ Decide(t) \/ CallInterruptFunction(t) \/ Raise(t) \/ Fault(t) \/ Return(t)
ToolStep(t) ==
    \/ SetInterruptFunction(t) \/ RemoveFileOnSignal(t) \/ Unlock(t)
    \/ RegisterHandlers(t) \/ Sigaction(t) \/ Count(t)
    \/ Open(t) \/ Finish(t) \/ Erase(t) \/ DontRemoveFileOnSignal(t) \/ Destroyed(t)

Next ==
    \/ \E t \in Threads :
          \/ HandlerStep(t) \/ ToolStep(t)
          \/ \E f \in Files : Construct(t, f)
          \/ \E s \in ToSet(AllSigs) : Interrupt(t, s) \/ Crash(t, s)
    \/ Stop

Spec == Init /\ [][Next]_vars
\* Every thread runs on; nobody has to construct a file or send a signal.
FairSpec == Spec /\ \A t \in Threads : WF_vars(HandlerStep(t) \/ ToolStep(t))
-----------------------------------------------------------------------------
(***************************************************************************)
(* Properties.                                                             *)
(***************************************************************************)

MaybeFiles == Files \cup {""}
ToolFrames == [pc : {"set", "idle", "push", "unlock", "register", "sigaction", "count", "open",
                     "work", "erase", "forget", "unlock at end"},
               file : MaybeFiles, keep : BOOLEAN, opened : BOOLEAN,
               i : 0 .. Len(AllSigs), next : {"idle", "open"}]
HandlerFrames == [pc : {"restore", "empty", "lock", "remove", "decide", "call", "raise", "fault",
                        "return"}, sig : ToSet(AllSigs)]

\* The variables have their types: the tool's own frame, and above it only handlers;
\* SignalsMutex has an owner exactly while it is taken; the list names files once.
TypeOK ==
    /\ tool \in Tools /\ disk \subseteq Files /\ kept \subseteq Files /\ late \subseteq Files
    /\ FilesToRemove \in Seq(Files) /\ Cardinality(ToSet(FilesToRemove)) = Len(FilesToRemove)
    /\ disposition \in [ToSet(AllSigs) -> {"default", "handler"}]
    /\ mutex.owner \in Threads \cup {NoThread} /\ mutex.depth \in Nat
    /\ mutex.owner = NoThread <=> mutex.depth = 0
    /\ \A t \in Threads : /\ Head(stack[t]) \in ToolFrames
                          /\ Tail(stack[t]) \in Seq(HandlerFrames)

\* The files of tool_output_files that are open, or still on the list.
Unfinished == {Head(stack[t]).file : t \in {u \in Threads : Head(stack[u]).opened}}

\* ToolOutputFile.h: "The file is automatically deleted if the process is killed."
KilledLeavesNoFile == killed => disk \cap Unfinished = {}

\* No handler was cut short by another signal.
HandlersDone == \A t \in Threads : Len(stack[t]) = 1 \/ Top(t).pc \in {"raise", "fault"}

\* Where no interrupt function is set, a signal whose handling is not cut short leaves
\* no unfinished file; where other threads go on meanwhile, none but those opened after
\* the first signal came.
HandledLeavesNoFile ==
    killed /\ HandlersDone /\ ~tool.Interruptible =>
        \A f \in disk \cap Unfinished : f \in late /\ Cardinality(tool.threads) > 1

\* A file that was there when its tool_output_file was destroyed stays, whatever
\* signals come later.
KeptStays == kept \subseteq disk

\* Where no interrupt function is set, a file that is being written is there, unless
\* a signal is ending the tool; Signals.h: "Remove a file if a fatal signal occurs."
WrittenFilesThere ==
    ~tool.Interruptible /\ (\A t \in Threads : Len(stack[t]) = 1) =>
        \A t \in Threads : At(t, "work") => Top(t).file \in disk

\* Also: no handler that runs on while threads add and take away files removes a file
\* that it should not.
FilesKept == TypeOK /\ KeptStays /\ WrittenFilesThere

\* RegisterHandler: "Out of space for signal handlers!"
TableHasSpace == \A t \in Threads : Top(t).pc = "sigaction" => Num \in Slots

\* A tool that is signalled, and has no interrupt function, ends: nobody waits for
\* the mutex for ever, its own interrupted code included, and no handler catches
\* the signal that is raised again for ever.
SignalKills == (~tool.Interruptible /\ \E t \in Threads : Len(stack[t]) > 1) ~> killed

\* What a thread is doing comes to an end, with an interrupt function too: the
\* tool goes on after the function has been called, or is killed.
ThreadsGoOn == \A t \in Threads : (Top(t).pc # "idle") ~> (killed \/ Top(t).pc = "idle")

\* Both: neither a handler nor the code it interrupted waits for ever.
NobodyWaits == SignalKills /\ ThreadsGoOn
=============================================================================
