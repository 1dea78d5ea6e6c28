------------------------------ MODULE LockFile ------------------------------
(***************************************************************************)
(* Processes that coordinate through a lock file (LockFileManager).  Each  *)
(* constructs a LockFileManager, works if it owns the lock, waits if some- *)
(* body else does, and destroys it.  One action per system call: between   *)
(* any two of them every other process may run, and a process may die.     *)
(*                                                                         *)
(* The lock file is a hard link to the unique file of the process that     *)
(* made it, so the state of the directory is: which unique files exist and *)
(* what is in them, and to which of them the name .lock is a link.         *)
(***************************************************************************)
EXTENDS Integers

CONSTANTS
    Procs,      \* the processes
    NoProc,     \* none of them
    Host,       \* the machine a process runs on
    MaxRounds,  \* bound: locks a process takes, one after the other
    MaxWait,    \* MaxSeconds of waitForUnlock(), in milliseconds
    MayCrash,   \* may processes die in the middle?
    FlakyLink   \* may link() fail though no lock file exists, or report an
                \* error although it made the link?

ASSUME ProcsAssumption ==
    /\ NoProc \notin Procs /\ MaxRounds \in Nat /\ MaxWait \in Nat \ {0}
    /\ MayCrash \in BOOLEAN /\ FlakyLink \in BOOLEAN

VARIABLES
    lock,       \* whose unique file the lock file is a link to
    unique,     \* unique[p]: the unique file of p
    content,    \* content[p]: what that inode holds, also after an unlink
    pc,         \* the system call p makes next
    again,      \* readLockFile() is called a second time in the constructor
    read,       \* the owner that p read from the lock file
    owner,      \* the field Owner
    error,      \* the field Error
    interval,   \* the next sleep of waitForUnlock(), in milliseconds
    slept,      \* how long it has slept so far
    alive,      \* the process exists
    rounds      \* locks p has asked for
vars == <<lock, unique, content, pc, again, read, owner, error, interval,
          slept, alive, rounds>>
files == <<lock, unique, content>>
fields == <<owner, error>>
waiting == <<interval, slept>>
world == <<alive, rounds>>

Init ==
    /\ lock = NoProc
    /\ unique = [p \in Procs |-> FALSE] /\ content = [p \in Procs |-> "none"]
    /\ pc = [p \in Procs |-> "idle"]
    /\ again = [p \in Procs |-> FALSE]
    /\ read = [p \in Procs |-> NoProc] /\ owner = [p \in Procs |-> NoProc]
    /\ error = [p \in Procs |-> FALSE]
    /\ interval = [p \in Procs |-> 1] /\ slept = [p \in Procs |-> 0]
    /\ alive = [p \in Procs |-> TRUE] /\ rounds = [p \in Procs |-> 0]

At(p, call) == alive[p] /\ pc[p] = call
Goto(p, call) == pc' = [pc EXCEPT ![p] = call]
Set(f, p, x) == [f EXCEPT ![p] = x]

\* Mutant: nobody asks whether the owner is dead.
MutantStillExecuting(p, q) == TRUE

\* Another machine's processes cannot be asked about: they count as alive.
processStillExecuting(p, q) == Host[p] = Host[q] => alive[q]

-----------------------------------------------------------------------------
(* The constructor.                                                        *)

Construct(p) ==
    /\ At(p, "idle") /\ rounds[p] < MaxRounds
    /\ rounds' = Set(rounds, p, rounds[p] + 1)
    /\ owner' = Set(owner, p, NoProc) /\ error' = Set(error, p, FALSE)
    /\ again' = Set(again, p, FALSE)
    /\ Goto(p, "exists")
    /\ UNCHANGED <<files, read, waiting, alive>>

\* Where the constructor goes on when readLockFile() has returned nothing.
NoOwner(p) == IF again[p] THEN "cleanup" ELSE "unique"

\* readLockFile(): does the lock file exist?
Exists(p) ==
    /\ At(p, "exists")
    /\ Goto(p, IF lock = NoProc THEN NoOwner(p) ELSE "open")
    /\ UNCHANGED <<files, again, read, fields, waiting, world>>

\* Open it and read host and PID; it may be gone by now, and a file without a
\* complete PID is as good as none.
Open(p) ==
    /\ At(p, "open")
    /\ read' = Set(read, p, IF lock # NoProc /\ content[lock] = "pid"
                            THEN lock ELSE NoProc)
    /\ Goto(p, "judge")
    /\ UNCHANGED <<files, again, fields, waiting, world>>

\* The owner is there: the lock is shared.  Or the lock file is invalid.
Judge(p) ==
    /\ At(p, "judge")
    /\ IF read[p] # NoProc /\ processStillExecuting(p, read[p])
       THEN owner' = Set(owner, p, read[p]) /\ Goto(p, "shared")
       ELSE owner' = owner /\ Goto(p, "delete")
    /\ UNCHANGED <<files, again, read, error, waiting, world>>

Delete(p) ==
    /\ At(p, "delete")
    /\ lock' = NoProc
    /\ Goto(p, NoOwner(p))
    /\ UNCHANGED <<unique, content, again, read, fields, waiting, world>>

\* unique_file() makes a new empty file; it may fail.
UniqueFile(p) ==
    /\ At(p, "unique")
    /\ \/ /\ unique' = Set(unique, p, TRUE)
          /\ content' = Set(content, p, "empty")
          /\ error' = error /\ Goto(p, "write")
       \/ /\ error' = Set(error, p, TRUE) /\ Goto(p, "error")
          /\ UNCHANGED <<unique, content>>
    /\ UNCHANGED <<lock, again, read, owner, waiting, world>>

\* Write host and PID and close; or the disk is full.
Write(p) ==
    /\ At(p, "write")
    /\ \/ content' = Set(content, p, "pid") /\ Goto(p, "link")
       \/ content' = content /\ Goto(p, "full")
    /\ UNCHANGED <<lock, unique, again, read, fields, waiting, world>>

\* The unique file is removed, and the block left that Out belongs to.
Full(p) ==
    /\ At(p, "full")
    /\ error' = Set(error, p, TRUE)
    /\ unique' = Set(unique, p, FALSE)
    /\ Goto(p, "fatal")
    /\ UNCHANGED <<lock, content, again, read, owner, waiting, world>>

\* Nobody has cleared Out's error flag: its destructor calls report_fatal_error(),
\* which exits.  The constructor does not return.
FatalError(p) ==
    /\ At(p, "fatal")
    /\ alive' = Set(alive, p, FALSE)
    /\ Goto(p, "exited")
    /\ UNCHANGED <<files, again, read, fields, waiting, rounds>>

\* Mutant: a rename() instead of the link(), which replaces what is there.
MutantLink(p) ==
    /\ At(p, "link")
    /\ lock' = p /\ Goto(p, "owned")
    /\ UNCHANGED <<unique, content, again, read, fields, waiting, world>>

\* link() is atomic: it succeeds for at most one process at a time.  It may fail
\* for another reason than a lock file that exists.
Link(p) ==
    /\ At(p, "link")
    /\ \/ lock = NoProc /\ lock' = p /\ Goto(p, "owned")
       \/ lock = NoProc /\ FlakyLink /\ lock' \in {p, NoProc} /\ Goto(p, "stat")
       \/ lock # NoProc /\ lock' = lock /\ Goto(p, "stat")
    /\ UNCHANGED <<unique, content, again, read, fields, waiting, world>>

\* The number of names of p's unique file.
nlink(p) == (IF unique[p] THEN 1 ELSE 0) + (IF lock = p THEN 1 ELSE 0)

\* Mutant: an error of link() is believed.
MutantStat(p) ==
    /\ At(p, "stat")
    /\ Goto(p, "remove")
    /\ UNCHANGED <<files, again, read, fields, waiting, world>>

Stat(p) ==
    /\ At(p, "stat")
    /\ Goto(p, IF nlink(p) = 2 THEN "owned" ELSE "remove")
    /\ UNCHANGED <<files, again, read, fields, waiting, world>>

\* Somebody else made the lock file first, the code takes it: see who.
RemoveUnique(p) ==
    /\ At(p, "remove")
    /\ unique' = Set(unique, p, FALSE)
    /\ again' = Set(again, p, TRUE) /\ Goto(p, "exists")
    /\ UNCHANGED <<lock, content, read, fields, waiting, world>>

\* Mutant: try again instead of reporting the error.
MutantCleanUp(p) ==
    /\ At(p, "cleanup")
    /\ lock' = NoProc
    /\ Goto(p, "exists")
    /\ UNCHANGED <<unique, content, again, read, fields, waiting, world>>

\* There is a lock file that nobody owns, or there was none and one may have been
\* made since: remove what has the name, and report an error.
CleanUp(p) ==
    /\ At(p, "cleanup")
    /\ lock' = NoProc
    /\ error' = Set(error, p, TRUE)
    /\ Goto(p, "error")
    /\ UNCHANGED <<unique, content, again, read, owner, waiting, world>>
-----------------------------------------------------------------------------
(* The destructor and waitForUnlock().                                     *)

\* The owner has done its work.
Unlock(p) ==
    /\ At(p, "owned")
    /\ lock' = NoProc
    /\ Goto(p, "unlink")
    /\ UNCHANGED <<unique, content, again, read, fields, waiting, world>>

\* Mutant: only the lock file is removed.
MutantUnlink(p) ==
    /\ At(p, "unlink")
    /\ Goto(p, "idle")
    /\ UNCHANGED <<files, again, read, fields, waiting, world>>

Unlink(p) ==
    /\ At(p, "unlink")
    /\ unique' = Set(unique, p, FALSE)
    /\ Goto(p, "idle")
    /\ UNCHANGED <<lock, content, again, read, fields, waiting, world>>

\* waitForUnlock() does not wait without an owner.
DestroyUnowned(p) ==
    /\ At(p, "error")
    /\ Goto(p, "idle")
    /\ UNCHANGED <<files, again, read, fields, waiting, world>>

Wait(p) ==
    /\ At(p, "shared")
    /\ interval' = Set(interval, p, 1) /\ slept' = Set(slept, p, 0)
    /\ Goto(p, "sleep")
    /\ UNCHANGED <<files, again, read, fields, world>>

Sleep(p) ==
    /\ At(p, "sleep")
    /\ slept' = Set(slept, p, slept[p] + interval[p])
    /\ Goto(p, "look")
    /\ UNCHANGED <<files, again, read, fields, interval, world>>

\* Done when the file no longer exists.
LookFile(p) ==
    /\ At(p, "look")
    /\ Goto(p, IF lock = NoProc THEN "idle" ELSE "ask")
    /\ UNCHANGED <<files, again, read, fields, waiting, world>>

\* Done when the owner no longer exists, or when it takes too long.
LookOwner(p) ==
    /\ At(p, "ask")
    /\ IF ~processStillExecuting(p, owner[p])
       THEN Goto(p, "idle") /\ interval' = interval
       ELSE /\ interval' = Set(interval, p, 2 * interval[p])
            /\ Goto(p, IF interval'[p] < MaxWait THEN "sleep" ELSE "idle")
    /\ UNCHANGED <<files, again, read, fields, slept, world>>
-----------------------------------------------------------------------------
\* The process exits, or dies in the middle: its files stay.
Die(p) ==
    /\ alive[p] /\ (MayCrash \/ pc[p] = "idle")
    /\ alive' = Set(alive, p, FALSE)
    /\ UNCHANGED <<files, pc, again, read, fields, waiting, rounds>>

\* The steps of p's code, what it does with the lock apart.
Code(p) ==
    \/ Exists(p) \/ Open(p) \/ Judge(p) \/ Delete(p)
    \/ UniqueFile(p) \/ Write(p) \/ Full(p) \/ FatalError(p) \/ Link(p) \/ Stat(p)
    \/ RemoveUnique(p) \/ CleanUp(p)
    \/ Unlock(p) \/ Unlink(p) \/ DestroyUnowned(p)
    \/ Wait(p) \/ Sleep(p) \/ LookFile(p) \/ LookOwner(p)

Next == \E p \in Procs : Construct(p) \/ Code(p) \/ Die(p)

Spec == Init /\ [][Next]_vars

\* A process that has not died is scheduled; it need not ask for another lock.
FairSpec == Spec /\ \A p \in Procs : WF_vars(Code(p))
-----------------------------------------------------------------------------
(***************************************************************************)
(* Properties.                                                             *)
(***************************************************************************)
Calls == {"idle", "exists", "open", "judge", "delete", "unique", "write",
          "full", "fatal", "exited", "link", "stat", "remove", "cleanup",
          "error", "owned", "unlink", "shared", "sleep", "look", "ask"}
Holding == {"owned", "unlink"}
Waiting == {"shared", "sleep", "look", "ask"}

TypesOK ==
    /\ lock \in Procs \cup {NoProc}
    /\ unique \in [Procs -> BOOLEAN]
    /\ content \in [Procs -> {"none", "empty", "pid"}]
    /\ pc \in [Procs -> Calls] /\ again \in [Procs -> BOOLEAN]
    /\ read \in [Procs -> Procs \cup {NoProc}]
    /\ owner \in [Procs -> Procs \cup {NoProc}]
    /\ error \in [Procs -> BOOLEAN]
    /\ interval \in [Procs -> Nat] /\ slept \in [Procs -> Nat]
    /\ alive \in [Procs -> BOOLEAN] /\ rounds \in [Procs -> 0 .. MaxRounds]
\* getState() is computed from the fields: Owner, then Error, else owned.
FieldsOK ==
    \A p \in Procs :
        /\ pc[p] \in Waiting => owner[p] # NoProc
        /\ pc[p] = "error" => owner[p] = NoProc /\ error[p]
        /\ pc[p] \in Holding => owner[p] = NoProc /\ ~error[p]
\* The variables have their types, and getState() tells each process what the
\* constructor has found.
TypeOK == TypesOK /\ FieldsOK

\* Whoever opens the lock file finds a complete host and PID in it, whenever
\* its maker died or ran out of disk space: it was written before it got the
\* name .lock.
CompleteLock == lock # NoProc => content[lock] = "pid"

\* A live process whose link has become the lock file knows that it owns the
\* lock (or is about to find out), also when link() reported an error: no lock
\* is left that its maker takes for another's or for an error.
NoOrphanLock ==
    \A p \in Procs : lock = p /\ alive[p] => pc[p] \in {"stat", "owned"}

\* Both: a lock file has a complete name in it, and an owner that knows it or is dead.
LockFileSound == CompleteLock /\ NoOrphanLock

\* When everybody has returned, or has exited because the disk was full, and whatever
\* they deleted of each other's, no lock file and no unique file is left.
NothingLeft ==
    (\A p \in Procs : pc[p] \in {"idle", "exited"})
        => lock = NoProc /\ \A p \in Procs : ~unique[p]

Owns(p) == alive[p] /\ pc[p] = "owned"

\* Nobody but p and q has asked for a lock, and each no more than once.
CallersAmong(p, q) == \A r \in Procs : rounds[r] > 0 => r \in {p, q} /\ rounds[r] = 1

\* While no more than two processes have called, once each, at most one live process
\* works under the lock: nobody that read the lock file of one of them deletes the
\* other's, or, if its own link() had failed, it reports an error and is no owner.  A
\* second call of the owner, or a third process, breaks this: the one who found the
\* first lock file gone deletes the next one.
OneOwner ==
    \A p, q \in Procs : CallersAmong(p, q) /\ Owns(p) /\ Owns(q) => p = q

\* "When the lock file is removed, the owning process has finished the
\* operation" (LockFileManager.h).
RemovedMeansFinished == lock = NoProc => \A p \in Procs : ~Owns(p)

\* "Don't wait more than an hour" (waitForUnlock).
WaitsNoLonger == \A p \in Procs : slept[p] <= MaxWait

\* A lock whose owner died is broken by the next process of that machine that
\* asks for it.
StaleLockGoes ==
    \A p \in Procs : \A q \in {r \in Procs \ {p} : Host[r] = Host[p]} :
        (lock = q /\ ~alive[q] /\ pc[p] = "exists") ~> (lock # q \/ ~alive[p])

\* Did something else than its own code end the process?
Killed(p) == ~alive[p] /\ pc[p] # "exited"

\* Every constructor, every wait and every destructor returns, whatever becomes of the
\* other processes, on this machine or on another, and whoever makes and deletes lock
\* files meanwhile: but for a constructor that finds the disk full, which exits.
EveryCallEnds ==
    \A p \in Procs :
        /\ pc[p] \notin {"idle", "full", "fatal", "exited"}
               ~> (pc[p] \in {"idle", "full"} \/ Killed(p))
        /\ pc[p] \in {"full", "fatal"} ~> (pc[p] = "exited" \/ Killed(p))

\* "We failed to write out PID, so make up an excuse, remove the unique lock file, and
\* fail": a process whose disk is full gets to see LFS_Error.
FullDiskReported ==
    \A p \in Procs : pc[p] = "full" ~> (pc[p] = "error" \/ Killed(p))
=============================================================================
