--------------------------- MODULE LockFile_proofs ---------------------------
(***************************************************************************)
(* What holds of lock files whatever the number of processes and machines, *)
(* the wait, the crashes and the errors of link().                         *)
(*                                                                         *)
(* The argument: a process's unique file exists exactly while its code is  *)
(* between the calls that make and remove it (UniqueOK), it has its        *)
(* content when link() is called (WrittenOK), and once it is the lock file *)
(* its maker, alive or not, has gone no further than the end of its work   *)
(* (LinkOK).  The fields are as the constructor left them (OwnerOK,        *)
(* ErrorOK).  For mutual exclusion PairInv follows what one of two callers *)
(* knows of the other (Knows).                                             *)
(***************************************************************************)
EXTENDS LockFile, TLAPS

UniqueOK ==
    \A p \in Procs :
        unique[p] <=> pc[p] \in {"write", "full", "link", "stat", "remove", "owned", "unlink"}
WrittenOK == \A p \in Procs : pc[p] \in {"link", "stat", "owned"} => content[p] = "pid"
LinkOK == \A p \in Procs : lock = p => pc[p] \in {"stat", "owned"}
OwnerOK ==
    \A p \in Procs : /\ pc[p] \in Waiting => owner[p] # NoProc
                     /\ pc[p] \notin Waiting \cup {"idle"} => owner[p] = NoProc
ErrorOK ==
    \A p \in Procs : /\ pc[p] \in {"error", "fatal", "exited"} => error[p]
                     /\ pc[p] \notin {"error", "fatal", "exited", "idle"} => ~error[p]
IInv == TypesOK /\ UniqueOK /\ WrittenOK /\ LinkOK /\ OwnerOK /\ ErrorOK

\* The initial states satisfy the invariant.
LEMMA InitIInv == Init => IInv
  BY ProcsAssumption
  DEF Init, IInv, TypesOK, UniqueOK, WrittenOK, LinkOK, OwnerOK, ErrorOK, Calls, Waiting

\* The variables keep their types.
LEMMA NextTypesOK == TypesOK /\ [Next]_vars => TypesOK'
<1> SUFFICES ASSUME TypesOK, [Next]_vars PROVE TypesOK'
  OBVIOUS
<1> USE ProcsAssumption DEF TypesOK, Calls, At, Goto, Set, NoOwner,
                            files, fields, waiting, world
<1>1. ASSUME NEW p \in Procs, Construct(p) PROVE TypesOK'
  BY <1>1 DEF Construct
<1>2. ASSUME NEW p \in Procs, Code(p) PROVE TypesOK'
  <2>1. CASE Exists(p) \/ Open(p) \/ Judge(p) \/ Delete(p)
    <3>1. CASE Exists(p)  BY <3>1 DEF Exists
    <3>2. CASE Open(p)  BY <3>2 DEF Open
    <3>3. CASE Judge(p)  BY <3>3 DEF Judge
    <3>4. CASE Delete(p)  BY <3>4 DEF Delete
    <3>. QED  BY <2>1, <3>1, <3>2, <3>3, <3>4
  <2>2. CASE UniqueFile(p) \/ Write(p) \/ Full(p) \/ FatalError(p)
    <3>1. CASE UniqueFile(p)  BY <3>1 DEF UniqueFile
    <3>2. CASE Write(p)  BY <3>2 DEF Write
    <3>3. CASE Full(p)  BY <3>3 DEF Full
    <3>4. CASE FatalError(p)  BY <3>4 DEF FatalError
    <3>. QED  BY <2>2, <3>1, <3>2, <3>3, <3>4
  <2>3. CASE Link(p) \/ Stat(p) \/ RemoveUnique(p) \/ CleanUp(p)
    <3>1. CASE Link(p)  BY <3>1 DEF Link
    <3>2. CASE Stat(p)  BY <3>2 DEF Stat
    <3>3. CASE RemoveUnique(p) \/ CleanUp(p)  BY <3>3 DEF RemoveUnique, CleanUp
    <3>. QED  BY <2>3, <3>1, <3>2, <3>3
  <2>4. CASE Unlock(p) \/ Unlink(p) \/ DestroyUnowned(p)
    <3>1. CASE Unlock(p)  BY <3>1 DEF Unlock
    <3>2. CASE Unlink(p)  BY <3>2 DEF Unlink
    <3>3. CASE DestroyUnowned(p)  BY <3>3 DEF DestroyUnowned
    <3>. QED  BY <2>4, <3>1, <3>2, <3>3
  <2>5. CASE Wait(p) \/ Sleep(p) \/ LookFile(p)
    <3>1. CASE Wait(p)  BY <3>1 DEF Wait
    <3>2. CASE Sleep(p)  BY <3>2 DEF Sleep
    <3>3. CASE LookFile(p)  BY <3>3 DEF LookFile
    <3>. QED  BY <2>5, <3>1, <3>2, <3>3
  <2>6. CASE LookOwner(p)
    BY <2>6 DEF LookOwner
  <2>. QED  BY <1>2, <2>1, <2>2, <2>3, <2>4, <2>5, <2>6 DEF Code
<1>3. ASSUME NEW p \in Procs, Die(p) PROVE TypesOK'
  BY <1>3 DEF Die
<1>4. CASE UNCHANGED vars
  BY <1>4 DEF vars
<1>. QED  BY <1>1, <1>2, <1>3, <1>4 DEF Next

\* A process's files and what its code does next stay in step.
LEMMA NextFiles ==
  TypesOK /\ UniqueOK /\ WrittenOK /\ LinkOK /\ [Next]_vars => (UniqueOK /\ WrittenOK /\ LinkOK)'
<1> SUFFICES ASSUME TypesOK, UniqueOK, WrittenOK, LinkOK, [Next]_vars
             PROVE  (UniqueOK /\ WrittenOK /\ LinkOK)'
  OBVIOUS
<1> USE ProcsAssumption DEF TypesOK, UniqueOK, WrittenOK, LinkOK, Calls, At, Goto, Set, NoOwner,
                            files, fields, waiting, world
<1>1. ASSUME NEW p \in Procs, Construct(p) PROVE (UniqueOK /\ WrittenOK /\ LinkOK)'
  BY <1>1 DEF Construct
<1>2. ASSUME NEW p \in Procs, Code(p) PROVE (UniqueOK /\ WrittenOK /\ LinkOK)'
  <2>1. CASE Exists(p) \/ Open(p) \/ Judge(p)
    <3>1. CASE Exists(p)  BY <3>1 DEF Exists
    <3>2. CASE Open(p)  BY <3>2 DEF Open
    <3>3. CASE Judge(p)  BY <3>3 DEF Judge
    <3>. QED  BY <2>1, <3>1, <3>2, <3>3
  <2>2. CASE Delete(p)
    BY <2>2 DEF Delete
  <2>3. CASE UniqueFile(p)
    BY <2>3 DEF UniqueFile
  <2>4. CASE Write(p)
    BY <2>4 DEF Write
  <2>5. CASE Full(p) \/ FatalError(p)
    BY <2>5 DEF Full, FatalError
  <2>6. CASE Link(p)
    BY <2>6 DEF Link
  \* When link() was wrong about its failure both names are there, and stat() says so.
  <2>7. CASE Stat(p)
    <3>1. lock = p => nlink(p) = 2
      BY <2>7 DEF Stat, nlink
    <3>. QED  BY <2>7, <3>1 DEF Stat
  <2>8. CASE RemoveUnique(p) \/ CleanUp(p)
    BY <2>8 DEF RemoveUnique, CleanUp
  <2>9. CASE Unlock(p) \/ Unlink(p) \/ DestroyUnowned(p)
    <3>1. CASE Unlock(p)  BY <3>1 DEF Unlock
    <3>2. CASE Unlink(p)  BY <3>2 DEF Unlink
    <3>3. CASE DestroyUnowned(p)  BY <3>3 DEF DestroyUnowned
    <3>. QED  BY <2>9, <3>1, <3>2, <3>3
  <2>10. CASE Wait(p) \/ Sleep(p) \/ LookFile(p) \/ LookOwner(p)
    <3>1. CASE Wait(p) \/ Sleep(p) \/ LookFile(p)  BY <3>1 DEF Wait, Sleep, LookFile
    <3>2. CASE LookOwner(p)  BY <3>2 DEF LookOwner
    <3>. QED  BY <2>10, <3>1, <3>2
  <2>. QED  BY <1>2, <2>1, <2>2, <2>3, <2>4, <2>5, <2>6, <2>7, <2>8, <2>9, <2>10 DEF Code
<1>3. ASSUME NEW p \in Procs, Die(p) PROVE (UniqueOK /\ WrittenOK /\ LinkOK)'
  BY <1>3 DEF Die
<1>4. CASE UNCHANGED vars
  BY <1>4 DEF vars
<1>. QED  BY <1>1, <1>2, <1>3, <1>4 DEF Next

\* The fields say what the code has found.
LEMMA NextFields == TypesOK /\ OwnerOK /\ ErrorOK /\ [Next]_vars => (OwnerOK /\ ErrorOK)'
<1> SUFFICES ASSUME TypesOK, OwnerOK, ErrorOK, [Next]_vars PROVE (OwnerOK /\ ErrorOK)'
  OBVIOUS
<1> USE ProcsAssumption DEF TypesOK, OwnerOK, ErrorOK, Waiting, Calls, At, Goto, Set, NoOwner,
                            files, fields, waiting, world
<1>1. ASSUME NEW p \in Procs, Construct(p) PROVE (OwnerOK /\ ErrorOK)'
  BY <1>1 DEF Construct
<1>2. ASSUME NEW p \in Procs, Code(p) PROVE (OwnerOK /\ ErrorOK)'
  <2>1. CASE Exists(p) \/ Open(p) \/ Delete(p)
    <3>1. CASE Exists(p)  BY <3>1 DEF Exists
    <3>2. CASE Open(p)  BY <3>2 DEF Open
    <3>3. CASE Delete(p)  BY <3>3 DEF Delete
    <3>. QED  BY <2>1, <3>1, <3>2, <3>3
  <2>2. CASE Judge(p)
    BY <2>2 DEF Judge
  <2>3. CASE UniqueFile(p) \/ Write(p) \/ Full(p) \/ FatalError(p)
    <3>1. CASE UniqueFile(p)  BY <3>1 DEF UniqueFile
    <3>2. CASE Write(p)  BY <3>2 DEF Write
    <3>3. CASE Full(p)  BY <3>3 DEF Full
    <3>4. CASE FatalError(p)  BY <3>4 DEF FatalError
    <3>. QED  BY <2>3, <3>1, <3>2, <3>3, <3>4
  <2>4. CASE Link(p) \/ Stat(p) \/ RemoveUnique(p) \/ CleanUp(p)
    <3>1. CASE Link(p)  BY <3>1 DEF Link
    <3>2. CASE Stat(p)  BY <3>2 DEF Stat
    <3>3. CASE RemoveUnique(p)  BY <3>3 DEF RemoveUnique
    <3>4. CASE CleanUp(p)  BY <3>4 DEF CleanUp
    <3>. QED  BY <2>4, <3>1, <3>2, <3>3, <3>4
  <2>5. CASE Unlock(p) \/ Unlink(p) \/ DestroyUnowned(p)
    <3>1. CASE Unlock(p)  BY <3>1 DEF Unlock
    <3>2. CASE Unlink(p)  BY <3>2 DEF Unlink
    <3>3. CASE DestroyUnowned(p)  BY <3>3 DEF DestroyUnowned
    <3>. QED  BY <2>5, <3>1, <3>2, <3>3
  <2>6. CASE Wait(p) \/ Sleep(p) \/ LookFile(p) \/ LookOwner(p)
    <3>1. CASE Wait(p)  BY <3>1 DEF Wait
    <3>2. CASE Sleep(p)  BY <3>2 DEF Sleep
    <3>3. CASE LookFile(p)  BY <3>3 DEF LookFile
    <3>4. CASE LookOwner(p)  BY <3>4 DEF LookOwner
    <3>. QED  BY <2>6, <3>1, <3>2, <3>3, <3>4
  <2>. QED  BY <1>2, <2>1, <2>2, <2>3, <2>4, <2>5, <2>6 DEF Code
<1>3. ASSUME NEW p \in Procs, Die(p) PROVE (OwnerOK /\ ErrorOK)'
  BY <1>3 DEF Die
<1>4. CASE UNCHANGED vars
  BY <1>4 DEF vars
<1>. QED  BY <1>1, <1>2, <1>3, <1>4 DEF Next

\* The inductive invariant, in every reachable state.
THEOREM AlwaysIInv == Spec => []IInv
<1>1. IInv /\ [Next]_vars => IInv'
  BY NextTypesOK, NextFiles, NextFields DEF IInv
<1>. QED  BY InitIInv, <1>1, PTL DEF Spec

\* LockFileManager's variables keep their types, and getState() tells each process
\* what its constructor has found.
THEOREM AlwaysTypeOK == Spec => []TypeOK
<1>1. IInv => TypeOK
  BY DEF IInv, TypeOK, FieldsOK, OwnerOK, ErrorOK, Waiting, Holding
<1>. QED  BY AlwaysIInv, <1>1, PTL

\* Whoever opens the lock file finds a complete host and PID in it, however many
\* processes there are and whenever they die (LockFileManager's constructor).
THEOREM AlwaysCompleteLock == Spec => []CompleteLock
<1>1. IInv => CompleteLock
  BY DEF IInv, TypesOK, LinkOK, WrittenOK, CompleteLock
<1>. QED  BY AlwaysIInv, <1>1, PTL

\* No lock is left that its live maker takes for another's or for an error, also
\* when link() reports an error after it made the link.
THEOREM AlwaysNoOrphanLock == Spec => []NoOrphanLock
<1>1. IInv => NoOrphanLock
  BY DEF IInv, LinkOK, NoOrphanLock
<1>. QED  BY AlwaysIInv, <1>1, PTL

\* A lock file names its maker in full, and a maker that lives knows of its lock,
\* for any processes, whenever they die and whatever link() reports.
THEOREM LockFileAlwaysSound == Spec => []LockFileSound
<1>1. CompleteLock /\ NoOrphanLock => LockFileSound
  BY DEF LockFileSound
<1>. QED  BY <1>1, AlwaysCompleteLock, AlwaysNoOrphanLock, PTL

\* When every call has returned or a full disk has ended the process, no lock file and no
\* unique file is left (the destructor, and the errors of the constructor).
THEOREM AlwaysNothingLeft == Spec => []NothingLeft
<1>1. IInv => NothingLeft
  BY DEF IInv, TypesOK, UniqueOK, LinkOK, NothingLeft
<1>. QED  BY AlwaysIInv, <1>1, PTL
-----------------------------------------------------------------------------
\* q has had its turn with the lock: it has released it, or it is dead.
Gone(q) == rounds[q] > 0 /\ (~alive[q] \/ pc[q] \in {"unlink", "idle"})

\* Calls before and with the lock, which nobody makes after its link() failed.
Trying == {"unique", "write", "full", "link", "stat", "remove", "owned", "unlink"}

CalledOK == \A p \in Procs : pc[p] # "idle" \/ again[p] => rounds[p] > 0
AgainOK ==
    \A p \in Procs : /\ again[p] => pc[p] \notin Trying
                     /\ pc[p] = "cleanup" => again[p]

\* What a live p knows of q when the two are the only callers.  While p owns the lock the
\* lock file is its own, unless q, whose link() has failed, has deleted it.  As long as p
\* has not failed, a lock file that it saw and that is gone was q's, and q has had its turn.
Knows(p, q) ==
    /\ pc[p] = "owned" => lock = p \/ again[q]
    /\ ~again[p] /\ pc[p] = "open" => lock # NoProc \/ Gone(q)
    /\ ~again[p] /\ pc[p] = "judge" =>
           IF read[p] = NoProc THEN Gone(q) ELSE read[p] = q /\ rounds[q] > 0
    /\ ~again[p] /\ pc[p] = "delete" => Gone(q)

PairInv ==
    /\ CalledOK /\ AgainOK
    /\ \A p, q \in Procs : p # q /\ CallersAmong(p, q) /\ alive[p] => Knows(p, q)

\* A process is called before its code runs.
LEMMA NextCalled == TypesOK /\ CalledOK /\ [Next]_vars => CalledOK'
<1> SUFFICES ASSUME TypesOK, CalledOK, [Next]_vars PROVE CalledOK'
  OBVIOUS
<1> USE DEF TypesOK, CalledOK, At, Goto, Set, files, fields, waiting, world
<1>1. ASSUME NEW p \in Procs, Construct(p) PROVE CalledOK'
  BY <1>1 DEF Construct
<1>2. ASSUME NEW p \in Procs, Code(p) PROVE CalledOK'
  <2>1. /\ rounds' = rounds /\ pc[p] # "idle"
        /\ \A q \in Procs \ {p} : pc'[q] = pc[q] /\ again'[q] = again[q]
    BY <1>2 DEF Code, Exists, Open, Judge, Delete, UniqueFile, Write, Full, FatalError, Link,
       Stat, RemoveUnique, CleanUp, Unlock, Unlink, DestroyUnowned, Wait, Sleep, LookFile,
       LookOwner
  <2>. QED  BY <2>1
<1>3. CASE (\E p \in Procs : Die(p)) \/ UNCHANGED vars
  BY <1>3 DEF Die, vars
<1>. QED  BY <1>1, <1>2, <1>3 DEF Next

\* Who has failed to get the lock does not try again in the same call.
LEMMA NextAgain == TypesOK /\ AgainOK /\ [Next]_vars => AgainOK'
<1> SUFFICES ASSUME TypesOK, AgainOK, [Next]_vars PROVE AgainOK'
  OBVIOUS
<1> USE DEF TypesOK, AgainOK, Trying, At, Goto, Set, NoOwner, files, fields, waiting, world
<1>1. ASSUME NEW p \in Procs, Construct(p) PROVE AgainOK'
  BY <1>1 DEF Construct
<1>2. ASSUME NEW p \in Procs, Code(p) PROVE AgainOK'
  <2>1. CASE Exists(p) \/ Open(p) \/ Judge(p) \/ Delete(p)
    <3>1. CASE Exists(p)  BY <3>1 DEF Exists
    <3>2. CASE Open(p)  BY <3>2 DEF Open
    <3>3. CASE Judge(p)  BY <3>3 DEF Judge
    <3>4. CASE Delete(p)  BY <3>4 DEF Delete
    <3>. QED  BY <2>1, <3>1, <3>2, <3>3, <3>4
  <2>2. CASE UniqueFile(p) \/ Write(p) \/ Full(p) \/ FatalError(p)
    <3>1. CASE UniqueFile(p)  BY <3>1 DEF UniqueFile
    <3>2. CASE Write(p)  BY <3>2 DEF Write
    <3>3. CASE Full(p)  BY <3>3 DEF Full
    <3>4. CASE FatalError(p)  BY <3>4 DEF FatalError
    <3>. QED  BY <2>2, <3>1, <3>2, <3>3, <3>4
  <2>3. CASE Link(p) \/ Stat(p) \/ RemoveUnique(p) \/ CleanUp(p)
    <3>1. CASE Link(p)  BY <3>1 DEF Link
    <3>2. CASE Stat(p)  BY <3>2 DEF Stat
    <3>3. CASE RemoveUnique(p)  BY <3>3 DEF RemoveUnique
    <3>4. CASE CleanUp(p)  BY <3>4 DEF CleanUp
    <3>. QED  BY <2>3, <3>1, <3>2, <3>3, <3>4
  <2>4. CASE Unlock(p) \/ Unlink(p) \/ DestroyUnowned(p)
    <3>1. CASE Unlock(p)  BY <3>1 DEF Unlock
    <3>2. CASE Unlink(p)  BY <3>2 DEF Unlink
    <3>3. CASE DestroyUnowned(p)  BY <3>3 DEF DestroyUnowned
    <3>. QED  BY <2>4, <3>1, <3>2, <3>3
  <2>5. CASE Wait(p) \/ Sleep(p) \/ LookFile(p) \/ LookOwner(p)
    <3>1. CASE Wait(p)  BY <3>1 DEF Wait
    <3>2. CASE Sleep(p)  BY <3>2 DEF Sleep
    <3>3. CASE LookFile(p)  BY <3>3 DEF LookFile
    <3>4. CASE LookOwner(p)  BY <3>4 DEF LookOwner
    <3>. QED  BY <2>5, <3>1, <3>2, <3>3, <3>4
  <2>. QED  BY <1>2, <2>1, <2>2, <2>3, <2>4, <2>5 DEF Code
<1>3. CASE (\E p \in Procs : Die(p)) \/ UNCHANGED vars
  BY <1>3 DEF Die, vars
<1>. QED  BY <1>1, <1>2, <1>3 DEF Next

\* While p and q stay the only callers, nobody else does anything but exit.
LEMMA OthersIdle ==
  ASSUME IInv, CalledOK, NEW p \in Procs, NEW q \in Procs, NEW r \in Procs \ {p, q},
         CallersAmong(p, q)', Construct(r) \/ Code(r) \/ Die(r)
  PROVE  Die(r)
<1>1. CASE Construct(r)
  <2>1. rounds'[r] > 0  BY <1>1 DEF Construct, Set, IInv, TypesOK
  <2>. QED  BY <2>1 DEF CallersAmong
<1>2. CASE Code(r)
  <2>1. rounds' = rounds /\ pc[r] # "idle"
    BY <1>2 DEF Code, Exists, Open, Judge, Delete, UniqueFile, Write, Full, FatalError, Link, Stat,
       RemoveUnique, CleanUp, Unlock, Unlink, DestroyUnowned, Wait, Sleep, LookFile, LookOwner,
       At, world
  <2>. QED  BY <2>1 DEF CallersAmong, CalledOK
<1>. QED  BY <1>1, <1>2

\* Calls are only added.
LEMMA CallersStay ==
  ASSUME IInv, [Next]_vars, NEW p \in Procs, NEW q \in Procs, CallersAmong(p, q)'
  PROVE  CallersAmong(p, q)
<1>1. CASE UNCHANGED rounds
  BY <1>1 DEF CallersAmong
<1>2. ASSUME NEW r \in Procs, Construct(r) PROVE CallersAmong(p, q)
  <2>1. /\ rounds \in [Procs -> 0 .. MaxRounds] /\ MaxRounds \in Nat
        /\ rounds' = [rounds EXCEPT ![r] = rounds[r] + 1]
    BY <1>2, ProcsAssumption DEF Construct, Set, IInv, TypesOK
  <2>. QED  BY <2>1 DEF CallersAmong
<1>3. UNCHANGED rounds \/ \E r \in Procs : Construct(r)
  BY DEF Next, vars, Die, Code, Exists, Open, Judge, Delete, UniqueFile, Write, Full,
     FatalError, Link, Stat, RemoveUnique, CleanUp, Unlock, Unlink, DestroyUnowned, Wait, Sleep, LookFile,
     LookOwner, world
<1>. QED  BY <1>1, <1>2, <1>3

\* A step of p itself keeps what p knows.
LEMMA OwnStepKnows ==
  ASSUME IInv, CalledOK, AgainOK, NEW p \in Procs, NEW q \in Procs, p # q,
         CallersAmong(p, q), Knows(p, q), Construct(p) \/ Code(p)
  PROVE  Knows(p, q)'
<1> USE ProcsAssumption DEF IInv, TypesOK, AgainOK, Trying, Calls, Knows, Gone, At, Goto, Set,
                            NoOwner, files, fields, waiting, world
<1>1. CASE Construct(p)
  BY <1>1 DEF Construct
<1>2. CASE Exists(p)
  BY <1>2 DEF Exists
\* The lock file p opens is its maker's, so it is q's, complete, and q is at work.
<1>3. CASE Open(p)
  <2>1. CASE lock = NoProc
    BY <1>3, <2>1 DEF Open
  <2>2. CASE lock # NoProc
    <3>1. lock \in Procs /\ pc[lock] \in {"stat", "owned"} /\ content[lock] = "pid"
      BY <2>2 DEF LinkOK, WrittenOK
    <3>2. rounds[lock] > 0 /\ lock # p
      BY <1>3, <3>1 DEF Open, CalledOK
    <3>3. lock = q
      BY <3>1, <3>2 DEF CallersAmong
    <3>. QED  BY <1>3, <3>1, <3>2, <3>3 DEF Open
  <2>. QED  BY <2>1, <2>2
<1>4. CASE Judge(p)
  BY <1>4 DEF Judge, processStillExecuting
<1>5. CASE Delete(p)
  BY <1>5 DEF Delete
<1>6. CASE UniqueFile(p) \/ Write(p) \/ Full(p) \/ FatalError(p)
  BY <1>6 DEF UniqueFile, Write, Full, FatalError
<1>7. CASE Link(p)
  BY <1>7 DEF Link
<1>8. CASE Stat(p)
  BY <1>8 DEF Stat, nlink
<1>9. CASE RemoveUnique(p)
  BY <1>9 DEF RemoveUnique
<1>10. CASE CleanUp(p) \/ Unlock(p) \/ Unlink(p) \/ DestroyUnowned(p)
  BY <1>10 DEF CleanUp, Unlock, Unlink, DestroyUnowned
<1>11. CASE Wait(p) \/ Sleep(p) \/ LookFile(p) \/ LookOwner(p)
  <2>1. /\ UNCHANGED <<lock, rounds, alive, again>> /\ pc'[q] = pc[q]
        /\ pc'[p] \in {"idle", "sleep", "look", "ask"}
    BY <1>11 DEF Wait, Sleep, LookFile, LookOwner
  <2>. QED  BY <2>1
<1>. QED  BY <1>1, <1>2, <1>3, <1>4, <1>5, <1>6, <1>7, <1>8, <1>9, <1>10, <1>11 DEF Code

\* A step of q: it takes nothing from p that p has not had, unless q has failed, and is no
\* owner then.
LEMMA OtherStepKnows ==
  ASSUME IInv, CalledOK, AgainOK, NEW p \in Procs, NEW q \in Procs, p # q,
         CallersAmong(p, q)', CallersAmong(p, q), alive[p], Knows(p, q),
         alive[q] => Knows(q, p), Construct(q) \/ Code(q) \/ Die(q)
  PROVE  Knows(p, q)'
<1> USE ProcsAssumption DEF IInv, TypesOK, Calls, At, Goto, Set, files, fields, waiting, world
<1>1. alive[q] /\ Knows(q, p)
  BY DEF Construct, Code, Exists, Open, Judge, Delete, UniqueFile, Write, Full, FatalError,
     Link, Stat, RemoveUnique, CleanUp, Unlock, Unlink, DestroyUnowned, Wait, Sleep, LookFile,
     LookOwner, Die
<1>2. CASE Construct(q)
  <2>1. rounds'[q] = rounds[q] + 1 /\ rounds[q] \in Nat  BY <1>2 DEF Construct
  <2>2. rounds[q] = 0  BY <2>1 DEF CallersAmong
  <2>3. ~Gone(q) /\ ~again[q]  BY <2>2 DEF Gone, CalledOK
  <2>4. UNCHANGED <<lock, read>> /\ again'[p] = again[p] /\ pc'[p] = pc[p]
    BY <1>2 DEF Construct
  <2>5. ~(read[p] = q /\ rounds[q] > 0)  BY <2>2
  <2>. QED  BY <2>3, <2>4, <2>5 DEF Knows
\* q deletes a lock file that p has done with, or has failed itself.
<1>3. CASE Delete(q) \/ CleanUp(q)
  <2>1. UNCHANGED <<read, again, rounds>> /\ pc'[p] = pc[p]
    BY <1>3 DEF Delete, CleanUp
  <2>2. ~Gone(q)  BY <1>3 DEF Delete, CleanUp, Gone
  <2>3. pc[p] = "owned" => again[q]
    BY <1>1, <1>3 DEF Knows, Delete, CleanUp, Gone, AgainOK
  <2>4. pc[p] = "open" => lock = NoProc
    <3>1. ASSUME pc[p] = "open", lock # NoProc PROVE FALSE
      <4>1. lock \in Procs /\ pc[lock] \in {"stat", "owned"}  BY <3>1 DEF LinkOK
      <4>2. rounds[lock] > 0  BY <4>1 DEF CalledOK
      <4>3. lock \in {p, q}  BY <4>1, <4>2 DEF CallersAmong
      <4>. QED  BY <1>3, <3>1, <4>1, <4>3 DEF Delete, CleanUp
    <3>. QED  BY <3>1
  <2>. QED  BY <2>1, <2>2, <2>3, <2>4 DEF Knows
<1>4. CASE Unlock(q)
  <2>1. pc[q] = "owned" /\ ~again[q]  BY <1>4 DEF Unlock, AgainOK, Trying
  <2>2. pc[p] # "owned"
    BY <1>1, <2>1 DEF Knows, AgainOK, Trying
  <2>3. Gone(q)'
    BY <1>4 DEF Unlock, Gone, CalledOK
  <2>4. /\ UNCHANGED <<read, again, rounds, alive>> /\ pc'[p] = pc[p]
    BY <1>4 DEF Unlock
  <2>. QED  BY <2>2, <2>3, <2>4 DEF Knows, Gone
<1>5. CASE Link(q)
  <2>1. ~Gone(q) /\ ~again[q]  BY <1>5 DEF Link, Gone, AgainOK, Trying
  <2>2. UNCHANGED <<read, again, rounds>> /\ pc'[p] = pc[p]
    BY <1>5 DEF Link
  <2>3. lock # NoProc => lock' = lock
    BY <1>5 DEF Link
  <2>. QED  BY <2>1, <2>2, <2>3 DEF Knows
<1>6. CASE Unlink(q) \/ FatalError(q) \/ Die(q)
  <2>1. Gone(q) => Gone(q)'
    BY <1>6 DEF Unlink, FatalError, Die, Gone
  <2>2. UNCHANGED <<lock, read, again, rounds>> /\ pc'[p] = pc[p]
    BY <1>6 DEF Unlink, FatalError, Die
  <2>. QED  BY <2>1, <2>2 DEF Knows
<1>7. CASE \/ Exists(q) \/ Open(q) \/ Judge(q) \/ UniqueFile(q) \/ Write(q) \/ Full(q)
           \/ Stat(q) \/ RemoveUnique(q) \/ DestroyUnowned(q)
           \/ Wait(q) \/ Sleep(q) \/ LookFile(q) \/ LookOwner(q)
  <2>1. /\ UNCHANGED <<lock, rounds, alive>> /\ pc'[p] = pc[p]
        /\ read'[p] = read[p] /\ again'[p] = again[p] /\ (again[q] => again'[q])
        /\ pc[q] \notin {"unlink", "idle"}
    BY <1>7 DEF Exists, Open, Judge, UniqueFile, Write, Full, Stat, RemoveUnique,
       DestroyUnowned, Wait, Sleep, LookFile, LookOwner
  <2>2. ~Gone(q)  BY <1>1, <2>1 DEF Gone
  <2>. QED  BY <2>1, <2>2 DEF Knows
<1>. QED  BY <1>2, <1>3, <1>4, <1>5, <1>6, <1>7 DEF Code

LEMMA InitPair == Init => PairInv
  BY DEF Init, PairInv, CalledOK, AgainOK, Knows

LEMMA NextPair == IInv /\ PairInv /\ [Next]_vars => PairInv'
<1> SUFFICES ASSUME IInv, PairInv, [Next]_vars PROVE PairInv'
  OBVIOUS
<1>1. CalledOK' /\ AgainOK'  BY NextCalled, NextAgain DEF IInv, PairInv
<1>2. ASSUME NEW p \in Procs, NEW q \in Procs, p # q, CallersAmong(p, q)', alive'[p]
      PROVE  Knows(p, q)'
  <2>1. CallersAmong(p, q) /\ CallersAmong(q, p)
    BY <1>2, CallersStay DEF CallersAmong
  <2>2. alive[p]
    BY <1>2 DEF Next, vars, Die, Construct, Code, Exists, Open, Judge, Delete, UniqueFile,
       Write, Full, FatalError, Link, Stat, RemoveUnique, CleanUp, Unlock, Unlink,
       DestroyUnowned, Wait,
       Sleep, LookFile, LookOwner, world, Set, IInv, TypesOK
  <2>3. Knows(p, q) /\ (alive[q] => Knows(q, p)) /\ CalledOK /\ AgainOK
    BY <1>2, <2>1, <2>2 DEF PairInv
  <2>4. ASSUME NEW r \in Procs \ {p, q}, Construct(r) \/ Code(r) \/ Die(r)
        PROVE  Knows(p, q)'
    <3>1. Die(r)  BY <1>2, <2>3, <2>4, OthersIdle
    <3>2. UNCHANGED <<lock, pc, again, read, rounds>> /\ alive'[q] = alive[q]
      BY <3>1 DEF Die, files, fields, Set, IInv, TypesOK
    <3>. QED  BY <2>3, <3>2 DEF Knows, Gone
  <2>5. ASSUME Construct(q) \/ Code(q) \/ Die(q) PROVE Knows(p, q)'
    BY <1>2, <2>1, <2>2, <2>3, <2>5, OtherStepKnows
  <2>6. ASSUME Construct(p) \/ Code(p) PROVE Knows(p, q)'
    BY <1>2, <2>1, <2>3, <2>6, OwnStepKnows
  <2>7. ~Die(p)
    BY <1>2 DEF Die, Set, IInv, TypesOK
  <2>8. CASE UNCHANGED vars
    BY <2>3, <2>8 DEF vars, Knows, Gone
  <2>. QED  BY <2>4, <2>5, <2>6, <2>7, <2>8 DEF Next
<1>. QED  BY <1>1, <1>2 DEF PairInv

\* Two processes that call once each never both work under the lock: link() lets one of
\* them in, and the other deletes a lock file only when that one has had its turn, or when
\* it has failed itself, for any hosts, crashes and errors of link() (LockFileManager's
\* constructor).
THEOREM AlwaysOneOwner == Spec => []OneOwner
<1>1. IInv /\ PairInv => OneOwner
  <2> SUFFICES ASSUME PairInv, NEW p \in Procs, NEW q \in Procs, p # q,
                      CallersAmong(p, q), Owns(p), Owns(q)
               PROVE  FALSE
    BY DEF OneOwner
  <2>1. CallersAmong(q, p)  BY DEF CallersAmong
  <2>2. ~again[p] /\ ~again[q]  BY DEF PairInv, AgainOK, Trying, Owns
  <2>3. lock = p /\ lock = q  BY <2>1, <2>2 DEF PairInv, Knows, Owns
  <2>. QED  BY <2>3
<1>2. Spec => []PairInv
  BY InitPair, NextPair, AlwaysIInv, PTL DEF Spec
<1>. QED  BY AlwaysIInv, <1>1, <1>2, PTL
=============================================================================
