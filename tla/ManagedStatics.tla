--------------------------- MODULE ManagedStatics ---------------------------
(***************************************************************************)
(* Lazily constructed globals (ManagedStatic) used by several threads, and *)
(* destroyed by llvm_shutdown().  Dereferencing a static looks at Ptr      *)
(* without a lock; only a thread that finds it null takes the global lock, *)
(* looks again and constructs.  The constructor of a static may            *)
(* dereference others, and so may its destructor.                          *)
(*                                                                         *)
(* A thread's stores reach the other threads in any order, until it fences *)
(* or releases a lock: pending[t] holds those that have not.               *)
(***************************************************************************)
EXTENDS Integers, Sequences, FiniteSets

CONSTANTS
    Threads,
    Main,         \* the thread that starts and shuts LLVM down, in isolation
    None,         \* no thread
    Statics,
    Uses,         \* Uses[s]: what the constructor of s dereferences
    DeleterUses,  \* DeleterUses[s]: what its destructor dereferences
    MaxStarts     \* bound: sessions between two shutdowns

\* No static needs itself to be constructed or destroyed.
ASSUME StaticsAssumption ==
    /\ Main \in Threads /\ None \notin Threads /\ MaxStarts \in Nat \ {0}
    /\ Uses \in [Statics -> SUBSET Statics]
    /\ DeleterUses \in [Statics -> SUBSET Statics]
    /\ \E rank \in [Statics -> 0 .. Cardinality(Statics)] :
          \A s \in Statics : \A u \in Uses[s] \cup DeleterUses[s] :
              rank[u] < rank[s]

VARIABLES
    multithreaded_mode,
    holder,     \* who holds the global lock
    depth,      \* how often: it is recursive
    Ptr,        \* Ptr[s] is not null
    built,      \* the object that Ptr[s] will point to is in memory
    pending,    \* stores that only their thread sees
    StaticList, \* the list of constructed statics, newest first
    stack,      \* stack[t]: the operators t is executing, innermost first
    session     \* "off", "on", or "shutdown"; and how many there were
vars == <<multithreaded_mode, holder, depth, Ptr, built, pending, StaticList,
          stack, session>>
lockVars == <<holder, depth>>
memVars == <<Ptr, built, pending>>

Store(what, s) == [what |-> what, of |-> s]
\* An operator* on s, or a destroy() of s: where it is, and which statics its
\* creator or deleter has still to dereference.
Frame(s, at, left) == [of |-> s, at |-> at, left |-> left]

Init ==
    /\ multithreaded_mode = FALSE /\ holder = None /\ depth = 0
    /\ Ptr = [s \in Statics |-> FALSE] /\ built = [s \in Statics |-> FALSE]
    /\ pending = [t \in Threads |-> {}]
    /\ StaticList = <<>>
    /\ stack = [t \in Threads |-> <<>>]
    /\ session = [phase |-> "on", number |-> 1]

\* What thread t sees.
PtrSeen(t, s) == Ptr[s] \/ Store("ptr", s) \in pending[t]
BuiltSeen(t, s) == built[s] \/ Store("built", s) \in pending[t]

Idle(t) == stack[t] = <<>>
AllIdle == \A t \in Threads : Idle(t)
At(t, at) == ~Idle(t) /\ Head(stack[t]).at = at
Of(t) == Head(stack[t]).of
Left(t) == Head(stack[t]).left
Push(t, frame) == stack' = [stack EXCEPT ![t] = <<frame>> \o @]
Pop(t) == stack' = [stack EXCEPT ![t] = Tail(@)]
Step(t, at, left) ==
    stack' = [stack EXCEPT ![t] = <<Frame(Of(t), at, left)>> \o Tail(@)]

\* All stores of t reach memory.
Drain(t) ==
    /\ Ptr' = [s \in Statics |-> PtrSeen(t, s)]
    /\ built' = [s \in Statics |-> BuiltSeen(t, s)]
    /\ pending' = [pending EXCEPT ![t] = {}]

\* The machine: one of them does.
Reach(t) ==
    /\ \E st \in pending[t] :
          /\ pending' = [pending EXCEPT ![t] = @ \ {st}]
          /\ Ptr' = IF st.what = "ptr" THEN [Ptr EXCEPT ![st.of] = TRUE] ELSE Ptr
          /\ built' = IF st.what = "built" THEN [built EXCEPT ![st.of] = TRUE]
                                           ELSE built
    /\ UNCHANGED <<multithreaded_mode, lockVars, StaticList, stack, session>>
-----------------------------------------------------------------------------
(* Operator * and operator ->.                                             *)

\* Only Main may use LLVM while it is not in multithreaded mode.
Dereference(t, s) ==
    /\ Idle(t) /\ session.phase = "on"
    /\ multithreaded_mode \/ t = Main
    /\ Push(t, Frame(s, "read", {}))
    /\ UNCHANGED <<multithreaded_mode, lockVars, memVars, StaticList, session>>

\* The first look at Ptr, without the lock; a fence when there are threads.
ReadPtr(t) ==
    /\ At(t, "read")
    /\ Step(t, IF PtrSeen(t, Of(t)) THEN "use"
               ELSE IF multithreaded_mode THEN "acquire" ELSE "create",
            IF PtrSeen(t, Of(t)) \/ multithreaded_mode THEN {} ELSE Uses[Of(t)])
    /\ IF multithreaded_mode THEN Drain(t) ELSE UNCHANGED memVars
    /\ UNCHANGED <<multithreaded_mode, lockVars, StaticList, session>>

\* Mutant: a lock that its holder cannot take again.
MutantAcquire(t) ==
    /\ At(t, "acquire")
    /\ holder = None
    /\ holder' = t /\ depth' = depth + 1
    /\ Step(t, "check", {})
    /\ UNCHANGED <<multithreaded_mode, memVars, StaticList, session>>

\* RegisterManagedStatic() with threads: llvm_acquire_global_lock().
Acquire(t) ==
    /\ At(t, "acquire")
    /\ holder \in {None, t}
    /\ holder' = t /\ depth' = depth + 1
    /\ Step(t, "check", {})
    /\ UNCHANGED <<multithreaded_mode, memVars, StaticList, session>>

\* Mutant: no second look.
MutantCheck(t) ==
    /\ At(t, "check")
    /\ Step(t, "create", Uses[Of(t)])
    /\ UNCHANGED <<multithreaded_mode, lockVars, memVars, StaticList, session>>

\* The second look.
Check(t) ==
    /\ At(t, "check")
    /\ IF PtrSeen(t, Of(t)) THEN Step(t, "release", {})
                            ELSE Step(t, "create", Uses[Of(t)])
    /\ UNCHANGED <<multithreaded_mode, lockVars, memVars, StaticList, session>>

\* The creator or deleter dereferences another static.
Nested(t) ==
    /\ At(t, "create") \/ At(t, "delete")
    /\ \E u \in Left(t) :
          stack' = [stack EXCEPT ![t] =
              <<Frame(u, "read", {}), Frame(Of(t), Head(@).at, Left(t) \ {u})>>
                  \o Tail(@)]
    /\ UNCHANGED <<multithreaded_mode, lockVars, memVars, StaticList, session>>

\* The object is constructed, in the eyes of t.
Create(t) ==
    /\ At(t, "create") /\ Left(t) = {}
    /\ pending' = [pending EXCEPT ![t] = @ \cup {Store("built", Of(t))}]
    /\ Step(t, IF multithreaded_mode THEN "fence" ELSE "publish", {})
    /\ UNCHANGED <<multithreaded_mode, lockVars, Ptr, built, StaticList, session>>

\* Mutant: no fence.
MutantFence(t) ==
    /\ At(t, "fence")
    /\ Step(t, "publish", {})
    /\ UNCHANGED <<multithreaded_mode, lockVars, memVars, StaticList, session>>

MemoryFence(t) ==
    /\ At(t, "fence")
    /\ Drain(t)
    /\ Step(t, "publish", {})
    /\ UNCHANGED <<multithreaded_mode, lockVars, StaticList, session>>

\* Mutant: the list is kept in the order of construction.
MutantPublish(t) ==
    /\ At(t, "publish")
    /\ pending' = [pending EXCEPT ![t] = @ \cup {Store("ptr", Of(t))}]
    /\ StaticList' = Append(StaticList, Of(t))
    /\ Step(t, IF multithreaded_mode THEN "release" ELSE "use", {})
    /\ UNCHANGED <<multithreaded_mode, lockVars, Ptr, built, session>>

\* Ptr is set and the static goes on the list.
Publish(t) ==
    /\ At(t, "publish")
    /\ pending' = [pending EXCEPT ![t] = @ \cup {Store("ptr", Of(t))}]
    /\ StaticList' = <<Of(t)>> \o StaticList
    /\ Step(t, IF multithreaded_mode THEN "release" ELSE "use", {})
    /\ UNCHANGED <<multithreaded_mode, lockVars, Ptr, built, session>>

Release(t) ==
    /\ At(t, "release")
    /\ depth' = depth - 1 /\ holder' = IF depth = 1 THEN None ELSE t
    /\ Drain(t)
    /\ Step(t, "use", {})
    /\ UNCHANGED <<multithreaded_mode, StaticList, session>>

\* Ptr is read again and the object behind it is used.
Use(t) ==
    /\ At(t, "use")
    /\ Pop(t)
    /\ UNCHANGED <<multithreaded_mode, lockVars, memVars, StaticList, session>>
-----------------------------------------------------------------------------
(* Starting and ending.  The client calls these in isolation.              *)

llvm_start_multithreaded ==
    /\ AllIdle /\ session.phase = "on" /\ ~multithreaded_mode
    /\ multithreaded_mode' = TRUE
    /\ holder' = None /\ depth' = 0
    /\ Drain(Main)
    /\ UNCHANGED <<StaticList, stack, session>>

llvm_shutdown ==
    /\ AllIdle /\ session.phase = "on"
    /\ session' = [session EXCEPT !.phase = "shutdown"]
    /\ UNCHANGED <<multithreaded_mode, lockVars, memVars, StaticList, stack>>

\* Mutant: the static stays on the list.
MutantDestroy ==
    /\ session.phase = "shutdown" /\ Idle(Main) /\ StaticList # <<>>
    /\ Push(Main, Frame(Head(StaticList), "delete", DeleterUses[Head(StaticList)]))
    /\ UNCHANGED <<multithreaded_mode, lockVars, memVars, StaticList, session>>

\* destroy(): unlink the newest static, run its deleter, forget it.
Destroy ==
    /\ session.phase = "shutdown" /\ Idle(Main) /\ StaticList # <<>>
    /\ StaticList' = Tail(StaticList)
    /\ Push(Main, Frame(Head(StaticList), "delete", DeleterUses[Head(StaticList)]))
    /\ UNCHANGED <<multithreaded_mode, lockVars, memVars, session>>

Destroyed ==
    /\ At(Main, "delete") /\ Left(Main) = {}
    /\ Ptr' = [Ptr EXCEPT ![Of(Main)] = FALSE]
    /\ built' = [built EXCEPT ![Of(Main)] = FALSE]
    /\ pending' = [pending EXCEPT ![Main] = {st \in @ : st.of # Of(Main)}]
    /\ Pop(Main)
    /\ UNCHANGED <<multithreaded_mode, lockVars, StaticList, session>>

\* The list is empty: llvm_stop_multithreaded() deletes the lock.
llvm_stop_multithreaded ==
    /\ session.phase = "shutdown" /\ Idle(Main) /\ StaticList = <<>>
    /\ multithreaded_mode' = FALSE
    /\ session' = [session EXCEPT !.phase = "off"]
    /\ Drain(Main)
    /\ UNCHANGED <<lockVars, StaticList, stack>>

\* The client uses LLVM once more.
Restart ==
    /\ session.phase = "off" /\ session.number < MaxStarts
    /\ session' = [phase |-> "on", number |-> session.number + 1]
    /\ UNCHANGED <<multithreaded_mode, lockVars, memVars, StaticList, stack>>
-----------------------------------------------------------------------------
Operator(t) ==
    \/ ReadPtr(t) \/ Acquire(t) \/ Check(t) \/ Nested(t) \/ Create(t)
    \/ MemoryFence(t) \/ Publish(t) \/ Release(t) \/ Use(t)
Shutdown == Destroy \/ Destroyed \/ llvm_stop_multithreaded

Finished == session.phase = "off" /\ session.number = MaxStarts /\ UNCHANGED vars

Next ==
    \/ \E t \in Threads : Operator(t) \/ Reach(t)
    \/ \E t \in Threads, s \in Statics : Dereference(t, s)
    \/ llvm_start_multithreaded \/ llvm_shutdown \/ Restart
    \/ Shutdown
    \/ Finished

Spec == Init /\ [][Next]_vars
\* Threads are scheduled.  Weak fairness is enough for the lock: each static is
\* constructed once, after which nobody asks for the lock on its account.
FairSpec ==
    /\ Spec
    /\ \A t \in Threads : WF_vars(Operator(t))
    /\ WF_vars(Shutdown)
-----------------------------------------------------------------------------
(***************************************************************************)
(* Properties.                                                             *)
(***************************************************************************)
Places == {"read", "acquire", "check", "create", "fence", "publish",
           "release", "use", "delete"}
Stores == [what : {"ptr", "built"}, of : Statics]
Frames == [of : Statics, at : Places, left : SUBSET Statics]
OnList == {StaticList[i] : i \in 1 .. Len(StaticList)}

\* The variables have their types; the lock is held as long as its holder has
\* taken it more often than released.
TypeOK ==
    /\ multithreaded_mode \in BOOLEAN
    /\ holder \in Threads \cup {None} /\ depth \in Nat
    /\ holder = None <=> depth = 0
    /\ Ptr \in [Statics -> BOOLEAN] /\ built \in [Statics -> BOOLEAN]
    /\ pending \in [Threads -> SUBSET Stores]
    /\ StaticList \in Seq(Statics)
    /\ stack \in [Threads -> Seq(Frames)]
    /\ session \in [phase : {"on", "off", "shutdown"}, number : 1 .. MaxStarts]

\* A thread that uses a static has a pointer to it, and sees the whole object
\* behind it, although it looked without a lock ("the race is benign").
NeverHalfBuilt ==
    \A t \in Threads : At(t, "use") => PtrSeen(t, Of(t)) /\ BuiltSeen(t, Of(t))

\* No static is constructed twice: it is on the list at most once.
BuiltOnce ==
    \A i, j \in 1 .. Len(StaticList) : StaticList[i] = StaticList[j] => i = j

\* A static is newer than all it used while it was constructed, so that
\* destroy() takes it first: its destructor and its methods find them alive,
\* also when destructors bring statics back in the middle of a shutdown.
UsersDestroyedFirst ==
    \A i \in 1 .. Len(StaticList) : \A u \in Uses[StaticList[i]] :
        \E j \in i + 1 .. Len(StaticList) : StaticList[j] = u

\* After llvm_shutdown() no static is left, in memory or on the list, and
\* nobody holds the lock that has been deleted.
NothingSurvives ==
    session.phase = "off" =>
        /\ OnList = {} /\ holder = None
        /\ \A s \in Statics : ~Ptr[s] /\ ~built[s]

\* Both: statics go in the reverse of the order that their uses demand, and all go.
ShutdownInOrder == UsersDestroyedFirst /\ NothingSurvives

\* Every operator * returns, also when constructors nest and threads meet.
OperatorsReturn == \A t \in Threads : ~Idle(t) ~> Idle(t)

\* llvm_shutdown() ends, although destructors may construct statics anew.
ShutdownEnds == (session.phase = "shutdown") ~> (session.phase = "off")
=============================================================================
