----------------------------- MODULE MCLockFile -----------------------------
(* Processes on one machine and on two, for TLC.                            *)
EXTENDS LockFile

CONSTANTS p1, p2, p3

OneMachine == [p \in Procs |-> "here"]
TwoMachines == [p \in Procs |-> IF p = p3 THEN "there" ELSE "here"]
=============================================================================
