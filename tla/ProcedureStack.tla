--------------------------- MODULE ProcedureStack ---------------------------
(***************************************************************************)
(* What compiled code promises about procedure calls: a stack of           *)
(* activations, each with the arguments it was passed and variables only   *)
(* it writes, and callee-saved registers that a procedure gets back from   *)
(* every call as it left them.  There is no memory here, no stack pointer  *)
(* and no prologue; ARCStack is shown to implement this.                   *)
(***************************************************************************)
EXTENDS Naturals, Sequences, SequencesExt

CONSTANTS Mains, Halt

VARIABLES
    stack,      \* the activations, [proc, args, vars, keep]
    running,    \* the procedure that has control
    saved       \* the callee-saved registers

vars == <<stack, running, saved>>

Top == Last(stack)

\* Only the top activation changes, to one with these variables.
TopBecomes(new) ==
    /\ Len(stack') = Len(stack)
    /\ \A k \in 1 .. Len(stack) - 1 : stack'[k] = stack[k]
    /\ Top' = [Top EXCEPT !.vars = new]

Init ==
    /\ running \in Mains
    /\ stack = <<[proc |-> running, args |-> <<>>, vars |-> <<>>, keep |-> saved]>>

\* The callee starts with no variables of its own; all else is untouched.
Call ==
    /\ Len(stack') = Len(stack) + 1
    /\ \A k \in 1 .. Len(stack) : stack'[k] = stack[k]
    /\ Top'.vars = <<>> /\ Top'.keep = saved
    /\ running' = Top'.proc /\ UNCHANGED saved

\* The running procedure writes a variable of its own.
Write ==
    /\ stack # <<>> /\ Len(stack') = Len(stack)
    /\ \E v \in DOMAIN Top'.vars :
          TopBecomes([u \in DOMAIN Top.vars \cup {v} |->
                         IF u = v THEN Top'.vars[v] ELSE Top.vars[u]])
    /\ UNCHANGED <<running, saved>>

\* Variables go out of scope: some of them, or all when it starts to return.
Release ==
    /\ stack # <<>> /\ Len(stack') = Len(stack)
    /\ DOMAIN Top'.vars \subseteq DOMAIN Top.vars
    /\ TopBecomes([u \in DOMAIN Top'.vars |-> Top.vars[u]])
    /\ UNCHANGED <<running, saved>>

\* The running procedure uses a callee-saved register, or gives it back.
UseRegister ==
    /\ stack # <<>>
    /\ \E r \in DOMAIN saved : saved' = [saved EXCEPT ![r] = saved'[r]]
    /\ UNCHANGED <<stack, running>>

\* The caller continues with every callee-saved register as it left it.
Return ==
    /\ stack # <<>>
    /\ saved = Top.keep
    /\ stack' = Front(stack)
    /\ running' = IF Len(stack) = 1 THEN Halt ELSE stack[Len(stack) - 1].proc
    /\ UNCHANGED saved

Next == Call \/ Write \/ Release \/ UseRegister \/ Return

Spec == Init /\ [][Next]_vars
=============================================================================
