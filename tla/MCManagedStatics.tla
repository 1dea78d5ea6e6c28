-------------------------- MODULE MCManagedStatics --------------------------
(* Three statics: b is constructed with a; the destructor of b looks at c,   *)
(* which may be gone by then or never have been there.                       *)
EXTENDS ManagedStatics

CONSTANTS a, b, c

MCUses == [s \in Statics |-> IF s = b THEN {a} ELSE {}]
MCDeleterUses == [s \in Statics |-> IF s = b THEN {c} ELSE {}]
=============================================================================
