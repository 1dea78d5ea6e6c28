--------------------------- MODULE ARCConditions ---------------------------
(***************************************************************************)
(* One condition of the program on its way through the code generator: the *)
(* br, select or icmp of the IR becomes a DAG node, the DAG combiner folds *)
(* it, the type legalizer widens its i1 to a register, the legalizer       *)
(* expands what ARCompact has no node for, LowerBR_CC or LowerSELECT_CC    *)
(* makes it a CMP and a condition code, EmitInstrWithCustomInserter turns  *)
(* a Select into a branch around a copy, and the branch passes may reverse *)
(* it.  Then the two instructions run.  One action per pass.               *)
(***************************************************************************)
EXTENDS ARCCondCodes

VARIABLES
    stage,      \* the pass that runs next
    use,        \* what the program does with the condition
    given,      \* history: the condition of the IR
    node,       \* the DAG node or instruction that stands for it
    cond,       \* the comparison that node makes
    inverted,   \* an XOR with 1 stands between the comparison and the node
    arms,       \* what the node does if its condition holds, and if not
    next,       \* the arm of a br that is the next block, if one is
    tcc,        \* the operand of the BCC or Select instruction
    flags,      \* STATUS32
    out         \* the arm that was taken
vars == <<stage, use, given, node, cond, inverted, arms, next, tcc, flags, out>>

\* A comparison of two words, or of the i1 values in bit 0 of two words.  An i1
\* value x that is not a comparison stands as "x is not 0".
Comparison(type, cc, lhs, rhs) ==
    [type |-> type, cc |-> cc, lhs |-> lhs, rhs |-> rhs]
Comparisons == [type : {"i32"}, cc : ISDCodes, lhs : Word, rhs : Word]
               \cup [type : {"i1"}, cc : {"SETNE"}, lhs : Word, rhs : {0, 1}]
i1Value(x) == Comparison("i1", "SETNE", x, 0)

Bit0(x) == x % 2
Xor1(x) == IF Bit0(x) = 0 THEN x + 1 ELSE x - 1
CondHolds(c) == IF c.type = "i32" THEN Compares(c.cc, c.lhs, c.rhs)
                                  ELSE Compares(c.cc, Bit0(c.lhs), Bit0(c.rhs))

Choose(test, pair) == IF test THEN pair[1] ELSE pair[2]
Wanted == Choose(CondHolds(given), <<"true", "false">>)

Swap(pair) == <<pair[2], pair[1]>>

Init ==
    /\ stage = "build"
    /\ use \in {"branch", "select", "value"}
    /\ given \in {c \in Comparisons : c.type = "i32"}
                 \cup {i1Value(x) : x \in Word}
    /\ use = "value" => given.type = "i32"
    /\ cond = given
    /\ next \in {"true", "false", "other"}
    /\ use # "branch" => next = "other"
    /\ node = "none" /\ inverted = FALSE /\ arms = <<"true", "false">>
    /\ tcc = "INVALID" /\ flags = {} /\ out = "none"

-----------------------------------------------------------------------------
(* SelectionDAGBuilder.                                                    *)

\* visitBr() and visitSwitchCase(): the branch goes to the block that does not
\* follow, with the condition inverted when that is the false one.
VisitBr ==
    /\ stage = "build" /\ use = "branch"
    /\ node' = "BRCOND" /\ stage' = "combine"
    /\ inverted' = (arms[1] = next)
    /\ arms' = IF arms[1] = next THEN Swap(arms) ELSE arms
    /\ UNCHANGED <<use, given, cond, next, tcc, flags, out>>

VisitSelect ==
    /\ stage = "build" /\ use = "select"
    /\ node' = "SELECT" /\ stage' = "combine"
    /\ UNCHANGED <<use, given, cond, inverted, arms, next, tcc, flags, out>>

VisitICmp ==
    /\ stage = "build" /\ use = "value"
    /\ node' = "SETCC" /\ stage' = "combine"
    /\ UNCHANGED <<use, given, cond, inverted, arms, next, tcc, flags, out>>

-----------------------------------------------------------------------------
(* DAGCombiner: visitXOR(), visitBRCOND() and visitSELECT().               *)

\* !(x cc y) becomes x !cc y, and br of a comparison becomes BR_CC.
CombineComparison ==
    /\ stage = "combine" /\ cond.type = "i32"
    /\ cond' = IF inverted THEN [cond EXCEPT !.cc = getSetCCInverse[@]] ELSE cond
    /\ inverted' = FALSE
    /\ node' = CASE node = "BRCOND" -> "BR_CC"
                 [] node = "SELECT" -> "SELECT_CC"
                 [] OTHER -> node
    /\ stage' = "types"
    /\ UNCHANGED <<use, given, arms, next, tcc, flags, out>>

\* br (xor x, 1) becomes br (x != 1), on i1, if the XOR has no other use.
CombineXor ==
    /\ stage = "combine" /\ cond.type = "i1" /\ inverted
    /\ cond' = Comparison("i1", "SETNE", cond.lhs, 1)
    /\ inverted' = FALSE
    /\ node' = "BR_CC"
    /\ stage' = "types"
    /\ UNCHANGED <<use, given, arms, next, tcc, flags, out>>

\* An i1 value that is no comparison, or whose XOR has other uses, stays.
CombineNothing ==
    /\ stage = "combine" /\ cond.type = "i1"
    /\ stage' = "types"
    /\ UNCHANGED <<use, given, node, cond, inverted, arms, next, tcc, flags, out>>

-----------------------------------------------------------------------------
(* DAGTypeLegalizer: no register holds an i1.                              *)

\* The operands of a comparison of i1 values are zero-extended.
PromoteSetCCOperands ==
    /\ stage = "types" /\ cond.type = "i1" /\ node = "BR_CC"
    /\ cond' = Comparison("i32", cond.cc, Bit0(cond.lhs), Bit0(cond.rhs))
    /\ stage' = "legalize"
    /\ UNCHANGED <<use, given, node, inverted, arms, next, tcc, flags, out>>

\* The condition of BRCOND and SELECT is extended as getBooleanContents() says:
\* ARCompact leaves it Undefined, so the register is used as it is; so is the
\* XOR of one.
PromoteTargetBoolean ==
    /\ stage = "types" /\ cond.type = "i1" /\ node \in {"BRCOND", "SELECT"}
    /\ cond' = IF inverted THEN i1Value(Xor1(cond.lhs)) ELSE cond
    /\ inverted' = FALSE
    /\ stage' = "legalize"
    /\ UNCHANGED <<use, given, node, arms, next, tcc, flags, out>>

TypesLegal ==
    /\ stage = "types" /\ cond.type = "i32"
    /\ stage' = "legalize"
    /\ UNCHANGED <<use, given, node, cond, inverted, arms, next, tcc, flags, out>>

-----------------------------------------------------------------------------
(* SelectionDAGLegalize::ExpandNode().                                     *)

\* Mutant: BRCOND does as SELECT does.
MutantWholeRegister ==
    /\ stage = "legalize" /\ node = "BRCOND"
    /\ cond' = Comparison("i32", "SETNE", cond.lhs, 0)
    /\ node' = "BR_CC" /\ stage' = "lower"
    /\ UNCHANGED <<use, given, inverted, arms, next, tcc, flags, out>>

\* BRCOND tests bit 0 of the register.
ExpandBRCOND ==
    /\ stage = "legalize" /\ node = "BRCOND"
    /\ cond' = Comparison("i32", "SETNE", Bit0(cond.lhs), 0)
    /\ node' = "BR_CC" /\ stage' = "lower"
    /\ UNCHANGED <<use, given, inverted, arms, next, tcc, flags, out>>

\* SELECT compares the whole register with zero.
ExpandSELECT ==
    /\ stage = "legalize" /\ node = "SELECT"
    /\ cond' = Comparison("i32", "SETNE", cond.lhs, 0)
    /\ node' = "SELECT_CC" /\ stage' = "lower"
    /\ UNCHANGED <<use, given, inverted, arms, next, tcc, flags, out>>

\* SETCC selects between the constants 1 and 0, the arms "true" and "false".
ExpandSETCC ==
    /\ stage = "legalize" /\ node = "SETCC"
    /\ node' = "SELECT_CC" /\ stage' = "lower"
    /\ UNCHANGED <<use, given, cond, inverted, arms, next, tcc, flags, out>>

\* BR_CC and SELECT_CC are custom-lowered.
NothingToExpand ==
    /\ stage = "legalize" /\ node \in {"BR_CC", "SELECT_CC"}
    /\ stage' = "lower"
    /\ UNCHANGED <<use, given, node, cond, inverted, arms, next, tcc, flags, out>>

-----------------------------------------------------------------------------
(* ARCompactTargetLowering and ARCompactInstrInfo.                         *)

LowerBR_CC ==
    /\ stage = "lower" /\ node = "BR_CC"
    /\ tcc' = EmitCMP[cond.cc]
    /\ node' = "BCC" /\ stage' = "run"
    /\ UNCHANGED <<use, given, cond, inverted, arms, next, flags, out>>

LowerSELECT_CC ==
    /\ stage = "lower" /\ node = "SELECT_CC"
    /\ tcc' = EmitCMP[cond.cc]
    /\ node' = "Select" /\ stage' = "insert"
    /\ UNCHANGED <<use, given, cond, inverted, arms, next, flags, out>>

\* Mutant: the operands of the PHI in the order of the Select's.
MutantPHI ==
    /\ stage = "insert"
    /\ node' = "BCC" /\ stage' = "run"
    /\ LET phi == [copy0MBB |-> arms[1], thisMBB |-> arms[2]]
       IN arms' = <<phi.thisMBB, phi.copy0MBB>>
    /\ UNCHANGED <<use, given, cond, inverted, next, tcc, flags, out>>

\* The PHI in copy1MBB takes operand 1 from the block that branches and operand
\* 2 from copy0MBB, which the branch skips.
EmitInstrWithCustomInserter ==
    /\ stage = "insert"
    /\ node' = "BCC" /\ stage' = "run"
    /\ LET phi == [copy0MBB |-> arms[2], thisMBB |-> arms[1]]
       IN arms' = <<phi.thisMBB, phi.copy0MBB>>
    /\ UNCHANGED <<use, given, cond, inverted, next, tcc, flags, out>>

\* What a pass does that wants the other block to be the one branched to.
ReverseBranchCondition ==
    /\ stage = "run" /\ tcc \in DOMAIN getOppositeCondition
    /\ tcc' = getOppositeCondition[tcc]
    /\ arms' = Swap(arms)
    /\ UNCHANGED <<stage, use, given, node, cond, inverted, next, flags, out>>

-----------------------------------------------------------------------------
(* The processor.                                                          *)

RunCMP ==
    /\ stage = "run"
    /\ flags' = FlagsOfCMP(cond.lhs, cond.rhs)
    /\ stage' = "branch"
    /\ UNCHANGED <<use, given, node, cond, inverted, arms, next, tcc, out>>

RunBCC ==
    /\ stage = "branch"
    /\ out' = Choose(Holds(tcc, flags), arms)
    /\ stage' = "done"
    /\ UNCHANGED <<use, given, node, cond, inverted, arms, next, tcc, flags>>

\* The value of a SETCC reaches a br or a select of another block in a register.
CopyFromReg ==
    /\ stage = "done" /\ use = "value"
    /\ cond' = i1Value(IF out = "true" THEN 1 ELSE 0)
    /\ use' \in {"branch", "select"}
    /\ next' \in {"true", "false", "other"}
    /\ use' = "select" => next' = "other"
    /\ stage' = "build" /\ node' = "none" /\ arms' = <<"true", "false">>
    /\ tcc' = "INVALID" /\ flags' = {} /\ out' = "none"
    /\ UNCHANGED <<given, inverted>>

Finished == stage = "done" /\ UNCHANGED vars

Next ==
    \/ VisitBr \/ VisitSelect \/ VisitICmp
    \/ CombineComparison \/ CombineXor \/ CombineNothing
    \/ PromoteSetCCOperands \/ PromoteTargetBoolean \/ TypesLegal
    \/ ExpandBRCOND \/ ExpandSELECT \/ ExpandSETCC \/ NothingToExpand
    \/ LowerBR_CC \/ LowerSELECT_CC
    \/ EmitInstrWithCustomInserter \/ ReverseBranchCondition
    \/ RunCMP \/ RunBCC \/ CopyFromReg \/ Finished

Spec == Init /\ [][Next]_vars

-----------------------------------------------------------------------------
(* Properties.                                                             *)

Arms == {"true", "false"}

\* Every variable keeps to the values the code generator gives it; DAG nodes
\* exist until lowering, instructions after it.
TypeOK ==
    /\ stage \in {"build", "combine", "types", "legalize", "lower", "insert",
                  "run", "branch", "done"}
    /\ use \in {"branch", "select", "value"}
    /\ given \in Comparisons /\ cond \in Comparisons
    /\ node \in {"none", "BRCOND", "BR_CC", "SELECT", "SELECT_CC", "SETCC",
                 "Select", "BCC"}
    /\ inverted \in BOOLEAN
    /\ arms \in {<<"true", "false">>, <<"false", "true">>}
    /\ next \in Arms \cup {"other"}
    /\ tcc \in CondCodes \cup {"INVALID"}
    /\ flags \in SUBSET Flags
    /\ out \in Arms \cup {"none"}

\* A conditional br goes where its IR condition says, whatever the operands,
\* signed or unsigned, the garbage above an i1 and the inversions on the way.
BranchAsWritten == stage = "done" /\ use = "branch" => out = Wanted

\* So do a select and the value of an icmp, when a register that holds the i1
\* of a select holds 0 or 1; that of an icmp in another block always does.
ZeroOrOne == given.type = "i1" => given.lhs \in {0, 1}
SelectAsWritten ==
    stage = "done" /\ use \in {"select", "value"} /\ ZeroOrOne => out = Wanted

\* Every code that reaches a BCC can be reversed: the default cases of EmitCMP()
\* and getOppositeCondition() are unreachable, as they say.
CodeReversible ==
    stage \in {"run", "insert"} => tcc \in DOMAIN getOppositeCondition

\* SubsumesPredicate() is right about the flags that a CMP can leave: when it
\* answers TRUE, an instruction predicated on cc2 runs only if one on cc1 does.
SubsumptionSound ==
    stage = "branch" =>
        \A cc1, cc2 \in CondCodes :
            SubsumesPredicate(cc1, cc2) /\ Holds(cc2, flags) => Holds(cc1, flags)

\* What TargetLowering.h says of the boolean contents that ARCompact leaves
\* Undefined: "Only bit 0 counts, the rest can hold garbage."
SelectOnBitZero == stage = "done" /\ use = "select" => out = Wanted
=============================================================================
