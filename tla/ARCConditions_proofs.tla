------------------------ MODULE ARCConditions_proofs ------------------------
(***************************************************************************)
(* The condition of the program is the one the processor decides, for      *)
(* words of every width.  The argument has two parts: what CMP and the     *)
(* condition codes compute (the first four lemmas), and that every pass    *)
(* leaves the decision of the node it works on as it was (DecisionInv).    *)
(***************************************************************************)
EXTENDS ARCConditions, TLAPS

-----------------------------------------------------------------------------
(* Condition codes.                                                        *)

\* The three tests that the comparison codes are made of.
LEMMA FlagTests ==
    ASSUME NEW a \in Word, NEW b \in Word
    PROVE  /\ "Z" \in FlagsOfCMP(a, b) <=> a = b
           /\ "C" \in FlagsOfCMP(a, b) <=> a < b
           /\ SameSign(FlagsOfCMP(a, b)) <=> Signed(a) >= Signed(b)
  <1> USE HalfAssumption DEF Word, FlagsOfCMP, Difference, Negative, Flags
  <1>1. "Z" \in FlagsOfCMP(a, b) <=> a = b
    OBVIOUS
  <1>2. "C" \in FlagsOfCMP(a, b) <=> a < b
    OBVIOUS
  <1>3. SameSign(FlagsOfCMP(a, b)) <=> Signed(a) >= Signed(b)
    BY DEF SameSign, Signed
  <1> QED BY <1>1, <1>2, <1>3

LEMMA OrderTotal ==
    ASSUME NEW x \in Int, NEW y \in Int
    PROVE  /\ Order(x, y) \in {"L", "G", "E"}
           /\ Order(x, y) = "L" <=> x < y
           /\ Order(x, y) = "G" <=> x > y
           /\ Order(x, y) = "E" <=> x = y
  BY DEF Order

\* The CMP and the code that EmitCMP() pairs decide the ISD comparison.
LEMMA CMPExact ==
    ASSUME NEW cc \in ISDCodes, NEW a \in Word, NEW b \in Word
    PROVE  Holds(EmitCMP[cc], FlagsOfCMP(a, b)) <=> Compares(cc, a, b)
  <1> DEFINE f == FlagsOfCMP(a, b)
  <1>1. /\ "Z" \in f <=> a = b
        /\ "C" \in f <=> a < b
        /\ SameSign(f) <=> Signed(a) >= Signed(b)
    BY FlagTests
  <1>2. /\ a \in Int /\ b \in Int /\ Signed(a) \in Int /\ Signed(b) \in Int
        /\ a = b <=> Signed(a) = Signed(b)
    BY HalfAssumption DEF Word, Signed
  <1>3. /\ Order(a, b) \in {"L", "G", "E"}
        /\ Order(Signed(a), Signed(b)) \in {"L", "G", "E"}
        /\ Order(a, b) = "L" <=> a < b
        /\ Order(a, b) = "G" <=> a > b
        /\ Order(a, b) = "E" <=> a = b
        /\ Order(Signed(a), Signed(b)) = "L" <=> Signed(a) < Signed(b)
        /\ Order(Signed(a), Signed(b)) = "G" <=> Signed(a) > Signed(b)
        /\ Order(Signed(a), Signed(b)) = "E" <=> Signed(a) = Signed(b)
    BY <1>2, OrderTotal
  <1>4. cc \in {"SETEQ", "SETNE", "SETLT", "SETLE", "SETGT", "SETGE",
                "SETULT", "SETULE", "SETUGT", "SETUGE"}
    BY DEF ISDCodes, Accepts
  <1> HIDE DEF f
  <1> QED
    BY <1>1, <1>2, <1>3, <1>4
    DEF EmitCMP, Holds, Compares, isUnsignedIntSetCC, Accepts, f

\* getSetCCInverse() gives the comparison that holds when the other does not.
LEMMA InverseExact ==
    ASSUME NEW cc \in ISDCodes, NEW a \in Word, NEW b \in Word
    PROVE  /\ getSetCCInverse[cc] \in ISDCodes
           /\ Compares(getSetCCInverse[cc], a, b) <=> ~ Compares(cc, a, b)
  <1>1. cc \in {"SETEQ", "SETNE", "SETLT", "SETLE", "SETGT", "SETGE",
                "SETULT", "SETULE", "SETUGT", "SETUGE"}
    BY DEF ISDCodes, Accepts
  <1>2. getSetCCInverse[cc] \in ISDCodes
    BY <1>1 DEF ISDCodes, Accepts, getSetCCInverse
  <1>3. /\ a \in Int /\ b \in Int /\ Signed(a) \in Int /\ Signed(b) \in Int
        /\ a = b <=> Signed(a) = Signed(b)
    BY HalfAssumption DEF Word, Signed
  <1>4. /\ Order(a, b) \in {"L", "G", "E"}
        /\ Order(Signed(a), Signed(b)) \in {"L", "G", "E"}
        /\ Order(a, b) = "E" <=> Order(Signed(a), Signed(b)) = "E"
    BY <1>3, OrderTotal
  <1>5. Compares(getSetCCInverse[cc], a, b) <=> ~ Compares(cc, a, b)
    BY <1>1, <1>4 DEF Compares, isUnsignedIntSetCC, Accepts, getSetCCInverse
  <1> QED BY <1>2, <1>5

\* getOppositeCondition() gives the code that passes when the other does not.
LEMMA OppositeExact ==
    ASSUME NEW cc \in DOMAIN getOppositeCondition, NEW f
    PROVE  /\ getOppositeCondition[cc] \in DOMAIN getOppositeCondition
           /\ Holds(getOppositeCondition[cc], f) <=> ~ Holds(cc, f)
  <1>1. cc \in {"EQ", "NE", "P", "N", "LO", "HS", "V", "NV", "GT", "GE", "LT",
                "LE", "HI", "LS"}
    BY DEF getOppositeCondition
  <1> QED BY <1>1 DEF getOppositeCondition, Holds

-----------------------------------------------------------------------------
(* The inductive invariant.                                                *)

SelectionStages == {"build", "combine", "types", "legalize", "lower"}

\* Which nodes and comparisons a pass can meet.
ShapeInv ==
    /\ stage = "build" =>
         node = "none" /\ arms = <<"true", "false">> /\ ~ inverted
    /\ stage \in {"build", "combine"} /\ cond.type = "i1" => cond.rhs = 0
    /\ stage = "combine" =>
         /\ use = "branch" => node = "BRCOND"
         /\ use = "select" => node = "SELECT"
         /\ use = "value" => node = "SETCC"
         /\ inverted => use = "branch"
    /\ stage = "types" =>
         /\ cond.type = "i32" => node \in {"BR_CC", "SELECT_CC", "SETCC"}
         /\ cond.type = "i1" => node \in {"BR_CC", "BRCOND", "SELECT"}
         /\ node \in {"BRCOND", "SELECT"} => cond.rhs = 0
         /\ inverted => node = "BRCOND"
    /\ stage = "legalize" =>
         /\ node \in {"BR_CC", "SELECT_CC", "SETCC", "BRCOND", "SELECT"}
         /\ cond.type = "i1" <=> node \in {"BRCOND", "SELECT"}
         /\ cond.type = "i1" => cond.rhs = 0
    /\ use = "branch" => node \notin {"SELECT", "SELECT_CC", "SETCC"}
    /\ use # "branch" => node # "BRCOND"
    /\ use = "value" => given.type = "i32" /\ cond.type = "i32"
    /\ stage \notin {"build", "combine", "types"} => ~ inverted
    /\ stage \notin {"build", "combine", "types", "legalize"} =>
         cond.type = "i32"
    /\ stage \in {"insert", "run", "branch"} => tcc \in DOMAIN getOppositeCondition
    /\ stage = "done" => out \in Arms

\* The register with the condition of a select, when an i1 is 0 or 1 in it.
SelectInv ==
    /\ stage \in {"build", "combine", "types", "legalize"}
    /\ use = "select" /\ cond.type = "i1" /\ ZeroOrOne
    => cond.lhs \in {0, 1}

\* What the node, the instructions or the flags decide is what the IR wants.
DecisionInv ==
    use = "branch" \/ ZeroOrOne =>
        /\ stage \in SelectionStages =>
             Choose(CondHolds(cond) <=> ~ inverted, arms) = Wanted
        /\ stage \in {"insert", "run"} =>
             Choose(Holds(tcc, FlagsOfCMP(cond.lhs, cond.rhs)), arms) = Wanted
        /\ stage = "branch" => Choose(Holds(tcc, flags), arms) = Wanted
        /\ stage = "done" => out = Wanted

Inv == TypeOK /\ ShapeInv /\ SelectInv /\ DecisionInv

-----------------------------------------------------------------------------
(* Types.                                                                  *)

LEMMA WordFacts ==
    /\ 0 \in Word /\ 1 \in Word
    /\ \A x \in Word : /\ Bit0(x) \in {0, 1} /\ Bit0(x) \in Word
                       /\ Xor1(x) \in Word /\ Bit0(Xor1(x)) = 1 - Bit0(x)
  BY HalfAssumption DEF Word, Bit0, Xor1

LEMMA ComparisonType ==
    /\ \A cc \in ISDCodes, a, b \in Word :
         Comparison("i32", cc, a, b) \in Comparisons
    /\ \A a \in Word, b \in {0, 1} :
         Comparison("i1", "SETNE", a, b) \in Comparisons
    /\ \A c \in Comparisons :
         /\ c = Comparison(c.type, c.cc, c.lhs, c.rhs)
         /\ c.type \in {"i32", "i1"} /\ c.cc \in ISDCodes
         /\ c.lhs \in Word /\ c.rhs \in Word
         /\ c.type = "i1" => c.cc = "SETNE" /\ c.rhs \in {0, 1}
    /\ "SETNE" \in ISDCodes
  <1>1. "SETNE" \in ISDCodes
    BY DEF ISDCodes, Accepts
  <1> QED BY <1>1, WordFacts DEF Comparisons, Comparison

\* The tables of condition codes stay within the codes.
LEMMA TableTypes ==
    /\ \A cc \in ISDCodes : EmitCMP[cc] \in DOMAIN getOppositeCondition
    /\ \A cc \in ISDCodes : getSetCCInverse[cc] \in ISDCodes
    /\ \A cc \in DOMAIN getOppositeCondition :
         getOppositeCondition[cc] \in DOMAIN getOppositeCondition
    /\ DOMAIN getOppositeCondition \subseteq CondCodes
    /\ \A a, b \in Word : FlagsOfCMP(a, b) \in SUBSET Flags
  <1>1. \A cc \in ISDCodes : /\ EmitCMP[cc] \in DOMAIN getOppositeCondition
                             /\ getSetCCInverse[cc] \in ISDCodes
    BY DEF ISDCodes, Accepts, EmitCMP, getSetCCInverse, getOppositeCondition
  <1>2. \A cc \in DOMAIN getOppositeCondition :
          getOppositeCondition[cc] \in DOMAIN getOppositeCondition
    BY DEF getOppositeCondition
  <1>3. DOMAIN getOppositeCondition \subseteq CondCodes
    BY DEF getOppositeCondition, CondCodes
  <1>4. \A a, b \in Word : FlagsOfCMP(a, b) \in SUBSET Flags
    BY DEF FlagsOfCMP
  <1> QED BY <1>1, <1>2, <1>3, <1>4

LEMMA InitType == Init => TypeOK
  <1> SUFFICES ASSUME Init PROVE TypeOK
    OBVIOUS
  <1>1. given \in Comparisons /\ cond = given
    BY ComparisonType DEF Init, i1Value
  <1> QED BY <1>1 DEF Init, TypeOK, Arms

LEMMA StepType == TypeOK /\ [Next]_vars => TypeOK'
  <1> SUFFICES ASSUME TypeOK, [Next]_vars PROVE TypeOK'
    OBVIOUS
  <1> USE DEF TypeOK, Arms
  <1>1. CASE VisitBr
    BY <1>1 DEF VisitBr, Swap
  <1>2. CASE VisitSelect
    BY <1>2 DEF VisitSelect
  <1>3. CASE VisitICmp
    BY <1>3 DEF VisitICmp
  <1>4. CASE CombineComparison
    <2>1. cond' \in Comparisons
      <3>1. [cond EXCEPT !.cc = getSetCCInverse[@]]
              = Comparison(cond.type, getSetCCInverse[cond.cc], cond.lhs, cond.rhs)
        BY DEF Comparisons, Comparison
      <3> QED BY <1>4, <3>1, ComparisonType, TableTypes DEF CombineComparison
    <2> QED BY <1>4, <2>1 DEF CombineComparison
  <1>5. CASE CombineXor
    BY <1>5, ComparisonType DEF CombineXor
  <1>6. CASE CombineNothing
    BY <1>6 DEF CombineNothing
  <1>7. CASE PromoteSetCCOperands
    BY <1>7, ComparisonType, WordFacts DEF PromoteSetCCOperands
  <1>8. CASE PromoteTargetBoolean
    BY <1>8, ComparisonType, WordFacts DEF PromoteTargetBoolean, i1Value
  <1>9. CASE TypesLegal
    BY <1>9 DEF TypesLegal
  <1>10. CASE ExpandBRCOND
    BY <1>10, ComparisonType, WordFacts DEF ExpandBRCOND
  <1>11. CASE ExpandSELECT
    BY <1>11, ComparisonType, WordFacts DEF ExpandSELECT
  <1>12. CASE ExpandSETCC
    BY <1>12 DEF ExpandSETCC
  <1>13. CASE NothingToExpand
    BY <1>13 DEF NothingToExpand
  <1>14. CASE LowerBR_CC
    BY <1>14, ComparisonType, TableTypes DEF LowerBR_CC
  <1>15. CASE LowerSELECT_CC
    BY <1>15, ComparisonType, TableTypes DEF LowerSELECT_CC
  <1>16. CASE EmitInstrWithCustomInserter
    BY <1>16 DEF EmitInstrWithCustomInserter
  <1>17. CASE ReverseBranchCondition
    BY <1>17, TableTypes DEF ReverseBranchCondition, Swap
  <1>18. CASE RunCMP
    BY <1>18, ComparisonType, TableTypes DEF RunCMP
  <1>19. CASE RunBCC
    BY <1>19 DEF RunBCC, Choose
  <1>20. CASE CopyFromReg
    BY <1>20, ComparisonType, WordFacts DEF CopyFromReg, i1Value
  <1>21. CASE UNCHANGED vars
    BY <1>21 DEF vars
  <1> QED
    BY <1>1, <1>2, <1>3, <1>4, <1>5, <1>6, <1>7, <1>8, <1>9, <1>10, <1>11,
       <1>12, <1>13, <1>14, <1>15, <1>16, <1>17, <1>18, <1>19, <1>20, <1>21
    DEF Next, Finished

-----------------------------------------------------------------------------
(* Which nodes the passes meet.                                            *)

LEMMA InitShape == Init => ShapeInv /\ SelectInv
  <1> SUFFICES ASSUME Init PROVE ShapeInv /\ SelectInv
    OBVIOUS
  <1>1. given = cond /\ (cond.type = "i1" => cond.rhs = 0)
    BY DEF Init, i1Value, Comparison
  <1> QED BY <1>1 DEF Init, ShapeInv, SelectInv, ZeroOrOne

LEMMA StepShape == TypeOK /\ ShapeInv /\ [Next]_vars => ShapeInv'
  <1> SUFFICES ASSUME TypeOK, ShapeInv, [Next]_vars PROVE ShapeInv'
    OBVIOUS
  <1> USE DEF TypeOK, ShapeInv, Arms
  <1>1. CASE VisitBr
    BY <1>1 DEF VisitBr
  <1>2. CASE VisitSelect
    BY <1>2 DEF VisitSelect
  <1>3. CASE VisitICmp
    BY <1>3 DEF VisitICmp
  <1>4. CASE CombineComparison
    BY <1>4, ComparisonType DEF CombineComparison
  <1>5. CASE CombineXor
    BY <1>5, ComparisonType DEF CombineXor, Comparison
  <1>6. CASE CombineNothing
    BY <1>6 DEF CombineNothing
  <1>7. CASE PromoteSetCCOperands
    BY <1>7 DEF PromoteSetCCOperands, Comparison
  <1>8. CASE PromoteTargetBoolean
    BY <1>8 DEF PromoteTargetBoolean, i1Value, Comparison
  <1>9. CASE TypesLegal
    BY <1>9 DEF TypesLegal
  <1>10. CASE ExpandBRCOND
    BY <1>10 DEF ExpandBRCOND, Comparison
  <1>11. CASE ExpandSELECT
    BY <1>11 DEF ExpandSELECT, Comparison
  <1>12. CASE ExpandSETCC
    BY <1>12, ComparisonType DEF ExpandSETCC
  <1>13. CASE NothingToExpand
    BY <1>13, ComparisonType DEF NothingToExpand
  <1>14. CASE LowerBR_CC
    BY <1>14, ComparisonType, TableTypes DEF LowerBR_CC
  <1>15. CASE LowerSELECT_CC
    BY <1>15, ComparisonType, TableTypes DEF LowerSELECT_CC
  <1>16. CASE EmitInstrWithCustomInserter
    BY <1>16 DEF EmitInstrWithCustomInserter
  <1>17. CASE ReverseBranchCondition
    BY <1>17, TableTypes DEF ReverseBranchCondition
  <1>18. CASE RunCMP
    BY <1>18 DEF RunCMP
  <1>19. CASE RunBCC
    BY <1>19 DEF RunBCC, Choose
  <1>20. CASE CopyFromReg
    BY <1>20 DEF CopyFromReg, i1Value, Comparison
  <1>21. CASE UNCHANGED vars
    BY <1>21 DEF vars
  <1> QED
    BY <1>1, <1>2, <1>3, <1>4, <1>5, <1>6, <1>7, <1>8, <1>9, <1>10, <1>11,
       <1>12, <1>13, <1>14, <1>15, <1>16, <1>17, <1>18, <1>19, <1>20, <1>21
    DEF Next, Finished

LEMMA StepSelect ==
    TypeOK /\ ShapeInv /\ SelectInv /\ [Next]_vars => SelectInv'
  <1> SUFFICES ASSUME TypeOK, ShapeInv, SelectInv, [Next]_vars PROVE SelectInv'
    OBVIOUS
  <1> USE DEF TypeOK, ShapeInv, SelectInv, ZeroOrOne
  <1>1. CASE VisitBr
    BY <1>1 DEF VisitBr
  <1>2. CASE VisitSelect
    BY <1>2 DEF VisitSelect
  <1>3. CASE VisitICmp
    BY <1>3 DEF VisitICmp
  <1>4. CASE CombineComparison
    BY <1>4, ComparisonType DEF CombineComparison
  <1>5. CASE CombineXor
    BY <1>5, ComparisonType DEF CombineXor, Comparison
  <1>6. CASE CombineNothing
    BY <1>6 DEF CombineNothing
  <1>7. CASE PromoteSetCCOperands
    BY <1>7 DEF PromoteSetCCOperands, Comparison
  <1>8. CASE PromoteTargetBoolean
    BY <1>8, ComparisonType DEF PromoteTargetBoolean, i1Value, Comparison
  <1>9. CASE TypesLegal
    BY <1>9 DEF TypesLegal
  <1>10. CASE ExpandBRCOND
    BY <1>10 DEF ExpandBRCOND, Comparison
  <1>11. CASE ExpandSELECT
    BY <1>11 DEF ExpandSELECT, Comparison
  <1>12. CASE ExpandSETCC
    BY <1>12, ComparisonType DEF ExpandSETCC
  <1>13. CASE NothingToExpand
    BY <1>13, ComparisonType DEF NothingToExpand
  <1>14. CASE LowerBR_CC
    BY <1>14, ComparisonType, TableTypes DEF LowerBR_CC
  <1>15. CASE LowerSELECT_CC
    BY <1>15, ComparisonType, TableTypes DEF LowerSELECT_CC
  <1>16. CASE EmitInstrWithCustomInserter
    BY <1>16 DEF EmitInstrWithCustomInserter
  <1>17. CASE ReverseBranchCondition
    BY <1>17, TableTypes DEF ReverseBranchCondition
  <1>18. CASE RunCMP
    BY <1>18 DEF RunCMP
  <1>19. CASE RunBCC
    BY <1>19 DEF RunBCC, Choose
  <1>20. CASE CopyFromReg
    BY <1>20 DEF CopyFromReg, i1Value, Comparison
  <1>21. CASE UNCHANGED vars
    BY <1>21 DEF vars
  <1> QED
    BY <1>1, <1>2, <1>3, <1>4, <1>5, <1>6, <1>7, <1>8, <1>9, <1>10, <1>11,
       <1>12, <1>13, <1>14, <1>15, <1>16, <1>17, <1>18, <1>19, <1>20, <1>21
    DEF Next, Finished

-----------------------------------------------------------------------------
(* Every pass keeps the decision.                                          *)

\* What choosing between the two arms depends on.
LEMMA ChooseFacts ==
    /\ \A p, q \in BOOLEAN, pair \in {<<"true", "false">>, <<"false", "true">>} :
         /\ (p <=> q) => Choose(p, pair) = Choose(q, pair)
         /\ (p <=> ~ q) => Choose(p, pair) = Choose(q, Swap(pair))
         /\ Choose(p, pair) \in Arms
    /\ Choose(TRUE, <<"true", "false">>) = "true"
    /\ Choose(FALSE, <<"true", "false">>) = "false"
  BY DEF Choose, Swap, Arms

\* SETNE, which every expansion compares with, is inequality.
LEMMA NotEqual ==
    \A a, b \in Word : Compares("SETNE", a, b) <=> a # b
  <1> SUFFICES ASSUME NEW a \in Word, NEW b \in Word
               PROVE  Compares("SETNE", a, b) <=> a # b
    OBVIOUS
  <1>1. /\ Signed(a) \in Int /\ Signed(b) \in Int
        /\ a = b <=> Signed(a) = Signed(b)
    BY HalfAssumption DEF Word, Signed
  <1> QED BY <1>1, OrderTotal DEF Compares, isUnsignedIntSetCC, Accepts

LEMMA InitDecision == Init => DecisionInv
  <1> SUFFICES ASSUME Init PROVE DecisionInv
    OBVIOUS
  <1>1. (CondHolds(cond) <=> ~ inverted) <=> CondHolds(given)
    BY DEF Init
  <1>2. Choose(CondHolds(cond) <=> ~ inverted, arms) = Wanted
    BY <1>1 DEF Init, Wanted, Choose
  <1> QED BY <1>2 DEF Init, DecisionInv

\* A pass that keeps the comparison of the node, up to a swap of the arms.
LEMMA KeepsDecision ==
    ASSUME TypeOK, TypeOK', DecisionInv,
           stage \in SelectionStages, stage' \in SelectionStages,
           given' = given,
           (use' = "branch" \/ ZeroOrOne') => (use = "branch" \/ ZeroOrOne),
           use = "branch" \/ ZeroOrOne =>
             \/ /\ arms' = arms
                /\ (CondHolds(cond) <=> ~ inverted)
                     <=> (CondHolds(cond') <=> ~ inverted')
             \/ /\ arms' = Swap(arms)
                /\ (CondHolds(cond) <=> ~ inverted)
                     <=> ~ (CondHolds(cond') <=> ~ inverted')
    PROVE  DecisionInv'
  <1> SUFFICES ASSUME use = "branch" \/ ZeroOrOne
               PROVE  Choose(CondHolds(cond') <=> ~ inverted', arms') = Wanted
    BY DEF DecisionInv, SelectionStages, Wanted
  <1>1. Choose(CondHolds(cond) <=> ~ inverted, arms) = Wanted
    BY DEF DecisionInv
  <1> DEFINE p == CondHolds(cond) <=> ~ inverted
             q == CondHolds(cond') <=> ~ inverted'
  <1>2. p \in BOOLEAN /\ q \in BOOLEAN
    OBVIOUS
  <1>3. arms \in {<<"true", "false">>, <<"false", "true">>}
    BY DEF TypeOK
  <1>4. \/ arms' = arms /\ (p <=> q)
        \/ arms' = Swap(arms) /\ (p <=> ~ q)
    BY Zenon
  <1> HIDE DEF p, q
  <1>5. Choose(p, arms) = Choose(q, arms')
    BY <1>2, <1>3, <1>4, ChooseFacts
  <1> QED BY <1>1, <1>5 DEF p, q

\* An i1 comparison looks at bit 0 of both operands.
LEMMA i1Compares ==
    \A c \in Comparisons :
        c.type = "i1" => (CondHolds(c) <=> Bit0(c.lhs) # Bit0(c.rhs))
  <1> SUFFICES ASSUME NEW c \in Comparisons, c.type = "i1"
               PROVE  CondHolds(c) <=> Bit0(c.lhs) # Bit0(c.rhs)
    OBVIOUS
  <1>1. c.cc = "SETNE" /\ Bit0(c.lhs) \in Word /\ Bit0(c.rhs) \in Word
    BY ComparisonType, WordFacts
  <1>2. Compares("SETNE", Bit0(c.lhs), Bit0(c.rhs)) <=> Bit0(c.lhs) # Bit0(c.rhs)
    BY <1>1, NotEqual
  <1> QED BY <1>1, <1>2 DEF CondHolds

\* Up to lowering, each step of selection is an instance of KeepsDecision.
LEMMA SelectionDecision ==
    ASSUME TypeOK, TypeOK', ShapeInv, SelectInv, DecisionInv,
           \/ VisitBr \/ VisitSelect \/ VisitICmp
           \/ CombineComparison \/ CombineXor \/ CombineNothing
           \/ PromoteSetCCOperands \/ PromoteTargetBoolean \/ TypesLegal
           \/ ExpandBRCOND \/ ExpandSELECT \/ ExpandSETCC \/ NothingToExpand
    PROVE  DecisionInv'
  <1>a. cond \in Comparisons /\ cond' \in Comparisons /\ inverted \in BOOLEAN
    BY DEF TypeOK
  <1>1. CASE VisitBr
    BY <1>1, KeepsDecision
    DEF VisitBr, SelectionStages, ZeroOrOne, ShapeInv
  <1>2. CASE VisitSelect
    BY <1>2, KeepsDecision
    DEF VisitSelect, SelectionStages, ZeroOrOne
  <1>3. CASE VisitICmp
    BY <1>3, KeepsDecision
    DEF VisitICmp, SelectionStages, ZeroOrOne
  <1>4. CASE CombineComparison
    <2>1. CASE inverted
      <3>1. /\ cond.type = "i32" /\ cond.cc \in ISDCodes
            /\ cond.lhs \in Word /\ cond.rhs \in Word
        BY <1>a, <1>4, ComparisonType DEF CombineComparison
      <3>2. cond' = [cond EXCEPT !.cc = getSetCCInverse[cond.cc]]
        BY <1>4, <2>1 DEF CombineComparison
      <3>3. cond' = Comparison("i32", getSetCCInverse[cond.cc], cond.lhs, cond.rhs)
        BY <1>a, <3>1, <3>2 DEF Comparisons, Comparison
      <3>4. /\ cond'.type = "i32" /\ cond'.cc = getSetCCInverse[cond.cc]
            /\ cond'.lhs = cond.lhs /\ cond'.rhs = cond.rhs
        BY <3>3 DEF Comparison
      <3>5. CondHolds(cond') <=> ~ CondHolds(cond)
        BY <3>1, <3>4, InverseExact DEF CondHolds
      <3> QED
        BY <1>4, <2>1, <3>5, KeepsDecision
        DEF CombineComparison, SelectionStages, ZeroOrOne
    <2>2. CASE ~ inverted
      BY <1>4, <2>2, KeepsDecision
      DEF CombineComparison, SelectionStages, ZeroOrOne
    <2> QED BY <2>1, <2>2
  <1>5. CASE CombineXor
    <2>1. /\ cond.type = "i1" /\ cond.rhs = 0 /\ inverted
          /\ cond'.type = "i1" /\ cond'.lhs = cond.lhs /\ cond'.rhs = 1
      BY <1>5 DEF CombineXor, ShapeInv, Comparison
    <2>2. cond.lhs \in Word /\ Bit0(cond.lhs) \in {0, 1}
      BY <1>a, ComparisonType, WordFacts
    <2>3. CondHolds(cond') <=> ~ CondHolds(cond)
      BY <1>a, <2>1, <2>2, i1Compares DEF Bit0
    <2> QED
      BY <1>5, <2>1, <2>3, KeepsDecision
      DEF CombineXor, SelectionStages, ZeroOrOne
  <1>6. CASE CombineNothing
    BY <1>6, KeepsDecision
    DEF CombineNothing, SelectionStages, ZeroOrOne
  <1>7. CASE PromoteSetCCOperands
    <2>1. /\ cond.type = "i1" /\ cond'.type = "i32" /\ cond'.cc = cond.cc
          /\ cond'.lhs = Bit0(cond.lhs) /\ cond'.rhs = Bit0(cond.rhs)
      BY <1>7 DEF PromoteSetCCOperands, Comparison
    <2>2. CondHolds(cond') <=> CondHolds(cond)
      BY <2>1 DEF CondHolds
    <2> QED
      BY <1>7, <2>2, KeepsDecision
      DEF PromoteSetCCOperands, SelectionStages, ZeroOrOne
  <1>8. CASE PromoteTargetBoolean
    <2>1. CASE inverted
      <3>1. /\ cond.type = "i1" /\ cond.rhs = 0
            /\ cond'.type = "i1" /\ cond'.lhs = Xor1(cond.lhs) /\ cond'.rhs = 0
        BY <1>8, <2>1 DEF PromoteTargetBoolean, ShapeInv, i1Value, Comparison
      <3>2. /\ cond.lhs \in Word /\ Bit0(cond.lhs) \in {0, 1}
            /\ Bit0(Xor1(cond.lhs)) = 1 - Bit0(cond.lhs)
        BY <1>a, ComparisonType, WordFacts
      <3>3. CondHolds(cond') <=> ~ CondHolds(cond)
        <4>1. Bit0(0) = 0
          BY DEF Bit0
        <4> QED BY <1>a, <3>1, <3>2, <4>1, i1Compares
      <3> QED
        BY <1>8, <2>1, <3>3, KeepsDecision
        DEF PromoteTargetBoolean, SelectionStages, ZeroOrOne
    <2>2. CASE ~ inverted
      BY <1>8, <2>2, KeepsDecision
      DEF PromoteTargetBoolean, SelectionStages, ZeroOrOne
    <2> QED BY <2>1, <2>2
  <1>9. CASE TypesLegal
    BY <1>9, KeepsDecision
    DEF TypesLegal, SelectionStages, ZeroOrOne
  <1>10. CASE ExpandBRCOND
    <2>1. /\ cond.type = "i1" /\ cond.rhs = 0
          /\ cond'.type = "i32" /\ cond'.cc = "SETNE"
          /\ cond'.lhs = Bit0(cond.lhs) /\ cond'.rhs = Bit0(cond.rhs)
      BY <1>10 DEF ExpandBRCOND, ShapeInv, Comparison, Bit0
    <2>2. cond.cc = "SETNE"
      BY <1>a, <2>1, ComparisonType
    <2>3. CondHolds(cond') <=> CondHolds(cond)
      BY <2>1, <2>2 DEF CondHolds
    <2> QED
      BY <1>10, <2>3, KeepsDecision DEF ExpandBRCOND, SelectionStages, ZeroOrOne
  <1>11. CASE ExpandSELECT
    <2>1. /\ cond.type = "i1" /\ cond.rhs = 0 /\ use = "select"
          /\ cond'.type = "i32" /\ cond'.cc = "SETNE"
          /\ cond'.lhs = cond.lhs /\ cond'.rhs = 0
      BY <1>11 DEF ExpandSELECT, ShapeInv, Comparison, TypeOK
    <2>2. ZeroOrOne => cond.lhs \in {0, 1}
      BY <1>11, <2>1 DEF SelectInv, ExpandSELECT
    <2>3. cond.lhs \in Word /\ 0 \in Word
      BY <1>a, ComparisonType, WordFacts
    <2>4. CondHolds(cond') <=> cond.lhs # 0
      BY <2>1, <2>3, NotEqual DEF CondHolds
    <2>5. CondHolds(cond) <=> Bit0(cond.lhs) # Bit0(0)
      BY <1>a, <2>1, i1Compares
    <2>6. ZeroOrOne => (CondHolds(cond') <=> CondHolds(cond))
      BY <2>2, <2>4, <2>5 DEF Bit0
    <2> QED
      BY <1>11, <2>1, <2>6, KeepsDecision DEF ExpandSELECT, SelectionStages, ZeroOrOne
  <1>12. CASE ExpandSETCC
    BY <1>12, KeepsDecision
    DEF ExpandSETCC, SelectionStages, ZeroOrOne
  <1>13. CASE NothingToExpand
    BY <1>13, KeepsDecision
    DEF NothingToExpand, SelectionStages, ZeroOrOne
  <1> QED
    BY <1>1, <1>2, <1>3, <1>4, <1>5, <1>6, <1>7, <1>8, <1>9, <1>10, <1>11,
       <1>12, <1>13

\* LowerBR_CC() and LowerSELECT_CC() trade the comparison for CMP and a code.
LEMMA LoweringDecision ==
    ASSUME TypeOK, ShapeInv, DecisionInv, LowerBR_CC \/ LowerSELECT_CC
    PROVE  DecisionInv'
  <1> SUFFICES ASSUME use = "branch" \/ ZeroOrOne
               PROVE  Choose(Holds(tcc', FlagsOfCMP(cond.lhs, cond.rhs)), arms)
                        = Wanted
    BY DEF LowerBR_CC, LowerSELECT_CC, DecisionInv, SelectionStages, Wanted,
           ZeroOrOne
  <1>1. /\ stage = "lower" /\ tcc' = EmitCMP[cond.cc]
        /\ ~ inverted /\ cond.type = "i32"
    BY DEF LowerBR_CC, LowerSELECT_CC, ShapeInv
  <1>2. cond.cc \in ISDCodes /\ cond.lhs \in Word /\ cond.rhs \in Word
    BY ComparisonType DEF TypeOK
  <1>3. Holds(tcc', FlagsOfCMP(cond.lhs, cond.rhs))
          <=> (CondHolds(cond) <=> ~ inverted)
    BY <1>1, <1>2, CMPExact DEF CondHolds
  <1>4. Choose(CondHolds(cond) <=> ~ inverted, arms) = Wanted
    BY <1>1 DEF DecisionInv, SelectionStages
  <1> QED BY <1>3, <1>4 DEF Choose

\* The machine passes move the code and the arms together.
LEMMA MachineDecision ==
    ASSUME TypeOK, ShapeInv, DecisionInv,
           EmitInstrWithCustomInserter \/ ReverseBranchCondition
    PROVE  DecisionInv'
  <1> DEFINE f == FlagsOfCMP(cond.lhs, cond.rhs)
  <1> SUFFICES ASSUME use = "branch" \/ ZeroOrOne
               PROVE  Choose(Holds(tcc', f), arms') = Wanted
    BY DEF EmitInstrWithCustomInserter, ReverseBranchCondition, DecisionInv,
           SelectionStages, Wanted, ZeroOrOne
  <1>1. Choose(Holds(tcc, f), arms) = Wanted
    BY DEF EmitInstrWithCustomInserter, ReverseBranchCondition, DecisionInv
  <1>2. arms \in {<<"true", "false">>, <<"false", "true">>}
    BY DEF TypeOK
  <1> HIDE DEF f
  <1>3. CASE EmitInstrWithCustomInserter
    <2>1. tcc' = tcc /\ arms' = arms
      BY <1>2, <1>3 DEF EmitInstrWithCustomInserter
    <2> QED BY <1>1, <2>1
  <1>4. CASE ReverseBranchCondition
    <2>1. Holds(tcc', f) <=> ~ Holds(tcc, f)
      BY <1>4, OppositeExact DEF ReverseBranchCondition
    <2>2. arms' = Swap(arms)
      BY <1>4 DEF ReverseBranchCondition
    <2> QED BY <1>1, <1>2, <2>1, <2>2 DEF Choose, Swap
  <1> QED BY <1>3, <1>4

\* The processor does what the code and the flags say.
LEMMA RunDecision ==
    ASSUME TypeOK, ShapeInv, DecisionInv, RunCMP \/ RunBCC \/ CopyFromReg
    PROVE  DecisionInv'
  <1>1. CASE RunCMP
    BY <1>1 DEF RunCMP, DecisionInv, SelectionStages, Wanted, ZeroOrOne
  <1>2. CASE RunBCC
    BY <1>2 DEF RunBCC, DecisionInv, SelectionStages, Wanted, ZeroOrOne
  <1>3. CASE CopyFromReg
    <2>1. out = Wanted /\ out \in Arms /\ given' = given
      BY <1>3 DEF CopyFromReg, DecisionInv, ShapeInv, ZeroOrOne
    <2>2. /\ stage' = "build" /\ ~ inverted' /\ arms' = <<"true", "false">>
          /\ cond' = i1Value(IF out = "true" THEN 1 ELSE 0)
      BY <1>3 DEF CopyFromReg, ShapeInv
    <2>3. CondHolds(cond') <=> out = "true"
      <3>1. /\ cond' \in Comparisons /\ cond'.type = "i1" /\ cond'.rhs = 0
            /\ cond'.lhs = IF out = "true" THEN 1 ELSE 0
        BY <2>2, ComparisonType, WordFacts DEF i1Value, Comparison
      <3> QED BY <3>1, i1Compares DEF Bit0
    <2>4. Choose(CondHolds(cond') <=> ~ inverted', arms') = out
      BY <2>1, <2>2, <2>3 DEF Choose, Arms
    <2> QED BY <2>1, <2>2, <2>4 DEF DecisionInv, SelectionStages, Wanted
  <1> QED BY <1>1, <1>2, <1>3

-----------------------------------------------------------------------------
(* Theorems.                                                               *)

LEMMA StepInv == Inv /\ [Next]_vars => Inv'
  <1> SUFFICES ASSUME Inv, [Next]_vars PROVE Inv'
    OBVIOUS
  <1>1. TypeOK' /\ ShapeInv' /\ SelectInv'
    BY StepType, StepShape, StepSelect DEF Inv
  <1>2. DecisionInv'
    <2>1. CASE UNCHANGED vars
      BY <2>1 DEF Inv, vars, DecisionInv, Wanted, ZeroOrOne
    <2>2. CASE Next /\ ~ UNCHANGED vars
      BY <1>1, <2>2, SelectionDecision, LoweringDecision, MachineDecision,
         RunDecision
      DEF Next, Finished, Inv
    <2> QED BY <2>1, <2>2
  <1> QED BY <1>1, <1>2 DEF Inv

LEMMA InvHolds == Spec => []Inv
  <1>1. Init => Inv
    BY InitType, InitShape, InitDecision DEF Inv
  <1> QED BY <1>1, StepInv, PTL DEF Spec

\* Every variable keeps to the values the code generator gives it.
THEOREM ConditionTypes == Spec => []TypeOK
  <1>1. Inv => TypeOK
    BY DEF Inv
  <1> QED BY <1>1, InvHolds, PTL

\* For words of every width, a conditional br goes where its IR condition says.
THEOREM BranchesAsWritten == Spec => []BranchAsWritten
  <1>1. Inv => BranchAsWritten
    BY DEF Inv, DecisionInv, BranchAsWritten
  <1> QED BY <1>1, InvHolds, PTL

\* So do the value of an icmp and a select whose register holds 0 or 1.
THEOREM SelectsAsWritten == Spec => []SelectAsWritten
  <1>1. Inv => SelectAsWritten
    BY DEF Inv, DecisionInv, SelectAsWritten
  <1> QED BY <1>1, InvHolds, PTL

\* The unreachable cases of the condition-code switches are unreachable.
THEOREM CodesReversible == Spec => []CodeReversible
  <1>1. Inv => CodeReversible
    BY DEF Inv, ShapeInv, CodeReversible
  <1> QED BY <1>1, InvHolds, PTL

\* SubsumesPredicate() never claims an implication that the flags refute.
THEOREM SubsumptionsSound == Spec => []SubsumptionSound
  <1>1. \A cc1, cc2 \in CondCodes :
          SubsumesPredicate(cc1, cc2) /\ Holds(cc2, flags) => Holds(cc1, flags)
    BY DEF SubsumesPredicate, Holds
  <1>2. SubsumptionSound
    BY <1>1 DEF SubsumptionSound
  <1> QED BY <1>2, PTL
=============================================================================
