---------------------------- MODULE ARCIfCvtCost ----------------------------
(***************************************************************************)
(* Whether if-conversion pays: a block ends in a conditional branch whose  *)
(* two edges have weights, MachineBranchProbabilityInfo makes a fraction   *)
(* of them, and ARCompactInstrInfo::isProfitableToIfCvt weighs the cycles  *)
(* of the predicated code against those of the branch, all in unsigned     *)
(* arithmetic.                                                             *)
(***************************************************************************)
EXTENDS Integers

CONSTANTS
    WordSize,           \* numbers are 0 .. WordSize - 1; WordSize is 2^32 in the code
    DefaultWeight,  \* of an edge without one
    Weights,        \* the weights edges may have, 0 where there is none
    Cycles,         \* what a block may cost
    Extra           \* what it may cost more when predicated

\* Words have two bits at least, and blocks are so small that their cycles can be
\* added.
ASSUME CostAssumption ==
    /\ WordSize \in Nat /\ WordSize >= 4 /\ DefaultWeight \in 1 .. WordSize - 1
    /\ Weights \subseteq 0 .. WordSize - 1
    /\ Cycles \subseteq Nat /\ Extra \subseteq Nat
    /\ \A t, u \in Cycles, x, y \in Extra : t + u + x + y + 2 < WordSize

VARIABLES
    stage,          \* "weigh", "decide" or "done"
    weights,        \* of the true edge and the false one
    side,           \* what is to be predicated: "true", "false" or "both" blocks
    TCycles, TExtra, FCycles, FExtra,
    prob,           \* of the edge to the block, or to the true one
    converted
costVars == <<stage, weights, side, TCycles, TExtra, FCycles, FExtra, prob, converted>>

BranchProbability(n, d) == [N |-> n, D |-> d]
getCompl(p) == BranchProbability(p.D - p.N, p.D)

InitCosts ==
    /\ stage = "weigh"
    /\ weights \in Weights \X Weights
    /\ side \in {"true", "false", "both"}
    /\ TCycles \in Cycles /\ TExtra \in Extra
    /\ FCycles \in Cycles /\ FExtra \in Extra
    /\ prob = BranchProbability(0, 1) /\ converted = FALSE
-----------------------------------------------------------------------------
(* MachineBranchProbabilityInfo.                                           *)

getEdgeWeight(w) == IF w = 0 THEN DefaultWeight ELSE w
SumOver(ws, Scale) == getEdgeWeight(ws[1]) \div Scale + getEdgeWeight(ws[2]) \div Scale

\* The sum of the weights, and what they are divided by to make it fit.
ScaleOf(ws) == IF SumOver(ws, 1) < WordSize THEN 1
               ELSE SumOver(ws, 1) \div (WordSize - 1) + 1
getSumForBlock(ws) == SumOver(ws, ScaleOf(ws))

\* Mutant: the weight of the edge is not scaled.
MutantEdgeProbability(ws, i) == BranchProbability(getEdgeWeight(ws[i]), getSumForBlock(ws))
getEdgeProbability(ws, i) ==
    BranchProbability(getEdgeWeight(ws[i]) \div ScaleOf(ws), getSumForBlock(ws))

\* The if-converter asks for the true edge and takes the complement for the other.
Weigh ==
    /\ stage = "weigh"
    /\ prob' = IF side = "false" THEN getCompl(getEdgeProbability(weights, 1))
               ELSE getEdgeProbability(weights, 1)
    /\ stage' = "decide"
    /\ UNCHANGED <<weights, side, TCycles, TExtra, FCycles, FExtra, converted>>
-----------------------------------------------------------------------------
(* ARCompactInstrInfo.                                                     *)

BranchCost == 1
Misprediction == 10 \div 10

isProfitableToIfCvt(NumCycles, ExtraPredCycles, p) ==
    /\ NumCycles # 0
    /\ (NumCycles + ExtraPredCycles) % WordSize
           <= (((p.N * NumCycles) % WordSize) \div p.D + BranchCost + Misprediction) % WordSize

\* Mutant: both blocks are as probable as the true one.
MutantBothProfitable(T, TX, F, FX, p) ==
    /\ T # 0 /\ F # 0
    /\ (T + F + TX + FX) % WordSize
           <= (((p.N * T) % WordSize) \div p.D + ((p.N * F) % WordSize) \div p.D
               + BranchCost + Misprediction) % WordSize

\* The variant for two blocks.
areProfitableToIfCvt(T, TX, F, FX, p) ==
    /\ T # 0 /\ F # 0
    /\ (T + F + TX + FX) % WordSize
           <= (((p.N * T) % WordSize) \div p.D + (((p.D - p.N) * F) % WordSize) \div p.D
               + BranchCost + Misprediction) % WordSize

Decide ==
    /\ stage = "decide"
    /\ converted' =
          CASE side = "true" -> isProfitableToIfCvt(TCycles, TExtra, prob)
            [] side = "false" -> isProfitableToIfCvt(FCycles, FExtra, prob)
            [] side = "both" -> areProfitableToIfCvt(TCycles, TExtra, FCycles, FExtra, prob)
    /\ stage' = "done"
    /\ UNCHANGED <<weights, side, TCycles, TExtra, FCycles, FExtra, prob>>

Decided ==
    /\ stage = "done"
    /\ UNCHANGED costVars

NextCosts == Weigh \/ Decide \/ Decided
SpecCosts == InitCosts /\ [][NextCosts]_costVars
-----------------------------------------------------------------------------
(***************************************************************************)
(* Properties.                                                             *)
(***************************************************************************)

\* What BranchProbability asserts of every fraction, and that the complement of
\* the true edge's is the false edge's though both weights were rounded.
ProbabilitySound ==
    stage # "weigh" =>
        /\ prob.D \in 1 .. WordSize - 1 /\ prob.N \in 0 .. prob.D
        /\ prob = getEdgeProbability(weights, IF side = "false" THEN 2 ELSE 1)

\* The costs the comments of isProfitableToIfCvt speak of, D times, in integers.
PredicatedCost == prob.D *
    CASE side = "true" -> TCycles + TExtra
      [] side = "false" -> FCycles + FExtra
      [] side = "both" -> TCycles + TExtra + FCycles + FExtra
BranchingCost == prob.D * (BranchCost + Misprediction) +
    CASE side = "true" -> prob.N * TCycles
      [] side = "false" -> prob.N * FCycles
      [] side = "both" -> prob.N * TCycles + (prob.D - prob.N) * FCycles
Empty == (side # "false" /\ TCycles = 0) \/ (side # "true" /\ FCycles = 0)

\* Code is predicated only where that costs no more than to branch, although the
\* products wrap around and the quotients are rounded.
NeverALoss == converted => ~Empty /\ PredicatedCost <= BranchingCost

\* One block is predicated wherever that costs no more: "estimate the relative costs
\* of predication versus branching".
ConvertedIfCheaper ==
    stage = "done" /\ side # "both" /\ ~Empty /\ PredicatedCost <= BranchingCost => converted
=============================================================================
