---------------------------- MODULE BranchFolding ----------------------------
(***************************************************************************)
(* BranchFolder::OptimizeFunction on a small function: edges are put right, *)
(* then, as long as anything changes, the branches to blocks with several  *)
(* predecessors are brought to a canonical form and back (TailMergeBlocks),*)
(* and OptimizeBlock visits every block but the first until it has nothing *)
(* more to do with it.  A round of OptimizeBlock, from its label           *)
(* ReoptimizeBlock to the next goto or return, is three actions: the block *)
(* before is analyzed, its branch is simplified or else the block's own is *)
(* analyzed, and that is simplified or the block moved.                    *)
(*                                                                         *)
(* No two blocks have code in common: tails are never merged, and          *)
(* HoistCommonCode never hoists.                                           *)
(***************************************************************************)
EXTENDS ARCBranch

CONSTANT
    Functions   \* what the blocks may be to begin with: sequences of shapes

VARIABLES
    f,          \* the function
    number,     \* the blocks' numbers, given before OptimizeBranches
    phase,      \* "fix", "merge", "block", "prior", "current" or "done"
    MBB, I,     \* the block being optimized, and the one to go on with
    Prior, Cur, \* what AnalyzeBranch said of the block before MBB, and of MBB
    MadeChange, \* in this iteration
    kind,       \* kind[u]: of stretch of code u
    meant       \* what the function meant to begin with
vars == <<f, number, phase, MBB, I, Prior, Cur, MadeChange, kind, meant>>

Blocks == DOMAIN f.term

Init ==
    \E s \in Functions :
        /\ f = Build(s)
        /\ Reached(f) = Blocks
        /\ number = [b \in Blocks |-> b]
        /\ phase = "fix" /\ MBB = None /\ I = None /\ MadeChange = FALSE
        /\ Prior = NoBranch /\ Cur = NoBranch
        /\ kind = [b \in Blocks |-> s[b].kind]
        /\ meant = Meaning(f, kind, {u \in Blocks : f.body[u] # <<>>})
-----------------------------------------------------------------------------
(* Before the first iteration.                                             *)

\* The function once AnalyzeBranch has said A of block b, without the edges that
\* this shows to be superfluous.
Corrected(g, b, A) ==
    IF A.fail THEN Analyzed(g, b, A)
    ELSE CorrectExtraCFGEdges(Analyzed(g, b, A), b, A.TBB, A.FBB, A.Cond # <<>>)

FixCFG ==
    /\ phase = "fix"
    /\ f' = FoldLeft(LAMBDA g, b : Corrected(g, b, AnalyzeBranch(g, b, TRUE)), f, f.layout)
    /\ phase' = "merge"
    /\ UNCHANGED <<number, MBB, I, Prior, Cur, MadeChange, kind, meant>>
-----------------------------------------------------------------------------
(* TailMergeBlocks, where no tails are alike.                              *)

\* Predecessor P of IBB without an unconditional branch, and with a
\* conditional one only if that goes elsewhere.
Canonical(g, P, IBB, A) ==
    LET toIBB == A.Cond # <<>> /\ A.TBB = IBB
        FBB == IF toIBB /\ A.FBB = None THEN After(g, P) ELSE A.FBB
    IN  IF A.fail \/ A.TBB = None \/ (A.Cond # <<>> /\ FBB = None) THEN g
        ELSE IF A.Cond = <<>> THEN RemoveBranch(g, P)
        ELSE IF toIBB THEN Rebranch(g, P, FBB, None, ReverseBranchCondition(A.Cond))
        ELSE Rebranch(g, P, A.TBB, None, A.Cond)

FixTail(g, P, IBB, A) ==
    IF After(g, P) # None /\ ~A.fail /\ A.TBB = After(g, P) /\ A.Cond # <<>> /\ A.FBB = None
    THEN Rebranch(g, P, IBB, None, ReverseBranchCondition(A.Cond))
    ELSE InsertBranch(g, P, IBB, None, <<>>)

\* The predecessors of IBB that are looked at.
MergePotentials(g, IBB) ==
    SelectSeq(g.layout, LAMBDA p : /\ p # IBB /\ Contains(g.preds[IBB], p)
                                   /\ ~AnalyzeBranch(g, p, TRUE).fail)

\* All of them are brought to the canonical form; the one before IBB, which falls
\* through into it, is left so.
CanonicalPreds(g, IBB, P) ==
    FoldLeft(LAMBDA h, p : Canonical(Analyzed(h, p, AnalyzeBranch(h, p, TRUE)), p, IBB,
                                     AnalyzeBranch(h, p, TRUE)), g, P)
FixTails(g, IBB, P) ==
    FoldLeft(LAMBDA h, p : FixTail(Analyzed(h, p, AnalyzeBranch(h, p, TRUE)), p, IBB,
                                   AnalyzeBranch(h, p, TRUE)), g, P)
MergePreds(g, IBB) ==
    IF IBB = Head(g.layout) \/ Len(g.preds[IBB]) < 2 THEN g
    ELSE FixTails(CanonicalPreds(g, IBB, MergePotentials(g, IBB)), IBB,
                  Remove(MergePotentials(g, IBB), Before(g, IBB)))

TailMergeBlocks ==
    /\ phase = "merge"
    /\ f' = FoldLeft(MergePreds, f, f.layout)
    /\ number' = [b \in Blocks |-> Position(f, b)]
    /\ phase' = IF Len(f.layout) = 1 THEN "done" ELSE "block"
    /\ MBB' = After(f, Head(f.layout))
    /\ I' = IF MBB' = None THEN None ELSE After(f, MBB')
    /\ MadeChange' = FALSE
    /\ UNCHANGED <<Prior, Cur, kind, meant>>
-----------------------------------------------------------------------------
(* OptimizeBlock: the ways to end a round.                                 *)

\* Goes on with the same block (goto ReoptimizeBlock).
Again(g) ==
    /\ f' = g
    /\ MadeChange' = TRUE
    /\ phase' = "block"
    /\ Prior' = NoBranch /\ Cur' = NoBranch
    /\ UNCHANGED <<MBB, I, number, kind, meant>>

RemoveDeadBlock(g, b) ==
    LET h == FoldRight(LAMBDA i, x : removeSuccessor(x, b, i),
                       [i \in DOMAIN g.succs[b] |-> i], g)
    IN  [h EXCEPT !.layout = Remove(@, b), !.body[b] = <<>>, !.term[b] = <<>>]

\* Mutant: a block without predecessors stays.
MutantReturn(g, change) ==
    /\ f' = g
    /\ MadeChange' = (MadeChange \/ change)
    /\ MBB' = I
    /\ I' = IF I = None THEN None ELSE After(f', I)
    /\ phase' = IF I # None THEN "block" ELSE IF MadeChange' THEN "merge" ELSE "done"
    /\ Prior' = NoBranch /\ Cur' = NoBranch
    /\ UNCHANGED <<number, kind, meant>>

\* Returns: a block without predecessors is removed, then it is the next one's
\* turn, or the next iteration's.
Return(g, change) ==
    /\ f' = IF g.preds[MBB] = <<>> THEN RemoveDeadBlock(g, MBB) ELSE g
    /\ MadeChange' = (MadeChange \/ change \/ g.preds[MBB] = <<>>)
    /\ MBB' = I
    /\ I' = IF I = None THEN None ELSE After(f', I)
    /\ phase' = IF I # None THEN "block" ELSE IF MadeChange' THEN "merge" ELSE "done"
    /\ Prior' = NoBranch /\ Cur' = NoBranch
    /\ UNCHANGED <<number, kind, meant>>

IsEmptyBlock(g, b) == g.body[b] = <<>> /\ g.term[b] = <<>>
isCall(g, b) == g.term[b] = <<>> /\ kind[Last(g.body[b])] \in {"call", "noreturn"}

IsBetterFallthrough(g, b1, b2) ==
    /\ ~IsEmptyBlock(g, b1) /\ ~IsEmptyBlock(g, b2)
    /\ \/ isSuccessor(g, b1, b2)
       \/ ~isSuccessor(g, b2, b1) /\ isCall(g, b2) /\ ~isCall(g, b1)

FallThrough == After(f, MBB)
PrevBB == Before(f, MBB)
-----------------------------------------------------------------------------
(* The block is looked at, and the branch of the one before it.            *)

\* This block is empty: everyone uses its fall-through.
EmptyBlock ==
    /\ phase = "block" /\ IsEmptyBlock(f, MBB)
    /\ IF f.preds[MBB] = <<>> \/ FallThrough = None THEN Return(f, FALSE)
       ELSE Return(FoldRight(LAMBDA p, g : ReplaceUsesOfBlockWith(g, p, MBB, FallThrough),
                             f.preds[MBB], f), TRUE)

AnalyzePrior ==
    /\ phase = "block" /\ ~IsEmptyBlock(f, MBB)
    /\ Prior' = AnalyzeBranch(f, PrevBB, TRUE)
    /\ f' = Corrected(f, PrevBB, Prior')
    /\ MadeChange' = (MadeChange \/ f'.succs # f.succs)
    /\ phase' = "prior"
    /\ UNCHANGED <<number, MBB, I, Cur, kind, meant>>

SameDestination == Prior.TBB # None /\ Prior.TBB = Prior.FBB
DropCondition ==
    Again(IF Prior.TBB # MBB THEN Rebranch(f, PrevBB, Prior.TBB, None, <<>>)
                             ELSE RemoveBranch(f, PrevBB))

Mergeable ==
    /\ Prior.Cond = <<>> /\ Prior.TBB = None
    /\ Len(f.preds[MBB]) = 1 /\ Len(f.succs[PrevBB]) = 1
MergeIntoPrior ==
    LET cut == removeSuccessor(f, PrevBB, 1)
        moved == [cut EXCEPT !.body[PrevBB] = @ \o f.body[MBB], !.body[MBB] = <<>>,
                             !.term[PrevBB] = @ \o f.term[MBB], !.term[MBB] = <<>>]
    IN  Return(FoldLeft(LAMBDA g, s : addSuccessor(removeSuccessor(g, MBB, 1), PrevBB, s),
                        moved, f.succs[MBB]), TRUE)

OnlyToThis == Prior.TBB = MBB /\ Prior.FBB = None
DropBranch == Again(RemoveBranch(f, PrevBB))

\* Never so with the target's AnalyzeBranch, which has removed this branch.
FalseToThis == Prior.FBB = MBB
DropFalseBranch == Again(Rebranch(f, PrevBB, Prior.TBB, None, Prior.Cond))

TrueToThis == Prior.TBB = MBB
ReversePrior == Again(Rebranch(f, PrevBB, Prior.FBB, None, ReverseBranchCondition(Prior.Cond)))

\* Mutant: whichever of the two is last is moved to the end again.
MutantEndsHere ==
    /\ f.succs[MBB] = <<>> /\ Prior.Cond # <<>> /\ Prior.FBB = None
    /\ Prior.TBB = FallThrough /\ ~canFallThrough(f, MBB)

\* This block ends the function, the one before falls into it and branches
\* over it.
EndsHere ==
    /\ f.succs[MBB] = <<>> /\ Prior.Cond # <<>> /\ Prior.FBB = None
    /\ Prior.TBB = FallThrough /\ ~canFallThrough(f, MBB)
    /\ FallThrough = Last(f.layout) => IsBetterFallthrough(f, Prior.TBB, MBB)
MoveToEnd ==
    Return(moveLast(Rebranch(f, PrevBB, MBB, None, ReverseBranchCondition(Prior.Cond)), MBB),
           TRUE)

AnalyzeCur ==
    /\ Cur' = AnalyzeBranch(f, MBB, TRUE)
    /\ f' = Corrected(f, MBB, Cur')
    /\ MadeChange' = (MadeChange \/ f'.succs # f.succs)
    /\ phase' = "current"
    /\ UNCHANGED <<number, MBB, I, Prior, kind, meant>>

\* What applies first.
PriorCase ==
    IF Prior.fail THEN "none"
    ELSE IF SameDestination THEN "same"
    ELSE IF Mergeable THEN "merge"
    ELSE IF OnlyToThis THEN "only"
    ELSE IF FalseToThis THEN "false"
    ELSE IF TrueToThis THEN "true"
    ELSE IF EndsHere THEN "end"
    ELSE "none"

SimplifyPrior ==
    /\ phase = "prior"
    /\ \E case \in {PriorCase} :
          \/ case = "same"  /\ DropCondition
          \/ case = "merge" /\ MergeIntoPrior
          \/ case = "only"  /\ DropBranch
          \/ case = "false" /\ DropFalseBranch
          \/ case = "true"  /\ ReversePrior
          \/ case = "end"   /\ MoveToEnd
          \/ case = "none"  /\ AnalyzeCur
-----------------------------------------------------------------------------
(* The block's own branch.                                                 *)

LoopsByFalse == ~Cur.fail /\ Cur.TBB # None /\ Cur.FBB = MBB /\ Cur.TBB # MBB
ReverseLoop ==
    Again(Rebranch(f, MBB, Cur.FBB, Cur.TBB, ReverseBranchCondition(Cur.Cond)))

\* The block is only a branch, and others can be forwarded across it.
Forwards ==
    /\ ~Cur.fail /\ Cur.TBB # None /\ Cur.Cond = <<>> /\ Cur.FBB = None
    /\ f.body[MBB] = <<>> /\ Cur.TBB # MBB /\ RemoveBranch(f, MBB).term[MBB] = <<>>
    /\ ~Prior.fail \/ ~isSuccessor(f, PrevBB, MBB) \/ ~canFallThrough(f, PrevBB)
    /\ f.preds[MBB] # <<>> /\ ~Contains(f.preds[MBB], MBB)

\* Mutant: no such block is looked for.
MutantExplicit(g) == g

\* A block that falls through into this one branches to it first.
Explicit(g) ==
    IF ~(/\ isSuccessor(g, PrevBB, MBB) /\ MBB \notin {Prior.TBB, Prior.FBB}
         /\ canFallThrough(g, PrevBB))
    THEN g
    ELSE IF Prior.TBB = None
    THEN Asserting(Rebranch(g, PrevBB, MBB, Prior.FBB, Prior.Cond), PrevBB,
                   Prior.Cond = <<>> /\ Prior.FBB = None)
    ELSE Asserting(Rebranch(g, PrevBB, Prior.TBB, MBB, Prior.Cond), PrevBB, Prior.FBB = None)

\* The branch of P, of which A is known, when both ways come to the same.
Straighten(g, P, A) ==
    IF A.fail \/ A.TBB = None \/ A.TBB # A.FBB THEN Analyzed(g, P, A)
    ELSE CorrectExtraCFGEdges(Rebranch(g, P, A.TBB, None, <<>>), P, A.TBB, None, FALSE)
\* Predecessor P goes where MBB went.
Revector(g, P) == Straighten(g, P, AnalyzeBranch(g, P, TRUE))
ForwardPreds ==
    LET g == Explicit(RemoveBranch(f, MBB))
    IN  Return(FoldLeft(LAMBDA h, P :
                   IF ~Contains(h.preds[MBB], P) THEN h
                   ELSE Revector(ReplaceUsesOfBlockWith(h, P, MBB, Cur.TBB), P),
                   g, g.preds[MBB]), TRUE)
-----------------------------------------------------------------------------
(* A better place for the block.                                           *)

CurFallsThru == canFallThrough(f, MBB)

\* A predecessor that nothing follows.
GoodPred(P) ==
    /\ P # MBB
    /\ CurFallsThru => (Cur.TBB = None \/ Cur.FBB = None) /\ number[MBB] >= number[P]
    /\ ~canFallThrough(f, P) /\ ~AnalyzeBranch(f, P, TRUE).fail
PredIndex == SelectInSeq(f.preds[MBB], GoodPred)
FollowPred ==
    LET g == IF CurFallsThru THEN InsertBranch(f, MBB, FallThrough, None, <<>>) ELSE f
    IN  Again(moveAfter(g, MBB, f.preds[MBB][PredIndex]))

\* A successor that nothing precedes.
GoodSucc(S) ==
    /\ S # MBB /\ Before(f, S) # MBB
    /\ ~canFallThrough(f, Before(f, S)) /\ ~Cur.fail
SuccIndex == SelectInSeq(f.succs[MBB], GoodSucc)
PrecedeSucc == Again(moveBefore(f, MBB, f.succs[MBB][SuccIndex]))

\* The block is between two that could do without it.
InTheWay ==
    /\ FallThrough # None
    /\ ~AnalyzeBranch(f, PrevBB, TRUE).fail /\ isSuccessor(f, PrevBB, FallThrough)
GetOutOfTheWay == Return(moveLast(f, MBB), TRUE)

CurCase ==
    IF LoopsByFalse THEN "loop"
    ELSE IF Forwards THEN "forward"
    ELSE IF canFallThrough(f, PrevBB) THEN "stay"
    ELSE IF PredIndex # 0 THEN "pred"
    ELSE IF CurFallsThru THEN "stay"
    ELSE IF SuccIndex # 0 THEN "succ"
    ELSE IF InTheWay THEN "way"
    ELSE "stay"

PlaceBlock ==
    /\ phase = "current"
    /\ \E case \in {CurCase} :
          \/ case = "loop"    /\ ReverseLoop
          \/ case = "forward" /\ ForwardPreds
          \/ case = "pred"    /\ FollowPred
          \/ case = "succ"    /\ PrecedeSucc
          \/ case = "way"     /\ GetOutOfTheWay
          \/ case = "stay"    /\ Return(f, FALSE)

Next ==
    \/ FixCFG \/ TailMergeBlocks
    \/ EmptyBlock \/ AnalyzePrior \/ SimplifyPrior \/ PlaceBlock

Spec == Init /\ [][Next]_vars
-----------------------------------------------------------------------------
(***************************************************************************)
(* Properties.                                                             *)
(***************************************************************************)

\* The variables have their types, and OptimizeBranches goes through blocks that are
\* still in the function, however they are moved, merged and removed.
TypeOK ==
    /\ IsFunction(f) /\ number \in [Blocks -> Nat] /\ MadeChange \in BOOLEAN
    /\ phase \in {"fix", "merge", "block", "prior", "current", "done", "place", "placed"}
    /\ phase \in {"block", "prior", "current"} => MBB \in InLayout(f) /\ I \in InLayout(f) \cup {None}

\* From the end of every stretch of code that is left, and from the function's
\* entry, control goes where it went to begin with, whatever the flags.
GoesAsMeant == \A u \in Code(f) \cup {0} : Meaning(f, kind, Code(f))[u] = meant[u]

\* No assertion of the pass, of a hook or of MachineBasicBlock fails.
NoAssertion == \A b \in Blocks : ~Contains(f.term[b], Failed)

\* The variables have their types. The edges contain every way that control can go, except while the blocks are being
\* spliced into place, and each is in the lists of both blocks as often; when a pass
\* has ended there is nothing else in them.
EdgesTrue ==
    /\ TypeOK
    /\ \A b \in InLayout(f) : phase \notin {"fix", "place"} =>
          /\ Destinations(f, kind, b) \subseteq ToSet(f.succs[b])
          /\ phase \in {"done", "placed"} =>
                /\ Cardinality(Destinations(f, kind, b)) = Len(f.succs[b])
                /\ ToSet(f.succs[b]) \subseteq InLayout(f)
    /\ EdgesPaired(f)

\* At the end no block branches to the next one, only the last can be empty, and
\* all but the first have predecessors.
Folded ==
    phase = "done" => \A b \in InLayout(f) :
        /\ \A i \in DOMAIN f.term[b] : f.term[b][i].to # None => f.term[b][i].to # After(f, b)
        /\ b # Head(f.layout) => f.preds[b] # <<>> /\ (After(f, b) # None => ~IsEmptyBlock(f, b))
=============================================================================
