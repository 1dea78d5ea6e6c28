---------------------------- MODULE IfConversion ----------------------------
(***************************************************************************)
(* The if-converter (IfConverter::runOnMachineFunction) on a small function *)
(* of this target: every block is analyzed, candidates become tokens, and  *)
(* the tokens are worked off from the last; conversions change the blocks  *)
(* that other tokens are about.  Analysis and conversion alternate until   *)
(* nothing changes.                                                        *)
(*                                                                         *)
(* Analysis looks for all seven kinds of candidates.  With the hooks of    *)
(* ARCompactInstrInfo a block with a terminator cannot be predicated and   *)
(* none is duplicated, so that only triangles whose block falls through    *)
(* are ever found (TargetCases); the conversions of the others are left    *)
(* out.  No two blocks have code in common.  Whether a conversion pays is  *)
(* given: ARCIfCvtCost.                                                    *)
(***************************************************************************)
EXTENDS ARCBranch

CONSTANT
    Functions   \* what the blocks may be to begin with: sequences of shapes

\* What instruction selection and InsertBranch leave at the end of a block.
Jumps(blocks) == [op : {"B"}, to : blocks, cc : {"AL"}]
CondJumps(blocks) == [op : {"BCC"}, to : blocks, cc : DOMAIN getOppositeCondition]
Terminators(blocks) ==
    {<<>>, <<RET>>} \cup [1 .. 1 -> Jumps(blocks) \cup CondJumps(blocks)]
                    \cup (CondJumps(blocks) \X Jumps(blocks))

ASSUME FunctionsAssumption ==
    \A s \in Functions :
        s # <<>> /\ s \in Seq([kind : STRING, term : Terminators(DOMAIN s), falls : BOOLEAN])

VARIABLES
    f,          \* the function
    predicate,  \* predicate[u]: of the instructions of stretch of code u
    info,       \* BBAnalysis
    Tokens,     \* those left of this round
    phase,      \* "analyze", "convert" or "done"
    Change,     \* has a token of this round been converted?
    kind,       \* kind[u]: "alu" can be predicated, "cmp" and others cannot
    pays,       \* the blocks that are worth predicating
    meant       \* what the function meant to begin with
vars == <<f, predicate, info, Tokens, phase, Change, kind, pays, meant>>

Blocks == DOMAIN f.term
NoInfo ==
    [IsDone |-> FALSE, IsBeingAnalyzed |-> FALSE, IsAnalyzed |-> FALSE, IsEnqueued |-> FALSE,
     IsBrAnalyzable |-> FALSE, HasFallThrough |-> FALSE, IsUnpredicable |-> FALSE,
     TrueBB |-> None, FalseBB |-> None, BrCond |-> <<>>, Predicate |-> <<>>]

\* Where control goes from block to, and after stretch u: stretches whose predicate
\* does not hold are passed over.
Lands(g, p, to, z) ==
    LET first(b) == SelectInSeq(g.body[b], LAMBDA u : Holds(p[u], z))
        land[k \in 0 .. Len(g.layout)] ==
            [b \in Int |->
                IF b <= 0 THEN b
                ELSE IF first(b) # 0 THEN g.body[b][first(b)]
                ELSE IF k = 0 THEN Spins ELSE land[k - 1][Taken(g, b, z)]]
    IN  land[Len(g.layout)][to]
LandsAfter(g, p, b, u, z) ==
    LET at == SelectInSeq(g.body[b], LAMBDA x : x = u)
        rest == SubSeq(g.body[b], at + 1, Len(g.body[b]))
        first == SelectInSeq(rest, LAMBDA x : Holds(p[x], z))
    IN  IF first # 0 THEN rest[first] ELSE Lands(g, p, Taken(g, b, z), z)
Means(g, p) ==
    [u \in Code(g) \cup {0} |-> [z \in Flagsets |->
        IF u = 0 THEN Lands(g, p, Head(g.layout), z)
        ELSE IF kind[u] = "noreturn" THEN Returns
        ELSE LandsAfter(g, p, CHOOSE b \in InLayout(g) : Contains(g.body[b], u), u, z)]]

\* Every block can be reached, and no block goes to the entry.
Init ==
    \E s \in Functions :
        /\ f = Build(s)
        /\ kind = [b \in Blocks |-> s[b].kind]
        /\ \A b \in Blocks : /\ Len(f.succs[b]) = Cardinality(Destinations(f, kind, b))
                            /\ ToSet(f.succs[b]) = Destinations(f, kind, b)
        /\ Reached(f) = Blocks /\ f.preds[1] = <<>>
        /\ predicate = [b \in Blocks |-> "AL"]
        /\ info = [b \in Blocks |-> NoInfo]
        /\ Tokens = {} /\ phase = "analyze" /\ Change = FALSE
        /\ meant = Means(f, predicate)
        /\ pays \in SUBSET {b \in Blocks : kind[b] = "alu"}
-----------------------------------------------------------------------------
(* Analysis.                                                               *)

\* The code can be predicated up to its end: isPredicable() holds of instructions
\* with a predicate operand whose two registers are the same.
isPredicable(b) == f.term[b] = <<>> /\ \A u \in ToSet(f.body[b]) : kind[u] = "alu"

findFalseBlock(b, TrueBB) ==
    LET other == SelectInSeq(f.succs[b], LAMBDA s : s # TrueBB)
    IN  IF other = 0 THEN None ELSE f.succs[b][other]

\* Block b with what AnalyzeBranch says of it in A.
ScanInstructions(b, i, A) ==
    LET FalseBB == IF A.Cond # <<>> /\ A.FBB = None THEN findFalseBlock(b, A.TBB) ELSE A.FBB
    IN  IF i.IsDone THEN i
        ELSE [i EXCEPT !.TrueBB = A.TBB, !.FalseBB = FalseBB, !.BrCond = A.Cond,
                       !.IsBrAnalyzable = ~A.fail,
                       !.HasFallThrough = ~A.fail /\ A.FBB = None,
                       !.IsUnpredicable = @ \/ ~isPredicable(b)]

blockAlwaysFallThrough(i) == i.IsBrAnalyzable /\ i.TrueBB = None
\* Where block b, of info i, goes by its branch to, or else at its end.
Exit(b, i, to) == IF to = None /\ blockAlwaysFallThrough(i) THEN After(f, b) ELSE to

ValidSimple(all, b) ==
    ~all[b].IsBeingAnalyzed /\ ~all[b].IsDone /\ ~all[b].IsBrAnalyzable /\ Len(f.preds[b]) = 1

\* Block T is only entered from the head, and goes on to F.
ValidTriangle(all, T, F, FalseBranch) ==
    /\ ~all[T].IsBeingAnalyzed /\ ~all[T].IsDone
    /\ Len(f.preds[T]) = 1
    /\ LET TExit == Exit(T, all[T], IF FalseBranch THEN all[T].FalseBB ELSE all[T].TrueBB)
       IN  TExit # None /\ TExit = F

ValidDiamond(all, T, F) ==
    /\ \A b \in {T, F} : /\ ~all[b].IsBeingAnalyzed /\ ~all[b].IsDone
                         /\ Len(f.preds[b]) = 1 /\ all[b].FalseBB = None
    /\ LET TT == Exit(T, all[T], all[T].TrueBB)
           FT == Exit(F, all[F], all[F].TrueBB)
       IN  TT = FT /\ (TT = None => ~all[T].IsBrAnalyzable /\ ~all[F].IsBrAnalyzable)

Subsumes(Pred1, Pred2) == SubsumesPredicate(Pred1[1], Pred2[1])
FeasibilityAnalysis(i, Pred, isTriangle, RevBranch) ==
    /\ ~i.IsDone /\ ~i.IsUnpredicable
    /\ i.Predicate # <<>> => Len(i.Predicate) <= 2 /\ Subsumes(i.Predicate, Pred)
    /\ i.BrCond # <<>> =>
          isTriangle /\ Subsumes(IF RevBranch THEN ReverseBranchCondition(i.BrCond) ELSE i.BrCond,
                                 ReverseBranchCondition(Pred))

IfcvtKind == [ICSimpleFalse |-> 1, ICSimple |-> 2, ICTriangleFRev |-> 3, ICTriangleRev |-> 4,
              ICTriangleFalse |-> 5, ICTriangle |-> 6, ICDiamond |-> 7]

\* The kinds of candidate that block b, with a conditional branch, is the head of.
Found(all, b) ==
    LET T == all[b].TrueBB
        F == all[b].FalseBB
        Cond == all[b].BrCond
        RevCond == ReverseBranchCondition(Cond)
        worth(x) == x \in pays /\ f.body[x] # <<>>
        triangle(x, y, c, rev) ==
            ValidTriangle(all, x, y, rev) /\ worth(x) /\ FeasibilityAnalysis(all[x], c, TRUE, rev)
        simple(x, c) ==
            ValidSimple(all, x) /\ worth(x) /\ FeasibilityAnalysis(all[x], c, FALSE, FALSE)
    IN  {k \in DOMAIN IfcvtKind :
            \/ k = "ICDiamond" /\ ValidDiamond(all, T, F) /\ worth(T) /\ worth(F)
                  /\ FeasibilityAnalysis(all[T], Cond, FALSE, FALSE)
                  /\ FeasibilityAnalysis(all[F], RevCond, FALSE, FALSE)
            \/ k = "ICTriangle" /\ triangle(T, F, Cond, FALSE)
            \/ k = "ICTriangleRev" /\ triangle(T, F, Cond, TRUE)
            \/ k = "ICSimple" /\ simple(T, Cond)
            \/ k = "ICTriangleFalse" /\ triangle(F, T, RevCond, FALSE)
            \/ k = "ICTriangleFRev" /\ triangle(F, T, RevCond, TRUE)
            \/ k = "ICSimpleFalse" /\ simple(F, RevCond)}

\* Does the block to be predicated have a predicate already?
NeedSub(all, b, k) ==
    \/ k \notin {"ICSimpleFalse", "ICTriangleFalse", "ICTriangleFRev"}
          /\ all[all[b].TrueBB].Predicate # <<>>
    \/ k \notin {"ICSimple", "ICTriangle", "ICTriangleRev"}
          /\ all[all[b].FalseBB].Predicate # <<>>

Infos ==
    [IsDone : BOOLEAN, IsBeingAnalyzed : BOOLEAN, IsAnalyzed : BOOLEAN, IsEnqueued : BOOLEAN,
     IsBrAnalyzable : BOOLEAN, HasFallThrough : BOOLEAN, IsUnpredicable : BOOLEAN,
     TrueBB : Blocks \cup {None}, FalseBB : Blocks \cup {None},
     BrCond : {<<>>} \cup [1 .. 1 -> CondCodes], Predicate : Seq(CondCodes)]
IfcvtToken == [BB : Blocks, Kind : DOMAIN IfcvtKind, NeedSubsumption : BOOLEAN]

\* The analysis so far: of the blocks, and the tokens.
Analyses == [info : [Blocks -> Infos], tokens : SUBSET IfcvtToken]

Begin(s, b) ==
    [s EXCEPT !.info[b] =
        [ScanInstructions(b, @, AnalyzeBranch(f, b, FALSE)) EXCEPT !.IsBeingAnalyzed = TRUE]]
Finish(s, b) == [s EXCEPT !.info[b].IsBeingAnalyzed = FALSE, !.info[b].IsAnalyzed = TRUE]
Enqueue(s, b) ==
    [s EXCEPT !.info[b].IsEnqueued = Found(s.info, b) # {},
              !.tokens = @ \cup {[BB |-> b, Kind |-> k, NeedSubsumption |-> NeedSub(s.info, b, k)]
                                    : k \in Found(s.info, b)}]

\* Block b; deeper is the analysis of the blocks it goes to.
Analyze(s, b, deeper) ==
    LET begun == Begin(s, b)
        i == begun.info[b]
        below == deeper[deeper[begun][i.TrueBB]][i.FalseBB]
    IN  IF s.info[b].IsAnalyzed \/ s.info[b].IsBeingAnalyzed THEN s
        ELSE IF \/ ~i.IsBrAnalyzable \/ i.BrCond = <<>> \/ i.IsDone
                \/ b \in {i.TrueBB, i.FalseBB} \/ i.FalseBB = None
        THEN Finish(begun, b)
        ELSE IF below.info[i.TrueBB].IsDone /\ below.info[i.FalseBB].IsDone THEN Finish(below, b)
        ELSE Finish(Enqueue(below, b), b)

\* The calls are nested no deeper than there are blocks: at each one block more is
\* being analyzed.
AnalyzeBlock[depth \in 0 .. Len(f.layout)] ==
    [s \in Analyses |-> [b \in Blocks |->
        IF depth = 0 THEN s ELSE Analyze(s, b, AnalyzeBlock[depth - 1])]]

\* All blocks, in layout order.
AllAnalyzed ==
    LET upTo[i \in 0 .. Len(f.layout)] ==
            IF i = 0 THEN [info |-> info, tokens |-> {}]
            ELSE AnalyzeBlock[Len(f.layout)][upTo[i - 1]][f.layout[i]]
    IN  upTo[Len(f.layout)]

AnalyzeBlocks ==
    /\ phase = "analyze"
    /\ \E s \in {AllAnalyzed} : info' = s.info /\ Tokens' = s.tokens
    /\ phase' = "convert" /\ Change' = FALSE
    /\ UNCHANGED <<f, predicate, kind, pays, meant>>
-----------------------------------------------------------------------------
(* Conversion.                                                             *)

canFallThroughTo(g, b, to) ==
    /\ Position(g, b) < Position(g, to)
    /\ \A p \in Position(g, b) + 1 .. Position(g, to) - 1 :
          /\ g.body[g.layout[p]] = <<>> /\ g.term[g.layout[p]] = <<>>
          /\ isSuccessor(g, g.layout[p - 1], g.layout[p])

\* All the instructions of block from, of info i, go to the end of block to.
MergeBlocks(g, to, from, i, AddEdges) ==
    LET moved == [g EXCEPT !.body[to] = @ \o g.body[from], !.body[from] = <<>>,
                           !.term[to] = @ \o g.term[from], !.term[from] = <<>>]
        NBB == After(g, from)
        drop(h, s) == removeSuccessor(h, from, SelectInSeq(h.succs[from], LAMBDA x : x = s))
        cut[k \in 0 .. Len(g.succs[from])] ==
            IF k = 0 THEN moved
            ELSE LET s == g.succs[from][k]
                 IN  IF i.HasFallThrough /\ s = NBB THEN cut[k - 1]
                     ELSE IF AddEdges THEN addSuccessor(drop(cut[k - 1], s), to, s)
                     ELSE drop(cut[k - 1], s)
        h == cut[Len(g.succs[from])]
    IN  IF NBB # None /\ ~isSuccessor(h, from, NBB) THEN addSuccessor(h, from, NBB) ELSE h

\* Mutant: the edges stay as they were.
MutantRemoveExtraEdges(g, b) == g
RemoveExtraEdges(g, b) ==
    LET A == AnalyzeBranch(g, b, FALSE)
    IN  IF A.fail THEN g ELSE CorrectExtraCFGEdges(g, b, A.TBB, A.FBB, A.Cond # <<>>)

\* The order of tokens; those at the end are worked off first.
IfcvtTokenCmp(c, d) ==
    IF c.NeedSubsumption # d.NeedSubsumption THEN d.NeedSubsumption
    ELSE IF c.Kind # d.Kind THEN IfcvtKind[c.Kind] < IfcvtKind[d.Kind]
    ELSE c.BB < d.BB
IsLast(token) == token \in Tokens /\ \A t \in Tokens \ {token} : IfcvtTokenCmp(t, token)

\* The token was evicted, or its block is done with.
Skip ==
    /\ phase = "convert"
    /\ \E token \in Tokens :
          /\ IsLast(token)
          /\ info[token.BB].IsDone \/ ~info[token.BB].IsEnqueued
          /\ info' = [info EXCEPT ![token.BB].IsEnqueued = FALSE]
          /\ Tokens' = Tokens \ {token}
    /\ UNCHANGED <<f, predicate, phase, Change, kind, pays, meant>>

Cvt(token) == IF token.Kind = "ICTriangle" THEN info[token.BB].TrueBB ELSE info[token.BB].FalseBB
\* Mutant: the condition is never reversed.
MutantCvtCond(token) == info[token.BB].BrCond
CvtCond(token) ==
    IF token.Kind = "ICTriangle" THEN info[token.BB].BrCond
    ELSE ReverseBranchCondition(info[token.BB].BrCond)

\* The instructions of block C that always ran run only where the condition holds.
PredicateBlock(C, Cond) ==
    [u \in Blocks |-> IF Contains(f.body[C], u) /\ predicate[u] = "AL" THEN Cond[1]
                      ELSE predicate[u]]

\* The function once block C has been merged into block b, and what is done about
\* block NextBB, to which both went.
Merged(b, C) == MergeBlocks(RemoveBranch(RemoveBranch(f, C), b), b, C, info[C], FALSE)
MergesNext(g, b, NextBB) ==
    ~canFallThroughTo(g, b, NextBB) /\ Len(g.preds[NextBB]) = 1 /\ ~info[NextBB].HasFallThrough
Continued(g, b, NextBB) ==
    IF canFallThroughTo(g, b, NextBB) THEN g
    ELSE IF MergesNext(g, b, NextBB) THEN MergeBlocks(g, b, NextBB, info[NextBB], TRUE)
    ELSE InsertBranch(g, b, NextBB, None, <<>>)

\* The blocks before b are to be analyzed again.
InvalidatePreds(all, g, b) ==
    [x \in Blocks |-> IF Contains(g.preds[b], x) /\ ~all[x].IsDone /\ x # b
                      THEN [all[x] EXCEPT !.IsAnalyzed = FALSE, !.IsEnqueued = FALSE]
                      ELSE all[x]]

\* What is known of block b once it has swallowed block C.
Absorb(all, b, C) ==
    [all EXCEPT ![b].Predicate = @ \o all[C].Predicate, ![b].IsAnalyzed = FALSE,
                ![b].HasFallThrough = all[C].HasFallThrough,
                ![C].Predicate = <<>>, ![C].IsAnalyzed = FALSE]
\* Mutant: the other tokens of block b stay in the queue.
MutantUpdated(b, C, NextBB, Cond, falls, merges) ==
    LET merged == Absorb([info EXCEPT ![C].Predicate = @ \o Cond], b, C)
    IN  IF falls THEN merged
        ELSE [merged EXCEPT ![b].HasFallThrough = FALSE, ![b].IsDone = TRUE]
\* The same of block b converted with C, and perhaps merged with NextBB.  It is done
\* with unless it falls through.
Updated(b, C, NextBB, Cond, falls, merges) ==
    LET merged == Absorb([info EXCEPT ![b].IsEnqueued = FALSE, ![C].Predicate = @ \o Cond], b, C)
    IN  CASE falls  -> merged
          [] merges -> [Absorb(merged, b, NextBB) EXCEPT ![b].IsDone = TRUE]
          [] ~falls /\ ~merges -> [merged EXCEPT ![b].HasFallThrough = FALSE, ![b].IsDone = TRUE]

IfConvertTriangle ==
    /\ phase = "convert"
    /\ \E token \in Tokens :
          /\ IsLast(token) /\ token.Kind \in {"ICTriangle", "ICTriangleFalse"}
          /\ ~info[token.BB].IsDone /\ info[token.BB].IsEnqueued
          /\ \E b \in {token.BB}, C \in {Cvt(token)}, Cond \in {CvtCond(token)} :
                \E NextBB \in {info[b].TrueBB, info[b].FalseBB} \ {C}, g \in {Merged(b, C)} :
                    IF info[C].IsDone
                    THEN /\ info' = [info EXCEPT ![b].IsEnqueued = FALSE, ![b].IsAnalyzed = FALSE,
                                                 ![C].IsAnalyzed = FALSE]
                         /\ UNCHANGED <<f, predicate, Change>>
                    ELSE /\ f' = RemoveExtraEdges(Continued(g, b, NextBB), b)
                         /\ predicate' = PredicateBlock(C, Cond)
                         /\ \E falls \in {canFallThroughTo(g, b, NextBB)},
                               merges \in {MergesNext(g, b, NextBB)} :
                               info' = [InvalidatePreds(Updated(b, C, NextBB, Cond, falls, merges), f', b)
                                           EXCEPT ![C].IsDone = TRUE, ![NextBB].IsDone = @ \/ merges]
                         /\ Change' = TRUE
          /\ Tokens' = Tokens \ {token}
    /\ UNCHANGED <<phase, kind, pays, meant>>

\* Mutant: the pass starts again whether or not anything was converted.
MutantNextRound ==
    /\ phase = "convert" /\ Tokens = {} /\ phase' = "analyze"
    /\ UNCHANGED <<f, predicate, info, Tokens, Change, kind, pays, meant>>
NextRound ==
    /\ phase = "convert" /\ Tokens = {}
    /\ phase' = IF Change THEN "analyze" ELSE "done"
    /\ UNCHANGED <<f, predicate, info, Tokens, Change, kind, pays, meant>>

Done == phase = "done" /\ UNCHANGED vars

Next == AnalyzeBlocks \/ Skip \/ IfConvertTriangle \/ NextRound \/ Done

Spec == Init /\ [][Next]_vars
\* The pass runs on until it is done: WF_vars(Next), with what enables a step that
\* changes something written out; the absence of deadlock shows there is one.
FairSpec == Spec /\ ([]<>(phase = "done") \/ []<><<Next>>_vars)
-----------------------------------------------------------------------------
(***************************************************************************)
(* Properties.                                                             *)
(***************************************************************************)

\* The variables have their types; the recursive analysis leaves no block half done.
TypeOK ==
    /\ IsFunction(f) /\ predicate \in [Blocks -> CondCodes]
    /\ phase \in {"analyze", "convert", "done"} /\ Change \in BOOLEAN
    /\ info \in [Blocks -> Infos] /\ Tokens \subseteq IfcvtToken
    /\ \A b \in Blocks : ~info[b].IsBeingAnalyzed

\* No code is lost or copied, and no assertion of a hook or of MachineBasicBlock
\* fails.
CodeKept ==
    /\ \A u \in Blocks \cap DOMAIN meant :
          Cardinality({b \in Blocks : Contains(f.body[b], u)}) = 1
    /\ \A b \in Blocks : ~Contains(f.term[b], Failed)

\* From the end of every stretch of code, and from the entry, control goes where
\* it went to begin with, whatever the flags, when the instructions whose predicate
\* does not hold are passed over; and all the code is there once.
RunsAsMeant ==
    /\ CodeKept
    /\ \A u \in Code(f) \cup {0} : \A z \in Flagsets :
          u = 0 \/ Holds(predicate[u], z) => Means(f, predicate)[u][z] = meant[u][z]

\* The edges are the ways that control can go, those of emptied blocks included, and
\* each is in the lists of both blocks as often.
EdgesTrue ==
    /\ TypeOK
    /\ \A b \in Blocks : ToSet(f.succs[b]) = Destinations(f, kind, b)
    /\ EdgesPaired(f)

\* With this target's hooks every token that is converted is of a triangle whose
\* block is entered from the head alone, falls through, and was not predicated.
TargetCases ==
    phase = "convert" =>
        \A token \in Tokens : IsLast(token) /\ info[token.BB].IsEnqueued =>
            LET C == Cvt(token)
            IN  /\ token.Kind \in {"ICTriangle", "ICTriangleFalse"}
                /\ Len(f.preds[C]) = 1 /\ f.term[C] = <<>> /\ info[C].FalseBB = None
                /\ \A u \in ToSet(f.body[C]) : predicate[u] = "AL"

\* What a token that has not been evicted was made from is still so.
TokensCurrent ==
    phase = "convert" =>
        \A token \in Tokens :
            LET b == token.BB
                A == AnalyzeBranch(f, b, FALSE)
            IN  info[b].IsEnqueued /\ ~info[b].IsDone =>
                    /\ A.TBB = info[b].TrueBB /\ A.Cond = info[b].BrCond
                    /\ ToSet(f.succs[b]) = {info[b].TrueBB, info[b].FalseBB}
                    /\ token.Kind \in Found(info, b)

\* Both: what the pass converts is what it has found and what this target allows.
TokensSound == TokensCurrent /\ TargetCases

\* The pass comes to an end: no block is analyzed and converted for ever.
Ends == <>(phase = "done")
=============================================================================
