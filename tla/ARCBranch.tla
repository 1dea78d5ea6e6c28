------------------------------ MODULE ARCBranch ------------------------------
(***************************************************************************)
(* A machine function as the passes over branches see it, and what those   *)
(* passes do to it: the ARCompact branch hooks (AnalyzeBranch,             *)
(* RemoveBranch, InsertBranch, ReverseBranchCondition) and the operations  *)
(* of MachineBasicBlock on code and edges.                                 *)
(*                                                                         *)
(* A function f is a record: its blocks in layout order, and for each its  *)
(* body (the stretches of code in it), its terminators, and the lists of   *)
(* its successors and predecessors.  A block is a number; the stretch of   *)
(* code that starts out in block b is called b.  There are no landing pads *)
(* and no blocks whose address is taken; debug values are left out.        *)
(***************************************************************************)
EXTENDS ARCCondCodes, SequencesExt

None == 0       \* no block

B(to) == [op |-> "B", to |-> to, cc |-> "AL"]
BCC(to, cc) == [op |-> "BCC", to |-> to, cc |-> cc]
RET == [op |-> "RET", to |-> None, cc |-> "AL"]
\* Where an assertion of the program has failed.
Failed == [op |-> "assert", to |-> None, cc |-> "AL"]

Asserting(f, b, holds) == IF holds THEN f ELSE [f EXCEPT !.term[b] = Append(@, Failed)]
-----------------------------------------------------------------------------
(* Layout.                                                                 *)

Position(f, b) == SelectInSeq(f.layout, LAMBDA x : x = b)
After(f, b) == IF b = Last(f.layout) THEN None ELSE f.layout[Position(f, b) + 1]
Before(f, b) == f.layout[Position(f, b) - 1]
isLayoutSuccessor(f, b, to) == to # None /\ After(f, b) = to

moveAfter(f, b, a) ==
    LET rest == Remove(f.layout, b)
        p == SelectInSeq(rest, LAMBDA x : x = a)
    IN  [f EXCEPT !.layout = InsertAt(rest, p + 1, b)]
moveBefore(f, b, a) ==
    LET rest == Remove(f.layout, b)
        p == SelectInSeq(rest, LAMBDA x : x = a)
    IN  [f EXCEPT !.layout = InsertAt(rest, p, b)]
moveLast(f, b) == [f EXCEPT !.layout = Append(Remove(@, b), b)]
-----------------------------------------------------------------------------
(* The hooks of ARCompactInstrInfo.                                        *)

NoBranch == [fail |-> FALSE, TBB |-> None, FBB |-> None, Cond |-> <<>>, term |-> <<>>]

\* One terminator i, given what those below it came to.  term collects the
\* terminators that are left in the block.
AnalyzeOne(f, b, AllowModify, i, r) ==
    LET kept == <<i>> \o r.term
        here == [r EXCEPT !.term = kept]
    IN  CASE r.fail -> here
          [] ~r.fail /\ i.op \in {"RET", "assert"} -> [here EXCEPT !.fail = TRUE]
          [] ~r.fail /\ i.op = "B" ->
                IF ~AllowModify THEN [here EXCEPT !.TBB = i.to]
                ELSE IF isLayoutSuccessor(f, b, i.to) THEN NoBranch
                ELSE [NoBranch EXCEPT !.TBB = i.to, !.term = <<i>>]
          [] ~r.fail /\ i.op = "BCC" ->
                IF r.Cond = <<>>
                THEN [here EXCEPT !.FBB = r.TBB, !.TBB = i.to, !.Cond = <<i.cc>>]
                ELSE [here EXCEPT !.fail = r.TBB # i.to \/ r.Cond # <<i.cc>>]

\* Reads the terminators from the last to the first.
AnalyzeBranch(f, b, AllowModify) ==
    LET from[i \in 1 .. Len(f.term[b]) + 1] ==
            IF i > Len(f.term[b]) THEN NoBranch
            ELSE AnalyzeOne(f, b, AllowModify, f.term[b][i], from[i + 1])
    IN  from[1]
\* The terminators it leaves.
Analyzed(f, b, A) == [f EXCEPT !.term[b] = A.term]

RemoveBranch(f, b) ==
    LET last == SelectLastInSeq(f.term[b], LAMBDA i : i.op \notin {"B", "BCC"})
    IN  [f EXCEPT !.term[b] = SubSeq(@, 1, last)]

InsertBranch(f, b, TBB, FBB, Cond) ==
    LET branches == IF Cond = <<>> THEN <<B(TBB)>>
                    ELSE IF FBB = None THEN <<BCC(TBB, Cond[1])>>
                    ELSE <<BCC(TBB, Cond[1]), B(FBB)>>
    IN  Asserting([f EXCEPT !.term[b] = @ \o branches], b,
                TBB # None /\ (Cond = <<>> => FBB = None))

ReverseBranchCondition(Cond) == <<getOppositeCondition[Cond[1]]>>

Rebranch(f, b, TBB, FBB, Cond) == InsertBranch(RemoveBranch(f, b), b, TBB, FBB, Cond)
-----------------------------------------------------------------------------
(* Edges.                                                                  *)

addSuccessor(f, b, s) ==
    [f EXCEPT !.succs[b] = Append(@, s), !.preds[s] = Append(@, b)]
\* The i-th edge of b.
removeSuccessor(f, b, i) ==
    [f EXCEPT !.succs[b] = RemoveAt(@, i), !.preds[f.succs[b][i]] = RemoveFirst(@, b)]
isSuccessor(f, b, s) == Contains(f.succs[b], s)

\* Of an edge given twice, the first stays.
CorrectExtraCFGEdges(f, b, TBB, FBB, isCond) ==
    LET DestA == IF TBB = None /\ FBB = None THEN After(f, b) ELSE TBB
        DestB == IF FBB = None /\ (TBB = None \/ isCond) THEN After(f, b) ELSE FBB
        extra == {i \in DOMAIN f.succs[b] :
                     \/ f.succs[b][i] \notin {DestA, DestB}
                     \/ \E j \in 1 .. i - 1 : f.succs[b][j] = f.succs[b][i]}
        without[i \in 1 .. Len(f.succs[b]) + 1] ==
            IF i > Len(f.succs[b]) THEN f
            ELSE IF i \in extra THEN removeSuccessor(without[i + 1], b, i) ELSE without[i + 1]
    IN  Asserting(without[1], b, FBB # None => TBB # None /\ isCond)

\* Mutant: only the code is changed.
MutantReplaceUses(f, b, Old, New) ==
    [f EXCEPT !.term[b] = [i \in DOMAIN @ |->
        IF @[i].to = Old THEN [@[i] EXCEPT !.to = New] ELSE @[i]]]

ReplaceUsesOfBlockWith(f, b, Old, New) ==
    LET g == [f EXCEPT !.term[b] = [i \in DOMAIN @ |->
                 IF @[i].to = Old THEN [@[i] EXCEPT !.to = New] ELSE @[i]]]
        edge == SelectInSeq(f.succs[b], LAMBDA s : s = Old)
    IN  IF Old = New \/ edge = 0 THEN Asserting(g, b, FALSE)
        ELSE addSuccessor(removeSuccessor(g, b, edge), b, New)

canFallThrough(f, b) ==
    LET next == After(f, b)
        A == AnalyzeBranch(f, b, FALSE)
    IN  /\ next # None
        /\ isSuccessor(f, b, next)
        /\ IF A.fail THEN Last(f.term[b]).op = "BCC"
           ELSE \/ A.TBB = None
                \/ next \in {A.TBB, A.FBB}
                \/ A.Cond # <<>> /\ A.FBB = None

\* AnalyzeBranch has said A of block b, which may not be where it was.  One of its
\* successors that no branch goes to is the one it fell through to.
updateTerminator(f, b, A) ==
    LET others == SelectSeq(f.succs[b], LAMBDA s : s # A.TBB)
        FallthroughBB == IF others = <<>> THEN None ELSE others[1]
    IN  IF f.succs[b] = <<>> THEN f
        ELSE IF A.Cond = <<>> /\ A.TBB # None
        THEN IF isLayoutSuccessor(f, b, A.TBB) THEN RemoveBranch(f, b) ELSE f
        ELSE IF A.Cond = <<>>
        THEN Asserting(IF isLayoutSuccessor(f, b, FallthroughBB) THEN f
                       ELSE InsertBranch(f, b, FallthroughBB, None, <<>>),
                       b, ~A.fail /\ Len(others) = 1)
        ELSE IF A.FBB # None
        THEN IF isLayoutSuccessor(f, b, A.TBB)
             THEN Rebranch(f, b, A.FBB, None, ReverseBranchCondition(A.Cond))
             ELSE IF isLayoutSuccessor(f, b, A.FBB) THEN Rebranch(f, b, A.TBB, None, A.Cond)
             ELSE f
        ELSE Asserting(
             IF FallthroughBB = None /\ canFallThrough(f, b) THEN RemoveBranch(f, b)
             ELSE IF isLayoutSuccessor(f, b, A.TBB)
             THEN Rebranch(f, b, FallthroughBB, None, ReverseBranchCondition(A.Cond))
             ELSE IF ~isLayoutSuccessor(f, b, FallthroughBB)
             THEN Rebranch(f, b, A.TBB, FallthroughBB, A.Cond)
             ELSE f,
             b, Len(others) <= 1)
-----------------------------------------------------------------------------
(* What a function means: where control goes from the end of each stretch  *)
(* of code, when the last comparison in it has the flags given.            *)

Returns == -1       \* to the caller
Spins == -2         \* nowhere: an empty loop

Flagsets == {{}, {"Z"}}

Taken(f, b, flags) ==
    LET i == SelectInSeq(f.term[b], LAMBDA t : Holds(t.cc, flags))
    IN  IF i = 0 THEN After(f, b)
        ELSE IF f.term[b][i].op = "RET" THEN Returns ELSE f.term[b][i].to

\* Blocks without code are passed over.
Land(f, to, flags) ==
    LET land[k \in 0 .. Len(f.layout), b \in Int] ==
            IF b <= 0 THEN b
            ELSE IF f.body[b] # <<>> THEN Head(f.body[b])
            ELSE IF k = 0 THEN Spins ELSE land[k - 1, Taken(f, b, flags)]
    IN  land[Len(f.layout), to]

\* Control after the stretch u, which is in block b.
Where(f, b, u, flags) ==
    IF u # Last(f.body[b])
    THEN f.body[b][SelectInSeq(f.body[b], LAMBDA x : x = u) + 1]
    ELSE Land(f, Taken(f, b, flags), flags)

InLayout(f) == ToSet(f.layout)
Code(f) == UNION {ToSet(f.body[b]) : b \in InLayout(f)}

\* Where control goes from the stretches of code of a set; 0 is the caller.
\* kind[u] is the kind of u.
Meaning(f, kind, code) ==
    [u \in code \cup {0} |-> [z \in Flagsets |->
        IF u = 0 THEN Land(f, Head(f.layout), z)
        ELSE IF kind[u] = "noreturn" THEN Returns
        ELSE Where(f, CHOOSE b \in InLayout(f) : Contains(f.body[b], u), u, z)]]

\* The blocks to which control may go from b.
Destinations(f, kind, b) ==
    IF f.body[b] # <<>> /\ kind[Last(f.body[b])] = "noreturn" THEN {}
    ELSE {Taken(f, b, z) : z \in Flagsets} \ {Returns}

\* In a function's layout no block stands twice, and its code, branches and edges are
\* about its blocks.
IsFunction(f) ==
    LET blocks == DOMAIN f.term
    IN  /\ InLayout(f) \subseteq blocks /\ Cardinality(InLayout(f)) = Len(f.layout)
        /\ \A b \in blocks :
              /\ ToSet(f.body[b]) \cup ToSet(f.succs[b]) \cup ToSet(f.preds[b]) \subseteq blocks
              /\ \A i \in ToSet(f.term[b]) : i.to \in blocks \cup {None}

\* In a function's edges: each in the lists of both blocks as often.
Times(list, x) == Cardinality({i \in DOMAIN list : list[i] = x})
EdgesPaired(f) ==
    \A b, c \in DOMAIN f.succs : Times(f.succs[b], c) = Times(f.preds[c], b)
-----------------------------------------------------------------------------
(* Functions to begin with.                                                *)

\* What a block is to begin with: the kind of its code, its terminators, and
\* whether control may leave it at its end.
Kinds == {"none", "code", "call", "noreturn"}
Shape(kind, term, falls) == [kind |-> kind, term |-> term, falls |-> falls]

\* The function made of shapes s.
Build(s) ==
    LET succs == [b \in DOMAIN s |->
            (IF s[b].term = <<RET>> THEN <<>> ELSE [i \in DOMAIN s[b].term |-> s[b].term[i].to])
                \o IF s[b].falls THEN <<b + 1>> ELSE <<>>]
        upTo[p \in 0 .. Len(s)] ==
            [b \in DOMAIN s |->
                IF p = 0 THEN <<>> ELSE upTo[p - 1][b] \o [i \in 1 .. Times(succs[p], b) |-> p]]
    IN  [layout |-> [b \in DOMAIN s |-> b],
         body |-> [b \in DOMAIN s |-> IF s[b].kind = "none" THEN <<>> ELSE <<b>>],
         term |-> [b \in DOMAIN s |-> s[b].term],
         succs |-> succs,
         preds |-> upTo[Len(s)]]

\* Every block can be reached: unreachable ones have been removed before.
Reached(g) ==
    LET reach[k \in 0 .. Len(g.layout)] ==
            IF k = 0 THEN {1}
            ELSE reach[k - 1] \cup UNION {ToSet(g.succs[b]) : b \in reach[k - 1]}
    IN  reach[Len(g.layout)]
=============================================================================
