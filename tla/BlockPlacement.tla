---------------------------- MODULE BlockPlacement ----------------------------
(***************************************************************************)
(* Branch folding and then block placement, as TargetPassConfig orders     *)
(* them.  MachineBlockPlacement::buildCFGChains puts the blocks that       *)
(* folding has left into an order it has chosen: they are spliced into     *)
(* place one by one, and each time the terminator of the block before,     *)
(* whose successor in the layout is now known, is updated.  The order is   *)
(* any that starts with the entry: the probabilities and loops it is       *)
(* chosen by are left out.  (If-conversion, which runs in between, is      *)
(* IfConversion's subject.)                                                *)
(***************************************************************************)
EXTENDS BranchFolding

VARIABLE placed     \* the part of the chain that is in place
allVars == <<vars, placed>>

PassesInit == Init /\ placed = <<>>

\* After BranchFolding's "done" phase is "place", and in the end "placed".
Placing(g, where) ==
    /\ f' = g /\ phase' = where
    /\ UNCHANGED <<number, MBB, I, Prior, Cur, MadeChange, kind, meant>>

\* A function of one block is left as it is.
SkipSingle ==
    /\ phase = "done" /\ Len(f.layout) = 1
    /\ placed' = f.layout /\ Placing(f, "placed")

\* A block that cannot be analyzed is left as it is.
Updated(g, b, A) == IF A.fail THEN g ELSE updateTerminator(g, b, A)

Splice(b) ==
    IF f.layout[Len(placed) + 1] = b THEN f ELSE moveBefore(f, b, f.layout[Len(placed) + 1])

Place(b) ==
    /\ phase \in {"done", "place"} /\ Len(f.layout) > 1
    /\ b \notin ToSet(placed) /\ (placed = <<>> => b = Head(f.layout))
    /\ Placing(IF placed = <<>> THEN Splice(b)
               ELSE Updated(Splice(b), Last(placed),
                            AnalyzeBranch(Splice(b), Last(placed), FALSE)), "place")
    /\ placed' = Append(placed, b)

FixupLast ==
    /\ phase = "place" /\ Len(placed) = Len(f.layout)
    /\ Placing(Updated(f, Last(f.layout), AnalyzeBranch(f, Last(f.layout), FALSE)), "placed")
    /\ UNCHANGED placed

Placed == phase = "placed" /\ UNCHANGED allVars

PassesNext ==
    \/ Next /\ UNCHANGED placed
    \/ SkipSingle \/ (\E b \in InLayout(f) : Place(b)) \/ FixupLast
    \/ Placed

PassesSpec == PassesInit /\ [][PassesNext]_allVars
\* The passes run on until they are done.  This is WF_allVars(PassesNext), with what
\* enables a step that changes something written out: that there is one, the absence
\* of deadlock shows.
FairPasses == PassesSpec /\ ([]<>(phase = "placed") \/ []<><<PassesNext>>_allVars)
-----------------------------------------------------------------------------
(***************************************************************************)
(* Properties.                                                             *)
(***************************************************************************)

\* From the function's entry and from the end of every stretch of code that is left,
\* control goes where it went to begin with, whatever the flags, after every step of
\* branch folding and again when all blocks are in place, and no assertion fails.
KeepsMeaning == (phase # "place" => GoesAsMeant) /\ NoAssertion

\* At the end the blocks lie as the chain says, and no branch goes to the block after
\* it: only a conditional one may, both of whose ways led there, which branch folding
\* looks for in every block but the last.
PlacedAndTrimmed ==
    phase = "placed" =>
        /\ f.layout = placed
        /\ \A b \in InLayout(f) : \A i \in DOMAIN f.term[b] :
              isLayoutSuccessor(f, b, f.term[b][i].to) =>
                  f.term[b][i].op = "BCC" /\ ToSet(f.succs[b]) = {f.term[b][i].to}

\* Both: what each pass promises of the code that it hands on.
FoldedAndPlaced == Folded /\ PlacedAndTrimmed

\* OptimizeFunction returns, and so does placement: no blocks swap places for ever,
\* no branch is turned to and fro.
Ends == <>(phase = "placed")
=============================================================================
