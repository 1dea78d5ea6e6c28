------------------------------- MODULE MCStack -------------------------------
(* Two small programs that between them have every shape of prologue: one   *)
(* with a leaf, a function with stack arguments, a variadic function and    *)
(* their caller, and one that allocates dynamically and calls itself.       *)
EXTENDS ARCStack, TLC

CONSTANTS main, leaf, args, variadic, dynamic, T5

Function(frame, saved, calls) ==
    LET slots == Len(frame.objs) - Len(saved)
    IN  frame @@ [csi |-> [k \in 1 .. Len(saved) |->
                              [reg |-> saved[k], fi |-> slots + k - 1]],
                  calls |-> calls]
Site(f, n) == [fn |-> f, nargs |-> n]

Leaf == leaf :> Function(WordFrame(0, FALSE, 1, FALSE, 1, 0, FALSE), <<T5>>, {})

\* Stack arguments and variadic functions.
ArgsCode ==
    Leaf @@
    (main :> Function(WordFrame(0, FALSE, 1, FALSE, 0, 8, TRUE), <<>>,
                      {Site(args, 9), Site(variadic, 10)})) @@
    (args :> Function(WordFrame(9, FALSE, 1, FALSE, 1, 0, TRUE), <<T5>>,
                      {Site(leaf, 0)})) @@
    (variadic :> Function(WordFrame(7, TRUE, 0, FALSE, 0, 4, TRUE), <<>>,
                          {Site(args, 9)}))

\* Dynamic allocation and recursion.
DynamicCode ==
    Leaf @@
    (dynamic :> Function(WordFrame(0, FALSE, 1, TRUE, 1, 0, TRUE), <<T5>>,
                         {Site(leaf, 0), Site(dynamic, 0)}))

MCCode == ArgsCode @@ DynamicCode
MCMaxDepth == (main :> 3) @@ (dynamic :> 2)
=============================================================================
