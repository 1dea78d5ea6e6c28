--------------------------- MODULE MCBlockPlacement ---------------------------
EXTENDS BlockPlacement

\* The first block is nobody's target; the code before a conditional branch ends
\* with a comparison.
Fall(kinds) == {Shape(k, <<>>, TRUE) : k \in kinds}
Jump(kinds, to) == {Shape(k, <<B(x)>>, FALSE) : k \in kinds, x \in to}
Cond(to) == {Shape("code", <<BCC(x, "EQ")>>, TRUE) : x \in to}
TwoWay(to) == {Shape("code", <<BCC(x, "EQ"), B(y)>>, FALSE) : x, y \in to}
Ret == {Shape("code", <<RET>>, FALSE)}

\* Four blocks, the first with a conditional branch, that end in every possible way.
Last4 == {Shape("noreturn", <<>>, FALSE)} \cup Ret
         \cup Jump({"none", "code"}, 2 .. 4) \cup TwoWay(2 .. 4)
Any4 == Last4 \cup Fall({"none", "code", "call"}) \cup Cond(2 .. 4)
Four == {<<a, b, c, d>> : a \in Cond(2 .. 4), b, c \in Any4, d \in Last4}

\* Five blocks with up to three conditional branches.
Five ==
    {<<a, b, c, d, e>> :
        a \in Cond(2 .. 5), b \in TwoWay(3 .. 5) \cup Cond(2 .. 5),
        c \in Jump({"none"}, 2 .. 5) \cup Fall({"code"}),
        d \in Ret \cup Cond(2 .. 5) \cup Jump({"code"}, 2 .. 5), e \in Ret \cup Jump({"code"}, 2 .. 5)}

FourAndFive == Four \cup Five
=============================================================================
