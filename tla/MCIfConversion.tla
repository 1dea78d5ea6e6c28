--------------------------- MODULE MCIfConversion ---------------------------
EXTENDS IfConversion

\* The first block is nobody's target, and a conditional branch follows a CMP.  Only
\* the branch keeps code before a jump or a return from being predicated.
Fall(kinds) == {Shape(k, <<>>, TRUE) : k \in kinds}
Jump(kinds, to) == {Shape(k, <<B(x)>>, FALSE) : k \in kinds, x \in to}
Cond(kinds, to) == {Shape(k, <<BCC(x, "EQ")>>, TRUE) : k \in kinds, x \in to}
TwoWay(to) ==
    {Shape("cmp", <<BCC(x[1], "EQ"), B(x[2])>>, FALSE) : x \in {y \in to \X to : y[1] # y[2]}}
Ret == {Shape("alu", <<RET>>, FALSE)}
Dead == {Shape("noreturn", <<>>, FALSE)}
Entry(to) == Cond({"cmp"}, to) \cup TwoWay(to)

\* Four blocks, of which the second and third may end in every way.
LastOnes == Dead \cup Ret \cup Jump({"alu", "none"}, 2 .. 4) \cup TwoWay(2 .. 4)
AnyBlock == Dead \cup Ret \cup Jump({"alu"}, 2 .. 4) \cup TwoWay(2 .. 4)
         \cup Fall({"alu", "code"}) \cup Cond({"cmp"}, 2 .. 4)
Four == {<<a, b, c, d>> : a \in Entry(2 .. 4), b, c \in AnyBlock, d \in LastOnes}

\* Two triangles, one after the other or one in the other.
Five == {<<a, b, c, d, e>> :
            a \in Entry(2 .. 5), b, c, d \in Fall({"alu"}) \cup Cond({"cmp"}, 2 .. 5),
            e \in Ret \cup Jump({"alu"}, {2})}

FourAndFive == Four \cup Five
=============================================================================
