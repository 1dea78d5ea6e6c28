---------------------------- MODULE ARCCondCodes ----------------------------
(***************************************************************************)
(* The condition codes of the ARCompact back end: the flags a CMP leaves   *)
(* in STATUS32, the codes that test them, the ISD comparison each code     *)
(* stands for, and the two relations between codes that the machine passes *)
(* use.  A word is a number below 2 * Half; Half is 2^31 on the target.    *)
(* Tables are records, so that a code outside a switch is outside its      *)
(* table's domain, where the program reaches llvm_unreachable().           *)
(***************************************************************************)
EXTENDS Integers

CONSTANT Half       \* the words with the sign bit clear are 0 .. Half - 1
ASSUME HalfAssumption == Half \in Nat \ {0}

Word == 0 .. 2 * Half - 1
Signed(x) == IF x < Half THEN x ELSE x - 2 * Half

-----------------------------------------------------------------------------
(* The comparisons of instruction selection.                               *)

\* The L, G and E bits of an ISD::CondCode; only integer codes are listed.
Accepts == [SETEQ |-> {"E"}, SETNE |-> {"L", "G"},
            SETLT |-> {"L"}, SETLE |-> {"L", "E"},
            SETGT |-> {"G"}, SETGE |-> {"G", "E"},
            SETULT |-> {"L"}, SETULE |-> {"L", "E"},
            SETUGT |-> {"G"}, SETUGE |-> {"G", "E"}]
ISDCodes == DOMAIN Accepts
isUnsignedIntSetCC(cc) == cc \in {"SETULT", "SETULE", "SETUGT", "SETUGE"}

Order(x, y) == CASE x < y -> "L" [] x > y -> "G" [] OTHER -> "E"
Compares(cc, a, b) ==
    (IF isUnsignedIntSetCC(cc) THEN Order(a, b)
                               ELSE Order(Signed(a), Signed(b))) \in Accepts[cc]

\* Flips the L, G and E bits.
getSetCCInverse ==
    [SETEQ |-> "SETNE", SETNE |-> "SETEQ",
     SETLT |-> "SETGE", SETLE |-> "SETGT", SETGT |-> "SETLE", SETGE |-> "SETLT",
     SETULT |-> "SETUGE", SETULE |-> "SETUGT",
     SETUGT |-> "SETULE", SETUGE |-> "SETULT"]

-----------------------------------------------------------------------------
(* The flags and the codes of the processor.                               *)

CondCodes == {"AL", "EQ", "NE", "P", "N", "LO", "HS", "V", "NV",
              "GT", "GE", "LT", "LE", "HI", "LS", "PNZ"}
Flags == {"Z", "N", "C", "V"}

\* CMP subtracts and keeps only the flags: zero, negative, borrow, overflow.
Difference(a, b) == IF a >= b THEN a - b ELSE a - b + 2 * Half
Negative(x) == x >= Half
FlagsOfCMP(a, b) ==
    {f \in Flags :
        \/ f = "Z" /\ Difference(a, b) = 0
        \/ f = "N" /\ Negative(Difference(a, b))
        \/ f = "C" /\ a < b
        \/ f = "V" /\ Negative(a) # Negative(b)
                   /\ Negative(Difference(a, b)) # Negative(a)}

SameSign(f) == "N" \in f <=> "V" \in f
Holds(cc, f) ==
    \/ cc = "AL"
    \/ cc = "EQ"  /\ "Z" \in f
    \/ cc = "NE"  /\ "Z" \notin f
    \/ cc = "P"   /\ "N" \notin f
    \/ cc = "N"   /\ "N" \in f
    \/ cc = "LO"  /\ "C" \in f
    \/ cc = "HS"  /\ "C" \notin f
    \/ cc = "V"   /\ "V" \in f
    \/ cc = "NV"  /\ "V" \notin f
    \/ cc = "GT"  /\ SameSign(f) /\ "Z" \notin f
    \/ cc = "GE"  /\ SameSign(f)
    \/ cc = "LT"  /\ ~SameSign(f)
    \/ cc = "LE"  /\ ("Z" \in f \/ ~SameSign(f))
    \/ cc = "HI"  /\ "C" \notin f /\ "Z" \notin f
    \/ cc = "LS"  /\ ("C" \in f \/ "Z" \in f)
    \/ cc = "PNZ" /\ "N" \notin f /\ "Z" \notin f

\* Mutant: x > y as "positive, non-zero", right for y = 0 only.
MutantPositive == [SETEQ |-> "EQ", SETNE |-> "NE", SETLT |-> "LT",
                   SETLE |-> "LE", SETGT |-> "PNZ", SETGE |-> "GE",
                   SETULT |-> "LO", SETULE |-> "LS",
                   SETUGT |-> "HI", SETUGE |-> "HS"]

\* The code that EmitCMP() pairs with the CMP it emits.
EmitCMP == [SETEQ |-> "EQ", SETNE |-> "NE",
            SETLT |-> "LT", SETLE |-> "LE", SETGT |-> "GT", SETGE |-> "GE",
            SETULT |-> "LO", SETULE |-> "LS", SETUGT |-> "HI", SETUGE |-> "HS"]

getOppositeCondition ==
    [EQ |-> "NE", NE |-> "EQ", P |-> "N", N |-> "P", LO |-> "HS", HS |-> "LO",
     V |-> "NV", NV |-> "V", GT |-> "LE", GE |-> "LT", LT |-> "GE", LE |-> "GT",
     HI |-> "LS", LS |-> "HI"]

\* Mutant: the two predicates the wrong way round.
MutantSubsumed(cc1, cc2) ==
    \/ cc1 = cc2
    \/ cc2 = "AL"
    \/ cc2 = "HS" /\ cc1 = "HI"
    \/ cc2 = "LS" /\ cc1 \in {"LO", "EQ"}
    \/ cc2 = "GE" /\ cc1 = "GT"
    \/ cc2 = "LE" /\ cc1 = "LT"

\* Whenever cc2 passes, so does cc1; it may answer FALSE for codes that do.
SubsumesPredicate(cc1, cc2) ==
    \/ cc1 = cc2
    \/ cc1 = "AL"
    \/ cc1 = "HS" /\ cc2 = "HI"
    \/ cc1 = "LS" /\ cc2 \in {"LO", "EQ"}
    \/ cc1 = "GE" /\ cc2 = "GT"
    \/ cc1 = "LE" /\ cc2 = "LT"
=============================================================================
