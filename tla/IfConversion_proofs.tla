------------------------ MODULE IfConversion_proofs -------------------------
(***************************************************************************)
(* Proofs about if-conversion, for functions of any number of blocks.      *)
(*                                                                         *)
(* The inductive invariant IInv of the pass has three parts: the edges of  *)
(* the function are right and no code is in two places (FunctionRight);    *)
(* what is known of an analyzed block is what AnalyzeBranch says of it now *)
(* (InfoRight); and each token that has not been evicted stands for a      *)
(* triangle that is there (TokensRight).  Every conversion is then of such *)
(* a triangle and changes two blocks and two edges (ConversionIs), and the *)
(* recursive analysis visits every block once (AllAnalyzedIs, by induction *)
(* on the number of blocks not visited).                                   *)
(*                                                                         *)
(* What the function does stays the same because a conversion makes some   *)
(* walks through the blocks pass over block C (Bypass), and no others      *)
(* differ; RInv says so.                                                   *)
(*                                                                         *)
(* At the end, whether a conversion pays, for words of every width.        *)
(***************************************************************************)
EXTENDS IfConversion, ARCIfCvtCost, FiniteSetTheorems, WellFoundedInduction, TLAPS

-----------------------------------------------------------------------------
(* What AnalyzeBranch says of this target's terminators.                   *)

\* No element is at two places.
NoRepeats(s) == \A i, j \in DOMAIN s : s[i] = s[j] => i = j

\* The forms of terminators, with what branches go to and their conditions.
LEMMA TerminatorForms ==
    ASSUME NEW blocks, NEW t \in Terminators(blocks)
    PROVE  \/ t = <<>>
           \/ t = <<RET>>
           \/ \E x \in blocks : t = <<B(x)>>
           \/ \E x \in blocks, c \in DOMAIN getOppositeCondition : t = <<BCC(x, c)>>
           \/ \E x, y \in blocks, c \in DOMAIN getOppositeCondition : t = <<BCC(x, c), B(y)>>
  <1>1. \A i \in Jumps(blocks) : i.to \in blocks /\ i = B(i.to)
    BY DEF Jumps, B
  <1>2. \A i \in CondJumps(blocks) : i.to \in blocks /\ i.cc \in DOMAIN getOppositeCondition /\ i = BCC(i.to, i.cc)
    BY DEF CondJumps, BCC
  <1>3. CASE t \in [1 .. 1 -> Jumps(blocks) \cup CondJumps(blocks)]
    <2>1. t = <<t[1]>> /\ (t[1] \in Jumps(blocks) \/ t[1] \in CondJumps(blocks))
      BY <1>3
    <2> QED BY <2>1, <1>1, <1>2
  <1>4. CASE t \in CondJumps(blocks) \X Jumps(blocks)
    <2>1. t = <<t[1], t[2]>> /\ t[1] \in CondJumps(blocks) /\ t[2] \in Jumps(blocks)
      BY <1>4
    <2> QED BY <2>1, <1>1, <1>2
  <1> QED BY <1>3, <1>4 DEF Terminators

\* Two of them the other way round.
LEMMA FormsAreTerminators ==
    ASSUME NEW blocks
    PROVE  /\ <<>> \in Terminators(blocks)
           /\ \A x \in blocks : <<B(x)>> \in Terminators(blocks)
  <1>1. \A x \in blocks : B(x) \in Jumps(blocks)
    BY DEF Jumps, B
  <1>2. \A i \in Jumps(blocks) : <<i>> \in [1 .. 1 -> Jumps(blocks) \cup CondJumps(blocks)]
    OBVIOUS
  <1> QED BY <1>1, <1>2 DEF Terminators

\* AnalyzeBranch as it is called here: it changes nothing.
Read(g, b, i, r) == AnalyzeOne(g, b, FALSE, i, r)
Analysis(g, b) == AnalyzeBranch(g, b, FALSE)

\* What AnalyzeBranch has found when it has read the terminators from one on.
ReadFrom(g, b, from) ==
    [i \in 1 .. Len(g.term[b]) + 1 |->
        IF i > Len(g.term[b]) THEN NoBranch
        ELSE Read(g, b, g.term[b][i], from[i + 1])]

\* AnalyzeBranch reads from the last terminator to the first.
LEMMA AnalyzeReads ==
    ASSUME NEW g, NEW b
    PROVE  Analysis(g, b) = (CHOOSE from : from = ReadFrom(g, b, from))[1]
  BY DEF AnalyzeBranch, ReadFrom, Read, Analysis

\* One step of it.
LEMMA ReadFromAt ==
    ASSUME NEW g, NEW b, Len(g.term[b]) \in Nat, NEW from, from = ReadFrom(g, b, from)
    PROVE  /\ from[Len(g.term[b]) + 1] = NoBranch
           /\ \A i \in 1 .. Len(g.term[b]) :
                 from[i] = Read(g, b, g.term[b][i], from[i + 1])
  <1> DEFINE n == Len(g.term[b])
  <1>1. \A i \in 1 .. n + 1 : from[i] = IF i > n THEN NoBranch
                    ELSE Read(g, b, g.term[b][i], from[i + 1])
    BY DEF ReadFrom
  <1> HIDE DEF n
  <1>2. n \in Nat
    BY DEF n
  <1>3. n + 1 \in 1 .. n + 1 /\ n + 1 > n
    BY <1>2
  <1>4. \A i \in 1 .. n : i \in 1 .. n + 1 /\ ~(i > n)
    BY <1>2
  <1>5. from[n + 1] = NoBranch
    BY <1>1, <1>3
  <1>6. \A i \in 1 .. n : from[i] = Read(g, b, g.term[b][i], from[i + 1])
    BY <1>1, <1>4
  <1> QED BY <1>5, <1>6 DEF n

\* A block without terminators.
LEMMA AnalyzeNone ==
    ASSUME NEW g, NEW b, g.term[b] = <<>>
    PROVE  Analysis(g, b) = NoBranch
  <1> DEFINE W == [i \in 1 .. 1 |-> NoBranch]
  <1>1. Len(g.term[b]) = 0
    OBVIOUS
  <1>2. W = ReadFrom(g, b, W)
    BY <1>1 DEF ReadFrom
  <1> HIDE DEF W
  <1>3. PICK from : /\ from = ReadFrom(g, b, from)
                    /\ Analysis(g, b) = from[1]
    BY <1>2, AnalyzeReads
  <1>4. from[0 + 1] = NoBranch
    BY <1>1, <1>3, ReadFromAt
  <1> QED BY <1>3, <1>4

\* A block with one.
LEMMA AnalyzeSingle ==
    ASSUME NEW g, NEW b, NEW i1, g.term[b] = <<i1>>
    PROVE  Analysis(g, b) = Read(g, b, i1, NoBranch)
  <1> DEFINE W == [i \in 1 .. 2 |-> IF i > 1 THEN NoBranch ELSE Read(g, b, i1, NoBranch)]
  <1>1. Len(g.term[b]) = 1 /\ g.term[b][1] = i1
    OBVIOUS
  <1>2. W = ReadFrom(g, b, W)
    <2>1. W[2] = NoBranch
      OBVIOUS
    <2>2. \A i \in 1 .. 2 : (IF i > 1 THEN NoBranch ELSE Read(g, b, i1, NoBranch))
             = (IF i > 1 THEN NoBranch ELSE Read(g, b, g.term[b][i], W[i + 1]))
      <3> TAKE i \in 1 .. 2
      <3> HIDE DEF W
      <3>1. CASE i = 1
        BY <1>1, <2>1, <3>1
      <3>2. CASE i = 2
        BY <3>2
      <3> QED BY <3>1, <3>2
    <2> DEFINE V == [i \in 1 .. 2 |-> IF i > 1 THEN NoBranch ELSE Read(g, b, g.term[b][i], W[i + 1])]
    <2>3. W = V
      BY <2>2
    <2>4. 1 + 1 = 2
      OBVIOUS
    <2>5. V = ReadFrom(g, b, W)
      <3> HIDE DEF W
      <3> QED BY <1>1, <2>4 DEF ReadFrom
    <2> HIDE DEF W, V
    <2> QED BY <2>3, <2>5
  <1> HIDE DEF W
  <1>3. PICK from : /\ from = ReadFrom(g, b, from)
                    /\ Analysis(g, b) = from[1]
    BY <1>2, AnalyzeReads
  <1> DEFINE n == Len(g.term[b])
  <1>0. n \in Nat
    BY <1>1
  <1>a. n = 1
    BY <1>1
  <1>b. from[n + 1] = NoBranch /\ \A i \in 1 .. n : from[i] = Read(g, b, g.term[b][i], from[i + 1])
    BY ONLY <1>0, <1>3, ReadFromAt
  <1> HIDE DEF n
  <1>4. from[1 + 1] = NoBranch /\ \A i \in 1 .. 1 : from[i] = Read(g, b, g.term[b][i], from[i + 1])
    BY ONLY <1>a, <1>b
  <1>5. from[1] = Read(g, b, i1, from[1 + 1])
    BY <1>1, <1>4
  <1> QED BY <1>3, <1>4, <1>5

\* A block with two.
LEMMA AnalyzeDouble ==
    ASSUME NEW g, NEW b, NEW i1, NEW i2, g.term[b] = <<i1, i2>>
    PROVE  Analysis(g, b)
              = Read(g, b, i1, Read(g, b, i2, NoBranch))
  <1> DEFINE A2 == Read(g, b, i2, NoBranch)
             A1 == Read(g, b, i1, A2)
             W == [i \in 1 .. 3 |-> IF i > 2 THEN NoBranch ELSE IF i = 2 THEN A2 ELSE A1]
  <1>1. Len(g.term[b]) = 2 /\ g.term[b][1] = i1 /\ g.term[b][2] = i2
    OBVIOUS
  <1>2. W = ReadFrom(g, b, W)
    <2>1. W[3] = NoBranch /\ W[2] = A2
      OBVIOUS
    <2>2. \A i \in 1 .. 3 : (IF i > 2 THEN NoBranch ELSE IF i = 2 THEN A2 ELSE A1)
             = (IF i > 2 THEN NoBranch ELSE Read(g, b, g.term[b][i], W[i + 1]))
      <3> TAKE i \in 1 .. 3
      <3> HIDE DEF W
      <3>1. CASE i = 1
        BY <1>1, <2>1, <3>1
      <3>2. CASE i = 2
        BY <1>1, <2>1, <3>2
      <3>3. CASE i = 3
        BY <3>3
      <3> QED BY <3>1, <3>2, <3>3
    <2> DEFINE V == [i \in 1 .. 3 |-> IF i > 2 THEN NoBranch ELSE Read(g, b, g.term[b][i], W[i + 1])]
    <2>3. W = V
      BY <2>2
    <2>4. 2 + 1 = 3
      OBVIOUS
    <2>5. V = ReadFrom(g, b, W)
      <3> HIDE DEF W
      <3> QED BY <1>1, <2>4 DEF ReadFrom
    <2> HIDE DEF W, V
    <2> QED BY <2>3, <2>5
  <1> HIDE DEF W
  <1>3. PICK from : /\ from = ReadFrom(g, b, from)
                    /\ Analysis(g, b) = from[1]
    BY <1>2, AnalyzeReads
  <1> DEFINE n == Len(g.term[b])
  <1>0. n \in Nat
    BY <1>1
  <1>a. n = 2
    BY <1>1
  <1>b. from[n + 1] = NoBranch /\ \A i \in 1 .. n : from[i] = Read(g, b, g.term[b][i], from[i + 1])
    BY ONLY <1>0, <1>3, ReadFromAt
  <1> HIDE DEF n
  <1>4. from[2 + 1] = NoBranch /\ \A i \in 1 .. 2 : from[i] = Read(g, b, g.term[b][i], from[i + 1])
    BY ONLY <1>a, <1>b
  <1>5. from[2] = Read(g, b, i2, from[2 + 1])
    BY <1>1, <1>4
  <1>6. from[1] = Read(g, b, i1, from[1 + 1])
    BY <1>1, <1>4
  <1> QED BY <1>3, <1>4, <1>5, <1>6

\* A conditional branch before an unconditional one.
LEMMA AnalyzeOneAfterJump ==
    ASSUME NEW g, NEW b, NEW x, NEW y, NEW c
    PROVE  LET A == Read(g, b, BCC(x, c), Read(g, b, B(y), NoBranch))
           IN  A.fail \in BOOLEAN /\ ~A.fail /\ A.TBB = x /\ A.FBB = y /\ A.Cond = <<c>>
  <1> DEFINE A2 == Read(g, b, B(y), NoBranch)
             t == <<B(y)>> \o <<>>
  <1>1. A2 = [fail |-> FALSE, TBB |-> y, FBB |-> None, Cond |-> <<>>, term |-> t]
    BY DEF Read, AnalyzeOne, NoBranch, B
  <1> HIDE DEF A2, t
  <1>2. A2.fail \in BOOLEAN /\ ~A2.fail /\ A2.Cond = <<>> /\ A2.TBB = y
    BY <1>1
  <1> DEFINE k == <<BCC(x, c)>> \o A2.term
  <1>3. BCC(x, c).op = "BCC" /\ BCC(x, c).to = x /\ BCC(x, c).cc = c
    BY DEF BCC
  <1>4. Read(g, b, BCC(x, c), A2)
           = [[A2 EXCEPT !.term = k] EXCEPT !.FBB = A2.TBB, !.TBB = BCC(x, c).to, !.Cond = <<BCC(x, c).cc>>]
    BY <1>2, <1>3 DEF Read, AnalyzeOne
  <1> HIDE DEF k
  <1> DEFINE v == <<c>>
  <1>5. Read(g, b, BCC(x, c), A2) = [fail |-> FALSE, TBB |-> x, FBB |-> y, Cond |-> v, term |-> k]
    BY ONLY <1>1, <1>3, <1>4
  <1> HIDE DEF v
  <1>6. LET A == Read(g, b, BCC(x, c), A2) IN A.fail \in BOOLEAN /\ ~A.fail /\ A.TBB = x /\ A.FBB = y /\ A.Cond = v
    BY ONLY <1>5
  <1> QED BY ONLY <1>6 DEF A2, v

\* What AnalyzeBranch says of the terminators a block can have.
LEMMA AnalyzeForms ==
    ASSUME NEW g, NEW b
    PROVE  LET A == Analysis(g, b)
           IN  /\ g.term[b] = <<>> => A.fail \in BOOLEAN /\ ~A.fail /\ A.TBB = None /\ A.FBB = None /\ A.Cond = <<>>
               /\ g.term[b] = <<RET>> => A.fail \in BOOLEAN /\ A.fail /\ A.TBB = None /\ A.FBB = None /\ A.Cond = <<>>
               /\ \A x : g.term[b] = <<B(x)>> =>
                     A.fail \in BOOLEAN /\ ~A.fail /\ A.TBB = x /\ A.FBB = None /\ A.Cond = <<>>
               /\ \A x, c : g.term[b] = <<BCC(x, c)>> =>
                     A.fail \in BOOLEAN /\ ~A.fail /\ A.TBB = x /\ A.FBB = None /\ A.Cond = <<c>>
               /\ \A x, y, c : g.term[b] = <<BCC(x, c), B(y)>> =>
                     A.fail \in BOOLEAN /\ ~A.fail /\ A.TBB = x /\ A.FBB = y /\ A.Cond = <<c>>
  <1> DEFINE A == Analysis(g, b)
  <1>1. g.term[b] = <<>> => A.fail \in BOOLEAN /\ ~A.fail /\ A.TBB = None /\ A.FBB = None /\ A.Cond = <<>>
    <2> HAVE g.term[b] = <<>>
    <2>1. A = NoBranch
      BY AnalyzeNone
    <2> HIDE DEF A
    <2> QED BY <2>1 DEF NoBranch
  <1>2. g.term[b] = <<RET>> => A.fail \in BOOLEAN /\ A.fail /\ A.TBB = None /\ A.FBB = None /\ A.Cond = <<>>
    <2> HAVE g.term[b] = <<RET>>
    <2>1. A = Read(g, b, RET, NoBranch)
      BY AnalyzeSingle
    <2> QED BY <2>1 DEF Read, AnalyzeOne, NoBranch, RET
  <1>3. ASSUME NEW x, g.term[b] = <<B(x)>>
        PROVE  A.fail \in BOOLEAN /\ ~A.fail /\ A.TBB = x /\ A.FBB = None /\ A.Cond = <<>>
    <2>1. A = Read(g, b, B(x), NoBranch)
      BY AnalyzeSingle, <1>3
    <2> QED BY <2>1 DEF Read, AnalyzeOne, NoBranch, B
  <1>4. ASSUME NEW x, NEW c, g.term[b] = <<BCC(x, c)>>
        PROVE  A.fail \in BOOLEAN /\ ~A.fail /\ A.TBB = x /\ A.FBB = None /\ A.Cond = <<c>>
    <2>1. A = Read(g, b, BCC(x, c), NoBranch)
      BY AnalyzeSingle, <1>4
    <2> QED BY <2>1 DEF Read, AnalyzeOne, NoBranch, BCC
  <1>5. ASSUME NEW x, NEW y, NEW c, g.term[b] = <<BCC(x, c), B(y)>>
        PROVE  A.fail \in BOOLEAN /\ ~A.fail /\ A.TBB = x /\ A.FBB = y /\ A.Cond = <<c>>
    <2>1. A = Read(g, b, BCC(x, c), Read(g, b, B(y), NoBranch))
      BY AnalyzeDouble, <1>5
    <2> DEFINE R == Read(g, b, BCC(x, c), Read(g, b, B(y), NoBranch))
    <2>2. R.fail \in BOOLEAN /\ ~R.fail /\ R.TBB = x /\ R.FBB = y /\ R.Cond = <<c>>
      BY ONLY AnalyzeOneAfterJump
    <2>3. A = R
      BY <2>1
    <2> HIDE DEF A, R
    <2> QED BY ONLY <2>2, <2>3
  <1> HIDE DEF A
  <1>6. \A x : g.term[b] = <<B(x)>> => A.fail \in BOOLEAN /\ ~A.fail /\ A.TBB = x /\ A.FBB = None /\ A.Cond = <<>>
    BY <1>3
  <1>7. \A x, c : g.term[b] = <<BCC(x, c)>> => A.fail \in BOOLEAN /\ ~A.fail /\ A.TBB = x /\ A.FBB = None /\ A.Cond = <<c>>
    BY <1>4
  <1>8. \A x, y, c : g.term[b] = <<BCC(x, c), B(y)>> =>
                     A.fail \in BOOLEAN /\ ~A.fail /\ A.TBB = x /\ A.FBB = y /\ A.Cond = <<c>>
    BY <1>5
  <1> QED BY <1>1, <1>2, <1>6, <1>7, <1>8 DEF A
-----------------------------------------------------------------------------
(* Sequences.                                                              *)

\* The elements of a sequence are its values.
LEMMA Members ==
    ASSUME NEW S, NEW s \in Seq(S), NEW x
    PROVE  /\ x \in ToSet(s) <=> \E i \in 1 .. Len(s) : s[i] = x
           /\ Contains(s, x) <=> x \in ToSet(s)
           /\ ToSet(s) \subseteq S
           /\ \A i \in 1 .. Len(s) : s[i] \in ToSet(s)
           /\ x \in ToSet(s) => Len(s) > 0
  <1>1. DOMAIN s = 1 .. Len(s) /\ Len(s) \in Nat /\ \A i \in 1 .. Len(s) : s[i] \in S
    OBVIOUS
  <1>2. ToSet(s) = {s[i] : i \in 1 .. Len(s)}
    BY <1>1 DEF ToSet
  <1>3. Contains(s, x) <=> \E i \in 1 .. Len(s) : s[i] = x
    BY DEF Contains
  <1>4. x \in ToSet(s) <=> \E i \in 1 .. Len(s) : s[i] = x
    BY <1>2
  <1>5. x \in ToSet(s) => Len(s) > 0
    <2>1. ASSUME NEW i \in 1 .. Len(s) PROVE Len(s) > 0
      BY <1>1
    <2> QED BY <2>1, <1>4
  <1> QED BY <1>1, <1>2, <1>3, <1>4, <1>5

\* Where x is in s, 0 if nowhere.
IndexOf(s, x) == SelectInSeq(s, LAMBDA v : v = x)

\* Where an element is found.
LEMMA FirstAt ==
    ASSUME NEW S, NEW s \in Seq(S), NoRepeats(s), NEW i \in 1 .. Len(s)
    PROVE  IndexOf(s, s[i]) = i
  <1> DEFINE I == {j \in 1 .. Len(s) : s[j] = s[i]}
  <1>0. DOMAIN s = 1 .. Len(s)
    OBVIOUS
  <1>1. I = {i}
    BY <1>0 DEF NoRepeats
  <1>2. IndexOf(s, s[i]) = IF I # {} THEN CHOOSE x \in I : \A y \in I : x =< y ELSE 0
    BY DEF SelectInSeq, Min, IndexOf
  <1> HIDE DEF I
  <1>3. (CHOOSE x \in I : \A y \in I : x =< y) = i
    BY <1>1
  <1> QED BY <1>1, <1>2, <1>3

\* What is not found is not there.
LEMMA FirstNowhere ==
    ASSUME NEW S, NEW s \in Seq(S), NEW x, x \notin ToSet(s)
    PROVE  IndexOf(s, x) = 0
  <1>1. {j \in 1 .. Len(s) : s[j] = x} = {}
    BY Members
  <1> QED BY <1>1 DEF SelectInSeq, IndexOf

\* One place is removed: what comes after moves up.
LEMMA RemoveAtOf ==
    ASSUME NEW S, NEW s \in Seq(S), NEW i \in 1 .. Len(s)
    PROVE  LET r == RemoveAt(s, i)
           IN  /\ r \in Seq(S) /\ Len(r) = Len(s) - 1
               /\ \A j \in 1 .. Len(s) - 1 : r[j] = IF j < i THEN s[j] ELSE s[j + 1]
  <1> DEFINE p == SubSeq(s, 1, i - 1)
             q == SubSeq(s, i + 1, Len(s))
             r == RemoveAt(s, i)
  <1>1. p \in Seq(S) /\ Len(p) = i - 1 /\ \A j \in 1 .. i - 1 : p[j] = s[j]
    OBVIOUS
  <1>2. q \in Seq(S) /\ Len(q) = Len(s) - i /\ \A j \in 1 .. Len(s) - i : q[j] = s[j + i]
    OBVIOUS
  <1>3. r = p \o q
    BY DEF RemoveAt
  <1> HIDE DEF p, q, r
  <1>0. p \in Seq(S) /\ q \in Seq(S)
    BY <1>1, <1>2
  <1>4. r \in Seq(S) /\ Len(r) = Len(p) + Len(q)
    BY ONLY <1>0, <1>3
  <1>5. \A j \in 1 .. Len(p) + Len(q) : r[j] = IF j <= Len(p) THEN p[j] ELSE q[j - Len(p)]
    BY ONLY <1>0, <1>3
  <1>6. Len(r) = Len(s) - 1
    BY <1>1, <1>2, <1>4
  <1>7. \A j \in 1 .. Len(s) - 1 : r[j] = IF j < i THEN s[j] ELSE s[j + 1]
    <2> TAKE j \in 1 .. Len(s) - 1
    <2>1. CASE j < i
      BY <2>1, <1>1, <1>2, <1>5
    <2>2. CASE ~(j < i)
      <3>1. j - (i - 1) \in 1 .. Len(s) - i /\ j - (i - 1) + i = j + 1
        BY <2>2
      <3>2. r[j] = q[j - (i - 1)]
        BY <2>2, <1>1, <1>2, <1>5
      <3> QED BY <3>1, <3>2, <1>2, <2>2
    <2> QED BY <2>1, <2>2
  <1> QED BY <1>4, <1>6, <1>7 DEF r

\* Without repeats exactly that element is gone.
LEMMA RemoveAtSet ==
    ASSUME NEW S, NEW s \in Seq(S), NEW i \in 1 .. Len(s), NoRepeats(s)
    PROVE  LET r == RemoveAt(s, i)
           IN  r \in Seq(S) /\ NoRepeats(r) /\ ToSet(r) = ToSet(s) \ {s[i]} /\ Len(r) = Len(s) - 1
  <1> DEFINE r == RemoveAt(s, i)
  <1>1. r \in Seq(S) /\ Len(r) = Len(s) - 1 /\ \A j \in 1 .. Len(s) - 1 : r[j] = IF j < i THEN s[j] ELSE s[j + 1]
    BY RemoveAtOf
  <1> HIDE DEF r
  <1>2. DOMAIN r = 1 .. Len(s) - 1 /\ DOMAIN s = 1 .. Len(s) /\ Len(s) \in Nat
    BY <1>1
  <1> DEFINE w(j) == IF j < i THEN j ELSE j + 1
  <1>3. \A j \in 1 .. Len(s) - 1 : r[j] = s[w(j)] /\ w(j) \in 1 .. Len(s) /\ w(j) # i
    BY <1>1, <1>2
  <1>4. \A j, k \in 1 .. Len(s) - 1 : w(j) = w(k) => j = k
    OBVIOUS
  <1>5. \A m \in 1 .. Len(s) : m # i => \E j \in 1 .. Len(s) - 1 : w(j) = m
    <2> TAKE m \in 1 .. Len(s)
    <2> HAVE m # i
    <2>1. CASE m < i
      <3>1. m \in 1 .. Len(s) - 1 /\ w(m) = m
        BY <2>1
      <3> QED BY <3>1
    <2>2. CASE ~(m < i)
      <3>1. m - 1 \in 1 .. Len(s) - 1 /\ w(m - 1) = m
        BY <2>2
      <3> QED BY <3>1
    <2> QED BY <2>1, <2>2
  <1> HIDE DEF w
  <1>6. NoRepeats(r)
    <2> SUFFICES ASSUME NEW j \in 1 .. Len(s) - 1, NEW k \in 1 .. Len(s) - 1, r[j] = r[k] PROVE j = k
      BY <1>2 DEF NoRepeats
    <2>1. w(j) = w(k)
      BY <1>2, <1>3 DEF NoRepeats
    <2> QED BY <2>1, <1>4
  <1>7. \A x : x \in ToSet(r) <=> \E j \in 1 .. Len(s) - 1 : r[j] = x
    BY <1>1, Members
  <1>8. \A x : x \in ToSet(s) <=> \E j \in 1 .. Len(s) : s[j] = x
    BY Members
  <1>9. ASSUME NEW x \in ToSet(r) PROVE x \in ToSet(s) \ {s[i]}
    <2>1. PICK j \in 1 .. Len(s) - 1 : r[j] = x
      BY <1>7
    <2>2. x = s[w(j)] /\ w(j) \in 1 .. Len(s) /\ w(j) # i
      BY <2>1, <1>3
    <2>3. x # s[i]
      BY <2>2, <1>2 DEF NoRepeats
    <2> QED BY <2>2, <2>3, <1>8
  <1>10. ASSUME NEW x \in ToSet(s), x # s[i] PROVE x \in ToSet(r)
    <2>1. PICK m \in 1 .. Len(s) : s[m] = x
      BY <1>8
    <2>2. PICK j \in 1 .. Len(s) - 1 : w(j) = m
      BY <2>1, <1>5, <1>10
    <2>3. r[j] = x
      BY <2>1, <2>2, <1>3
    <2> QED BY <2>3, <1>7
  <1>11. ToSet(r) = ToSet(s) \ {s[i]}
    BY <1>9, <1>10
  <1> QED BY <1>1, <1>6, <1>11 DEF r

\* The same of RemoveFirst.
LEMMA RemoveFirstOf ==
    ASSUME NEW S, NEW s \in Seq(S), NoRepeats(s), NEW x
    PROVE  LET r == RemoveFirst(s, x)
           IN  /\ r \in Seq(S) /\ NoRepeats(r) /\ ToSet(r) = ToSet(s) \ {x}
               /\ x \notin ToSet(s) => r = s
  <1>1. CASE x \in ToSet(s)
    <2>1. PICK i \in 1 .. Len(s) : s[i] = x
      BY <1>1, Members
    <2>2. IndexOf(s, x) = i
      BY <2>1, FirstAt
    <2>3. RemoveFirst(s, x) = IF \E k \in 1 .. Len(s) : s[k] = x THEN RemoveAt(s, IndexOf(s, x)) ELSE s
      BY DEF RemoveFirst, IndexOf
    <2>4. RemoveFirst(s, x) = RemoveAt(s, i)
      BY <2>1, <2>2, <2>3
    <2>5. LET r == RemoveAt(s, i) IN r \in Seq(S) /\ NoRepeats(r) /\ ToSet(r) = ToSet(s) \ {s[i]}
      BY RemoveAtSet
    <2> QED BY <1>1, <2>1, <2>4, <2>5
  <1>2. CASE x \notin ToSet(s)
    <2>1. RemoveFirst(s, x) = s
      BY <1>2, Members DEF RemoveFirst
    <2> QED BY <1>2, <2>1
  <1> QED BY <1>1, <1>2

\* Without repeats nothing is there more than once.
LEMMA TimesOnce ==
    ASSUME NEW S, NEW s \in Seq(S), NoRepeats(s), NEW x
    PROVE  Times(s, x) = IF x \in ToSet(s) THEN 1 ELSE 0
  <1>0. DOMAIN s = 1 .. Len(s)
    OBVIOUS
  <1>1. CASE x \in ToSet(s)
    <2>1. PICK i \in 1 .. Len(s) : s[i] = x
      BY <1>1, Members
    <2>2. {j \in DOMAIN s : s[j] = x} = {i}
      BY <2>1, <1>0 DEF NoRepeats
    <2> QED BY <2>2, <1>1, FS_Singleton DEF Times
  <1>2. CASE x \notin ToSet(s)
    <2>1. {j \in DOMAIN s : s[j] = x} = {}
      BY <1>2, <1>0, Members
    <2> QED BY <2>1, <1>2, FS_EmptySet DEF Times
  <1> QED BY <1>1, <1>2
-----------------------------------------------------------------------------
(* The layout.                                                             *)

\* A layout in the order of the numbers of its blocks.
LEMMA LayoutOf ==
    ASSUME NEW n \in Nat \ {0}, NEW g, g.layout = [b \in 1 .. n |-> b]
    PROVE  /\ Len(g.layout) = n /\ InLayout(g) = 1 .. n /\ Last(g.layout) = n /\ Head(g.layout) = 1
           /\ \A b \in 1 .. n : Position(g, b) = b
           /\ \A b \in 1 .. n : After(g, b) = IF b = n THEN None ELSE b + 1
  <1> DEFINE L == g.layout
  <1>1. L \in Seq(Nat) /\ Len(L) = n /\ DOMAIN L = 1 .. n /\ \A b \in 1 .. n : L[b] = b
    <2>1. \A b \in 1 .. n : b \in Nat
      OBVIOUS
    <2> QED BY <2>1
  <1>2. NoRepeats(L)
    BY <1>1 DEF NoRepeats
  <1>3. InLayout(g) = 1 .. n
    BY <1>1 DEF InLayout, ToSet
  <1>4. Last(L) = n /\ Head(L) = 1
    BY <1>1 DEF Last
  <1>5. ASSUME NEW b \in 1 .. n PROVE Position(g, b) = b
    <2>1. IndexOf(L, L[b]) = b
      BY <1>1, <1>2, FirstAt
    <2>2. Position(g, b) = IndexOf(L, b)
      BY DEF Position, IndexOf
    <2> QED BY <1>1, <2>1, <2>2
  <1>6. ASSUME NEW b \in 1 .. n PROVE After(g, b) = IF b = n THEN None ELSE b + 1
    <2>1. After(g, b) = IF b = Last(L) THEN None ELSE L[Position(g, b) + 1]
      BY DEF After
    <2>2. b # n => b + 1 \in 1 .. n
      OBVIOUS
    <2> HIDE DEF L
    <2> QED BY <2>1, <2>2, <1>1, <1>4, <1>5
  <1> QED BY <1>1, <1>3, <1>4, <1>5, <1>6
-----------------------------------------------------------------------------
(* Branches and edges.                                                     *)

\* Functions of blocks 1 to n that have not been moved, with terminators of this target.
Functional(n) ==
    [layout : {[b \in 1 .. n |-> b]},
     body : [1 .. n -> Seq(1 .. n)], term : [1 .. n -> Terminators(1 .. n)],
     succs : [1 .. n -> Seq(1 .. n)], preds : [1 .. n -> Seq(1 .. n)]]

\* The first branch whose condition holds.
FirstHolding(t, z) == SelectInSeq(t, LAMBDA i : Holds(i.cc, z))

\* Where that is in one or two branches.
LEMMA FirstHoldingOf ==
    ASSUME NEW t, NEW z, Len(t) \in Nat
    PROVE  /\ (\A i \in 1 .. Len(t) : ~Holds(t[i].cc, z)) => FirstHolding(t, z) = 0
           /\ Len(t) >= 1 /\ Holds(t[1].cc, z) => FirstHolding(t, z) = 1
           /\ Len(t) >= 2 /\ ~Holds(t[1].cc, z) /\ Holds(t[2].cc, z) => FirstHolding(t, z) = 2
  <1> DEFINE n == Len(t)
  <1>0. n \in Nat
    OBVIOUS
  <1> DEFINE I == {i \in 1 .. n : Holds(t[i].cc, z)}
  <1>1. FirstHolding(t, z) = IF I # {} THEN CHOOSE x \in I : \A y \in I : x =< y ELSE 0
    BY DEF FirstHolding, SelectInSeq, Min
  <1>2. ASSUME \A i \in 1 .. n : ~Holds(t[i].cc, z) PROVE FirstHolding(t, z) = 0
    <2>1. I = {}
      BY <1>2
    <2> QED BY <2>1, <1>1
  <1>3. ASSUME NEW k \in 1 .. n, Holds(t[k].cc, z), \A i \in 1 .. k - 1 : ~Holds(t[i].cc, z)
        PROVE  FirstHolding(t, z) = k
    <2>1. k \in I /\ \A y \in I : k =< y
      <3>1. \A y \in 1 .. n : ~(k =< y) => y \in 1 .. k - 1
        OBVIOUS
      <3> QED BY <3>1, <1>3
    <2>2. \A y \in I : y \in Int
      OBVIOUS
    <2> HIDE DEF I
    <2>3. (CHOOSE x \in I : \A y \in I : x =< y) = k
      <3>1. \A x \in I : (\A y \in I : x =< y) => x = k
        BY <2>1, <2>2
      <3> QED BY <2>1, <3>1
    <2> QED BY <2>1, <2>3, <1>1
  <1>4. n >= 1 /\ Holds(t[1].cc, z) => FirstHolding(t, z) = 1
    <2>1. \A i \in 1 .. 1 - 1 : ~Holds(t[i].cc, z)
      OBVIOUS
    <2> QED BY <2>1, <1>3
  <1>5. n >= 2 /\ ~Holds(t[1].cc, z) /\ Holds(t[2].cc, z) => FirstHolding(t, z) = 2
    <2> SUFFICES ASSUME n >= 2, ~Holds(t[1].cc, z), Holds(t[2].cc, z) PROVE FirstHolding(t, z) = 2
      OBVIOUS
    <2>1. \A i \in 1 .. 2 - 1 : ~Holds(t[i].cc, z)
      OBVIOUS
    <2> QED BY <2>1, <1>3
  <1> QED BY <1>2, <1>4, <1>5

\* Where control goes from a block.
LEMMA TakenForms ==
    ASSUME NEW g, NEW b, NEW z
    PROVE  /\ g.term[b] = <<>> => Taken(g, b, z) = After(g, b)
           /\ g.term[b] = <<RET>> => Taken(g, b, z) = Returns
           /\ \A x : g.term[b] = <<B(x)>> => Taken(g, b, z) = x
           /\ \A x, c : g.term[b] = <<BCC(x, c)>> =>
                 Taken(g, b, z) = IF Holds(c, z) THEN x ELSE After(g, b)
           /\ \A x, y, c : g.term[b] = <<BCC(x, c), B(y)>> =>
                 Taken(g, b, z) = IF Holds(c, z) THEN x ELSE y
  <1> DEFINE t == g.term[b]
  <1>1. Taken(g, b, z) = IF FirstHolding(t, z) = 0 THEN After(g, b)
                         ELSE IF t[FirstHolding(t, z)].op = "RET" THEN Returns ELSE t[FirstHolding(t, z)].to
    BY DEF Taken, FirstHolding
  <1>2. Holds("AL", z)
    BY DEF Holds
  <1> HIDE DEF t
  <1>3. ASSUME t = <<>> PROVE Taken(g, b, z) = After(g, b)
    <2>1. Len(t) = 0 /\ \A i \in 1 .. 0 : ~Holds(t[i].cc, z)
      BY <1>3
    <2>2. FirstHolding(t, z) = 0
      BY ONLY <2>1, FirstHoldingOf
    <2> QED BY <2>2, <1>1
  <1>4. ASSUME NEW i, t = <<i>>, i.cc = "AL" PROVE FirstHolding(t, z) = 1
    <2>1. Len(t) = 1 /\ Holds(t[1].cc, z)
      BY <1>2, <1>4
    <2> QED BY ONLY <2>1, FirstHoldingOf
  <1>5. t = <<RET>> => Taken(g, b, z) = Returns
    <2> HAVE t = <<RET>>
    <2>1. RET.cc = "AL" /\ RET.op = "RET" /\ t[1] = RET
      BY DEF RET
    <2> QED BY <2>1, <1>1, <1>4
  <1>6. ASSUME NEW x, t = <<B(x)>> PROVE Taken(g, b, z) = x
    <2>1. B(x).cc = "AL" /\ B(x).op = "B" /\ B(x).to = x /\ t[1] = B(x)
      BY <1>6 DEF B
    <2>2. FirstHolding(t, z) = 1
      BY <2>1, <1>4, <1>6
    <2> QED BY <2>1, <2>2, <1>1
  <1>7. ASSUME NEW x, NEW c, t = <<BCC(x, c)>>
        PROVE  Taken(g, b, z) = IF Holds(c, z) THEN x ELSE After(g, b)
    <2>1. BCC(x, c).cc = c /\ BCC(x, c).op = "BCC" /\ BCC(x, c).to = x /\ t[1] = BCC(x, c) /\ Len(t) = 1
      BY <1>7 DEF BCC
    <2>2. ASSUME Holds(c, z) PROVE FirstHolding(t, z) = 1
      <3>1. Len(t) = 1 /\ Holds(t[1].cc, z)
        BY <2>1, <2>2
      <3> QED BY ONLY <3>1, FirstHoldingOf
    <2>3. ASSUME ~Holds(c, z) PROVE FirstHolding(t, z) = 0
      <3>1. Len(t) = 1 /\ \A i \in 1 .. 1 : ~Holds(t[i].cc, z)
        BY <2>1, <2>3
      <3> QED BY ONLY <3>1, FirstHoldingOf
    <2> QED BY <2>1, <2>2, <2>3, <1>1
  <1>8. ASSUME NEW x, NEW y, NEW c, t = <<BCC(x, c), B(y)>>
        PROVE  Taken(g, b, z) = IF Holds(c, z) THEN x ELSE y
    <2>1. BCC(x, c).cc = c /\ BCC(x, c).op = "BCC" /\ BCC(x, c).to = x /\ t[1] = BCC(x, c) /\ Len(t) = 2
      BY <1>8 DEF BCC
    <2>2. B(y).cc = "AL" /\ B(y).op = "B" /\ B(y).to = y /\ t[2] = B(y)
      BY <1>8 DEF B
    <2>3. ASSUME Holds(c, z) PROVE FirstHolding(t, z) = 1
      <3>1. Len(t) = 2 /\ Holds(t[1].cc, z)
        BY <2>1, <2>3
      <3> QED BY ONLY <3>1, FirstHoldingOf
    <2>4. ~Holds(c, z) => FirstHolding(t, z) = 2
      <3> HAVE ~Holds(c, z)
      <3>1. ~Holds(t[1].cc, z)
        BY <2>1
      <3>2. Holds(t[2].cc, z)
        BY <2>2, <1>2
      <3>3. Len(t) = 2
        BY <2>1
      <3> QED BY ONLY <3>1, <3>2, <3>3, FirstHoldingOf
    <2> QED BY <2>1, <2>2, <2>3, <2>4, <1>1
  <1>9. /\ \A x : t = <<B(x)>> => Taken(g, b, z) = x
        /\ \A x, c : t = <<BCC(x, c)>> => Taken(g, b, z) = IF Holds(c, z) THEN x ELSE After(g, b)
        /\ \A x, y, c : t = <<BCC(x, c), B(y)>> => Taken(g, b, z) = IF Holds(c, z) THEN x ELSE y
    BY <1>6, <1>7, <1>8
  <1> QED BY <1>3, <1>5, <1>9 DEF t

\* RemoveBranch leaves nothing where there is nothing but branches.
LEMMA RemoveBranchOf ==
    ASSUME NEW g, NEW b, NEW n \in Nat, Len(g.term[b]) = n,
           \A i \in 1 .. n : g.term[b][i].op \in {"B", "BCC"}
    PROVE  RemoveBranch(g, b) = [g EXCEPT !.term[b] = SubSeq(@, 1, 0)]
  <1>1. {i \in 1 .. Len(g.term[b]) : g.term[b][i].op \notin {"B", "BCC"}} = {}
    OBVIOUS
  <1> QED BY <1>1 DEF RemoveBranch, SelectLastInSeq

\* A sequence up to its place 0 is empty.
LEMMA SubSeqNothing ==
    ASSUME NEW S, NEW s \in Seq(S)
    PROVE  SubSeq(s, 1, 0) = <<>>
  OBVIOUS

\* A sequence without repeats of two elements is one of two pairs.
LEMMA PairIs ==
    ASSUME NEW S, NEW s \in Seq(S), NoRepeats(s), NEW d, NEW e, d # e, ToSet(s) = {d, e}
    PROVE  Len(s) = 2 /\ ((s[1] = d /\ s[2] = e) \/ (s[1] = e /\ s[2] = d))
  <1>1. PICK i \in 1 .. Len(s) : s[i] = d
    BY Members
  <1>2. PICK j \in 1 .. Len(s) : s[j] = e
    BY Members
  <1>3. \A k \in 1 .. Len(s) : s[k] = d \/ s[k] = e
    BY Members
  <1>4. \A k \in 1 .. Len(s) : k = i \/ k = j
    BY <1>1, <1>2, <1>3 DEF NoRepeats
  <1>5. Len(s) \in Nat /\ i # j
    BY <1>1, <1>2
  <1>6. Len(s) = 2
    <2>1. 1 \in 1 .. Len(s) /\ Len(s) \in 1 .. Len(s)
      BY <1>5
    <2>2. Len(s) >= 2
      BY <1>5
    <2>3. 2 \in 1 .. Len(s)
      BY <2>2, <1>5
    <2>4. ~(Len(s) > 2)
      <3> SUFFICES ASSUME Len(s) > 2 PROVE FALSE
        OBVIOUS
      <3>1. 3 \in 1 .. Len(s)
        BY <1>5
      <3> QED BY ONLY <1>4, <2>1, <2>3, <3>1
    <2> PICK l \in Nat : l = Len(s)
      BY <1>5
    <2> QED BY <2>2, <2>4
  <1>7. 1 \in 1 .. Len(s) /\ 2 \in 1 .. Len(s)
    BY <1>6
  <1>8. s[1] # s[2]
    BY <1>7 DEF NoRepeats
  <1>9. (s[1] = d \/ s[1] = e) /\ (s[2] = d \/ s[2] = e)
    BY <1>3, <1>7
  <1> QED BY <1>6, <1>8, <1>9

\* One of one element has one place.
LEMMA SingleIs ==
    ASSUME NEW S, NEW s \in Seq(S), Len(s) = 1
    PROVE  s = <<s[1]>> /\ ToSet(s) = {s[1]}
  <1>1. s = <<s[1]>>
    OBVIOUS
  <1>2. \A x : x \in ToSet(s) <=> x = s[1]
    BY Members
  <1> QED BY <1>1, <1>2

\* The same as a sequence.
LEMMA SingletonIs ==
    ASSUME NEW S, NEW s \in Seq(S), NoRepeats(s), NEW d, ToSet(s) = {d}
    PROVE  Len(s) = 1 /\ s[1] = d /\ s = <<d>>
  <1>1. PICK i \in 1 .. Len(s) : s[i] = d
    BY Members
  <1>2. \A k \in 1 .. Len(s) : s[k] = d
    BY Members
  <1>3. Len(s) \in Nat /\ \A k \in 1 .. Len(s) : k = i
    BY <1>1, <1>2 DEF NoRepeats
  <1>4. Len(s) = 1
    <2>1. 1 \in 1 .. Len(s) /\ Len(s) \in 1 .. Len(s)
      BY <1>3
    <2> QED BY <2>1, <1>3
  <1> QED BY <1>2, <1>4, SingleIs
-----------------------------------------------------------------------------
(* What RemoveExtraEdges leaves.                                           *)

\* What CorrectExtraCFGEdges leaves when it looks at the edges in extra.
Without(g, b, extra, w) ==
    [i \in 1 .. Len(g.succs[b]) + 1 |->
        IF i > Len(g.succs[b]) THEN g
        ELSE IF i \in extra THEN removeSuccessor(w[i + 1], b, i) ELSE w[i + 1]]
\* Which edges it takes away.
ExtraEdges(g, b, DestA, DestB) ==
    {i \in DOMAIN g.succs[b] :
        \/ g.succs[b][i] \notin {DestA, DestB}
        \/ \E j \in 1 .. i - 1 : g.succs[b][j] = g.succs[b][i]}

\* Of two edges the second or the first is taken away.
LEMMA WithoutOne ==
    ASSUME NEW g, NEW b, Len(g.succs[b]) = 2, NEW k \in 1 .. 2
    PROVE  (CHOOSE w : w = Without(g, b, {k}, w))[1] = removeSuccessor(g, b, k)
  <1> DEFINE W2 == IF k = 2 THEN removeSuccessor(g, b, 2) ELSE g
             W1 == IF k = 1 THEN removeSuccessor(g, b, 1) ELSE W2
             W == [i \in 1 .. 3 |-> IF i = 3 THEN g ELSE IF i = 2 THEN W2 ELSE W1]
  <1>0. W1 = removeSuccessor(g, b, k)
    BY k = 1 \/ k = 2
  <1>1. ASSUME NEW w, w = Without(g, b, {k}, w) PROVE w[1] = W1
    <2>1. \A i \in 1 .. 3 : w[i] = IF i > 2 THEN g
                 ELSE IF i \in {k} THEN removeSuccessor(w[i + 1], b, i) ELSE w[i + 1]
      <3> DEFINE D(i) == IF i > 2 THEN g ELSE IF i \in {k} THEN removeSuccessor(w[i + 1], b, i) ELSE w[i + 1]
      <3>1. 2 + 1 = 3
        OBVIOUS
      <3>2. w = [i \in 1 .. 3 |-> D(i)]
        BY <1>1, <3>1 DEF Without
      <3> HIDE DEF D
      <3>3. \A i \in 1 .. 3 : w[i] = D(i)
        BY ONLY <3>2
      <3> QED BY <3>3 DEF D
    <2>2. w[3] = g
      BY <2>1
    <2>3. w[2] = W2
      <3>1. w[2] = IF 2 = k THEN removeSuccessor(w[3], b, 2) ELSE w[3]
        BY <2>1
      <3> QED BY <2>2, <3>1
    <2> HIDE DEF W2
    <2>4. w[1] = IF 1 = k THEN removeSuccessor(w[2], b, 1) ELSE w[2]
      BY <2>1
    <2>5. 1 = k => W2 = g
      BY DEF W2
    <2> QED BY <2>3, <2>4, <2>5
  <1>2. W = Without(g, b, {k}, W)
    <2>1. W[3] = g /\ W[2] = W2
      OBVIOUS
    <2> DEFINE V == [i \in 1 .. 3 |-> IF i > 2 THEN g
                 ELSE IF i \in {k} THEN removeSuccessor(W[i + 1], b, i) ELSE W[i + 1]]
    <2>2. V = Without(g, b, {k}, W)
      <3>1. 2 + 1 = 3
        OBVIOUS
      <3> HIDE DEF W
      <3> QED BY <3>1 DEF Without
    <2>3. ASSUME NEW i \in 1 .. 3
          PROVE  (IF i = 3 THEN g ELSE IF i = 2 THEN W2 ELSE W1)
                    = (IF i > 2 THEN g
                       ELSE IF i \in {k} THEN removeSuccessor(W[i + 1], b, i) ELSE W[i + 1])
      <3> HIDE DEF W
      <3>1. CASE i = 3
        BY <3>1
      <3>2. CASE i = 2
        BY <3>2, <2>1
      <3>3. CASE i = 1
        BY <3>3, <2>1
      <3> QED BY <3>1, <3>2, <3>3
    <2>4. W = V
      BY <2>3
    <2> HIDE DEF W, V
    <2> QED BY <2>2, <2>4
  <1> HIDE DEF W, W1
  <1> QED BY <1>0, <1>1, <1>2

\* Block b keeps the edge to keep, that to e is gone.
Kept(g, b, keep, e) == [g EXCEPT !.succs[b] = <<keep>>, !.preds[e] = RemoveFirst(@, b)]

\* removeSuccessor of one of two edges.
LEMMA RemoveSuccessorOf ==
    ASSUME NEW n \in Nat, NEW g \in Functional(n), NEW b \in 1 .. n, NoRepeats(g.succs[b]),
           NEW keep, NEW e, keep # e, ToSet(g.succs[b]) = {keep, e},
           NEW k \in 1 .. 2, g.succs[b][k] = e
    PROVE  removeSuccessor(g, b, k) = Kept(g, b, keep, e)
  <1> DEFINE s == g.succs[b]
             r == RemoveAt(s, k)
  <1>1. s \in Seq(1 .. n)
    BY DEF Functional
  <1>2. Len(s) = 2 /\ ((s[1] = keep /\ s[2] = e) \/ (s[1] = e /\ s[2] = keep))
    <2>1. NoRepeats(s) /\ ToSet(s) = {keep, e}
      OBVIOUS
    <2>2. keep # e
      OBVIOUS
    <2> HIDE DEF s
    <2> QED BY ONLY <1>1, <2>1, <2>2, PairIs
  <1>3. r \in Seq(1 .. n) /\ Len(r) = 1 /\ ToSet(r) = {keep}
    <2>1. k \in 1 .. Len(s)
      BY <1>2
    <2>2. r \in Seq(1 .. n) /\ ToSet(r) = ToSet(s) \ {s[k]} /\ Len(r) = Len(s) - 1
      BY <1>1, <2>1, RemoveAtSet
    <2> HIDE DEF r, s
    <2>3. ToSet(r) = {keep}
      <3>1. ToSet(s) = {keep, e} /\ s[k] = e
        BY DEF s
      <3> QED BY <2>2, <3>1
    <2> QED BY <2>2, <2>3, <1>2
  <1>4. r = <<keep>>
    <2> HIDE DEF r
    <2>1. r = <<r[1]>> /\ ToSet(r) = {r[1]}
      BY <1>3, SingleIs
    <2> QED BY <2>1, <1>3
  <1>5. removeSuccessor(g, b, k) = [g EXCEPT !.succs[b] = RemoveAt(@, k), !.preds[e] = RemoveFirst(@, b)]
    BY DEF removeSuccessor
  <1>6. removeSuccessor(g, b, k) = [g EXCEPT !.succs[b] = r, !.preds[e] = RemoveFirst(@, b)]
    BY <1>5
  <1> HIDE DEF r
  <1> QED BY <1>4, <1>6 DEF Kept

\* RemoveExtraEdges of a block with at most one branch.
LEMMA RemoveExtraEdgesIs ==
    ASSUME NEW g, NEW b
    PROVE  LET A == Analysis(g, b)
               DestA == IF A.TBB = None /\ A.FBB = None THEN After(g, b) ELSE A.TBB
               DestB == IF A.FBB = None /\ (A.TBB = None \/ A.Cond # <<>>) THEN After(g, b) ELSE A.FBB
           IN  ~A.fail /\ A.FBB = None =>
                  RemoveExtraEdges(g, b)
                     = (CHOOSE w : w = Without(g, b, ExtraEdges(g, b, DestA, DestB), w))[1]
  BY DEF RemoveExtraEdges, CorrectExtraCFGEdges, Asserting, Without, ExtraEdges, Analysis

\* Block b, which goes to one block only, keeps the edge to that.
LEMMA KeepOne ==
    ASSUME NEW n \in Nat, NEW g \in Functional(n), NEW b \in 1 .. n, NoRepeats(g.succs[b]),
           NEW keep, NEW e, keep # e, ToSet(g.succs[b]) = {keep, e},
           \/ g.term[b] = <<>> /\ After(g, b) = keep
           \/ g.term[b] = <<B(keep)>> /\ keep # None
    PROVE  RemoveExtraEdges(g, b) = Kept(g, b, keep, e)
  <1> DEFINE A == Analysis(g, b)
             DestA == IF A.TBB = None /\ A.FBB = None THEN After(g, b) ELSE A.TBB
             DestB == IF A.FBB = None /\ (A.TBB = None \/ A.Cond # <<>>) THEN After(g, b) ELSE A.FBB
             s == g.succs[b]
             extra == ExtraEdges(g, b, DestA, DestB)
  <1>1. s \in Seq(1 .. n)
    BY DEF Functional
  <1>2. Len(s) = 2 /\ ((s[1] = keep /\ s[2] = e) \/ (s[1] = e /\ s[2] = keep))
    <2>1. NoRepeats(s) /\ ToSet(s) = {keep, e}
      OBVIOUS
    <2>2. keep # e
      OBVIOUS
    <2> HIDE DEF s
    <2> QED BY ONLY <1>1, <2>1, <2>2, PairIs
  <1>3. ~A.fail /\ A.FBB = None /\ DestA = keep /\ DestB \in {keep, None}
    <2>1. CASE g.term[b] = <<>> /\ After(g, b) = keep
      <3>1. ~A.fail /\ A.FBB = None /\ A.TBB = None
        BY <2>1, AnalyzeForms
      <3> HIDE DEF A
      <3> QED BY <2>1, <3>1
    <2>2. CASE g.term[b] = <<B(keep)>> /\ keep # None
      <3>1. ~A.fail /\ A.FBB = None /\ A.TBB = keep /\ A.Cond = <<>>
        BY <2>2, AnalyzeForms
      <3> HIDE DEF A
      <3> QED BY <2>2, <3>1
    <2> QED BY <2>1, <2>2
  <1>4. e # None
    <2>1. e \in 1 .. n
      BY <1>1, <1>2
    <2> QED BY <2>1 DEF None
  <1> HIDE DEF A, DestA, DestB
  <1>5. \A k \in 1 .. 2 : s[k] = e => extra = {k}
    <2> SUFFICES ASSUME NEW k \in 1 .. 2, s[k] = e PROVE extra = {k}
      OBVIOUS
    <2>1. DOMAIN s = 1 .. 2
      BY <1>1, <1>2
    <2> DEFINE x(i) == \/ s[i] \notin {DestA, DestB}
                       \/ \E j \in 1 .. i - 1 : s[j] = s[i]
    <2>2. extra = {i \in 1 .. 2 : x(i)}
      BY <2>1 DEF ExtraEdges
    <2> HIDE DEF s
    <2>3. x(k)
      BY <1>3, <1>4
    <2>4. \A i \in 1 .. 2 : i # k => ~x(i)
      <3> SUFFICES ASSUME NEW i \in 1 .. 2, i # k PROVE ~x(i)
        OBVIOUS
      <3>1. s[i] = keep
        BY <1>2
      <3>2. \A j \in 1 .. i - 1 : j = 1 /\ i = 2
        OBVIOUS
      <3>3. \A j \in 1 .. i - 1 : s[j] # s[i]
        BY <3>2, <1>2
      <3> QED BY <3>1, <3>3, <1>3
    <2> HIDE DEF x, extra
    <2> QED BY <2>2, <2>3, <2>4
  <1>6. RemoveExtraEdges(g, b) = (CHOOSE w : w = Without(g, b, extra, w))[1]
    BY <1>3, RemoveExtraEdgesIs DEF A, DestA, DestB
  <1>7. PICK k \in 1 .. 2 : s[k] = e
    <2>1. 1 \in 1 .. 2 /\ 2 \in 1 .. 2
      OBVIOUS
    <2> QED BY <1>2, <2>1
  <1>8. (CHOOSE w : w = Without(g, b, {k}, w))[1] = removeSuccessor(g, b, k)
    BY <1>2, WithoutOne
  <1>9. removeSuccessor(g, b, k) = Kept(g, b, keep, e)
    BY <1>7, RemoveSuccessorOf
  <1>10. extra = {k}
    BY <1>5, <1>7
  <1> HIDE DEF extra, s
  <1> QED BY <1>6, <1>8, <1>9, <1>10
-----------------------------------------------------------------------------
(* What a function is throughout.                                          *)

\* Where branches go there are edges, and the two ways of a block are two.
BranchesTrue(g, b) ==
    /\ \A i \in ToSet(g.term[b]) : i.op # "RET" => i.to \in ToSet(g.succs[b])
    /\ Len(g.term[b]) = 2 => g.term[b][1].to # g.term[b][2].to

\* The same for each form of terminators.
LEMMA BranchesGo ==
    ASSUME NEW g, NEW b
    PROVE  BranchesTrue(g, b) =>
           /\ \A x : g.term[b] = <<B(x)>> => x \in ToSet(g.succs[b])
           /\ \A x, c : g.term[b] = <<BCC(x, c)>> => x \in ToSet(g.succs[b])
           /\ \A x, y, c : g.term[b] = <<BCC(x, c), B(y)>> =>
                 x \in ToSet(g.succs[b]) /\ y \in ToSet(g.succs[b]) /\ x # y
  <1> HAVE BranchesTrue(g, b)
  <1>1. ASSUME NEW x, g.term[b] = <<B(x)>> PROVE x \in ToSet(g.succs[b])
    <2>1. B(x) \in ToSet(<<B(x)>>)
      BY DEF ToSet
    <2>2. B(x).op # "RET" /\ B(x).to = x
      BY DEF B
    <2> QED BY <1>1, <2>1, <2>2 DEF BranchesTrue
  <1>2. ASSUME NEW x, NEW c, g.term[b] = <<BCC(x, c)>> PROVE x \in ToSet(g.succs[b])
    <2>1. BCC(x, c) \in ToSet(<<BCC(x, c)>>)
      BY DEF ToSet
    <2>2. BCC(x, c).op # "RET" /\ BCC(x, c).to = x
      BY DEF BCC
    <2> QED BY <1>2, <2>1, <2>2 DEF BranchesTrue
  <1>3. ASSUME NEW x, NEW y, NEW c, g.term[b] = <<BCC(x, c), B(y)>>
        PROVE  x \in ToSet(g.succs[b]) /\ y \in ToSet(g.succs[b]) /\ x # y
    <2> DEFINE t == <<BCC(x, c), B(y)>>
    <2>1. t[1] = BCC(x, c) /\ t[2] = B(y) /\ Len(t) = 2 /\ DOMAIN t = 1 .. 2
      OBVIOUS
    <2>2. BCC(x, c) \in ToSet(t) /\ B(y) \in ToSet(t)
      <3> HIDE DEF t
      <3> QED BY <2>1 DEF ToSet
    <2>3. BCC(x, c).op # "RET" /\ BCC(x, c).to = x
      BY DEF BCC
    <2>4. B(y).op # "RET" /\ B(y).to = y
      BY DEF B
    <2> HIDE DEF t
    <2>5. g.term[b] = t
      BY <1>3 DEF t
    <2> QED BY <2>1, <2>2, <2>3, <2>4, <2>5 DEF BranchesTrue
  <1> QED BY <1>1, <1>2, <1>3

\* The edges of every block are the ways control goes, once each, in both lists.
EdgesRight(g, kd) ==
    \A b \in DOMAIN g.term :
        /\ NoRepeats(g.succs[b]) /\ NoRepeats(g.preds[b])
        /\ \A c \in DOMAIN g.term : c \in ToSet(g.succs[b]) <=> b \in ToSet(g.preds[c])
        /\ ToSet(g.succs[b]) = Destinations(g, kd, b)
        /\ BranchesTrue(g, b)

\* No stretch of code is in two places.
CodeOnce(g) ==
    \A b, c \in DOMAIN g.term :
        /\ NoRepeats(g.body[b])
        /\ \A u \in ToSet(g.body[b]) : u \in ToSet(g.body[c]) => b = c

\* All of it, with the blocks numbered in layout order.
FunctionRight(g, kd) ==
    \E n \in Nat \ {0} : g \in Functional(n) /\ EdgesRight(g, kd) /\ CodeOnce(g)

\* Blocks are numbers, in the order of the layout.
LEMMA BlocksAre ==
    ASSUME NEW n \in Nat \ {0}, NEW g \in Functional(n)
    PROVE  /\ g.layout = [b \in 1 .. n |-> b]
           /\ DOMAIN g.term = 1 .. n /\ InLayout(g) = 1 .. n /\ Len(g.layout) = n
           /\ Head(g.layout) = 1
           /\ \A b \in 1 .. n : Position(g, b) = b /\ g.layout[b] = b
           /\ \A b \in 1 .. n : After(g, b) = IF b = n THEN None ELSE b + 1
           /\ \A b \in 1 .. n :
                 /\ g.body[b] \in Seq(1 .. n) /\ g.term[b] \in Terminators(1 .. n)
                 /\ g.succs[b] \in Seq(1 .. n) /\ g.preds[b] \in Seq(1 .. n)
  <1>1. g.layout = [b \in 1 .. n |-> b]
    BY DEF Functional
  <1>2. DOMAIN g.term = 1 .. n
    BY DEF Functional
  <1>3. \A b \in 1 .. n : g.layout[b] = b
    BY <1>1
  <1>4. \A b \in 1 .. n :
                 /\ g.body[b] \in Seq(1 .. n) /\ g.term[b] \in Terminators(1 .. n)
                 /\ g.succs[b] \in Seq(1 .. n) /\ g.preds[b] \in Seq(1 .. n)
    BY DEF Functional
  <1> QED BY <1>1, <1>2, <1>3, <1>4, LayoutOf

\* The types of what a block has.
LEMMA BlockIs ==
    ASSUME NEW n \in Nat \ {0}, NEW g \in Functional(n), NEW b \in 1 .. n
    PROVE  /\ g.body[b] \in Seq(1 .. n) /\ g.term[b] \in Terminators(1 .. n)
           /\ g.succs[b] \in Seq(1 .. n) /\ g.preds[b] \in Seq(1 .. n)
           /\ DOMAIN g.term = 1 .. n
           /\ b = n => After(g, b) = None
           /\ b # n => After(g, b) = b + 1
           /\ Position(g, b) = b
  <1>1. \A c \in 1 .. n : After(g, c) = IF c = n THEN None ELSE c + 1
    BY BlocksAre
  <1>2. After(g, b) = IF b = n THEN None ELSE b + 1
    BY ONLY <1>1, b \in 1 .. n
  <1>3. g.body[b] \in Seq(1 .. n) /\ g.term[b] \in Terminators(1 .. n)
           /\ g.succs[b] \in Seq(1 .. n) /\ g.preds[b] \in Seq(1 .. n)
    BY DEF Functional
  <1>4. DOMAIN g.term = 1 .. n
    BY DEF Functional
  <1>5. \A c \in 1 .. n : Position(g, c) = c
    BY BlocksAre
  <1>6. Position(g, b) = b
    BY ONLY <1>5, b \in 1 .. n
  <1>7. (b = n => After(g, b) = None) /\ (b # n => After(g, b) = b + 1)
    BY ONLY <1>2
  <1> QED BY ONLY <1>3, <1>4, <1>6, <1>7

\* Block b once it has the code of C.
Swallowed(g, b, C) == [g EXCEPT !.body[b] = @ \o g.body[C], !.body[C] = <<>>, !.term[b] = <<>>]

\* MergeBlocks, with what is left of the edges in cut.
Cut(g, to, from, i, moved, cut) ==
    [k \in 0 .. Len(g.succs[from]) |->
        IF k = 0 THEN moved
        ELSE IF i.HasFallThrough /\ g.succs[from][k] = After(g, from) THEN cut[k - 1]
        ELSE removeSuccessor(cut[k - 1], from, SelectInSeq(cut[k - 1].succs[from],
                                                 LAMBDA x : x = g.succs[from][k]))]

\* A block that falls through and goes nowhere else keeps its edge when it is emptied.
LEMMA MergeBlocksIs ==
    ASSUME NEW g, NEW to, NEW from, NEW i, i.HasFallThrough,
           Len(g.succs[from]) = 1, g.succs[from][1] = After(g, from),
           NEW moved,
           moved = [g EXCEPT !.body[to] = @ \o g.body[from], !.body[from] = <<>>,
                             !.term[to] = @ \o g.term[from], !.term[from] = <<>>],
           isSuccessor(moved, from, After(g, from))
    PROVE  MergeBlocks(g, to, from, i, FALSE) = moved
  <1> DEFINE cut == CHOOSE cut : cut = Cut(g, to, from, i, moved, cut)
             W == [k \in 0 .. 1 |-> moved]
             NBB == After(g, from)
             h == cut[Len(g.succs[from])]
  <1>1. MergeBlocks(g, to, from, i, FALSE)
           = IF NBB # None /\ ~isSuccessor(h, from, NBB) THEN addSuccessor(h, from, NBB) ELSE h
    BY DEF MergeBlocks, Cut
  <1>2. ASSUME NEW w, w = Cut(g, to, from, i, moved, w) PROVE w[1] = moved
    <2> DEFINE D(k) == IF k = 0 THEN moved
                    ELSE IF i.HasFallThrough /\ g.succs[from][k] = After(g, from) THEN w[k - 1]
                    ELSE removeSuccessor(w[k - 1], from, SelectInSeq(w[k - 1].succs[from],
                                                 LAMBDA x : x = g.succs[from][k]))
    <2>1. w = [k \in 0 .. 1 |-> D(k)]
      BY <1>2 DEF Cut
    <2> HIDE DEF D
    <2>2. w[0] = D(0) /\ w[1] = D(1)
      BY ONLY <2>1
    <2>3. D(0) = moved /\ D(1) = w[1 - 1]
      BY DEF D
    <2> QED BY <2>2, <2>3
  <1>3. W = Cut(g, to, from, i, moved, W)
    <2> DEFINE D(k) == IF k = 0 THEN moved
                    ELSE IF i.HasFallThrough /\ g.succs[from][k] = After(g, from) THEN W[k - 1]
                    ELSE removeSuccessor(W[k - 1], from, SelectInSeq(W[k - 1].succs[from],
                                                 LAMBDA x : x = g.succs[from][k]))
    <2>1. Cut(g, to, from, i, moved, W) = [k \in 0 .. 1 |-> D(k)]
      BY DEF Cut
    <2>2. W[0] = moved
      OBVIOUS
    <2>3. \A k \in 0 .. 1 : D(k) = moved
      <3> SUFFICES ASSUME NEW k \in 0 .. 1 PROVE D(k) = moved
        OBVIOUS
      <3> HIDE DEF W
      <3>1. CASE k = 0
        BY <3>1
      <3>2. CASE k = 1
        BY <3>2, <2>2
      <3> QED BY <3>1, <3>2
    <2> HIDE DEF D
    <2> QED BY ONLY <2>1, <2>3 DEF W
  <1> HIDE DEF W
  <1>4. cut = Cut(g, to, from, i, moved, cut)
    BY <1>3
  <1>5. h = moved
    <2> HIDE DEF cut
    <2> QED BY <1>2, <1>4
  <1> HIDE DEF h
  <1> QED BY <1>1, <1>5
-----------------------------------------------------------------------------
(* The inductive invariant.                                                *)

\* The other successor.
FalseOf(s, x) ==
    LET other == SelectInSeq(s, LAMBDA v : v # x) IN IF other = 0 THEN None ELSE s[other]
\* The same as isPredicable, of any function.
Predicable(g, kd, b) == g.term[b] = <<>> /\ \A u \in ToSet(g.body[b]) : kd[u] = "alu"

\* What is known of block b of g is so; kd is what the code is.
Fresh(g, kd, i, b) ==
    LET A == Analysis(g, b)
    IN  /\ i.TrueBB = A.TBB /\ i.BrCond = A.Cond
        /\ i.FalseBB = IF A.Cond # <<>> /\ A.FBB = None THEN FalseOf(g.succs[b], A.TBB) ELSE A.FBB
        /\ i.IsBrAnalyzable <=> ~A.fail
        /\ i.HasFallThrough <=> ~A.fail /\ A.FBB = None
        /\ ~Predicable(g, kd, b) => i.IsUnpredicable

\* What is known of a block that has been analyzed and is not done with is so; one
\* with predicated code is not predicated again.
InfoOf(g, kd, p, i, b) ==
    /\ (i.IsAnalyzed \/ i.IsBeingAnalyzed) /\ ~i.IsDone => Fresh(g, kd, i, b)
    /\ i.Predicate # <<>> => i.IsUnpredicable \/ i.IsDone
    /\ \A u \in ToSet(g.body[b]) : p[u] # "AL" => i.IsUnpredicable \/ i.IsDone
InfoRight(g, kd, p, all) ==
    \A b \in DOMAIN g.term : InfoOf(g, kd, p, all[b], b)

\* The target of a candidate, and the block to which both it and the head go.
TargetOf(all, t) ==
    IF t.Kind \in {"ICTriangle", "ICTriangleRev"} THEN all[t.BB].TrueBB ELSE all[t.BB].FalseBB
NextOf(all, t) ==
    IF t.Kind \in {"ICTriangle", "ICTriangleRev"} THEN all[t.BB].FalseBB ELSE all[t.BB].TrueBB
\* Reversed triangles are found with plain ones, whose tokens are worked off before them.
Twin == [ICTriangleRev |-> "ICTriangle", ICTriangleFRev |-> "ICTriangleFalse"]

\* Block b, of info i, ends in a conditional branch that has been analyzed.
IsHead(g, kd, i, b) ==
    /\ ~i.IsDone /\ Fresh(g, kd, i, b) /\ i.BrCond # <<>> /\ i.FalseBB # None
    /\ b \notin {i.TrueBB, i.FalseBB}
\* Block C, of info i, can be predicated and goes on to next.
IsTarget(g, good, i, C, next) ==
    /\ i.IsAnalyzed /\ ~i.IsBeingAnalyzed /\ ~i.IsDone /\ ~i.IsUnpredicable
    /\ C \in good /\ g.body[C] # <<>> /\ Len(g.preds[C]) = 1 /\ After(g, C) = next
\* The triangle that token t stands for is there.
TokenRight(g, kd, good, all, t) ==
    /\ t.Kind \in {"ICTriangle", "ICTriangleRev", "ICTriangleFalse", "ICTriangleFRev"}
    /\ ~t.NeedSubsumption
    /\ IsHead(g, kd, all[t.BB], t.BB)
    /\ IsTarget(g, good, all[TargetOf(all, t)], TargetOf(all, t), NextOf(all, t))
\* A reversed triangle is not alone.
Twins(all, tokens) ==
    \A t \in tokens : all[t.BB].IsEnqueued /\ t.Kind \in DOMAIN Twin =>
        \E u \in tokens : u.BB = t.BB /\ u.Kind = Twin[t.Kind]
\* All of it, of the tokens that have not been evicted.
TokensRight(g, kd, good, all, tokens) ==
    /\ Twins(all, tokens)
    /\ \A t \in tokens : all[t.BB].IsEnqueued => TokenRight(g, kd, good, all, t)

\* The inductive invariant: the function, what is known of it and the tokens are right.
IInv ==
    /\ phase \in {"analyze", "convert", "done"} /\ Change \in BOOLEAN
    /\ FunctionRight(f, kind) /\ predicate \in [Blocks -> CondCodes]
    /\ info \in [Blocks -> Infos] /\ InfoRight(f, kind, predicate, info)
    /\ \A b \in Blocks : ~info[b].IsBeingAnalyzed
    /\ Tokens \subseteq IfcvtToken /\ TokensRight(f, kind, pays, info, Tokens)
-----------------------------------------------------------------------------
(* Numbers.                                                                *)

\* A set of numbers has a smallest one.
LEMMA SmallestOf ==
    ASSUME NEW S, S \subseteq Nat, S # {}
    PROVE  \E v \in S : \A y \in S : v =< y
  <1>1. PICK v \in S : \A y \in S : ~(<<y, v>> \in OpToRel(<, Nat))
    BY NatLessThanWellFounded, WFMin
  <1>2. \A y \in S : ~(y < v)
    BY <1>1 DEF OpToRel
  <1> QED BY <1>2

\* Induction over the numbers up to n, with the set of those for which it holds.
LEMMA InductionUpTo ==
    ASSUME NEW n \in Nat, NEW G, 0 \in G, \A d \in 1 .. n : d - 1 \in G => d \in G
    PROVE  \A d \in 0 .. n : d \in G
  <1> DEFINE T == {d \in 0 .. n : d \notin G}
  <1>1. SUFFICES ASSUME T # {} PROVE FALSE
    OBVIOUS
  <1>2. T \subseteq Nat
    OBVIOUS
  <1>3. PICK d \in T : \A y \in T : d =< y
    <2> HIDE DEF T
    <2> QED BY <1>1, <1>2, SmallestOf
  <1>4. d \in 0 .. n /\ d \notin G /\ d # 0
    OBVIOUS
  <1>5. d \in 1 .. n /\ d - 1 \in 0 .. n /\ ~(d =< d - 1)
    BY ONLY <1>4, n \in Nat
  <1>6. d - 1 \in G
    BY <1>3, <1>5
  <1> QED BY <1>4, <1>5, <1>6
-----------------------------------------------------------------------------
(* Heads and targets.                                                      *)

\* The destinations of a block that falls through, that jumps, and of one with two ways.
LEMMA DestinationsOf ==
    ASSUME NEW g, NEW b
    PROVE  /\ g.term[b] = <<>> /\ (g.body[b] = <<>> \/ kind[Last(g.body[b])] # "noreturn")
                 /\ After(g, b) # Returns => Destinations(g, kind, b) = {After(g, b)}
           /\ \A x : g.term[b] = <<B(x)>> /\ (g.body[b] = <<>> \/ kind[Last(g.body[b])] # "noreturn")
                 /\ x # Returns => Destinations(g, kind, b) = {x}
           /\ \A x, y : (\A z \in Flagsets : Taken(g, b, z) \in {x, y}) => Destinations(g, kind, b) \subseteq {x, y}
  <1>1. {} \in Flagsets
    BY DEF Flagsets
  <1>2. \A x : (\A z \in Flagsets : Taken(g, b, z) = x) /\ (g.body[b] = <<>> \/ kind[Last(g.body[b])] # "noreturn")
                 /\ x # Returns => Destinations(g, kind, b) = {x}
    <2> SUFFICES ASSUME NEW x, \A z \in Flagsets : Taken(g, b, z) = x, x # Returns,
                        g.body[b] = <<>> \/ kind[Last(g.body[b])] # "noreturn"
                 PROVE  Destinations(g, kind, b) = {x}
      OBVIOUS
    <2>1. Destinations(g, kind, b) = {Taken(g, b, z) : z \in Flagsets} \ {Returns}
      BY DEF Destinations
    <2>2. {Taken(g, b, z) : z \in Flagsets} = {x}
      BY <1>1
    <2> QED BY <2>1, <2>2
  <1>3. ASSUME NEW x, NEW y, \A z \in Flagsets : Taken(g, b, z) \in {x, y}
        PROVE  Destinations(g, kind, b) \subseteq {x, y}
    BY <1>3 DEF Destinations
  <1>4. g.term[b] = <<>> => \A z \in Flagsets : Taken(g, b, z) = After(g, b)
    BY TakenForms
  <1>5. \A x : g.term[b] = <<B(x)>> => \A z \in Flagsets : Taken(g, b, z) = x
    BY TakenForms
  <1> QED BY <1>2, <1>3, <1>4, <1>5

\* findFalseBlock finds the other successor.
LEMMA FindFalse ==
    ASSUME NEW S, NEW b, f.succs[b] \in Seq(S), NEW x
    PROVE  FalseOf(f.succs[b], x) # None =>
              FalseOf(f.succs[b], x) \in ToSet(f.succs[b]) /\ FalseOf(f.succs[b], x) # x
  <1> DEFINE s == f.succs[b]
             I == {i \in 1 .. Len(s) : s[i] # x}
             k == SelectInSeq(s, LAMBDA v : v # x)
  <1>1. k = IF I # {} THEN CHOOSE v \in I : \A y \in I : v =< y ELSE 0
    BY DEF SelectInSeq, Min
  <1>2. FalseOf(f.succs[b], x) = IF k = 0 THEN None ELSE s[k]
    BY DEF FalseOf
  <1>3. I # {} => \E v \in I : \A y \in I : v =< y
    <2> HAVE I # {}
    <2>1. I \subseteq Nat
      OBVIOUS
    <2> HIDE DEF I
    <2> QED BY <2>1, SmallestOf
  <1>4. k = 0 \/ k \in I
    <2> HIDE DEF I, k
    <2> QED BY <1>1, <1>3
  <1>5. k \in I => s[k] \in ToSet(s) /\ s[k] # x
    <2>1. \A i \in I : i \in 1 .. Len(s) /\ s[i] # x
      OBVIOUS
    <2> HIDE DEF k, I, s
    <2>2. \A i \in 1 .. Len(s) : s[i] \in ToSet(s)
      BY Members DEF s
    <2> QED BY <2>1, <2>2
  <1> HIDE DEF k, I, s
  <1> QED BY <1>2, <1>4, <1>5 DEF s

\* Block b, with branch condition <<c>>, goes to the one or the other.
Splits(g, b, c, T, F) ==
    /\ T # F /\ ToSet(g.succs[b]) = {T, F}
    /\ \/ g.term[b] = <<BCC(T, c)>> /\ After(g, b) = F
       \/ g.term[b] = <<BCC(T, c), B(F)>>

\* The head of a candidate goes two ways.
LEMMA HeadSplits ==
    ASSUME NEW n \in Nat \ {0}, f \in Functional(n), EdgesRight(f, kind), NEW b \in 1 .. n,
           NEW i, Fresh(f, kind, i, b), i.BrCond # <<>>, i.FalseBB # None
    PROVE  \E c \in DOMAIN getOppositeCondition :
              i.BrCond = <<c>> /\ Splits(f, b, c, i.TrueBB, i.FalseBB)
  <1> DEFINE A == Analysis(f, b)
             F0 == IF A.Cond # <<>> /\ A.FBB = None THEN FalseOf(f.succs[b], A.TBB) ELSE A.FBB
  <1>1. i.TrueBB = A.TBB /\ i.BrCond = A.Cond /\ i.FalseBB = F0
    BY DEF Fresh
  <1>2. f.term[b] \in Terminators(1 .. n) /\ f.succs[b] \in Seq(1 .. n) /\ DOMAIN f.term = 1 .. n
    BY BlocksAre
  <1>3. BranchesTrue(f, b) /\ ToSet(f.succs[b]) = Destinations(f, kind, b)
    BY <1>2 DEF EdgesRight
  <1>4. CASE f.term[b] = <<>> \/ f.term[b] = <<RET>> \/ \E x \in 1 .. n : f.term[b] = <<B(x)>>
    <2>1. A.Cond = <<>>
      BY <1>4, AnalyzeForms
    <2> QED BY <2>1, <1>1
  <1>5. CASE \E x \in 1 .. n, c \in DOMAIN getOppositeCondition : f.term[b] = <<BCC(x, c)>>
    <2>1. PICK x \in 1 .. n, c \in DOMAIN getOppositeCondition : f.term[b] = <<BCC(x, c)>>
      BY <1>5
    <2>2. A.TBB = x /\ A.FBB = None /\ A.Cond = <<c>>
      BY <2>1, AnalyzeForms
    <2> HIDE DEF A
    <2>3. F0 = FalseOf(f.succs[b], x)
      <3>1. <<c>> # <<>>
        OBVIOUS
      <3> QED BY <2>2, <3>1
    <2> HIDE DEF F0
    <2>4. i.FalseBB \in ToSet(f.succs[b]) /\ i.FalseBB # x
      BY <2>3, <1>1, <1>2, FindFalse
    <2>5. x \in ToSet(f.succs[b])
      BY <1>3, <2>1, BranchesGo
    <2>6. Destinations(f, kind, b) \subseteq {x, After(f, b)}
      <3>1. \A z \in Flagsets : Taken(f, b, z) \in {x, After(f, b)}
        BY <2>1, TakenForms
      <3> QED BY <3>1, DestinationsOf
    <2>7. i.FalseBB = After(f, b) /\ ToSet(f.succs[b]) = {x, i.FalseBB}
      BY <2>4, <2>5, <2>6, <1>3
    <2>8. Splits(f, b, c, i.TrueBB, i.FalseBB)
      BY <2>1, <2>2, <2>4, <2>7, <1>1 DEF Splits
    <2> QED BY <2>8, <2>2, <1>1
  <1>6. CASE \E x, y \in 1 .. n, c \in DOMAIN getOppositeCondition : f.term[b] = <<BCC(x, c), B(y)>>
    <2>1. PICK x \in 1 .. n, y \in 1 .. n, c \in DOMAIN getOppositeCondition : f.term[b] = <<BCC(x, c), B(y)>>
      BY <1>6
    <2>2. A.TBB = x /\ A.FBB = y /\ A.Cond = <<c>>
      BY <2>1, AnalyzeForms
    <2> HIDE DEF A
    <2>3. F0 = y
      <3>1. y # None
        BY DEF None
      <3> QED BY <3>1, <2>2
    <2> HIDE DEF F0
    <2>4. x \in ToSet(f.succs[b]) /\ y \in ToSet(f.succs[b]) /\ x # y
      BY <1>3, <2>1, BranchesGo
    <2>5. Destinations(f, kind, b) \subseteq {x, y}
      <3>1. \A z \in Flagsets : Taken(f, b, z) \in {x, y}
        BY <2>1, TakenForms
      <3> QED BY <3>1, DestinationsOf
    <2>6. ToSet(f.succs[b]) = {x, y}
      BY <2>4, <2>5, <1>3
    <2>7. Splits(f, b, c, i.TrueBB, i.FalseBB)
      BY <2>1, <2>2, <2>3, <2>4, <2>6, <1>1 DEF Splits
    <2> QED BY <2>7, <2>2, <1>1
  <1> HIDE DEF A, F0
  <1> QED BY <1>2, <1>4, <1>5, <1>6, TerminatorForms

\* Its destinations.
LEMMA SplitsTaken ==
    ASSUME NEW g, NEW b, NEW c, NEW T, NEW F, Splits(g, b, c, T, F), NEW z
    PROVE  Taken(g, b, z) = IF Holds(c, z) THEN T ELSE F
  BY TakenForms DEF Splits

\* A block known to be predicable has no branch.
LEMMA TargetForm ==
    ASSUME NEW b, NEW i, Fresh(f, kind, i, b), ~i.IsUnpredicable
    PROVE  /\ f.term[b] = <<>> /\ \A u \in ToSet(f.body[b]) : kind[u] = "alu"
           /\ i.TrueBB = None /\ i.FalseBB = None /\ i.BrCond = <<>>
           /\ i.HasFallThrough /\ i.IsBrAnalyzable
  <1> DEFINE A == Analysis(f, b)
             F0 == IF A.Cond # <<>> /\ A.FBB = None THEN FalseOf(f.succs[b], A.TBB) ELSE A.FBB
  <1>1. Predicable(f, kind, b)
    BY DEF Fresh
  <1>2. f.term[b] = <<>> /\ \A u \in ToSet(f.body[b]) : kind[u] = "alu"
    BY <1>1 DEF Predicable
  <1>3. ~A.fail /\ A.TBB = None /\ A.FBB = None /\ A.Cond = <<>>
    BY <1>2, AnalyzeForms
  <1>4. i.TrueBB = A.TBB /\ i.BrCond = A.Cond /\ i.FalseBB = F0
    BY DEF Fresh
  <1>5. (i.IsBrAnalyzable <=> ~A.fail) /\ (i.HasFallThrough <=> ~A.fail /\ A.FBB = None)
    BY DEF Fresh
  <1> HIDE DEF A
  <1> QED BY <1>2, <1>3, <1>4, <1>5

\* The last place of a sequence.
LEMMA LastIn ==
    ASSUME NEW S, NEW s \in Seq(S), s # <<>>
    PROVE  Last(s) \in ToSet(s)
  <1>1. Len(s) \in 1 .. Len(s)
    OBVIOUS
  <1> QED BY <1>1, Members DEF Last

\* A block without branches whose code can be predicated goes to the one after it.
LEMMA FallsTo ==
    ASSUME NEW n \in Nat \ {0}, NEW g \in Functional(n), EdgesRight(g, kind), NEW b \in 1 .. n,
           g.term[b] = <<>>, \A u \in ToSet(g.body[b]) : kind[u] = "alu"
    PROVE  /\ ToSet(g.succs[b]) = {After(g, b)} /\ After(g, b) = b + 1 /\ b + 1 \in 1 .. n
           /\ Len(g.succs[b]) = 1 /\ g.succs[b][1] = After(g, b)
  <1>0. n \in Nat \ {0} /\ g \in Functional(n) /\ b \in 1 .. n
    OBVIOUS
  <1>1. /\ g.body[b] \in Seq(1 .. n) /\ g.succs[b] \in Seq(1 .. n) /\ DOMAIN g.term = 1 .. n
        /\ (b = n => After(g, b) = None) /\ (b # n => After(g, b) = b + 1)
    BY ONLY <1>0, BlockIs
  <1>2. g.body[b] = <<>> \/ kind[Last(g.body[b])] # "noreturn"
    BY <1>1, LastIn
  <1>3. After(g, b) # Returns
    BY <1>1 DEF None, Returns
  <1>4. ToSet(g.succs[b]) = {After(g, b)}
    BY <1>1, <1>2, <1>3, DestinationsOf DEF EdgesRight
  <1>5. After(g, b) \in 1 .. n
    <2>1. ToSet(g.succs[b]) \subseteq 1 .. n
      BY <1>1, Members
    <2> QED BY <2>1, <1>4
  <1>6. After(g, b) = b + 1 /\ b + 1 \in 1 .. n
    BY <1>1, <1>5 DEF None
  <1>7. NoRepeats(g.succs[b])
    BY <1>1 DEF EdgesRight
  <1>8. Len(g.succs[b]) = 1 /\ g.succs[b][1] = After(g, b)
    BY <1>1, <1>4, <1>7, SingletonIs
  <1> QED BY <1>4, <1>6, <1>8
-----------------------------------------------------------------------------
(* A triangle.                                                             *)

\* Blocks b, C and Nx are a triangle: b goes to C and Nx, C falls through to Nx.
TriangleAt(n, b, C, Nx) ==
    /\ n \in Nat \ {0} /\ f \in Functional(n) /\ EdgesRight(f, kind) /\ CodeOnce(f)
    /\ b \in 1 .. n /\ C \in 1 .. n /\ Nx \in 1 .. n /\ b # C /\ b # Nx /\ C # Nx
    /\ \E c \in DOMAIN getOppositeCondition, T, F \in 1 .. n :
          Splits(f, b, c, T, F) /\ {T, F} = {C, Nx}
    /\ f.term[C] = <<>> /\ f.body[C] # <<>> /\ After(f, C) = Nx
    /\ \A u \in ToSet(f.body[C]) : kind[u] = "alu"

\* RemoveBranch of a block without branches.
LEMMA RemoveBranchNone ==
    ASSUME NEW n, f \in Functional(n), NEW C \in 1 .. n, f.term[C] = <<>>
    PROVE  RemoveBranch(f, C) = f
  <1>1. Len(f.term[C]) = 0 /\ \A i \in 1 .. 0 : f.term[C][i].op \in {"B", "BCC"}
    OBVIOUS
  <1>2. 0 \in Nat
    OBVIOUS
  <1>3. RemoveBranch(f, C) = [f EXCEPT !.term[C] = SubSeq(@, 1, 0)]
    BY ONLY <1>1, <1>2, RemoveBranchOf
  <1>4. SubSeq(f.term[C], 1, 0) = <<>>
    <2>1. f.term[C] \in Seq(1 .. n)
      OBVIOUS
    <2> QED BY <2>1, SubSeqNothing
  <1>5. RemoveBranch(f, C) = [f EXCEPT !.term[C] = <<>>]
    BY <1>3, <1>4
  <1>6. [f EXCEPT !.term[C] = <<>>] = f
    BY DEF Functional
  <1> QED BY <1>5, <1>6

\* RemoveBranch of a block with one or two.
LEMMA RemoveBranchAll ==
    ASSUME NEW b, NEW c, NEW T, NEW F, Splits(f, b, c, T, F)
    PROVE  RemoveBranch(f, b) = [f EXCEPT !.term[b] = <<>>]
  <1>1. BCC(T, c).op = "BCC" /\ B(F).op = "B"
    BY DEF BCC, B
  <1>2. CASE f.term[b] = <<BCC(T, c)>>
    <2>1. Len(f.term[b]) = 1 /\ \A i \in 1 .. 1 : f.term[b][i].op \in {"B", "BCC"}
      BY <1>1, <1>2
    <2>2. 1 \in Nat
      OBVIOUS
    <2>3. RemoveBranch(f, b) = [f EXCEPT !.term[b] = SubSeq(@, 1, 0)]
      BY ONLY <2>1, <2>2, RemoveBranchOf
    <2>4. f.term[b] \in Seq({BCC(T, c)})
      BY <1>2
    <2>5. SubSeq(f.term[b], 1, 0) = <<>>
      BY ONLY <2>4, SubSeqNothing
    <2> QED BY <2>3, <2>5
  <1>3. CASE f.term[b] = <<BCC(T, c), B(F)>>
    <2>1. Len(f.term[b]) = 2 /\ \A i \in 1 .. 2 : f.term[b][i].op \in {"B", "BCC"}
      BY <1>1, <1>3
    <2>2. 2 \in Nat
      OBVIOUS
    <2>3. RemoveBranch(f, b) = [f EXCEPT !.term[b] = SubSeq(@, 1, 0)]
      BY ONLY <2>1, <2>2, RemoveBranchOf
    <2>4. f.term[b] \in Seq({BCC(T, c), B(F)})
      BY <1>3
    <2>5. SubSeq(f.term[b], 1, 0) = <<>>
      BY ONLY <2>4, SubSeqNothing
    <2> QED BY <2>3, <2>5
  <1> QED BY <1>2, <1>3 DEF Splits

\* The two blocks of a triangle merged.
LEMMA MergedIs ==
    ASSUME NEW n, NEW b, NEW C, NEW Nx, TriangleAt(n, b, C, Nx), info[C].HasFallThrough
    PROVE  Merged(b, C) = Swallowed(f, b, C)
  <1>0. n \in Nat \ {0} /\ f \in Functional(n) /\ b \in 1 .. n /\ C \in 1 .. n /\ b # C
        /\ f.term[C] = <<>> /\ After(f, C) = Nx /\ EdgesRight(f, kind)
    BY DEF TriangleAt
  <1> DEFINE g == [f EXCEPT !.term[b] = <<>>]
             moved == [g EXCEPT !.body[b] = @ \o g.body[C], !.body[C] = <<>>,
                             !.term[b] = @ \o g.term[C], !.term[C] = <<>>]
  <1>1. RemoveBranch(f, C) = f
    BY <1>0, RemoveBranchNone
  <1>2. RemoveBranch(f, b) = g
    BY RemoveBranchAll DEF TriangleAt
  <1>3. Merged(b, C) = MergeBlocks(g, b, C, info[C], FALSE)
    BY <1>1, <1>2 DEF Merged
  <1>4. f.succs[C] \in Seq(1 .. n) /\ Len(f.succs[C]) = 1 /\ f.succs[C][1] = After(f, C)
    <2>1. \A u \in ToSet(f.body[C]) : kind[u] = "alu"
      BY DEF TriangleAt
    <2>2. Len(f.succs[C]) = 1 /\ f.succs[C][1] = After(f, C)
      BY ONLY <2>1, <1>0, FallsTo
    <2>3. f.succs[C] \in Seq(1 .. n)
      BY ONLY <1>0, BlockIs
    <2> QED BY <2>2, <2>3
  <1>5. g.succs = f.succs /\ g.layout = f.layout /\ g.preds = f.preds
    BY <1>0 DEF Functional
  <1>6. After(g, C) = After(f, C)
    BY <1>5 DEF After, Position
  <1>7. moved.succs = f.succs
    BY <1>0 DEF Functional
  <1>8. isSuccessor(moved, C, After(g, C))
    <2>1. 1 \in 1 .. Len(f.succs[C])
      BY <1>4
    <2>2. Contains(f.succs[C], After(f, C))
      BY <2>1, <1>4 DEF Contains
    <2> HIDE DEF moved, g
    <2> QED BY <2>2, <1>6, <1>7 DEF isSuccessor
  <1>9. moved = Swallowed(f, b, C)
    <2>1. g.term[b] = <<>> /\ g.term[C] = <<>>
      BY <1>0 DEF Functional
    <2>2. <<>> \o <<>> = <<>>
      OBVIOUS
    <2>3. g.body = f.body
      BY <1>0 DEF Functional
    <2>4. moved = [g EXCEPT !.body[b] = @ \o f.body[C], !.body[C] = <<>>,
                             !.term[b] = <<>>, !.term[C] = <<>>]
      BY <2>1, <2>2, <2>3
    <2>5. Swallowed(f, b, C) = [f EXCEPT !.body[b] = @ \o f.body[C], !.body[C] = <<>>, !.term[b] = <<>>]
      BY DEF Swallowed
    <2>6. moved.body = Swallowed(f, b, C).body
      BY <2>4, <2>5, <2>3, <1>0 DEF Functional
    <2>7. moved.term = Swallowed(f, b, C).term
      <3>0. DOMAIN f = {"layout", "body", "term", "succs", "preds"}
        BY <1>0 DEF Functional
      <3>a. DOMAIN g = {"layout", "body", "term", "succs", "preds"}
        BY <3>0
      <3>1. moved.term = [g.term EXCEPT ![b] = <<>>, ![C] = <<>>]
        <4> HIDE DEF g, moved
        <4> QED BY ONLY <2>4, <3>a
      <3>2. g.term = [f.term EXCEPT ![b] = <<>>]
        BY <1>0 DEF Functional
      <3>3. Swallowed(f, b, C).term = [f.term EXCEPT ![b] = <<>>]
        BY <2>5, <1>0 DEF Functional
      <3>4. f.term = [f.term EXCEPT ![C] = <<>>]
        BY <1>0 DEF Functional
      <3> HIDE DEF g, moved
      <3> QED BY <3>1, <3>2, <3>3, <3>4, <1>0
    <2>8. moved = [f EXCEPT !.body = moved.body, !.term = moved.term]
      BY <2>4, <1>0 DEF Functional
    <2>9. Swallowed(f, b, C) = [f EXCEPT !.body = Swallowed(f, b, C).body, !.term = Swallowed(f, b, C).term]
      BY <2>5, <1>0 DEF Functional
    <2> HIDE DEF moved
    <2> QED BY ONLY <2>6, <2>7, <2>8, <2>9
  <1>10. Len(g.succs[C]) = 1 /\ g.succs[C][1] = After(g, C)
    BY <1>4, <1>5, <1>6
  <1>11. moved = [g EXCEPT !.body[b] = @ \o g.body[C], !.body[C] = <<>>,
                             !.term[b] = @ \o g.term[C], !.term[C] = <<>>]
    OBVIOUS
  <1> HIDE DEF moved, g
  <1>12. MergeBlocks(g, b, C, info[C], FALSE) = moved
    BY <1>8, <1>10, <1>11, MergeBlocksIs
  <1> QED BY <1>3, <1>9, <1>12

\* What Swallowed changes.
LEMMA SwallowedIs ==
    ASSUME NEW n \in Nat \ {0}, f \in Functional(n), NEW b \in 1 .. n, NEW C \in 1 .. n, b # C
    PROVE  LET g == Swallowed(f, b, C)
           IN  /\ g \in Functional(n)
               /\ g.layout = f.layout /\ g.succs = f.succs /\ g.preds = f.preds
  <1> DEFINE g == Swallowed(f, b, C)
             new == f.body[b] \o f.body[C]
  <1>1. f.body[b] \in Seq(1 .. n) /\ f.body[C] \in Seq(1 .. n)
    BY BlockIs
  <1>2. new \in Seq(1 .. n)
    BY <1>1
  <1>3. <<>> \in Seq(1 .. n) /\ <<>> \in Terminators(1 .. n)
    BY FormsAreTerminators
  <1>4. g = [f EXCEPT !.body[b] = new, !.body[C] = <<>>, !.term[b] = <<>>]
    BY DEF Swallowed
  <1> HIDE DEF new, g
  <1>5. g \in Functional(n)
    BY <1>2, <1>3, <1>4 DEF Functional
  <1>6. g.layout = f.layout /\ g.succs = f.succs /\ g.preds = f.preds
    BY <1>4 DEF Functional
  <1> QED BY <1>5, <1>6 DEF g

\* The terminators it leaves.
LEMMA SwallowedTerm ==
    ASSUME NEW n \in Nat \ {0}, f \in Functional(n), NEW b \in 1 .. n, NEW C \in 1 .. n, b # C
    PROVE  Swallowed(f, b, C).term = [f.term EXCEPT ![b] = <<>>]
  <1> DEFINE g == Swallowed(f, b, C)
             new == f.body[b] \o f.body[C]
  <1>1. g = [f EXCEPT !.body[b] = new, !.body[C] = <<>>, !.term[b] = <<>>]
    BY DEF Swallowed
  <1> HIDE DEF new, g
  <1>2. g.term = [f.term EXCEPT ![b] = <<>>]
    BY <1>1 DEF Functional
  <1> QED BY <1>2 DEF g

\* The triangle converted: block b ends in t, keeps the edge to keep and loses that to e.
Converted(b, C, t, keep, e) ==
    [f EXCEPT !.body[b] = @ \o f.body[C], !.body[C] = <<>>, !.term[b] = t,
              !.succs[b] = <<keep>>, !.preds[e] = RemoveFirst(@, b)]

\* Block NextBB has two predecessors.
LEMMA NextHasTwo ==
    ASSUME NEW n, NEW b, NEW C, NEW Nx, TriangleAt(n, b, C, Nx)
    PROVE  Len(f.preds[Nx]) # 1 /\ ToSet(f.succs[b]) = {C, Nx} /\ ToSet(f.succs[C]) = {Nx} /\ Nx = C + 1
  <1>1. n \in Nat \ {0} /\ f \in Functional(n) /\ EdgesRight(f, kind) /\ b \in 1 .. n /\ C \in 1 .. n
        /\ Nx \in 1 .. n /\ b # C /\ C # Nx /\ f.term[C] = <<>> /\ After(f, C) = Nx
        /\ \A u \in ToSet(f.body[C]) : kind[u] = "alu"
    BY DEF TriangleAt
  <1>2. ToSet(f.succs[b]) = {C, Nx}
    BY DEF TriangleAt, Splits
  <1>3. ToSet(f.succs[C]) = {Nx} /\ Nx = C + 1
    BY ONLY <1>1, FallsTo
  <1>4. f.preds[Nx] \in Seq(1 .. n) /\ DOMAIN f.term = 1 .. n
    BY ONLY <1>1, BlockIs
  <1>5. b \in ToSet(f.preds[Nx]) /\ C \in ToSet(f.preds[Nx])
    BY <1>1, <1>2, <1>3, <1>4 DEF EdgesRight
  <1>6. Len(f.preds[Nx]) # 1
    <2> SUFFICES ASSUME Len(f.preds[Nx]) = 1 PROVE FALSE
      OBVIOUS
    <2>1. ToSet(f.preds[Nx]) = {f.preds[Nx][1]}
      BY <1>4, SingleIs
    <2> QED BY <2>1, <1>5, <1>1
  <1> QED BY <1>2, <1>3, <1>6

\* The block after the two falls through.
LEMMA FallingIs ==
    ASSUME NEW n, NEW b, NEW C, NEW Nx, TriangleAt(n, b, C, Nx),
           canFallThroughTo(Swallowed(f, b, C), b, Nx)
    PROVE  After(f, b) = C
  <1> DEFINE g == Swallowed(f, b, C)
  <1>1. n \in Nat \ {0} /\ f \in Functional(n) /\ b \in 1 .. n /\ C \in 1 .. n
        /\ Nx \in 1 .. n /\ b # C /\ b # Nx
    BY DEF TriangleAt
  <1>2. ToSet(f.succs[b]) = {C, Nx} /\ Nx = C + 1
    BY NextHasTwo
  <1>3. g \in Functional(n) /\ g.succs = f.succs
    BY ONLY <1>1, SwallowedIs
  <1> HIDE DEF g
  <1>4. /\ Position(g, b) < Position(g, Nx)
        /\ \A p \in Position(g, b) + 1 .. Position(g, Nx) - 1 : isSuccessor(g, g.layout[p - 1], g.layout[p])
    BY DEF canFallThroughTo, g
  <1>5. /\ \A x \in 1 .. n : Position(g, x) = x /\ g.layout[x] = x
    BY ONLY <1>1, <1>3, BlocksAre
  <1>6. b < Nx /\ \A p \in b + 1 .. Nx - 1 : isSuccessor(g, g.layout[p - 1], g.layout[p])
    BY ONLY <1>1, <1>4, <1>5
  <1>7. b < C /\ b + 1 \in b + 1 .. Nx - 1 /\ b + 1 - 1 = b /\ b + 1 \in 1 .. n
    BY ONLY <1>1, <1>2, <1>6
  <1>9. isSuccessor(g, b, b + 1)
    <2>1. PICK p : p = b + 1
      OBVIOUS
    <2>2. p \in b + 1 .. Nx - 1 /\ p - 1 = b /\ p \in 1 .. n
      BY ONLY <1>1, <1>7, <2>1
    <2>3. isSuccessor(g, g.layout[p - 1], g.layout[p])
      BY ONLY <1>6, <2>2
    <2>4. g.layout[p - 1] = b /\ g.layout[p] = p
      BY ONLY <1>1, <1>5, <2>2
    <2> QED BY ONLY <2>1, <2>3, <2>4
  <1>8. f.succs[b] \in Seq(1 .. n) /\ (b # n => After(f, b) = b + 1)
    BY ONLY <1>1, BlockIs
  <1>11. b + 1 \in {C, Nx}
    BY <1>2, <1>3, <1>9, <1>8, Members DEF isSuccessor
  <1>12. b + 1 = C /\ b # n
    BY ONLY <1>1, <1>2, <1>7, <1>11
  <1> QED BY <1>8, <1>12

\* A triangle converted whose head now falls through.
LEMMA ConvertedFalling ==
    ASSUME NEW n, NEW b, NEW C, NEW Nx, TriangleAt(n, b, C, Nx), After(f, b) = C
    PROVE  RemoveExtraEdges(Swallowed(f, b, C), b) = Converted(b, C, <<>>, C, Nx)
  <1> DEFINE g == Swallowed(f, b, C)
             new == f.body[b] \o f.body[C]
  <1>1. n \in Nat \ {0} /\ f \in Functional(n) /\ EdgesRight(f, kind) /\ b \in 1 .. n /\ C \in 1 .. n
        /\ Nx \in 1 .. n /\ b # C /\ C # Nx
    BY DEF TriangleAt
  <1>2. ToSet(f.succs[b]) = {C, Nx}
    BY NextHasTwo
  <1>3a. g \in Functional(n) /\ g.layout = f.layout /\ g.succs = f.succs
    BY ONLY <1>1, SwallowedIs
  <1>3b. g.term = [f.term EXCEPT ![b] = <<>>]
    BY ONLY <1>1, SwallowedTerm
  <1>3. g \in Functional(n) /\ g.layout = f.layout /\ g.succs = f.succs
        /\ g.term = [f.term EXCEPT ![b] = <<>>]
    BY <1>3a, <1>3b
  <1>4. g = [f EXCEPT !.body[b] = new, !.body[C] = <<>>, !.term[b] = <<>>]
    BY DEF Swallowed
  <1> HIDE DEF g, new
  <1>5. NoRepeats(g.succs[b]) /\ DOMAIN f.term = 1 .. n
    <2>1. DOMAIN f.term = 1 .. n
      BY ONLY <1>1, BlockIs
    <2> QED BY <2>1, <1>1, <1>3 DEF EdgesRight
  <1>6. g.term[b] = <<>>
    BY <1>1, <1>3, <1>5
  <1>7. After(g, b) = C
    BY <1>3 DEF After, Position
  <1>8. ToSet(g.succs[b]) = {C, Nx}
    BY <1>2, <1>3
  <1>9. n \in Nat
    BY <1>1
  <1>10. RemoveExtraEdges(g, b) = Kept(g, b, C, Nx)
    BY ONLY <1>1, <1>3, <1>5, <1>6, <1>7, <1>8, <1>9, KeepOne
  <1>11. Kept(g, b, C, Nx) = [f EXCEPT !.body[b] = new, !.body[C] = <<>>, !.term[b] = <<>>,
              !.succs[b] = <<C>>, !.preds[Nx] = RemoveFirst(@, b)]
    BY <1>1, <1>4 DEF Kept, Functional
  <1> QED BY <1>10, <1>11 DEF Converted, g, new

\* One whose head gets a branch to the other block.
LEMMA ConvertedJumping ==
    ASSUME NEW n, NEW b, NEW C, NEW Nx, TriangleAt(n, b, C, Nx)
    PROVE  RemoveExtraEdges(InsertBranch(Swallowed(f, b, C), b, Nx, None, <<>>), b)
              = Converted(b, C, <<B(Nx)>>, Nx, C)
  <1> DEFINE g == Swallowed(f, b, C)
             h == InsertBranch(g, b, Nx, None, <<>>)
             new == f.body[b] \o f.body[C]
  <1>1. n \in Nat \ {0} /\ f \in Functional(n) /\ EdgesRight(f, kind) /\ b \in 1 .. n /\ C \in 1 .. n
        /\ Nx \in 1 .. n /\ b # C /\ C # Nx
    BY DEF TriangleAt
  <1>2. ToSet(f.succs[b]) = {C, Nx}
    BY NextHasTwo
  <1>3a. g \in Functional(n) /\ g.layout = f.layout /\ g.succs = f.succs
    BY ONLY <1>1, SwallowedIs
  <1>3b. g.term = [f.term EXCEPT ![b] = <<>>]
    BY ONLY <1>1, SwallowedTerm
  <1>3. g \in Functional(n) /\ g.layout = f.layout /\ g.succs = f.succs
        /\ g.term = [f.term EXCEPT ![b] = <<>>]
    BY <1>3a, <1>3b
  <1>4. g = [f EXCEPT !.body[b] = new, !.body[C] = <<>>, !.term[b] = <<>>]
    BY DEF Swallowed
  <1>5. h = [g EXCEPT !.term[b] = @ \o <<B(Nx)>>]
    BY <1>1 DEF InsertBranch, Asserting, None
  <1> HIDE DEF g, new, h
  <1>6. DOMAIN f.term = 1 .. n /\ NoRepeats(f.succs[b])
    <2>1. DOMAIN f.term = 1 .. n
      BY ONLY <1>1, BlockIs
    <2> QED BY <2>1, <1>1 DEF EdgesRight
  <1>7. g.term[b] = <<>>
    BY <1>1, <1>3, <1>6
  <1> DEFINE t == <<B(Nx)>>
  <1>8. t \in Terminators(1 .. n)
    BY <1>1, FormsAreTerminators
  <1>9. h = [g EXCEPT !.term[b] = t]
    <2>1. <<>> \o t = t
      OBVIOUS
    <2> QED BY <2>1, <1>5, <1>7
  <1> HIDE DEF t
  <1>10. h \in Functional(n) /\ h.succs = g.succs /\ h.term[b] = t /\ h.layout = f.layout
    BY <1>1, <1>3, <1>8, <1>9 DEF Functional
  <1>11. NoRepeats(h.succs[b]) /\ ToSet(h.succs[b]) = {Nx, C}
    BY <1>2, <1>3, <1>6, <1>10
  <1>12. Nx # None /\ n \in Nat /\ Nx # C
    BY <1>1 DEF None
  <1>13. RemoveExtraEdges(h, b) = Kept(h, b, Nx, C)
    BY ONLY <1>1, <1>10, <1>11, <1>12, KeepOne DEF t
  <1>14. Kept(h, b, Nx, C) = [f EXCEPT !.body[b] = new, !.body[C] = <<>>, !.term[b] = t,
              !.succs[b] = <<Nx>>, !.preds[C] = RemoveFirst(@, b)]
    <2>1. h = [f EXCEPT !.body[b] = new, !.body[C] = <<>>, !.term[b] = t]
      <3>1. DOMAIN f = {"layout", "body", "term", "succs", "preds"}
        BY <1>1 DEF Functional
      <3> QED BY ONLY <1>1, <1>4, <1>6, <1>9, <3>1
    <2>2. h.succs = f.succs /\ h.preds = f.preds
      BY <2>1, <1>1 DEF Functional
    <2> QED BY <1>1, <2>1, <2>2 DEF Kept, Functional
  <1> QED BY <1>13, <1>14 DEF Converted, g, h, new, t

\* Control goes the same way where terminators and layout are the same.
LEMMA TakenSame ==
    ASSUME NEW g, NEW h, g.layout = h.layout, NEW d, g.term[d] = h.term[d]
    PROVE  After(g, d) = After(h, d) /\ \A z : Taken(g, d, z) = Taken(h, d, z)
  <1>1. After(g, d) = After(h, d)
    BY DEF After, Position
  <1>2. ASSUME NEW z PROVE Taken(g, d, z) = Taken(h, d, z)
    <2>1. \A u : Taken(u, d, z) = IF FirstHolding(u.term[d], z) = 0 THEN After(u, d)
                ELSE IF u.term[d][FirstHolding(u.term[d], z)].op = "RET" THEN Returns
                ELSE u.term[d][FirstHolding(u.term[d], z)].to
      BY DEF Taken, FirstHolding
    <2> QED BY <1>1, <2>1
  <1> QED BY <1>1, <1>2

\* The same of all ways.
LEMMA DestinationsSame ==
    ASSUME NEW g, NEW h, g.layout = h.layout, NEW d, g.term[d] = h.term[d], g.body[d] = h.body[d]
    PROVE  Destinations(g, kind, d) = Destinations(h, kind, d)
  <1>1. \A z : Taken(g, d, z) = Taken(h, d, z)
    BY TakenSame
  <1>2. {Taken(g, d, z) : z \in Flagsets} = {Taken(h, d, z) : z \in Flagsets}
    BY <1>1
  <1> QED BY <1>2 DEF Destinations

\* The elements of two sequences joined.
LEMMA JoinOf ==
    ASSUME NEW S, NEW p \in Seq(S), NEW q \in Seq(S)
    PROVE  /\ p \o q \in Seq(S) /\ ToSet(p \o q) = ToSet(p) \cup ToSet(q)
           /\ Len(p \o q) = Len(p) + Len(q)
           /\ \A i \in 1 .. Len(p) : (p \o q)[i] = p[i]
           /\ \A i \in 1 .. Len(q) : (p \o q)[Len(p) + i] = q[i]
           /\ q # <<>> => p \o q # <<>> /\ Last(p \o q) = Last(q)
           /\ NoRepeats(p) /\ NoRepeats(q) /\ ToSet(p) \cap ToSet(q) = {} => NoRepeats(p \o q)
  <1> DEFINE r == p \o q
  <1>1. r \in Seq(S) /\ Len(r) = Len(p) + Len(q) /\ Len(p) \in Nat /\ Len(q) \in Nat
    OBVIOUS
  <1>2. \A i \in 1 .. Len(p) : r[i] = p[i]
    OBVIOUS
  <1>3. \A i \in 1 .. Len(q) : r[Len(p) + i] = q[i]
    OBVIOUS
  <1> HIDE DEF r
  <1>4. \A i \in 1 .. Len(r) : i \in 1 .. Len(p) \/ (i - Len(p) \in 1 .. Len(q) /\ i = Len(p) + (i - Len(p)))
    BY <1>1
  <1>5. \A i \in 1 .. Len(p) : i \in 1 .. Len(r)
    BY <1>1
  <1>6. \A i \in 1 .. Len(q) : Len(p) + i \in 1 .. Len(r)
    BY <1>1
  <1>7. \A x : x \in ToSet(r) <=> x \in ToSet(p) \cup ToSet(q)
    <2> TAKE x
    <2>1. x \in ToSet(r) <=> \E i \in 1 .. Len(r) : r[i] = x
      BY <1>1, Members
    <2>2. x \in ToSet(p) <=> \E i \in 1 .. Len(p) : p[i] = x
      BY Members
    <2>3. x \in ToSet(q) <=> \E i \in 1 .. Len(q) : q[i] = x
      BY Members
    <2>4. ASSUME NEW i \in 1 .. Len(r), r[i] = x PROVE x \in ToSet(p) \cup ToSet(q)
      <3>1. CASE i \in 1 .. Len(p)
        BY <3>1, <2>4, <1>2, <2>2
      <3>2. CASE i - Len(p) \in 1 .. Len(q) /\ i = Len(p) + (i - Len(p))
        <4>1. PICK j \in 1 .. Len(q) : i = Len(p) + j
          BY <3>2
        <4> QED BY <4>1, <2>4, <1>3, <2>3
      <3> QED BY <3>1, <3>2, <1>4
    <2> QED BY <2>1, <2>2, <2>3, <2>4, <1>2, <1>3, <1>5, <1>6
  <1>8. ToSet(r) = ToSet(p) \cup ToSet(q)
    BY <1>7
  <1>9. q # <<>> => r # <<>> /\ Last(r) = Last(q)
    <2> HAVE q # <<>>
    <2>1. Len(q) \in 1 .. Len(q)
      BY <1>1
    <2>2. r[Len(p) + Len(q)] = q[Len(q)]
      BY <1>3, <2>1
    <2>3. Len(r) # 0
      BY <1>1, <2>1
    <2> QED BY <2>2, <2>3, <1>1 DEF Last
  <1>10. ASSUME NoRepeats(p), NoRepeats(q), ToSet(p) \cap ToSet(q) = {} PROVE NoRepeats(r)
    <2>0. DOMAIN p = 1 .. Len(p) /\ DOMAIN q = 1 .. Len(q) /\ DOMAIN r = 1 .. Len(r)
      BY <1>1
    <2>a. (\A i \in 1 .. Len(p) : p[i] \in ToSet(p)) /\ (\A i \in 1 .. Len(q) : q[i] \in ToSet(q))
      BY Members
    <2>b. \A i, j \in 1 .. Len(p) : p[i] = p[j] => i = j
      BY <1>10, <2>0 DEF NoRepeats
    <2>c. \A i, j \in 1 .. Len(q) : q[i] = q[j] => i = j
      BY <1>10, <2>0 DEF NoRepeats
    <2> SUFFICES ASSUME NEW i \in 1 .. Len(r), NEW j \in 1 .. Len(r), r[i] = r[j] PROVE i = j
      BY <2>0 DEF NoRepeats
    <2>1. CASE i \in 1 .. Len(p) /\ j \in 1 .. Len(p)
      BY <2>1, <2>b, <1>2
    <2>2. CASE i \in 1 .. Len(p) /\ j \notin 1 .. Len(p)
      <3>1. PICK k \in 1 .. Len(q) : j = Len(p) + k
        BY <2>2, <1>4
      <3>2. r[i] = p[i] /\ r[j] = q[k]
        BY <2>2, <3>1, <1>2, <1>3
      <3> QED BY <3>2, <2>2, <2>a, <1>10
    <2>3. CASE i \notin 1 .. Len(p) /\ j \in 1 .. Len(p)
      <3>1. PICK k \in 1 .. Len(q) : i = Len(p) + k
        BY <2>3, <1>4
      <3>2. r[j] = p[j] /\ r[i] = q[k]
        BY <2>3, <3>1, <1>2, <1>3
      <3> QED BY <3>2, <2>3, <2>a, <1>10
    <2>4. CASE i \notin 1 .. Len(p) /\ j \notin 1 .. Len(p)
      <3>1. PICK k \in 1 .. Len(q) : i = Len(p) + k
        BY <2>4, <1>4
      <3>2. PICK m \in 1 .. Len(q) : j = Len(p) + m
        BY <2>4, <1>4
      <3>3. r[i] = q[k] /\ r[j] = q[m]
        BY <3>1, <3>2, <1>3
      <3> QED BY <3>1, <3>2, <3>3, <2>c
    <2> QED BY <2>1, <2>2, <2>3, <2>4
  <1>11. r \in Seq(S) /\ Len(r) = Len(p) + Len(q)
    BY <1>1
  <1>12. NoRepeats(p) /\ NoRepeats(q) /\ ToSet(p) \cap ToSet(q) = {} => NoRepeats(r)
    BY <1>10
  <1> QED BY ONLY <1>2, <1>3, <1>8, <1>9, <1>11, <1>12 DEF r

\* How block b may go on once it has swallowed C.
GoesOn(b, C, Nx, t, keep, e) ==
    /\ {keep, e} = {C, Nx} /\ keep # e
    /\ (t = <<>> /\ keep = C /\ After(f, b) = C) \/ (t = <<B(Nx)>> /\ keep = Nx)

\* What block b becomes: h is f but for this.
ConvertedTo(n, h, b, C, t, keep, e) ==
    /\ h \in Functional(n) /\ h.layout = f.layout
    /\ h.body[b] = f.body[b] \o f.body[C] /\ h.body[C] = <<>>
    /\ \A d \in (1 .. n) \ {b, C} : h.body[d] = f.body[d]
    /\ h.term[b] = t /\ \A d \in (1 .. n) \ {b} : h.term[d] = f.term[d]
    /\ h.succs[b] = <<keep>> /\ \A d \in (1 .. n) \ {b} : h.succs[d] = f.succs[d]
    /\ \A d \in (1 .. n) \ {e} : h.preds[d] = f.preds[d]
    /\ t \in Terminators(1 .. n) /\ keep \in 1 .. n /\ e \in 1 .. n
    /\ NoRepeats(h.preds[e]) /\ ToSet(h.preds[e]) = ToSet(f.preds[e]) \ {b}

\* A conversion changes what ConvertedTo says.
LEMMA ConvertedFields ==
    ASSUME NEW n, NEW b, NEW C, NEW Nx, TriangleAt(n, b, C, Nx),
           NEW t, NEW keep, NEW e, GoesOn(b, C, Nx, t, keep, e)
    PROVE  ConvertedTo(n, Converted(b, C, t, keep, e), b, C, t, keep, e)
  <1> DEFINE h == Converted(b, C, t, keep, e)
             new == f.body[b] \o f.body[C]
             one == <<keep>>
             less == RemoveFirst(f.preds[e], b)
             none == <<>>
  <1>1. n \in Nat \ {0} /\ f \in Functional(n) /\ EdgesRight(f, kind) /\ b \in 1 .. n /\ C \in 1 .. n
        /\ Nx \in 1 .. n /\ b # C /\ C # Nx
    BY DEF TriangleAt
  <1>2. keep \in 1 .. n /\ e \in 1 .. n
    BY <1>1 DEF GoesOn
  <1>3. t \in Terminators(1 .. n)
    BY <1>1, FormsAreTerminators DEF GoesOn
  <1>4. f.body[b] \in Seq(1 .. n) /\ f.body[C] \in Seq(1 .. n)
    BY ONLY <1>1, BlockIs
  <1>5. new \in Seq(1 .. n) /\ one \in Seq(1 .. n) /\ none \in Seq(1 .. n)
    BY <1>2, <1>4
  <1>6. f.preds[e] \in Seq(1 .. n) /\ DOMAIN f.term = 1 .. n
    BY ONLY <1>1, <1>2, BlockIs
  <1>7. NoRepeats(f.preds[e])
    BY <1>1, <1>2, <1>6 DEF EdgesRight
  <1>8. less \in Seq(1 .. n) /\ NoRepeats(less) /\ ToSet(less) = ToSet(f.preds[e]) \ {b}
    BY ONLY <1>6, <1>7, RemoveFirstOf
  <1>9. h = [f EXCEPT !.body[b] = new, !.body[C] = none, !.term[b] = t, !.succs[b] = one, !.preds[e] = less]
    BY DEF Converted
  <1> HIDE DEF h, new, one, less, none
  <1>10. h \in Functional(n)
    BY <1>1, <1>2, <1>3, <1>5, <1>8, <1>9 DEF Functional
  <1>11. /\ h.layout = f.layout /\ h.body = [f.body EXCEPT ![b] = new, ![C] = none]
         /\ h.term = [f.term EXCEPT ![b] = t]
    BY <1>1, <1>9 DEF Functional
  <1>12. h.succs = [f.succs EXCEPT ![b] = one] /\ h.preds = [f.preds EXCEPT ![e] = less]
    BY <1>1, <1>9 DEF Functional
  <1>13. DOMAIN f.body = 1 .. n /\ DOMAIN f.term = 1 .. n /\ DOMAIN f.succs = 1 .. n /\ DOMAIN f.preds = 1 .. n
    BY <1>1 DEF Functional
  <1>14. /\ h.body[b] = new /\ h.body[C] = none /\ \A d \in (1 .. n) \ {b, C} : h.body[d] = f.body[d]
    BY <1>1, <1>11, <1>13
  <1>15. h.term[b] = t /\ \A d \in (1 .. n) \ {b} : h.term[d] = f.term[d]
    BY <1>1, <1>11, <1>13
  <1>16. h.succs[b] = one /\ \A d \in (1 .. n) \ {b} : h.succs[d] = f.succs[d]
    BY <1>1, <1>12, <1>13
  <1>17. h.preds[e] = less /\ \A d \in (1 .. n) \ {e} : h.preds[d] = f.preds[d]
    BY <1>2, <1>12, <1>13
  <1>18. /\ h.body[b] = f.body[b] \o f.body[C] /\ h.body[C] = <<>> /\ h.succs[b] = <<keep>>
    BY <1>14, <1>16 DEF new, one, none
  <1>19. ConvertedTo(n, h, b, C, t, keep, e)
    BY <1>2, <1>3, <1>8, <1>10, <1>11, <1>14, <1>15, <1>16, <1>17, <1>18 DEF ConvertedTo
  <1> QED BY <1>19 DEF h

\* Edges stay right.
LEMMA ConvertedEdges ==
    ASSUME NEW n, NEW b, NEW C, NEW Nx, TriangleAt(n, b, C, Nx),
           NEW t, NEW keep, NEW e, GoesOn(b, C, Nx, t, keep, e)
    PROVE  EdgesRight(Converted(b, C, t, keep, e), kind)
  <1> DEFINE h == Converted(b, C, t, keep, e)
  <1>0. ConvertedTo(n, h, b, C, t, keep, e)
    BY ConvertedFields
  <1> HIDE DEF h
  <1>1. n \in Nat \ {0} /\ f \in Functional(n) /\ EdgesRight(f, kind) /\ b \in 1 .. n /\ C \in 1 .. n
        /\ Nx \in 1 .. n /\ b # C /\ C # Nx /\ b # Nx /\ f.term[C] = <<>> /\ f.body[C] # <<>> /\ After(f, C) = Nx
        /\ \A u \in ToSet(f.body[C]) : kind[u] = "alu"
    BY DEF TriangleAt
  <1>2. h \in Functional(n) /\ h.layout = f.layout
    BY <1>0 DEF ConvertedTo
  <1>3. /\ h.body[b] = f.body[b] \o f.body[C] /\ h.body[C] = <<>>
        /\ \A d \in (1 .. n) \ {b, C} : h.body[d] = f.body[d]
    BY <1>0 DEF ConvertedTo
  <1>4. h.term[b] = t /\ \A d \in (1 .. n) \ {b} : h.term[d] = f.term[d]
    BY <1>0 DEF ConvertedTo
  <1>5. h.succs[b] = <<keep>> /\ \A d \in (1 .. n) \ {b} : h.succs[d] = f.succs[d]
    BY <1>0 DEF ConvertedTo
  <1>6. \A d \in (1 .. n) \ {e} : h.preds[d] = f.preds[d]
    BY <1>0 DEF ConvertedTo
  <1>7. keep \in 1 .. n /\ e \in 1 .. n /\ NoRepeats(h.preds[e]) /\ ToSet(h.preds[e]) = ToSet(f.preds[e]) \ {b}
    BY <1>0 DEF ConvertedTo
  <1>8. DOMAIN h.term = 1 .. n /\ DOMAIN f.term = 1 .. n
    BY <1>1, <1>2 DEF Functional
  <1>9. ToSet(f.succs[b]) = {keep, e} /\ keep # e
    BY NextHasTwo DEF GoesOn
  <1>10. ToSet(h.succs[b]) = {keep} /\ NoRepeats(h.succs[b])
    <2>1. Len(<<keep>>) = 1 /\ DOMAIN <<keep>> = 1 .. 1 /\ <<keep>>[1] = keep
      OBVIOUS
    <2>2. ToSet(<<keep>>) = {keep}
      BY <2>1 DEF ToSet
    <2>3. NoRepeats(<<keep>>)
      BY <2>1 DEF NoRepeats
    <2> QED BY <1>5, <2>2, <2>3
  <1>11. \A d \in 1 .. n : NoRepeats(h.succs[d]) /\ NoRepeats(h.preds[d])
    BY <1>1, <1>5, <1>6, <1>7, <1>8, <1>10 DEF EdgesRight
  <1>12. \A d, c \in 1 .. n : c \in ToSet(h.succs[d]) <=> d \in ToSet(h.preds[c])
    <2> SUFFICES ASSUME NEW d \in 1 .. n, NEW c \in 1 .. n
                 PROVE  c \in ToSet(h.succs[d]) <=> d \in ToSet(h.preds[c])
      OBVIOUS
    <2>1. c \in ToSet(f.succs[d]) <=> d \in ToSet(f.preds[c])
      BY <1>1, <1>8 DEF EdgesRight
    <2>2. d \in ToSet(h.preds[c]) <=> d \in ToSet(f.preds[c]) /\ ~(c = e /\ d = b)
      BY <1>6, <1>7
    <2>3. CASE d = b
      BY <2>1, <2>2, <2>3, <1>9, <1>10
    <2>4. CASE d # b
      BY <2>1, <2>2, <2>4, <1>5
    <2> QED BY <2>3, <2>4
  <1>13. ToSet(h.succs[b]) = Destinations(h, kind, b)
    <2>1. f.body[b] \in Seq(1 .. n) /\ f.body[C] \in Seq(1 .. n)
      BY ONLY <1>1, BlockIs
    <2>2. h.body[b] # <<>> /\ Last(h.body[b]) = Last(f.body[C])
      BY <2>1, <1>1, <1>3, JoinOf
    <2>3. kind[Last(h.body[b])] # "noreturn"
      BY <2>1, <2>2, <1>1, LastIn
    <2>4. keep # Returns
      BY <1>7 DEF Returns
    <2>5. CASE t = <<>> /\ keep = C /\ After(f, b) = C
      <3>1. h.term[b] = <<>>
        BY <1>4, <2>5
      <3>2. After(h, b) = C
        BY <1>2, <2>5 DEF After, Position
      <3> QED BY <3>1, <3>2, <2>3, <2>4, <2>5, <1>10, DestinationsOf
    <2>6. CASE t = <<B(Nx)>> /\ keep = Nx
      <3>1. h.term[b] = <<B(Nx)>>
        BY <1>4, <2>6
      <3> QED BY <3>1, <2>3, <2>4, <2>6, <1>10, DestinationsOf
    <2> QED BY <2>5, <2>6 DEF GoesOn
  <1>14. ToSet(h.succs[C]) = Destinations(h, kind, C)
    <2>1. After(h, C) = Nx
      BY <1>1, <1>2 DEF After, Position
    <2>2. h.term[C] = <<>>
      BY <1>1, <1>4
    <2>3. Destinations(h, kind, C) = {Nx}
      <3>1. Nx # Returns
        BY <1>1 DEF Returns
      <3> QED BY <3>1, <2>1, <2>2, <1>3, DestinationsOf
    <2>4. ToSet(f.succs[C]) = {Nx}
      BY NextHasTwo
    <2> QED BY <2>3, <2>4, <1>1, <1>5
  <1>15. ASSUME NEW d \in (1 .. n) \ {b, C} PROVE ToSet(h.succs[d]) = Destinations(h, kind, d)
    <2>1. Destinations(h, kind, d) = Destinations(f, kind, d)
      BY <1>2, <1>3, <1>4, DestinationsSame
    <2>2. ToSet(f.succs[d]) = Destinations(f, kind, d)
      BY <1>1, <1>8 DEF EdgesRight
    <2> QED BY <2>1, <2>2, <1>5
  <1>16. BranchesTrue(h, b)
    <2>1. CASE t = <<>>
      <3>1. ToSet(h.term[b]) = {} /\ Len(h.term[b]) = 0
        BY <2>1, <1>4 DEF ToSet
      <3> QED BY <3>1 DEF BranchesTrue
    <2>2. CASE t = <<B(Nx)>> /\ keep = Nx
      <3>1. ToSet(<<B(Nx)>>) = {B(Nx)} /\ Len(<<B(Nx)>>) = 1
        <4>1. Len(<<B(Nx)>>) = 1 /\ DOMAIN <<B(Nx)>> = 1 .. 1 /\ <<B(Nx)>>[1] = B(Nx)
          OBVIOUS
        <4> QED BY <4>1 DEF ToSet
      <3>2. B(Nx).to = Nx
        BY DEF B
      <3> QED BY <3>1, <3>2, <2>2, <1>4, <1>10 DEF BranchesTrue
    <2> QED BY <2>1, <2>2 DEF GoesOn
  <1>17. ASSUME NEW d \in (1 .. n) \ {b} PROVE BranchesTrue(h, d)
    <2>1. BranchesTrue(f, d)
      BY <1>1, <1>8 DEF EdgesRight
    <2> QED BY <2>1, <1>4, <1>5 DEF BranchesTrue
  <1>18. \A d \in 1 .. n : ToSet(h.succs[d]) = Destinations(h, kind, d) /\ BranchesTrue(h, d)
    <2> TAKE d \in 1 .. n
    <2>1. CASE d = b
      BY <2>1, <1>13, <1>16
    <2>2. CASE d = C
      BY <2>2, <1>1, <1>14, <1>17
    <2>3. CASE d \notin {b, C}
      BY <2>3, <1>15, <1>17
    <2> QED BY <2>1, <2>2, <2>3
  <1>19. EdgesRight(h, kind)
    BY <1>8, <1>11, <1>12, <1>18 DEF EdgesRight
  <1> QED BY <1>19 DEF h

\* So does the code.
LEMMA ConvertedCode ==
    ASSUME NEW n, NEW b, NEW C, NEW Nx, TriangleAt(n, b, C, Nx),
           NEW t, NEW keep, NEW e, GoesOn(b, C, Nx, t, keep, e)
    PROVE  CodeOnce(Converted(b, C, t, keep, e))
  <1> DEFINE h == Converted(b, C, t, keep, e)
  <1>0. ConvertedTo(n, h, b, C, t, keep, e)
    BY ConvertedFields
  <1> HIDE DEF h
  <1>1. n \in Nat \ {0} /\ f \in Functional(n) /\ CodeOnce(f) /\ b \in 1 .. n /\ C \in 1 .. n /\ b # C
    BY DEF TriangleAt
  <1>2. h \in Functional(n)
    BY <1>0 DEF ConvertedTo
  <1>3. /\ h.body[b] = f.body[b] \o f.body[C] /\ h.body[C] = <<>>
        /\ \A d \in (1 .. n) \ {b, C} : h.body[d] = f.body[d]
    BY <1>0 DEF ConvertedTo
  <1>4. DOMAIN h.term = 1 .. n /\ DOMAIN f.term = 1 .. n
    BY <1>1, <1>2 DEF Functional
  <1>5. f.body[b] \in Seq(1 .. n) /\ f.body[C] \in Seq(1 .. n)
    BY ONLY <1>1, BlockIs
  <1>6. NoRepeats(f.body[b]) /\ NoRepeats(f.body[C]) /\ ToSet(f.body[b]) \cap ToSet(f.body[C]) = {}
    BY <1>1, <1>4 DEF CodeOnce
  <1>7. ToSet(h.body[b]) = ToSet(f.body[b]) \cup ToSet(f.body[C]) /\ NoRepeats(h.body[b])
    BY <1>3, <1>5, <1>6, JoinOf
  <1>8. ToSet(h.body[C]) = {} /\ NoRepeats(h.body[C])
    BY <1>3 DEF ToSet, NoRepeats
  <1>9. \A d \in (1 .. n) \ {b, C} : h.body[d] = f.body[d] /\ NoRepeats(f.body[d])
    BY <1>1, <1>3, <1>4 DEF CodeOnce
  <1>10. \A d, c \in 1 .. n : \A u \in ToSet(f.body[d]) : u \in ToSet(f.body[c]) => d = c
    BY <1>1, <1>4 DEF CodeOnce
  <1>11. \A d \in 1 .. n : NoRepeats(h.body[d])
    BY <1>7, <1>8, <1>9
  <1> DEFINE at(d) == IF d = C THEN b ELSE d
  <1>12. \A d \in 1 .. n : \A u : u \in ToSet(h.body[d]) <=> \E x \in 1 .. n : at(x) = d /\ u \in ToSet(f.body[x])
    BY <1>1, <1>7, <1>8, <1>9
  <1> HIDE DEF at
  <1>13. ASSUME NEW d \in 1 .. n, NEW c \in 1 .. n, NEW u, u \in ToSet(h.body[d]), u \in ToSet(h.body[c]) PROVE d = c
    <2>1. PICK x \in 1 .. n : at(x) = d /\ u \in ToSet(f.body[x])
      BY <1>12, <1>13
    <2>2. PICK y \in 1 .. n : at(y) = c /\ u \in ToSet(f.body[y])
      BY <1>12, <1>13
    <2> QED BY <2>1, <2>2, <1>10
  <1>14. CodeOnce(h)
    BY <1>4, <1>11, <1>13 DEF CodeOnce
  <1> QED BY <1>14 DEF h

\* What a token says holds of the function.
LEMMA TokenTriangle ==
    ASSUME NEW n \in Nat \ {0}, f \in Functional(n), EdgesRight(f, kind), CodeOnce(f),
           NEW all, InfoRight(f, kind, predicate, all), NEW t, t.BB \in 1 .. n,
           TokenRight(f, kind, pays, all, t)
    PROVE  LET b == t.BB
               C == TargetOf(all, t)
               Nx == NextOf(all, t)
           IN  /\ TriangleAt(n, b, C, Nx) /\ {all[b].TrueBB, all[b].FalseBB} = {C, Nx}
               /\ all[C].HasFallThrough /\ all[C].BrCond = <<>> /\ all[C].Predicate = <<>>
               /\ all[C].FalseBB = None /\ all[C].TrueBB = None /\ all[C].IsBrAnalyzable
               /\ \A u \in ToSet(f.body[C]) : predicate[u] = "AL"
               /\ \E c \in DOMAIN getOppositeCondition :
                     all[b].BrCond = <<c>> /\ Splits(f, b, c, all[b].TrueBB, all[b].FalseBB)
  <1> DEFINE b == t.BB
             C == TargetOf(all, t)
             Nx == NextOf(all, t)
             i == all[b]
             j == all[C]
  <1>1. IsHead(f, kind, i, b) /\ IsTarget(f, pays, j, C, Nx)
    BY DEF TokenRight
  <1>2. DOMAIN f.term = 1 .. n /\ b \in 1 .. n /\ f.succs[b] \in Seq(1 .. n)
    <2>1. n \in Nat \ {0} /\ f \in Functional(n) /\ b \in 1 .. n
      OBVIOUS
    <2> QED BY ONLY <2>1, BlockIs
  <1>3. (C = i.TrueBB /\ Nx = i.FalseBB) \/ (C = i.FalseBB /\ Nx = i.TrueBB)
    BY DEF TargetOf, NextOf
  <1> HIDE DEF b, C, Nx, i, j
  <1>4. PICK c \in DOMAIN getOppositeCondition : i.BrCond = <<c>> /\ Splits(f, b, c, i.TrueBB, i.FalseBB)
    BY <1>1, <1>2, HeadSplits DEF IsHead
  <1>5. ToSet(f.succs[b]) = {i.TrueBB, i.FalseBB} /\ i.TrueBB # i.FalseBB
    BY <1>4 DEF Splits
  <1>6. i.TrueBB \in 1 .. n /\ i.FalseBB \in 1 .. n
    <2>1. ToSet(f.succs[b]) \subseteq 1 .. n
      BY <1>2, Members
    <2> QED BY <2>1, <1>5
  <1>7. C \in 1 .. n /\ Nx \in 1 .. n /\ C # Nx /\ {i.TrueBB, i.FalseBB} = {C, Nx}
    BY <1>3, <1>5, <1>6
  <1>8. b # C /\ b # Nx
    BY <1>1, <1>7 DEF IsHead
  <1>9. InfoOf(f, kind, predicate, j, C)
    BY <1>2, <1>7 DEF InfoRight, j
  <1>10. Fresh(f, kind, j, C) /\ ~j.IsUnpredicable /\ ~j.IsDone
    BY <1>1, <1>9 DEF IsTarget, InfoOf
  <1>11. j.Predicate = <<>> /\ \A u \in ToSet(f.body[C]) : predicate[u] = "AL"
    BY <1>9, <1>10 DEF InfoOf
  <1>12. /\ f.term[C] = <<>> /\ \A u \in ToSet(f.body[C]) : kind[u] = "alu"
         /\ j.TrueBB = None /\ j.FalseBB = None /\ j.BrCond = <<>>
         /\ j.HasFallThrough /\ j.IsBrAnalyzable
    BY ONLY <1>10, TargetForm
  <1>13. f.body[C] # <<>> /\ After(f, C) = Nx
    BY <1>1 DEF IsTarget
  <1>14. \E d \in DOMAIN getOppositeCondition, T, F \in 1 .. n : Splits(f, b, d, T, F) /\ {T, F} = {C, Nx}
    BY <1>4, <1>6, <1>7
  <1>15. TriangleAt(n, b, C, Nx)
    BY <1>2, <1>7, <1>8, <1>12, <1>13, <1>14 DEF TriangleAt
  <1> QED BY <1>4, <1>7, <1>11, <1>12, <1>15 DEF i, j, b, C, Nx
-----------------------------------------------------------------------------
(* What becomes of the information.                                        *)

\* What is known of a block to be analyzed again.
OldInfo(i) == [i EXCEPT !.IsAnalyzed = FALSE, !.IsEnqueued = FALSE]

\* The rest of it stays.
LEMMA OldInfoIs ==
    ASSUME NEW i \in Infos
    PROVE  /\ OldInfo(i) \in Infos /\ ~OldInfo(i).IsAnalyzed /\ ~OldInfo(i).IsEnqueued
           /\ OldInfo(i).IsDone = i.IsDone /\ OldInfo(i).IsBeingAnalyzed = i.IsBeingAnalyzed
           /\ OldInfo(i).IsUnpredicable = i.IsUnpredicable /\ OldInfo(i).Predicate = i.Predicate
  BY DEF OldInfo, Infos

\* The information as block b, of which C was merged into, leaves it.
InfoConverted(all, new, preds, b, C) ==
    /\ new \in [Blocks -> Infos]
    /\ ~new[b].IsEnqueued /\ ~new[b].IsAnalyzed
    /\ new[b].IsBeingAnalyzed <=> all[b].IsBeingAnalyzed
    /\ new[b].IsUnpredicable <=> all[b].IsUnpredicable
    /\ new[C].IsDone /\ (new[C].IsBeingAnalyzed <=> all[C].IsBeingAnalyzed)
    /\ new[C].IsEnqueued => all[C].IsEnqueued
    /\ \A x \in Blocks \ {b, C} :
          /\ new[x] \in {all[x], OldInfo(all[x])}
          /\ Contains(preds, x) /\ ~all[x].IsDone => new[x] = OldInfo(all[x])
          /\ ~Contains(preds, x) => new[x] = all[x]

\* What Updated leaves: only blocks b and C have changed.
InfoMerged(m, b, C) ==
    /\ m \in [Blocks -> Infos]
    /\ ~m[b].IsEnqueued /\ ~m[b].IsAnalyzed /\ m[b].IsBeingAnalyzed = info[b].IsBeingAnalyzed
    /\ m[b].IsUnpredicable = info[b].IsUnpredicable
    /\ m[C].IsBeingAnalyzed = info[C].IsBeingAnalyzed /\ m[C].IsEnqueued = info[C].IsEnqueued
    /\ \A x \in Blocks \ {b, C} : m[x] = info[x]

\* What Absorb does.
LEMMA AbsorbIs ==
    ASSUME info \in [Blocks -> Infos], NEW b \in Blocks, NEW C \in Blocks, b # C,
           NEW Cond \in Seq(CondCodes)
    PROVE  InfoMerged(Absorb([info EXCEPT ![b].IsEnqueued = FALSE, ![C].Predicate = @ \o Cond], b, C), b, C)
  <1> DEFINE q == info[C].Predicate \o Cond
             a == [info EXCEPT ![b].IsEnqueued = FALSE, ![C].Predicate = q]
             w == info[b].Predicate \o q
             m == Absorb(a, b, C)
  <1>1. info[b] \in Infos /\ info[C] \in Infos
    OBVIOUS
  <1>2. q \in Seq(CondCodes)
    BY <1>1 DEF Infos
  <1>3. w \in Seq(CondCodes)
    <2> HIDE DEF q
    <2> QED BY <1>1, <1>2 DEF Infos
  <1> DEFINE ib == [info[b] EXCEPT !.IsEnqueued = FALSE]
             ic == [info[C] EXCEPT !.Predicate = q]
  <1> HIDE DEF q
  <1>4. ib \in Infos /\ ic \in Infos
    BY <1>1, <1>2 DEF Infos
  <1>5. a = [info EXCEPT ![b] = ib, ![C] = ic]
    OBVIOUS
  <1>6. ib.Predicate = info[b].Predicate /\ ic.Predicate = q
    BY <1>1 DEF Infos
  <1>7. /\ ~ib.IsEnqueued /\ ib.IsBeingAnalyzed = info[b].IsBeingAnalyzed /\ ib.IsUnpredicable = info[b].IsUnpredicable
        /\ ic.IsBeingAnalyzed = info[C].IsBeingAnalyzed /\ ic.IsEnqueued = info[C].IsEnqueued
    BY <1>1 DEF Infos
  <1> HIDE DEF ib, ic, w, a
  <1>8. a[b] = ib /\ a[C] = ic /\ DOMAIN a = Blocks /\ \A x \in Blocks \ {b, C} : a[x] = info[x]
    BY <1>5
  <1> DEFINE jb == [ib EXCEPT !.Predicate = w, !.IsAnalyzed = FALSE, !.HasFallThrough = ic.HasFallThrough]
             jc == [ic EXCEPT !.Predicate = <<>>, !.IsAnalyzed = FALSE]
  <1>9. m = [a EXCEPT ![b] = jb, ![C] = jc]
    <2>1. m = [a EXCEPT ![b].Predicate = @ \o a[C].Predicate, ![b].IsAnalyzed = FALSE,
                        ![b].HasFallThrough = a[C].HasFallThrough,
                        ![C].Predicate = <<>>, ![C].IsAnalyzed = FALSE]
      BY DEF Absorb
    <2>2. a[b].Predicate \o a[C].Predicate = w
      BY <1>6, <1>8 DEF w
    <2>3. m = [a EXCEPT ![b].Predicate = w, ![b].IsAnalyzed = FALSE,
                        ![b].HasFallThrough = ic.HasFallThrough,
                        ![C].Predicate = <<>>, ![C].IsAnalyzed = FALSE]
      BY <2>1, <2>2, <1>8
    <2> HIDE DEF m
    <2> QED BY <2>3, <1>8
  <1>10. <<>> \in Seq(CondCodes)
    OBVIOUS
  <1>11. jb \in Infos /\ jc \in Infos
    BY <1>3, <1>4, <1>10 DEF Infos
  <1>12. /\ ~jb.IsEnqueued /\ ~jb.IsAnalyzed /\ jb.IsBeingAnalyzed = info[b].IsBeingAnalyzed
         /\ jb.IsUnpredicable = info[b].IsUnpredicable
         /\ jc.IsBeingAnalyzed = info[C].IsBeingAnalyzed /\ jc.IsEnqueued = info[C].IsEnqueued
    BY <1>4, <1>7 DEF Infos
  <1> HIDE DEF jb, jc, m
  <1>13. m[b] = jb /\ m[C] = jc /\ \A x \in Blocks \ {b, C} : m[x] = info[x]
    BY <1>8, <1>9
  <1>14. m \in [Blocks -> Infos]
    BY <1>8, <1>9, <1>11
  <1>15. InfoMerged(m, b, C)
    BY <1>12, <1>13, <1>14 DEF InfoMerged
  <1> QED BY <1>15 DEF m, a, q

\* The same of Updated, where NextBB is not merged as well.
LEMMA UpdatedIs ==
    ASSUME info \in [Blocks -> Infos], NEW b \in Blocks, NEW C \in Blocks, b # C,
           NEW Cond \in Seq(CondCodes), NEW Nx, NEW falls, NEW merges, ~merges
    PROVE  InfoMerged(Updated(b, C, Nx, Cond, falls, merges), b, C)
  <1> DEFINE m == Absorb([info EXCEPT ![b].IsEnqueued = FALSE, ![C].Predicate = @ \o Cond], b, C)
             v == [m EXCEPT ![b].HasFallThrough = FALSE, ![b].IsDone = TRUE]
             U == Updated(b, C, Nx, Cond, falls, merges)
  <1>1. InfoMerged(m, b, C)
    BY AbsorbIs
  <1>2. U = m \/ U = v
    <2>1. CASE falls
      BY <2>1 DEF Updated
    <2>2. CASE ~falls
      BY <2>2 DEF Updated
    <2> QED BY <2>1, <2>2
  <1> HIDE DEF m, U
  <1>3. InfoMerged(v, b, C)
    <2> DEFINE j == [m[b] EXCEPT !.HasFallThrough = FALSE, !.IsDone = TRUE]
    <2>1. m[b] \in Infos
      BY <1>1 DEF InfoMerged
    <2>2. v = [m EXCEPT ![b] = j]
      BY <1>1 DEF InfoMerged
    <2>3. j \in Infos /\ j.IsEnqueued = m[b].IsEnqueued /\ j.IsAnalyzed = m[b].IsAnalyzed
          /\ j.IsBeingAnalyzed = m[b].IsBeingAnalyzed /\ j.IsUnpredicable = m[b].IsUnpredicable
      BY <2>1 DEF Infos
    <2> HIDE DEF j, v
    <2>4. v[b] = j /\ v[C] = m[C] /\ \A x \in Blocks \ {b, C} : v[x] = m[x]
      BY <1>1, <2>2 DEF InfoMerged
    <2>5. v \in [Blocks -> Infos]
      BY <1>1, <2>2, <2>3 DEF InfoMerged
    <2> QED BY <1>1, <2>3, <2>4, <2>5 DEF InfoMerged
  <1> HIDE DEF v
  <1>4. InfoMerged(U, b, C)
    BY <1>1, <1>2, <1>3
  <1> QED BY <1>4 DEF U

\* All the information after a conversion.
LEMMA InfoStep ==
    ASSUME info \in [Blocks -> Infos], NEW b \in Blocks, NEW C \in Blocks, b # C,
           NEW Nx \in Blocks, Nx # C, Nx # b, NEW m, InfoMerged(m, b, C), NEW g, NEW merges, ~merges,
           NEW new, new = [InvalidatePreds(m, g, b) EXCEPT ![C].IsDone = TRUE, ![Nx].IsDone = @ \/ merges]
    PROVE  InfoConverted(info, new, g.preds[b], b, C)
  <1> DEFINE v == InvalidatePreds(m, g, b)
  <1>0. m \in [Blocks -> Infos]
    BY DEF InfoMerged
  <1>1. v = [x \in Blocks |-> IF Contains(g.preds[b], x) /\ ~m[x].IsDone /\ x # b
                      THEN OldInfo(m[x]) ELSE m[x]]
    BY DEF InvalidatePreds, OldInfo
  <1> HIDE DEF v
  <1>2. \A x \in Blocks : /\ v[x] \in Infos /\ v[x] \in {m[x], OldInfo(m[x])} /\ v[x].IsDone \in BOOLEAN
                          /\ Contains(g.preds[b], x) /\ ~m[x].IsDone /\ x # b => v[x] = OldInfo(m[x])
                          /\ ~Contains(g.preds[b], x) => v[x] = m[x]
    <2> TAKE x \in Blocks
    <2>1. v[x] = IF Contains(g.preds[b], x) /\ ~m[x].IsDone /\ x # b THEN OldInfo(m[x]) ELSE m[x]
      BY <1>1
    <2>2. v[x] \in {m[x], OldInfo(m[x])}
      BY <2>1
    <2>3. v[x] \in Infos
      BY <2>2, <1>0, OldInfoIs
    <2>4. v[x].IsDone \in BOOLEAN
      BY <2>3 DEF Infos
    <2> QED BY <2>1, <2>2, <2>3, <2>4
  <1>3. v[b] = m[b] /\ v \in [Blocks -> Infos]
    <2>1. v[b] = m[b]
      BY <1>1
    <2>2. DOMAIN v = Blocks /\ v = [x \in Blocks |-> v[x]]
      BY <1>1
    <2> QED BY <2>1, <2>2, <1>2
  <1> DEFINE j == [v[C] EXCEPT !.IsDone = TRUE]
             k == [v[Nx] EXCEPT !.IsDone = @ \/ merges]
  <1>4. v[C] \in Infos /\ v[Nx] \in Infos
    BY <1>2
  <1>5. j \in Infos /\ j.IsDone /\ j.IsBeingAnalyzed = v[C].IsBeingAnalyzed /\ j.IsEnqueued = v[C].IsEnqueued
    BY <1>4 DEF Infos
  <1>6. k = v[Nx]
    <2>1. v[Nx].IsDone \in BOOLEAN
      BY <1>2
    <2>2. (v[Nx].IsDone \/ merges) = v[Nx].IsDone
      BY <2>1
    <2>3. k = [v[Nx] EXCEPT !.IsDone = v[Nx].IsDone]
      BY <2>2
    <2> QED BY <2>3, <1>4 DEF Infos
  <1>7. new = [v EXCEPT ![C] = j, ![Nx] = k]
    BY <1>3 DEF v
  <1> HIDE DEF j, k
  <1>8. new = [v EXCEPT ![C] = j]
    BY <1>3, <1>6, <1>7
  <1>9. new \in [Blocks -> Infos] /\ new[C] = j /\ \A x \in Blocks : x # C => new[x] = v[x]
    BY <1>3, <1>5, <1>8
  <1>10. v[C].IsBeingAnalyzed = m[C].IsBeingAnalyzed /\ (v[C].IsEnqueued => m[C].IsEnqueued)
    <2>1. m[C] \in Infos /\ (v[C] = m[C] \/ v[C] = OldInfo(m[C]))
      BY <1>0, <1>2
    <2> QED BY <2>1, OldInfoIs
  <1>11. new[b] = m[b]
    BY <1>3, <1>9
  <1>12. \A x \in Blocks \ {b, C} : /\ new[x] \in {info[x], OldInfo(info[x])}
                                    /\ Contains(g.preds[b], x) /\ ~info[x].IsDone => new[x] = OldInfo(info[x])
                                    /\ ~Contains(g.preds[b], x) => new[x] = info[x]
    BY <1>2, <1>9 DEF InfoMerged
  <1> QED BY <1>5, <1>9, <1>10, <1>11, <1>12 DEF InfoMerged, InfoConverted

\* AnalyzeBranch says the same of a block whose terminators and layout are the same.
LEMMA AnalysisSame ==
    ASSUME NEW blocks, NEW g, NEW h, NEW b, g.term[b] = h.term[b], g.term[b] \in Terminators(blocks)
    PROVE  /\ Analysis(g, b).fail <=> Analysis(h, b).fail
           /\ Analysis(g, b).TBB = Analysis(h, b).TBB /\ Analysis(g, b).FBB = Analysis(h, b).FBB
           /\ Analysis(g, b).Cond = Analysis(h, b).Cond
  <1> DEFINE A == Analysis(g, b)
             D == Analysis(h, b)
  <1> HIDE DEF A, D
  <1>1. CASE g.term[b] = <<>>
    <2>1. ~A.fail /\ A.TBB = None /\ A.FBB = None /\ A.Cond = <<>>
      BY <1>1, AnalyzeForms DEF A
    <2>2. ~D.fail /\ D.TBB = None /\ D.FBB = None /\ D.Cond = <<>>
      <3>1. h.term[b] = <<>>
        BY <1>1
      <3> QED BY ONLY <3>1, AnalyzeForms DEF D
    <2> QED BY <2>1, <2>2 DEF A, D
  <1>2. CASE g.term[b] = <<RET>>
    <2>1. A.fail /\ A.TBB = None /\ A.FBB = None /\ A.Cond = <<>>
      BY <1>2, AnalyzeForms DEF A
    <2>2. D.fail /\ D.TBB = None /\ D.FBB = None /\ D.Cond = <<>>
      <3>1. h.term[b] = <<RET>>
        BY <1>2
      <3> QED BY ONLY <3>1, AnalyzeForms DEF D
    <2> QED BY <2>1, <2>2 DEF A, D
  <1>3. ASSUME NEW x, g.term[b] = <<B(x)>>
        PROVE  (A.fail <=> D.fail) /\ A.TBB = D.TBB /\ A.FBB = D.FBB /\ A.Cond = D.Cond
    <2>1. ~A.fail /\ A.TBB = x /\ A.FBB = None /\ A.Cond = <<>>
      BY <1>3, AnalyzeForms DEF A
    <2>2. ~D.fail /\ D.TBB = x /\ D.FBB = None /\ D.Cond = <<>>
      <3>1. h.term[b] = <<B(x)>>
        BY <1>3
      <3> QED BY ONLY <3>1, AnalyzeForms DEF D
    <2> QED BY <2>1, <2>2
  <1>4. ASSUME NEW x, NEW c, g.term[b] = <<BCC(x, c)>>
        PROVE  (A.fail <=> D.fail) /\ A.TBB = D.TBB /\ A.FBB = D.FBB /\ A.Cond = D.Cond
    <2>1. ~A.fail /\ A.TBB = x /\ A.FBB = None /\ A.Cond = <<c>>
      BY <1>4, AnalyzeForms DEF A
    <2>2. ~D.fail /\ D.TBB = x /\ D.FBB = None /\ D.Cond = <<c>>
      <3>1. h.term[b] = <<BCC(x, c)>>
        BY <1>4
      <3> QED BY ONLY <3>1, AnalyzeForms DEF D
    <2> QED BY <2>1, <2>2
  <1>5. ASSUME NEW x, NEW y, NEW c, g.term[b] = <<BCC(x, c), B(y)>>
        PROVE  (A.fail <=> D.fail) /\ A.TBB = D.TBB /\ A.FBB = D.FBB /\ A.Cond = D.Cond
    <2>1. ~A.fail /\ A.TBB = x /\ A.FBB = y /\ A.Cond = <<c>>
      BY <1>5, AnalyzeForms DEF A
    <2>2. ~D.fail /\ D.TBB = x /\ D.FBB = y /\ D.Cond = <<c>>
      <3>1. h.term[b] = <<BCC(x, c), B(y)>>
        BY <1>5
      <3> QED BY ONLY <3>1, AnalyzeForms DEF D
    <2> QED BY <2>1, <2>2
  <1>6. (A.fail <=> D.fail) /\ A.TBB = D.TBB /\ A.FBB = D.FBB /\ A.Cond = D.Cond
    <2>1. CASE g.term[b] = <<>> \/ g.term[b] = <<RET>>
      BY <2>1, <1>1, <1>2 DEF A, D
    <2>2. CASE ~(g.term[b] = <<>> \/ g.term[b] = <<RET>>)
      BY <2>2, <1>3, <1>4, <1>5, TerminatorForms
    <2> QED BY <2>1, <2>2
  <1> QED BY <1>6 DEF A, D

\* What is known of it is still so.
LEMMA FreshSame ==
    ASSUME NEW blocks, NEW g, NEW h, NEW b, NEW kd, g.term[b] = h.term[b], g.term[b] \in Terminators(blocks),
           g.body[b] = h.body[b], g.succs[b] = h.succs[b], NEW i, Fresh(g, kd, i, b)
    PROVE  Fresh(h, kd, i, b)
  <1> DEFINE A == Analysis(g, b)
             D == Analysis(h, b)
             FA == IF A.Cond # <<>> /\ A.FBB = None THEN FalseOf(g.succs[b], A.TBB) ELSE A.FBB
             FD == IF D.Cond # <<>> /\ D.FBB = None THEN FalseOf(h.succs[b], D.TBB) ELSE D.FBB
  <1>1. (A.fail <=> D.fail) /\ A.TBB = D.TBB /\ A.FBB = D.FBB /\ A.Cond = D.Cond
    BY AnalysisSame
  <1>2. Predicable(g, kd, b) <=> Predicable(h, kd, b)
    BY DEF Predicable
  <1>3. /\ i.TrueBB = A.TBB /\ i.BrCond = A.Cond /\ i.FalseBB = FA
        /\ (i.IsBrAnalyzable <=> ~A.fail) /\ (i.HasFallThrough <=> ~A.fail /\ A.FBB = None)
        /\ (~Predicable(g, kd, b) => i.IsUnpredicable)
    BY DEF Fresh
  <1>4. FA = FD
    <2> HIDE DEF A, D
    <2> QED BY <1>1
  <1> HIDE DEF FA, FD
  <1>5. /\ i.TrueBB = D.TBB /\ i.BrCond = D.Cond /\ i.FalseBB = FD
        /\ (i.IsBrAnalyzable <=> ~D.fail) /\ (i.HasFallThrough <=> ~D.fail /\ D.FBB = None)
        /\ (~Predicable(h, kd, b) => i.IsUnpredicable)
    <2> HIDE DEF A, D
    <2> QED BY ONLY <1>1, <1>2, <1>3, <1>4
  <1> QED BY <1>5 DEF Fresh, FD

\* What is known of a block is still right when it is to be analyzed again.
LEMMA InfoOfOld ==
    ASSUME NEW g, NEW kd, NEW p, NEW i \in Infos, NEW b, InfoOf(g, kd, p, i, b), ~i.IsBeingAnalyzed
    PROVE  InfoOf(g, kd, p, OldInfo(i), b)
  BY OldInfoIs DEF InfoOf

\* The information stays right.
LEMMA InfoAfter ==
    ASSUME NEW n, NEW b, NEW C, NEW Nx, TriangleAt(n, b, C, Nx),
           NEW t, NEW keep, NEW e, NEW h, ConvertedTo(n, h, b, C, t, keep, e),
           info \in [Blocks -> Infos], InfoRight(f, kind, predicate, info),
           \A x \in Blocks : ~info[x].IsBeingAnalyzed, Fresh(f, kind, info[b], b),
           NEW p, \A u \in (1 .. n) \ ToSet(f.body[C]) : p[u] = predicate[u],
           NEW new, NEW preds, InfoConverted(info, new, preds, b, C)
    PROVE  InfoRight(h, kind, p, new) /\ \A x \in Blocks : ~new[x].IsBeingAnalyzed
  <1>1. n \in Nat \ {0} /\ f \in Functional(n) /\ CodeOnce(f) /\ b \in 1 .. n /\ C \in 1 .. n /\ b # C
    BY DEF TriangleAt
  <1>2. Blocks = 1 .. n /\ DOMAIN h.term = 1 .. n
    BY <1>1 DEF Functional, Blocks, ConvertedTo
  <1>3. info[b].IsUnpredicable
    <2>1. f.term[b] # <<>>
      BY DEF TriangleAt, Splits
    <2> QED BY <2>1 DEF Fresh, Predicable
  <1>4. InfoOf(h, kind, p, new[b], b)
    <2>1. ~new[b].IsAnalyzed /\ ~new[b].IsBeingAnalyzed /\ new[b].IsUnpredicable
      BY <1>1, <1>2, <1>3 DEF InfoConverted
    <2> QED BY <2>1 DEF InfoOf
  <1>5. InfoOf(h, kind, p, new[C], C)
    <2>1. new[C].IsDone
      BY DEF InfoConverted
    <2> QED BY <2>1 DEF InfoOf
  <1>6. ASSUME NEW x \in (1 .. n) \ {b, C} PROVE InfoOf(h, kind, p, new[x], x)
    <2>1. InfoOf(f, kind, predicate, info[x], x) /\ info[x] \in Infos /\ ~info[x].IsBeingAnalyzed
      BY <1>2 DEF InfoRight, Blocks
    <2>2. /\ f.term[x] = h.term[x] /\ f.body[x] = h.body[x] /\ f.succs[x] = h.succs[x]
      BY DEF ConvertedTo
    <2>3. f.term[x] \in Terminators(1 .. n) /\ f.body[x] \in Seq(1 .. n) /\ DOMAIN f.term = 1 .. n
      BY <1>1, BlockIs
    <2>4. \A i : Fresh(f, kind, i, x) => Fresh(h, kind, i, x)
      BY <2>2, <2>3, FreshSame
    <2>5. \A u \in ToSet(f.body[x]) : p[u] = predicate[u]
      <3>1. \A u \in ToSet(f.body[x]) : u \in 1 .. n
        BY <2>3, Members
      <3>2. \A u \in ToSet(f.body[x]) : u \notin ToSet(f.body[C])
        BY <1>1, <2>3 DEF CodeOnce
      <3> QED BY <3>1, <3>2
    <2>6. \A i : InfoOf(f, kind, predicate, i, x) => InfoOf(h, kind, p, i, x)
      BY <2>2, <2>4, <2>5 DEF InfoOf
    <2>7. InfoOf(f, kind, predicate, OldInfo(info[x]), x)
      BY <2>1, InfoOfOld
    <2>8. new[x] \in {info[x], OldInfo(info[x])}
      BY <1>2 DEF InfoConverted
    <2> QED BY <2>1, <2>6, <2>7, <2>8
  <1>7. \A x \in 1 .. n : InfoOf(h, kind, p, new[x], x)
    BY <1>4, <1>5, <1>6
  <1>8. ASSUME NEW x \in 1 .. n PROVE ~new[x].IsBeingAnalyzed
    <2>1. CASE x = b \/ x = C
      BY <2>1, <1>1, <1>2 DEF InfoConverted
    <2>2. CASE x \notin {b, C}
      <3>1. info[x] \in Infos /\ ~info[x].IsBeingAnalyzed
        BY <1>2
      <3>2. new[x] \in {info[x], OldInfo(info[x])}
        BY <2>2, <1>2 DEF InfoConverted
      <3> QED BY <3>1, <3>2, OldInfoIs
    <2> QED BY <2>1, <2>2
  <1> QED BY <1>2, <1>7, <1>8 DEF InfoRight

\* The other tokens stay right, those evicted excepted.
LEMMA TokenAfter ==
    ASSUME NEW n, NEW b, NEW C, NEW Nx, TriangleAt(n, b, C, Nx), Len(f.preds[C]) = 1,
           NEW t, NEW keep, NEW e, GoesOn(b, C, Nx, t, keep, e),
           NEW h, ConvertedTo(n, h, b, C, t, keep, e), NEW pr, pr = h.preds[b],
           info \in [Blocks -> Infos], InfoRight(f, kind, predicate, info),
           info[C].BrCond = <<>>,
           NEW new, InfoConverted(info, new, pr, b, C),
           NEW u, u.BB \in 1 .. n, u.BB # b, new[u.BB].IsEnqueued,
           info[u.BB].IsEnqueued => TokenRight(f, kind, pays, info, u)
    PROVE  TokenRight(h, kind, pays, new, u) /\ info[u.BB].IsEnqueued
  <1> DEFINE x == u.BB
             D == TargetOf(info, u)
             Dx == NextOf(info, u)
  <1>1. n \in Nat \ {0} /\ f \in Functional(n) /\ EdgesRight(f, kind) /\ CodeOnce(f) /\ b \in 1 .. n /\ C \in 1 .. n
        /\ b # C /\ Nx \in 1 .. n /\ C # Nx /\ b # Nx
    BY DEF TriangleAt
  <1>2. Blocks = 1 .. n /\ DOMAIN f.term = 1 .. n
    BY <1>1 DEF Functional, Blocks
  <1>3. info[x].IsEnqueued
    <2>1. CASE x = C
      BY <2>1 DEF InfoConverted
    <2>2. CASE x # C
      <3>1. info[x] \in Infos /\ new[x] \in {info[x], OldInfo(info[x])}
        BY <2>2, <1>2 DEF InfoConverted
      <3> QED BY <3>1, OldInfoIs
    <2> QED BY <2>1, <2>2
  <1>4. TokenRight(f, kind, pays, info, u)
    BY <1>3
  <1>5. /\ TriangleAt(n, x, D, Dx)
        /\ \E c \in DOMAIN getOppositeCondition : info[x].BrCond = <<c>> /\ Splits(f, x, c, info[x].TrueBB, info[x].FalseBB)
    BY <1>1, <1>4, TokenTriangle
  <1>6. IsHead(f, kind, info[x], x) /\ IsTarget(f, pays, info[D], D, Dx)
    BY <1>4 DEF TokenRight
  <1> HIDE DEF x, D, Dx
  <1>7. x # C
    <2>1. info[x].BrCond # <<>>
      BY <1>6 DEF IsHead
    <2> QED BY <2>1
  <1>8. x \in (1 .. n) \ {b, C} /\ D \in 1 .. n /\ Dx \in 1 .. n /\ D # Dx /\ x # D /\ x # Dx
    BY <1>5, <1>7 DEF TriangleAt, x
  <1>9. new[x] = info[x] /\ ~(Contains(pr, x) /\ ~info[x].IsDone)
    <2>1. info[x] \in Infos
      BY <1>2, <1>8
    <2>2. ~OldInfo(info[x]).IsEnqueued
      BY <2>1, OldInfoIs
    <2>3. new[x].IsEnqueued
      BY DEF x
    <2> QED BY <2>2, <2>3, <1>2, <1>8 DEF InfoConverted
  <1>10. ~info[x].IsDone
    BY <1>6 DEF IsHead
  <1>11. ToSet(f.succs[x]) = {D, Dx} /\ ToSet(f.succs[D]) = {Dx}
    BY <1>5, NextHasTwo
  <1>12. f.preds[b] \in Seq(1 .. n) /\ f.preds[C] \in Seq(1 .. n) /\ f.preds[D] \in Seq(1 .. n)
    BY <1>1, <1>8, BlockIs
  <1>13. pr = f.preds[b]
    <2>1. b # e
      BY <1>1 DEF GoesOn
    <2> QED BY <2>1, <1>1 DEF ConvertedTo
  <1>14. x \notin ToSet(f.preds[b])
    BY <1>9, <1>10, <1>12, <1>13, Members
  <1>15. D # b /\ Dx # b
    BY <1>1, <1>2, <1>8, <1>11, <1>14 DEF EdgesRight
  <1>16. D # C
    <2> SUFFICES ASSUME D = C PROVE FALSE
      OBVIOUS
    <2>1. x \in ToSet(f.preds[C]) /\ b \in ToSet(f.preds[C])
      <3>1. ToSet(f.succs[b]) = {C, Nx}
        BY NextHasTwo
      <3> QED BY <3>1, <1>1, <1>2, <1>8, <1>11 DEF EdgesRight
    <2>2. ToSet(f.preds[C]) = {f.preds[C][1]}
      BY <1>12, SingleIs
    <2> QED BY <2>1, <2>2, <1>8
  <1>17. D # Nx
    <2>1. Len(f.preds[Nx]) # 1
      BY NextHasTwo
    <2> QED BY <2>1, <1>6 DEF IsTarget
  <1>18. new[D] = info[D]
    <2>1. ~Contains(pr, D)
      <3>1. D \notin ToSet(f.preds[b])
        BY <1>1, <1>2, <1>8, <1>11, <1>15 DEF EdgesRight
      <3> QED BY <3>1, <1>12, <1>13, Members
    <2> QED BY <2>1, <1>2, <1>8, <1>15, <1>16 DEF InfoConverted
  <1>19. /\ f.term[x] = h.term[x] /\ f.body[x] = h.body[x] /\ f.succs[x] = h.succs[x]
    BY <1>8 DEF ConvertedTo
  <1>20. f.term[x] \in Terminators(1 .. n)
    BY <1>1, <1>8, BlockIs
  <1>21. IsHead(h, kind, new[x], x)
    <2>1. Fresh(h, kind, info[x], x)
      BY <1>6, <1>19, <1>20, FreshSame DEF IsHead
    <2> QED BY <2>1, <1>6, <1>9 DEF IsHead
  <1>22. h.body[D] = f.body[D] /\ h.preds[D] = f.preds[D] /\ After(h, D) = After(f, D)
    <2>1. D \notin {b, C, e}
      BY <1>15, <1>16, <1>17 DEF GoesOn
    <2>2. h.layout = f.layout
      BY DEF ConvertedTo
    <2>3. After(h, D) = After(f, D)
      BY <2>2 DEF After, Position
    <2> QED BY <2>1, <2>3, <1>8 DEF ConvertedTo
  <1>23. IsTarget(h, pays, new[D], D, Dx)
    BY <1>6, <1>18, <1>22 DEF IsTarget
  <1>24. TargetOf(new, u) = D /\ NextOf(new, u) = Dx
    BY <1>9 DEF TargetOf, NextOf, D, Dx, x
  <1>25. TokenRight(h, kind, pays, new, u)
    BY <1>4, <1>21, <1>23, <1>24 DEF TokenRight, x
  <1> QED BY <1>3, <1>25 DEF x

\* All of the tokens.
LEMMA TokensAfter ==
    ASSUME NEW n, NEW b, NEW C, NEW Nx, TriangleAt(n, b, C, Nx), Len(f.preds[C]) = 1,
           NEW t, NEW keep, NEW e, GoesOn(b, C, Nx, t, keep, e),
           NEW h, ConvertedTo(n, h, b, C, t, keep, e), NEW pr, pr = h.preds[b],
           info \in [Blocks -> Infos], InfoRight(f, kind, predicate, info),
           info[C].BrCond = <<>>,
           NEW new, InfoConverted(info, new, pr, b, C),
           Tokens \subseteq IfcvtToken, TokensRight(f, kind, pays, info, Tokens),
           NEW token, token.BB = b
    PROVE  TokensRight(h, kind, pays, new, Tokens \ {token})
  <1>1. ASSUME NEW u \in Tokens \ {token}, new[u.BB].IsEnqueued
        PROVE  TokenRight(h, kind, pays, new, u) /\ info[u.BB].IsEnqueued /\ u.BB # b
    <2>1. u.BB \in 1 .. n
      <3>1. u.BB \in Blocks
        BY DEF IfcvtToken
      <3> QED BY <3>1 DEF TriangleAt, Functional, Blocks
    <2>2. u.BB # b
      BY <1>1 DEF InfoConverted
    <2>3. info[u.BB].IsEnqueued => TokenRight(f, kind, pays, info, u)
      BY DEF TokensRight
    <2> QED BY <2>1, <2>2, <2>3, <1>1, TokenAfter
  <1>2. Twins(new, Tokens \ {token})
    <2> SUFFICES ASSUME NEW u \in Tokens \ {token}, new[u.BB].IsEnqueued, u.Kind \in DOMAIN Twin
                 PROVE  \E w \in Tokens \ {token} : w.BB = u.BB /\ w.Kind = Twin[u.Kind]
      BY DEF Twins
    <2>1. info[u.BB].IsEnqueued /\ u.BB # b
      BY <1>1
    <2>2. PICK w \in Tokens : w.BB = u.BB /\ w.Kind = Twin[u.Kind]
      BY <2>1 DEF TokensRight, Twins
    <2>3. w # token
      BY <2>1, <2>2
    <2> QED BY <2>2, <2>3
  <1> QED BY <1>1, <1>2 DEF TokensRight

\* The conditions of a triangle are codes of this target.
LEMMA CondIs ==
    ASSUME NEW c \in DOMAIN getOppositeCondition, NEW t, info[t.BB].BrCond = <<c>>
    PROVE  /\ CvtCond(t) \in Seq(CondCodes) /\ CvtCond(t)[1] \in CondCodes
           /\ CvtCond(t)[1] = IF t.Kind = "ICTriangle" THEN c ELSE getOppositeCondition[c]
  <1>1. c \in CondCodes /\ getOppositeCondition[c] \in CondCodes
    BY DEF getOppositeCondition, CondCodes
  <1>2. CvtCond(t) = IF t.Kind = "ICTriangle" THEN <<c>> ELSE <<getOppositeCondition[c]>>
    BY DEF CvtCond, ReverseBranchCondition
  <1> QED BY <1>1, <1>2

\* The blocks of a right function are numbers.
LEMMA RightBlocks ==
    ASSUME NEW n \in Nat \ {0}, NEW g \in Functional(n)
    PROVE  DOMAIN g.term = 1 .. n
  BY DEF Functional

\* What a conversion of a token does.
ConvertsTo(n, token, C, Nx, t, keep, e) ==
    /\ TriangleAt(n, token.BB, C, Nx) /\ GoesOn(token.BB, C, Nx, t, keep, e)
    /\ C = TargetOf(info, token) /\ Nx = NextOf(info, token)
    /\ f' = Converted(token.BB, C, t, keep, e)
    /\ predicate' = PredicateBlock(C, CvtCond(token))
    /\ InfoConverted(info, info', f'.preds[token.BB], token.BB, C)
    /\ Tokens' = Tokens \ {token}

\* Every conversion is of a triangle, one of those two ways.
LEMMA ConversionIs ==
    ASSUME NEW n \in Nat \ {0}, f \in Functional(n), EdgesRight(f, kind), CodeOnce(f),
           info \in [Blocks -> Infos], InfoRight(f, kind, predicate, info),
           Tokens \subseteq IfcvtToken, TokensRight(f, kind, pays, info, Tokens),
           IfConvertTriangle
    PROVE  \E token \in Tokens, C, Nx \in Blocks : \E t, keep, e :
              /\ ConvertsTo(n, token, C, Nx, t, keep, e) /\ TokenRight(f, kind, pays, info, token)
              /\ token.Kind \in {"ICTriangle", "ICTriangleFalse"}
  <1> DEFINE NewInfo(b, C, Cond, Nx, falls, merges) ==
                 [InvalidatePreds(Updated(b, C, Nx, Cond, falls, merges), f', b)
                                           EXCEPT ![C].IsDone = TRUE, ![Nx].IsDone = @ \/ merges]
             Does(b, C, Cond, Nx, g) ==
                    /\ f' = RemoveExtraEdges(Continued(g, b, Nx), b)
                    /\ predicate' = PredicateBlock(C, Cond)
                    /\ info' = NewInfo(b, C, Cond, Nx, canFallThroughTo(g, b, Nx), MergesNext(g, b, Nx))
             Some(b, C, Cond, Nx, g) ==
                    /\ f' = RemoveExtraEdges(Continued(g, b, Nx), b)
                    /\ predicate' = PredicateBlock(C, Cond)
                    /\ \E falls \in {canFallThroughTo(g, b, Nx)}, merges \in {MergesNext(g, b, Nx)} :
                           info' = NewInfo(b, C, Cond, Nx, falls, merges)
                    /\ Change' = TRUE
             Nothing(b, C) ==
                    /\ info' = [info EXCEPT ![b].IsEnqueued = FALSE, ![b].IsAnalyzed = FALSE,
                                            ![C].IsAnalyzed = FALSE]
                    /\ UNCHANGED <<f, predicate, Change>>
  <1>0. PICK token \in Tokens :
          /\ IsLast(token) /\ token.Kind \in {"ICTriangle", "ICTriangleFalse"}
          /\ ~info[token.BB].IsDone /\ info[token.BB].IsEnqueued
          /\ \E b \in {token.BB}, C \in {Cvt(token)}, Cond \in {CvtCond(token)} :
                \E Nx \in {info[b].TrueBB, info[b].FalseBB} \ {C}, g \in {Merged(b, C)} :
                    IF info[C].IsDone THEN Nothing(b, C) ELSE Some(b, C, Cond, Nx, g)
          /\ Tokens' = Tokens \ {token}
    BY Zenon DEF IfConvertTriangle
  <1>z. ASSUME NEW b, NEW C, NEW Cond, NEW Nx, NEW g, Some(b, C, Cond, Nx, g) PROVE Does(b, C, Cond, Nx, g)
    <2> HIDE DEF NewInfo
    <2> QED BY <1>z
  <1> HIDE DEF NewInfo, Does, Some, Nothing
  <1>1. /\ IsLast(token) /\ token.Kind \in {"ICTriangle", "ICTriangleFalse"}
        /\ ~info[token.BB].IsDone /\ info[token.BB].IsEnqueued
        /\ \E b \in {token.BB}, C \in {Cvt(token)}, Cond \in {CvtCond(token)} :
                \E Nx \in {info[b].TrueBB, info[b].FalseBB} \ {C}, g \in {Merged(b, C)} :
                    info[C].IsDone \/ Does(b, C, Cond, Nx, g)
        /\ Tokens' = Tokens \ {token}
    BY <1>0, <1>z
  <1> DEFINE b == token.BB
             C == Cvt(token)
             Cond == CvtCond(token)
             g == Merged(b, C)
  <1>2a. PICK Nx \in {info[b].TrueBB, info[b].FalseBB} \ {C} : info[C].IsDone \/ Does(b, C, Cond, Nx, g)
    BY <1>1
  <1>2. \/ info[C].IsDone
        \/ /\ f' = RemoveExtraEdges(Continued(g, b, Nx), b)
           /\ predicate' = PredicateBlock(C, Cond)
           /\ info' = [InvalidatePreds(Updated(b, C, Nx, Cond, canFallThroughTo(g, b, Nx), MergesNext(g, b, Nx)), f', b)
                                           EXCEPT ![C].IsDone = TRUE, ![Nx].IsDone = @ \/ MergesNext(g, b, Nx)]
    <2> HIDE DEF b, C, Cond, g
    <2> QED BY <1>2a DEF Does, NewInfo
  <1>3. token \in IfcvtToken /\ b \in Blocks /\ Blocks = 1 .. n
    BY RightBlocks DEF IfcvtToken, Blocks
  <1>4. TokenRight(f, kind, pays, info, token) /\ b \in 1 .. n
    BY <1>1, <1>3 DEF TokensRight
  <1>5. C = TargetOf(info, token)
    BY <1>1 DEF Cvt, TargetOf
  <1> DEFINE Nn == NextOf(info, token)
  <1>6. /\ TriangleAt(n, b, C, Nn) /\ {info[b].TrueBB, info[b].FalseBB} = {C, Nn}
        /\ info[C].HasFallThrough
        /\ \E c \in DOMAIN getOppositeCondition : info[b].BrCond = <<c>>
    BY <1>4, <1>5, TokenTriangle
  <1>7. ~info[C].IsDone
    BY <1>4, <1>5 DEF TokenRight, IsTarget
  <1>8. Cond \in Seq(CondCodes)
    BY <1>6, CondIs
  <1> HIDE DEF C, Cond, Nn
  <1>9. C \in 1 .. n /\ Nn \in 1 .. n /\ b # C /\ b # Nn /\ C # Nn
    BY <1>6 DEF TriangleAt
  <1>10. Nx = Nn
    BY <1>2a, <1>6
  <1>11. g = Swallowed(f, b, C)
    BY <1>6, MergedIs
  <1> HIDE DEF g
  <1>12. ~MergesNext(g, b, Nx)
    <2>1. g.preds = f.preds
      BY <1>3, <1>9, <1>11, SwallowedIs
    <2>2. Len(f.preds[Nn]) # 1
      BY <1>6, NextHasTwo
    <2> QED BY <2>1, <2>2, <1>10 DEF MergesNext
  <1>13. InfoConverted(info, info', f'.preds[b], b, C)
    <2> DEFINE falls == canFallThroughTo(g, b, Nx)
               merges == MergesNext(g, b, Nx)
               m == Updated(b, C, Nx, Cond, falls, merges)
    <2>1. info' = [InvalidatePreds(m, f', b) EXCEPT ![C].IsDone = TRUE, ![Nx].IsDone = @ \/ merges]
      BY <1>2, <1>7
    <2>2. ~merges
      BY <1>12
    <2> HIDE DEF falls, merges
    <2>3. InfoMerged(m, b, C)
      BY <2>2, <1>3, <1>8, <1>9, UpdatedIs
    <2> HIDE DEF m
    <2> QED BY <2>1, <2>2, <2>3, <1>3, <1>9, <1>10, InfoStep
  <1>14. predicate' = PredicateBlock(C, Cond)
    BY <1>2, <1>7
  <1>15. f' = RemoveExtraEdges(Continued(g, b, Nx), b)
    BY <1>2, <1>7
  <1>16. \E t, keep, e : GoesOn(b, C, Nn, t, keep, e) /\ f' = Converted(b, C, t, keep, e)
    <2>1. CASE canFallThroughTo(g, b, Nx)
      <3>1. Continued(g, b, Nx) = g
        BY <2>1 DEF Continued
      <3>2. After(f, b) = C
        BY <2>1, <1>6, <1>10, <1>11, FallingIs
      <3>3. f' = Converted(b, C, <<>>, C, Nn)
        BY <3>1, <3>2, <1>6, <1>11, <1>15, ConvertedFalling
      <3>4. GoesOn(b, C, Nn, <<>>, C, Nn)
        BY <3>2, <1>9 DEF GoesOn
      <3> QED BY <3>3, <3>4
    <2>2. CASE ~canFallThroughTo(g, b, Nx)
      <3>1. Continued(g, b, Nx) = InsertBranch(g, b, Nx, None, <<>>)
        BY <2>2, <1>12 DEF Continued
      <3>2. f' = Converted(b, C, <<B(Nn)>>, Nn, C)
        BY <3>1, <1>6, <1>10, <1>11, <1>15, ConvertedJumping
      <3>3. GoesOn(b, C, Nn, <<B(Nn)>>, Nn, C)
        BY <1>9 DEF GoesOn
      <3> QED BY <3>2, <3>3
    <2> QED BY <2>1, <2>2
  <1>17. PICK t, keep, e : GoesOn(b, C, Nn, t, keep, e) /\ f' = Converted(b, C, t, keep, e)
    BY <1>16
  <1>18. Tokens' = Tokens \ {token}
    BY <1>1
  <1>19. ConvertsTo(n, token, C, Nn, t, keep, e)
    BY <1>5, <1>6, <1>13, <1>14, <1>17, <1>18 DEF ConvertsTo, Cond, Nn
  <1> QED BY <1>1, <1>3, <1>4, <1>9, <1>19

\* The types depend on the blocks alone.
LEMMA TypesSame ==
    ASSUME Blocks' = Blocks
    PROVE  Infos' = Infos /\ IfcvtToken' = IfcvtToken
  BY DEF Infos, IfcvtToken

\* A conversion.
LEMMA ConvertKeepsIInv ==
    ASSUME IInv, IfConvertTriangle
    PROVE  IInv'
  <1>1. PICK n \in Nat \ {0} : f \in Functional(n) /\ EdgesRight(f, kind) /\ CodeOnce(f)
    BY DEF IInv, FunctionRight
  <1>2. /\ predicate \in [Blocks -> CondCodes]
        /\ info \in [Blocks -> Infos] /\ InfoRight(f, kind, predicate, info)
        /\ \A b \in Blocks : ~info[b].IsBeingAnalyzed
        /\ Tokens \subseteq IfcvtToken /\ TokensRight(f, kind, pays, info, Tokens)
    BY DEF IInv
  <1>0. PICK token \in Tokens, C \in Blocks, Nx \in Blocks : \E t, keep, e :
              ConvertsTo(n, token, C, Nx, t, keep, e) /\ TokenRight(f, kind, pays, info, token)
    BY <1>1, <1>2, ConversionIs
  <1>3. PICK t, keep, e :
              ConvertsTo(n, token, C, Nx, t, keep, e) /\ TokenRight(f, kind, pays, info, token)
    BY <1>0
  <1> DEFINE b == token.BB
  <1>4. /\ TriangleAt(n, b, C, Nx) /\ GoesOn(b, C, Nx, t, keep, e)
        /\ f' = Converted(b, C, t, keep, e)
        /\ predicate' = PredicateBlock(C, CvtCond(token))
        /\ InfoConverted(info, info', f'.preds[b], b, C)
        /\ Tokens' = Tokens \ {token}
        /\ C = TargetOf(info, token)
    BY <1>3 DEF ConvertsTo
  <1>5. phase' = phase /\ kind' = kind /\ pays' = pays /\ Change' \in BOOLEAN
    <2>1. phase' = phase /\ kind' = kind /\ pays' = pays
      BY DEF IfConvertTriangle
    <2>2. Change \in BOOLEAN
      BY DEF IInv
    <2>3. Change' = Change \/ Change' = TRUE
      BY DEF IfConvertTriangle
    <2> QED BY <2>1, <2>2, <2>3
  <1>6. ConvertedTo(n, f', b, C, t, keep, e)
    BY <1>4, ConvertedFields
  <1>7. f' \in Functional(n) /\ EdgesRight(f', kind) /\ CodeOnce(f')
    BY <1>4, <1>6, ConvertedEdges, ConvertedCode DEF ConvertedTo
  <1>8. FunctionRight(f', kind')
    BY <1>1, <1>5, <1>7 DEF FunctionRight
  <1>9. Blocks = 1 .. n /\ Blocks' = 1 .. n /\ b \in Blocks
    <2>1. DOMAIN f.term = 1 .. n /\ DOMAIN f'.term = 1 .. n
      BY <1>1, <1>7, RightBlocks
    <2>2. token \in IfcvtToken
      BY <1>2
    <2> QED BY <2>1, <2>2 DEF Blocks, IfcvtToken
  <1>10. Infos' = Infos /\ IfcvtToken' = IfcvtToken
    BY <1>9, TypesSame
  <1>11. /\ b \in 1 .. n /\ token.BB = b
         /\ InfoRight(f, kind, predicate, info) /\ TokenRight(f, kind, pays, info, token)
    BY <1>2, <1>3, <1>9
  <1>12. /\ info[C].BrCond = <<>>
         /\ \E c \in DOMAIN getOppositeCondition : info[b].BrCond = <<c>>
    BY <1>1, <1>4, <1>11, TokenTriangle
  <1>13. CvtCond(token)[1] \in CondCodes
    BY <1>12, CondIs
  <1>14. Len(f.preds[C]) = 1 /\ Fresh(f, kind, info[b], b)
    BY <1>4, <1>11 DEF TokenRight, IsTarget, IsHead
  <1> HIDE DEF b
  <1>15. f.body[C] \in Seq(1 .. n)
    BY <1>1, <1>9, BlockIs
  <1>16. predicate' \in [1 .. n -> CondCodes] /\ \A u \in (1 .. n) \ ToSet(f.body[C]) : predicate'[u] = predicate[u]
    BY <1>2, <1>4, <1>9, <1>13, <1>15, Members DEF PredicateBlock
  <1>17. InfoRight(f', kind, predicate', info') /\ \A x \in Blocks : ~(info'[x].IsBeingAnalyzed)
    <2>1. PICK h, p, new, pr : h = f' /\ p = predicate' /\ new = info' /\ pr = f'.preds[b]
      OBVIOUS
    <2>2. ConvertedTo(n, h, b, C, t, keep, e) /\ InfoConverted(info, new, pr, b, C)
          /\ \A u \in (1 .. n) \ ToSet(f.body[C]) : p[u] = predicate[u]
      BY <2>1, <1>4, <1>6, <1>16
    <2>3. InfoRight(h, kind, p, new) /\ \A x \in Blocks : ~new[x].IsBeingAnalyzed
      BY <2>2, <1>2, <1>4, <1>14, InfoAfter
    <2> QED BY <2>1, <2>3
  <1>18. TokensRight(f', kind, pays, info', Tokens')
    <2>1. PICK h, new, pr : h = f' /\ new = info' /\ pr = h.preds[b]
      OBVIOUS
    <2>2. ConvertedTo(n, h, b, C, t, keep, e) /\ InfoConverted(info, new, pr, b, C)
      BY <2>1, <1>4, <1>6
    <2>3. TokensRight(h, kind, pays, new, Tokens \ {token})
      BY <2>1, <2>2, <1>2, <1>4, <1>11, <1>12, <1>14, TokensAfter
    <2> QED BY <2>1, <2>3, <1>4
  <1>19. info' \in [Blocks -> Infos] /\ Tokens' \subseteq IfcvtToken
    BY <1>2, <1>4 DEF InfoConverted
  <1>20. \A x \in Blocks' : ~(info[x].IsBeingAnalyzed)'
    BY <1>9, <1>17
  <1>21. phase' \in {"analyze", "convert", "done"}
    BY <1>5 DEF IInv
  <1> QED BY <1>5, <1>8, <1>9, <1>10, <1>16, <1>17, <1>18, <1>19, <1>20, <1>21 DEF IInv

\* A token dropped.
LEMMA SkipKeepsIInv ==
    ASSUME IInv, Skip
    PROVE  IInv'
  <1>1. PICK token \in Tokens :
          /\ info' = [info EXCEPT ![token.BB].IsEnqueued = FALSE]
          /\ Tokens' = Tokens \ {token}
    BY DEF Skip
  <1>2. UNCHANGED <<f, predicate, phase, Change, kind, pays>>
    BY DEF Skip
  <1>3. Blocks' = Blocks
    BY <1>2 DEF Blocks
  <1>4. /\ info \in [Blocks -> Infos] /\ InfoRight(f, kind, predicate, info)
        /\ \A b \in Blocks : ~info[b].IsBeingAnalyzed
        /\ Tokens \subseteq IfcvtToken /\ TokensRight(f, kind, pays, info, Tokens)
    BY DEF IInv
  <1> DEFINE b == token.BB
             i == [info[b] EXCEPT !.IsEnqueued = FALSE]
  <1>5. b \in Blocks /\ info[b] \in Infos
    BY <1>4 DEF IfcvtToken
  <1>6. /\ i \in Infos /\ ~i.IsEnqueued
        /\ i.IsDone = info[b].IsDone /\ i.IsAnalyzed = info[b].IsAnalyzed /\ i.IsBeingAnalyzed = info[b].IsBeingAnalyzed
        /\ i.IsUnpredicable = info[b].IsUnpredicable /\ i.Predicate = info[b].Predicate
        /\ i.TrueBB = info[b].TrueBB /\ i.FalseBB = info[b].FalseBB /\ i.BrCond = info[b].BrCond
        /\ i.IsBrAnalyzable = info[b].IsBrAnalyzable /\ i.HasFallThrough = info[b].HasFallThrough
    BY <1>5 DEF Infos
  <1>7. info' = [info EXCEPT ![b] = i]
    BY <1>1
  <1> HIDE DEF i
  <1>8. PICK new : new = info'
    OBVIOUS
  <1>9. new \in [Blocks -> Infos] /\ new[b] = i /\ \A x \in Blocks : x # b => new[x] = info[x]
    BY <1>4, <1>5, <1>6, <1>7, <1>8
  <1>10. \A x \in Blocks : \A g, kd : Fresh(g, kd, info[x], x) => Fresh(g, kd, new[x], x)
    <2> SUFFICES ASSUME NEW x \in Blocks, NEW g, NEW kd, Fresh(g, kd, info[x], x) PROVE Fresh(g, kd, new[x], x)
      OBVIOUS
    <2>1. /\ new[x].TrueBB = info[x].TrueBB /\ new[x].FalseBB = info[x].FalseBB /\ new[x].BrCond = info[x].BrCond
          /\ new[x].IsBrAnalyzable = info[x].IsBrAnalyzable /\ new[x].HasFallThrough = info[x].HasFallThrough
          /\ new[x].IsUnpredicable = info[x].IsUnpredicable
      BY <1>6, <1>9
    <2> DEFINE A == Analysis(g, x)
    <2> HIDE DEF A
    <2> QED BY <2>1 DEF Fresh, A
  <1>11. InfoRight(f, kind, predicate, new) /\ \A x \in Blocks : ~new[x].IsBeingAnalyzed
    <2>1. ASSUME NEW x \in Blocks PROVE InfoOf(f, kind, predicate, new[x], x) /\ ~new[x].IsBeingAnalyzed
      <3>1. InfoOf(f, kind, predicate, info[x], x) /\ ~info[x].IsBeingAnalyzed
        BY <1>4 DEF InfoRight, Blocks
      <3>2. /\ new[x].IsDone = info[x].IsDone /\ new[x].IsAnalyzed = info[x].IsAnalyzed
            /\ new[x].IsBeingAnalyzed = info[x].IsBeingAnalyzed
            /\ new[x].IsUnpredicable = info[x].IsUnpredicable /\ new[x].Predicate = info[x].Predicate
        BY <1>6, <1>9
      <3> QED BY <3>1, <3>2, <1>10 DEF InfoOf
    <2> QED BY <2>1 DEF InfoRight, Blocks
  <1>12. ASSUME NEW u \in Tokens \ {token}, new[u.BB].IsEnqueued
         PROVE  TokenRight(f, kind, pays, new, u) /\ info[u.BB].IsEnqueued /\ u.BB # b
    <2>1. u.BB \in Blocks
      BY <1>4 DEF IfcvtToken
    <2>2. u.BB # b /\ new[u.BB] = info[u.BB]
      BY <2>1, <1>6, <1>9, <1>12
    <2>3. TokenRight(f, kind, pays, info, u)
      BY <2>2, <1>4, <1>12 DEF TokensRight
    <2>4. TargetOf(new, u) = TargetOf(info, u) /\ NextOf(new, u) = NextOf(info, u)
      BY <2>2 DEF TargetOf, NextOf
    <2> DEFINE D == TargetOf(info, u)
    <2>5. IsTarget(f, pays, info[D], D, NextOf(info, u)) /\ IsHead(f, kind, info[u.BB], u.BB)
      BY <2>3 DEF TokenRight
    <2>6. /\ new[D].IsAnalyzed = info[D].IsAnalyzed /\ new[D].IsBeingAnalyzed = info[D].IsBeingAnalyzed
          /\ new[D].IsDone = info[D].IsDone /\ new[D].IsUnpredicable = info[D].IsUnpredicable
      <3>1. CASE D = b
        BY <3>1, <1>6, <1>9
      <3>2. CASE D # b
        <4>1. new[D] = info[D]
          BY <3>2, <1>7, <1>8, <1>4
        <4> QED BY <4>1
      <3> QED BY <3>1, <3>2
    <2>7. IsTarget(f, pays, new[D], D, NextOf(info, u))
      BY <2>5, <2>6 DEF IsTarget
    <2> HIDE DEF D
    <2>8. TokenRight(f, kind, pays, new, u)
      BY <2>2, <2>3, <2>4, <2>5, <2>7 DEF TokenRight, D
    <2> QED BY <2>2, <2>8, <1>12
  <1>13. Twins(new, Tokens \ {token})
    <2> SUFFICES ASSUME NEW u \in Tokens \ {token}, new[u.BB].IsEnqueued, u.Kind \in DOMAIN Twin
                 PROVE  \E w \in Tokens \ {token} : w.BB = u.BB /\ w.Kind = Twin[u.Kind]
      BY DEF Twins
    <2>1. info[u.BB].IsEnqueued /\ u.BB # b
      BY <1>12
    <2>2. PICK w \in Tokens : w.BB = u.BB /\ w.Kind = Twin[u.Kind]
      BY <2>1, <1>4 DEF TokensRight, Twins
    <2>3. w # token
      BY <2>1, <2>2
    <2> QED BY <2>2, <2>3
  <1>14. TokensRight(f, kind, pays, new, Tokens \ {token})
    BY <1>12, <1>13 DEF TokensRight
  <1>15. Infos' = Infos /\ IfcvtToken' = IfcvtToken
    BY <1>3, TypesSame
  <1> QED BY <1>1, <1>2, <1>3, <1>4, <1>8, <1>9, <1>11, <1>14, <1>15 DEF IInv
-----------------------------------------------------------------------------
(* Candidates.                                                             *)

\* The four kinds of candidates, as Found looks for them.
Worth(x) == x \in pays /\ f.body[x] # <<>>
TriangleTo(all, x, y, c) ==
    ValidTriangle(all, x, y, FALSE) /\ Worth(x) /\ FeasibilityAnalysis(all[x], c, TRUE, FALSE)
TriangleRevTo(all, x, y, c) ==
    ValidTriangle(all, x, y, TRUE) /\ Worth(x) /\ FeasibilityAnalysis(all[x], c, TRUE, TRUE)
SimpleTo(all, x, c) ==
    ValidSimple(all, x) /\ Worth(x) /\ FeasibilityAnalysis(all[x], c, FALSE, FALSE)
DiamondTo(all, T, F, c, d) ==
    /\ ValidDiamond(all, T, F) /\ Worth(T) /\ Worth(F)
    /\ FeasibilityAnalysis(all[T], c, FALSE, FALSE) /\ FeasibilityAnalysis(all[F], d, FALSE, FALSE)

\* Which of the seven kinds it is.
FoundAs(all, b, T, F, c, d, k) ==
    \/ k = "ICDiamond" /\ DiamondTo(all, T, F, c, d)
    \/ k = "ICTriangle" /\ TriangleTo(all, T, F, c)
    \/ k = "ICTriangleRev" /\ TriangleRevTo(all, T, F, c)
    \/ k = "ICSimple" /\ SimpleTo(all, T, c)
    \/ k = "ICTriangleFalse" /\ TriangleTo(all, F, T, d)
    \/ k = "ICTriangleFRev" /\ TriangleRevTo(all, F, T, d)
    \/ k = "ICSimpleFalse" /\ SimpleTo(all, F, d)

\* That is what Found finds.
LEMMA FoundIs ==
    ASSUME NEW all, NEW b, NEW k
    PROVE  k \in Found(all, b) <=>
              FoundAs(all, b, all[b].TrueBB, all[b].FalseBB, all[b].BrCond, ReverseBranchCondition(all[b].BrCond), k)
  <1>1. DOMAIN IfcvtKind = {"ICSimpleFalse", "ICSimple", "ICTriangleFRev", "ICTriangleRev",
              "ICTriangleFalse", "ICTriangle", "ICDiamond"}
    BY DEF IfcvtKind
  <1>2. FoundAs(all, b, all[b].TrueBB, all[b].FalseBB, all[b].BrCond, ReverseBranchCondition(all[b].BrCond), k)
           => k \in DOMAIN IfcvtKind
    BY <1>1 DEF FoundAs
  <1>3. k \in Found(all, b) <=> k \in DOMAIN IfcvtKind
              /\ FoundAs(all, b, all[b].TrueBB, all[b].FalseBB, all[b].BrCond, ReverseBranchCondition(all[b].BrCond), k)
    BY Zenon DEF Found, FoundAs, DiamondTo, TriangleTo, TriangleRevTo, SimpleTo, Worth
  <1> QED BY <1>2, <1>3

\* A triangle is found where there is a target.
LEMMA TriangleIs ==
    ASSUME NEW all, NEW x, NEW y, NEW c, InfoOf(f, kind, predicate, all[x], x), y # None,
           all[x].IsAnalyzed \/ all[x].IsBeingAnalyzed
    PROVE  /\ TriangleTo(all, x, y, c) <=> IsTarget(f, pays, all[x], x, y)
           /\ TriangleRevTo(all, x, y, c) <=> IsTarget(f, pays, all[x], x, y)
  <1> DEFINE i == all[x]
             Fits == /\ ~i.IsBeingAnalyzed /\ ~i.IsDone /\ Len(f.preds[x]) = 1
                     /\ ~i.IsUnpredicable /\ Worth(x)
  <1>1. TriangleTo(all, x, y, c) => Fits
    BY DEF TriangleTo, ValidTriangle, FeasibilityAnalysis
  <1>2. TriangleRevTo(all, x, y, c) => Fits
    BY DEF TriangleRevTo, ValidTriangle, FeasibilityAnalysis
  <1>3. IsTarget(f, pays, all[x], x, y) <=> Fits /\ i.IsAnalyzed /\ After(f, x) = y
    BY DEF IsTarget, Worth
  <1>4. ASSUME Fits
        PROVE  /\ i.IsAnalyzed
               /\ TriangleTo(all, x, y, c) <=> After(f, x) = y
               /\ TriangleRevTo(all, x, y, c) <=> After(f, x) = y
    <2>1. i.IsAnalyzed
      BY <1>4
    <2>2. Fresh(f, kind, i, x) /\ ~i.IsUnpredicable
      BY <1>4 DEF InfoOf
    <2>3. /\ i.TrueBB = None /\ i.FalseBB = None /\ i.BrCond = <<>> /\ i.IsBrAnalyzable
      BY ONLY <2>2, TargetForm
    <2>4. i.Predicate = <<>>
      BY <1>4 DEF InfoOf
    <2>5. Exit(x, i, None) = After(f, x)
      BY <2>3 DEF Exit, blockAlwaysFallThrough
    <2>6. /\ FeasibilityAnalysis(i, c, TRUE, FALSE) /\ FeasibilityAnalysis(i, c, TRUE, TRUE)
      BY <1>4, <2>3, <2>4 DEF FeasibilityAnalysis
    <2>7. ValidTriangle(all, x, y, FALSE) <=> After(f, x) = y
      BY <1>4, <2>3, <2>5 DEF ValidTriangle
    <2>8. ValidTriangle(all, x, y, TRUE) <=> After(f, x) = y
      BY <1>4, <2>3, <2>5 DEF ValidTriangle
    <2>9. TriangleTo(all, x, y, c) <=> After(f, x) = y
      BY Zenon, <1>4, <2>6, <2>7 DEF TriangleTo
    <2>10. TriangleRevTo(all, x, y, c) <=> After(f, x) = y
      BY Zenon, <1>4, <2>6, <2>8 DEF TriangleRevTo
    <2> QED BY <2>1, <2>9, <2>10
  <1> HIDE DEF Fits
  <1> QED BY <1>1, <1>2, <1>3, <1>4

\* No simple candidate is found: its block would have a terminator that is not analyzed.
LEMMA SimpleNever ==
    ASSUME NEW all, NEW x, NEW c, InfoOf(f, kind, predicate, all[x], x),
           all[x].IsAnalyzed \/ all[x].IsBeingAnalyzed
    PROVE  ~SimpleTo(all, x, c)
  <1> SUFFICES ASSUME SimpleTo(all, x, c) PROVE FALSE
    OBVIOUS
  <1>1. ~all[x].IsDone /\ ~all[x].IsBrAnalyzable /\ ~all[x].IsUnpredicable
    BY DEF SimpleTo, ValidSimple, FeasibilityAnalysis
  <1>2. Fresh(f, kind, all[x], x)
    BY <1>1 DEF InfoOf
  <1>3. all[x].IsBrAnalyzable
    BY <1>1, <1>2, TargetForm
  <1> QED BY <1>1, <1>3

\* No diamond is found: both its blocks would fall through to the same one.
LEMMA DiamondNever ==
    ASSUME NEW n \in Nat \ {0}, f \in Functional(n), EdgesRight(f, kind),
           NEW all, NEW T \in 1 .. n, NEW F \in 1 .. n, T # F, NEW c, NEW d,
           InfoOf(f, kind, predicate, all[T], T), InfoOf(f, kind, predicate, all[F], F),
           all[T].IsAnalyzed \/ all[T].IsBeingAnalyzed, all[F].IsAnalyzed \/ all[F].IsBeingAnalyzed
    PROVE  ~DiamondTo(all, T, F, c, d)
  <1> SUFFICES ASSUME DiamondTo(all, T, F, c, d) PROVE FALSE
    OBVIOUS
  <1>1. ~all[T].IsDone /\ ~all[T].IsUnpredicable /\ ~all[F].IsDone /\ ~all[F].IsUnpredicable
    BY DEF DiamondTo, FeasibilityAnalysis
  <1>2. Exit(T, all[T], all[T].TrueBB) = Exit(F, all[F], all[F].TrueBB)
    BY DEF DiamondTo, ValidDiamond
  <1>3. Fresh(f, kind, all[T], T) /\ Fresh(f, kind, all[F], F)
    BY <1>1 DEF InfoOf
  <1>4. /\ all[T].TrueBB = None /\ all[T].IsBrAnalyzable /\ f.term[T] = <<>> /\ \A u \in ToSet(f.body[T]) : kind[u] = "alu"
        /\ all[F].TrueBB = None /\ all[F].IsBrAnalyzable /\ f.term[F] = <<>> /\ \A u \in ToSet(f.body[F]) : kind[u] = "alu"
    BY <1>1, <1>3, TargetForm
  <1>5. After(f, T) = After(f, F)
    BY <1>2, <1>4 DEF Exit, blockAlwaysFallThrough
  <1>6. After(f, T) = T + 1 /\ After(f, F) = F + 1
    BY <1>4, FallsTo
  <1>7. T \in Nat /\ F \in Nat /\ T # F
    OBVIOUS
  <1>8. T + 1 = F + 1
    BY <1>5, <1>6
  <1> QED BY ONLY <1>7, <1>8

\* Block b, which has been analyzed, ends in a branch to two blocks that have been visited.
HeadKnown(n, all, b) ==
    /\ n \in Nat \ {0} /\ f \in Functional(n) /\ EdgesRight(f, kind) /\ CodeOnce(f)
    /\ b \in 1 .. n /\ InfoRight(f, kind, predicate, all) /\ IsHead(f, kind, all[b], b)
    /\ \A x \in {all[b].TrueBB, all[b].FalseBB} : all[x].IsAnalyzed \/ all[x].IsBeingAnalyzed

\* Where a head goes.
LEMMA HeadGoes ==
    ASSUME NEW n \in Nat \ {0}, f \in Functional(n), EdgesRight(f, kind), NEW b \in 1 .. n,
           NEW i, IsHead(f, kind, i, b)
    PROVE  i.TrueBB \in 1 .. n /\ i.FalseBB \in 1 .. n /\ i.TrueBB # i.FalseBB
           /\ ToSet(f.succs[b]) = {i.TrueBB, i.FalseBB}
  <1>1. ToSet(f.succs[b]) = {i.TrueBB, i.FalseBB} /\ i.TrueBB # i.FalseBB
    BY HeadSplits DEF IsHead, Splits
  <1>2. f.succs[b] \in Seq(1 .. n)
    BY BlockIs
  <1>3. ToSet(f.succs[b]) \subseteq 1 .. n
    BY <1>2, Members
  <1> QED BY <1>1, <1>3

\* The token made of what is found is right.
LEMMA FoundRight ==
    ASSUME NEW n, NEW all, NEW b, HeadKnown(n, all, b), NEW k \in Found(all, b),
           NEW t, t.BB = b, t.Kind = k, t.NeedSubsumption = NeedSub(all, b, k)
    PROVE  /\ TokenRight(f, kind, pays, all, t)
           /\ k \in DOMAIN Twin => Twin[k] \in Found(all, b)
  <1> DEFINE T == all[b].TrueBB
             F == all[b].FalseBB
             c == all[b].BrCond
             d == ReverseBranchCondition(all[b].BrCond)
  <1>1. /\ n \in Nat \ {0} /\ f \in Functional(n) /\ EdgesRight(f, kind)
        /\ b \in 1 .. n /\ InfoRight(f, kind, predicate, all) /\ IsHead(f, kind, all[b], b)
        /\ \A x \in {T, F} : all[x].IsAnalyzed \/ all[x].IsBeingAnalyzed
    BY DEF HeadKnown
  <1>2. T \in 1 .. n /\ F \in 1 .. n /\ T # F
    BY <1>1, HeadGoes
  <1>3. DOMAIN f.term = 1 .. n
    BY <1>1, RightBlocks
  <1>4. FoundAs(all, b, T, F, c, d, k)
    BY FoundIs
  <1>5. \A m : m \in Found(all, b) <=> FoundAs(all, b, T, F, c, d, m)
    BY FoundIs
  <1> HIDE DEF T, F, c, d
  <1>6. InfoOf(f, kind, predicate, all[T], T) /\ InfoOf(f, kind, predicate, all[F], F)
    BY <1>1, <1>2, <1>3 DEF InfoRight
  <1>7. ~SimpleTo(all, T, c) /\ ~SimpleTo(all, F, d)
    BY <1>1, <1>6, SimpleNever
  <1>8. ~DiamondTo(all, T, F, c, d)
    BY <1>1, <1>2, <1>6, DiamondNever
  <1>9. T # None /\ F # None
    BY <1>2 DEF None
  <1>10. /\ TriangleTo(all, T, F, c) <=> IsTarget(f, pays, all[T], T, F)
         /\ TriangleRevTo(all, T, F, c) <=> IsTarget(f, pays, all[T], T, F)
         /\ TriangleTo(all, F, T, d) <=> IsTarget(f, pays, all[F], F, T)
         /\ TriangleRevTo(all, F, T, d) <=> IsTarget(f, pays, all[F], F, T)
    BY <1>1, <1>6, <1>9, TriangleIs
  <1>11. \/ k \in {"ICTriangle", "ICTriangleRev"} /\ IsTarget(f, pays, all[T], T, F)
         \/ k \in {"ICTriangleFalse", "ICTriangleFRev"} /\ IsTarget(f, pays, all[F], F, T)
    BY <1>4, <1>7, <1>8, <1>10 DEF FoundAs
  <1>12. IsTarget(f, pays, all[TargetOf(all, t)], TargetOf(all, t), NextOf(all, t))
    <2>1. CASE k \in {"ICTriangle", "ICTriangleRev"} /\ IsTarget(f, pays, all[T], T, F)
      <3>1. TargetOf(all, t) = T /\ NextOf(all, t) = F
        BY <2>1 DEF TargetOf, NextOf, T, F
      <3> QED BY <3>1, <2>1
    <2>2. CASE k \in {"ICTriangleFalse", "ICTriangleFRev"} /\ IsTarget(f, pays, all[F], F, T)
      <3>1. TargetOf(all, t) = F /\ NextOf(all, t) = T
        BY <2>2 DEF TargetOf, NextOf, T, F
      <3> QED BY <3>1, <2>2
    <2> QED BY <2>1, <2>2, <1>11
  <1>13. ~t.NeedSubsumption
    <2>1. \A x \in {T, F} : \A y : IsTarget(f, pays, all[x], x, y) => all[x].Predicate = <<>>
      BY <1>6 DEF IsTarget, InfoOf
    <2>2. \/ k \in {"ICTriangle", "ICTriangleRev"} /\ all[T].Predicate = <<>>
          \/ k \in {"ICTriangleFalse", "ICTriangleFRev"} /\ all[F].Predicate = <<>>
      BY <1>11, <2>1
    <2> QED BY <2>2 DEF NeedSub, T, F
  <1>14. TokenRight(f, kind, pays, all, t)
    BY <1>1, <1>11, <1>12, <1>13 DEF TokenRight
  <1>15. ASSUME k \in DOMAIN Twin PROVE Twin[k] \in Found(all, b)
    <2>1. k = "ICTriangleRev" \/ k = "ICTriangleFRev"
      BY <1>15 DEF Twin
    <2>2. CASE k = "ICTriangleRev"
      <3>1. Twin[k] = "ICTriangle"
        BY <2>2 DEF Twin
      <3>2. TriangleTo(all, T, F, c)
        BY <2>2, <1>10, <1>11
      <3>3. FoundAs(all, b, T, F, c, d, "ICTriangle")
        BY <3>2 DEF FoundAs
      <3> QED BY <3>1, <3>3, <1>5
    <2>3. CASE k = "ICTriangleFRev"
      <3>1. Twin[k] = "ICTriangleFalse"
        BY <2>3 DEF Twin
      <3>2. TriangleTo(all, F, T, d)
        BY <2>3, <1>10, <1>11
      <3>3. FoundAs(all, b, T, F, c, d, "ICTriangleFalse")
        BY <3>2 DEF FoundAs
      <3> QED BY <3>1, <3>3, <1>5
    <2> QED BY <2>1, <2>2, <2>3
  <1> QED BY <1>14, <1>15

\* What a right token was made from is still found.
LEMMA StillFound ==
    ASSUME NEW n \in Nat \ {0}, f \in Functional(n), EdgesRight(f, kind), NEW all, NEW t,
           t.BB \in 1 .. n, InfoRight(f, kind, predicate, all), TokenRight(f, kind, pays, all, t)
    PROVE  t.Kind \in Found(all, t.BB)
  <1> DEFINE b == t.BB
             T == all[b].TrueBB
             F == all[b].FalseBB
             c == all[b].BrCond
             d == ReverseBranchCondition(all[b].BrCond)
  <1>1. IsHead(f, kind, all[b], b)
    BY DEF TokenRight
  <1>2. T \in 1 .. n /\ F \in 1 .. n
    BY <1>1, HeadGoes
  <1>3. DOMAIN f.term = 1 .. n
    BY RightBlocks
  <1>4. InfoOf(f, kind, predicate, all[T], T) /\ InfoOf(f, kind, predicate, all[F], F)
    BY <1>2, <1>3 DEF InfoRight
  <1>5. T # None /\ F # None
    BY <1>2 DEF None
  <1>6. \/ t.Kind \in {"ICTriangle", "ICTriangleRev"} /\ IsTarget(f, pays, all[T], T, F)
        \/ t.Kind \in {"ICTriangleFalse", "ICTriangleFRev"} /\ IsTarget(f, pays, all[F], F, T)
    BY DEF TokenRight, TargetOf, NextOf
  <1>7. \A m : m \in Found(all, b) <=> FoundAs(all, b, T, F, c, d, m)
    BY FoundIs
  <1> HIDE DEF T, F, c, d
  <1>8. CASE t.Kind \in {"ICTriangle", "ICTriangleRev"} /\ IsTarget(f, pays, all[T], T, F)
    <2>1. all[T].IsAnalyzed
      BY <1>8 DEF IsTarget
    <2>2. TriangleTo(all, T, F, c) /\ TriangleRevTo(all, T, F, c)
      BY <2>1, <1>4, <1>5, <1>8, TriangleIs
    <2>3. FoundAs(all, b, T, F, c, d, t.Kind)
      BY <2>2, <1>8 DEF FoundAs
    <2> QED BY <2>3, <1>7
  <1>9. CASE t.Kind \in {"ICTriangleFalse", "ICTriangleFRev"} /\ IsTarget(f, pays, all[F], F, T)
    <2>1. all[F].IsAnalyzed
      BY <1>9 DEF IsTarget
    <2>2. TriangleTo(all, F, T, d) /\ TriangleRevTo(all, F, T, d)
      BY <2>1, <1>4, <1>5, <1>9, TriangleIs
    <2>3. FoundAs(all, b, T, F, c, d, t.Kind)
      BY <2>2, <1>9 DEF FoundAs
    <2> QED BY <2>3, <1>7
  <1> QED BY <1>6, <1>8, <1>9
-----------------------------------------------------------------------------
(* What the analysis finds of a block.                                     *)

\* The types of what AnalyzeBranch says.
LEMMA AnalysisType ==
    ASSUME NEW n \in Nat \ {0}, f \in Functional(n), NEW b \in 1 .. n
    PROVE  LET A == Analysis(f, b)
           IN  /\ A.fail \in BOOLEAN /\ A.TBB \in (1 .. n) \cup {None} /\ A.FBB \in (1 .. n) \cup {None}
               /\ A.Cond \in {<<>>} \cup [1 .. 1 -> CondCodes]
  <1> DEFINE A == Analysis(f, b)
  <1>1. f.term[b] \in Terminators(1 .. n)
    BY BlockIs
  <1>2. DOMAIN getOppositeCondition \subseteq CondCodes
    BY DEF getOppositeCondition, CondCodes
  <1>3. \A c \in CondCodes : <<c>> \in [1 .. 1 -> CondCodes]
    OBVIOUS
  <1>4. /\ f.term[b] = <<>> => A.fail \in BOOLEAN /\ ~A.fail /\ A.TBB = None /\ A.FBB = None /\ A.Cond = <<>>
        /\ f.term[b] = <<RET>> => A.fail \in BOOLEAN /\ A.fail /\ A.TBB = None /\ A.FBB = None /\ A.Cond = <<>>
        /\ \A x : f.term[b] = <<B(x)>> =>
              A.fail \in BOOLEAN /\ ~A.fail /\ A.TBB = x /\ A.FBB = None /\ A.Cond = <<>>
        /\ \A x, c : f.term[b] = <<BCC(x, c)>> =>
              A.fail \in BOOLEAN /\ ~A.fail /\ A.TBB = x /\ A.FBB = None /\ A.Cond = <<c>>
        /\ \A x, y, c : f.term[b] = <<BCC(x, c), B(y)>> =>
              A.fail \in BOOLEAN /\ ~A.fail /\ A.TBB = x /\ A.FBB = y /\ A.Cond = <<c>>
    BY AnalyzeForms
  <1>5. \/ f.term[b] = <<>>
        \/ f.term[b] = <<RET>>
        \/ \E x \in 1 .. n : f.term[b] = <<B(x)>>
        \/ \E x \in 1 .. n, c \in DOMAIN getOppositeCondition : f.term[b] = <<BCC(x, c)>>
        \/ \E x, y \in 1 .. n, c \in DOMAIN getOppositeCondition : f.term[b] = <<BCC(x, c), B(y)>>
    <2>1. PICK blocks : blocks = 1 .. n
      OBVIOUS
    <2>2. f.term[b] \in Terminators(blocks)
      BY <1>1, <2>1
    <2> DEFINE t == f.term[b]
    <2> HIDE DEF t
    <2>3. t \in Terminators(blocks)
      BY <2>2 DEF t
    <2>4. \/ t = <<>>
          \/ t = <<RET>>
          \/ \E x \in blocks : t = <<B(x)>>
          \/ \E x \in blocks, c \in DOMAIN getOppositeCondition : t = <<BCC(x, c)>>
          \/ \E x, y \in blocks, c \in DOMAIN getOppositeCondition : t = <<BCC(x, c), B(y)>>
      BY ONLY <2>3, TerminatorForms
    <2> QED BY <2>1, <2>4 DEF t
  <1> HIDE DEF A
  <1>6. /\ A.fail \in BOOLEAN /\ A.TBB \in (1 .. n) \cup {None} /\ A.FBB \in (1 .. n) \cup {None}
        /\ A.Cond = <<>> \/ \E c \in CondCodes : A.Cond = <<c>>
    BY <1>2, <1>4, <1>5
  <1>7. A.Cond \in {<<>>} \cup [1 .. 1 -> CondCodes]
    BY <1>3, <1>6
  <1> QED BY <1>6, <1>7 DEF A

\* Block info with the results of an analysis.
Seen(i, T, F, c, ok, fall, up) ==
    [i EXCEPT !.TrueBB = T, !.FalseBB = F, !.BrCond = c,
              !.IsBrAnalyzable = ok, !.HasFallThrough = fall, !.IsUnpredicable = up]

\* What that changes.
LEMMA SeenIs ==
    ASSUME NEW i \in Infos, NEW T \in Blocks \cup {None}, NEW F \in Blocks \cup {None},
           NEW c \in {<<>>} \cup [1 .. 1 -> CondCodes], NEW ok \in BOOLEAN, NEW fall \in BOOLEAN,
           NEW up \in BOOLEAN
    PROVE  Seen(i, T, F, c, ok, fall, up) \in Infos
  <1> DEFINE j1 == [i EXCEPT !.TrueBB = T, !.FalseBB = F, !.BrCond = c]
             j2 == [j1 EXCEPT !.IsBrAnalyzable = ok, !.HasFallThrough = fall, !.IsUnpredicable = up]
  <1>1. j1 \in Infos
    BY DEF Infos
  <1> HIDE DEF j1
  <1>2. j2 \in Infos
    BY <1>1 DEF Infos
  <1> QED BY <1>2 DEF j1, Seen

\* Block info as the analysis begins.
Scanned(i, b) == [ScanInstructions(b, i, AnalyzeBranch(f, b, FALSE)) EXCEPT !.IsBeingAnalyzed = TRUE]

\* It is right.
LEMMA ScannedIs ==
    ASSUME NEW n \in Nat \ {0}, f \in Functional(n), NEW b \in 1 .. n, NEW i \in Infos,
           InfoOf(f, kind, predicate, i, b)
    PROVE  LET j == Scanned(i, b)
           IN  /\ j \in Infos /\ j.IsBeingAnalyzed /\ (j.IsAnalyzed <=> i.IsAnalyzed)
               /\ InfoOf(f, kind, predicate, j, b)
  <1> DEFINE A == Analysis(f, b)
             other == FalseOf(f.succs[b], A.TBB)
             FalseBB == IF A.Cond # <<>> /\ A.FBB = None THEN other ELSE A.FBB
             up == i.IsUnpredicable \/ ~Predicable(f, kind, b)
             fall == ~A.fail /\ A.FBB = None
             ok == ~A.fail
             seen == Seen(i, A.TBB, FalseBB, A.Cond, ok, fall, up)
             j == Scanned(i, b)
  <1>1. /\ A.fail \in BOOLEAN /\ A.TBB \in (1 .. n) \cup {None} /\ A.FBB \in (1 .. n) \cup {None}
        /\ A.Cond \in {<<>>} \cup [1 .. 1 -> CondCodes]
    BY AnalysisType
  <1>2. Blocks = 1 .. n
    BY RightBlocks DEF Blocks
  <1>3. other \in (1 .. n) \cup {None}
    <2>1. f.succs[b] \in Seq(1 .. n)
      BY BlockIs
    <2>2. ToSet(f.succs[b]) \subseteq 1 .. n
      BY <2>1, Members
    <2> QED BY <2>1, <2>2, FindFalse
  <1>4. findFalseBlock(b, A.TBB) = other
    BY DEF findFalseBlock, FalseOf
  <1>5. isPredicable(b) <=> Predicable(f, kind, b)
    BY DEF isPredicable, Predicable
  <1>6. j = [(IF i.IsDone THEN i ELSE seen) EXCEPT !.IsBeingAnalyzed = TRUE]
    BY <1>4, <1>5 DEF Scanned, ScanInstructions, Analysis, Seen
  <1>7. FalseBB \in Blocks \cup {None} /\ up \in BOOLEAN /\ fall \in BOOLEAN /\ ok \in BOOLEAN
    BY <1>1, <1>2, <1>3
  <1>8. seen \in Infos
    <2> HIDE DEF A, other, FalseBB, up, fall, ok
    <2>1. A.TBB \in Blocks \cup {None} /\ A.Cond \in {<<>>} \cup [1 .. 1 -> CondCodes]
      BY <1>1, <1>2
    <2> QED BY <2>1, <1>7, SeenIs
  <1>9. /\ seen.TrueBB = A.TBB /\ seen.FalseBB = FalseBB /\ seen.BrCond = A.Cond
        /\ seen.IsBrAnalyzable = ok /\ seen.HasFallThrough = fall /\ seen.IsUnpredicable = up
        /\ seen.Predicate = i.Predicate /\ seen.IsDone = i.IsDone /\ seen.IsAnalyzed = i.IsAnalyzed
    <2> HIDE DEF A, other, FalseBB, up, fall, ok
    <2> QED BY DEF Infos, Seen
  <1> HIDE DEF seen
  <1> DEFINE k == IF i.IsDone THEN i ELSE seen
  <1>10. k \in Infos /\ (k.IsAnalyzed <=> i.IsAnalyzed)
    BY <1>8, <1>9
  <1> HIDE DEF k
  <1>11. j = [k EXCEPT !.IsBeingAnalyzed = TRUE]
    BY <1>6 DEF k
  <1> HIDE DEF j
  <1>12. /\ j \in Infos /\ j.IsBeingAnalyzed
         /\ j.TrueBB = k.TrueBB /\ j.FalseBB = k.FalseBB /\ j.BrCond = k.BrCond
         /\ j.IsBrAnalyzable = k.IsBrAnalyzable /\ j.HasFallThrough = k.HasFallThrough
         /\ j.IsUnpredicable = k.IsUnpredicable
         /\ j.Predicate = k.Predicate /\ j.IsDone = k.IsDone /\ j.IsAnalyzed = k.IsAnalyzed
    BY <1>10, <1>11 DEF Infos
  <1>13. CASE i.IsDone
    <2>1. j.IsDone
      BY <1>12, <1>13 DEF k
    <2> QED BY <2>1, <1>10, <1>12 DEF InfoOf, j
  <1>14. CASE ~i.IsDone
    <2>1. k = seen
      BY <1>14 DEF k
    <2>2. Fresh(f, kind, j, b)
      BY <2>1, <1>9, <1>12 DEF Fresh, A
    <2>3. i.IsUnpredicable => j.IsUnpredicable
      BY <2>1, <1>9, <1>12
    <2>4. j.Predicate = i.Predicate
      BY <2>1, <1>9, <1>12
    <2>5. InfoOf(f, kind, predicate, j, b)
      BY <2>2, <2>3, <2>4, <1>14 DEF InfoOf
    <2> QED BY <2>5, <1>10, <1>12 DEF j
  <1> QED BY <1>13, <1>14
-----------------------------------------------------------------------------
(* The analysis of one block.                                              *)

\* What the analysis relies on: the function does not change.
Rightly(n) ==
    n \in Nat \ {0} /\ f \in Functional(n) /\ EdgesRight(f, kind) /\ CodeOnce(f) /\ Blocks = 1 .. n

\* The same is known of the branches.
SameBranches(i, j) ==
    /\ j.TrueBB = i.TrueBB /\ j.FalseBB = i.FalseBB /\ j.BrCond = i.BrCond
    /\ j.IsBrAnalyzable <=> i.IsBrAnalyzable
    /\ j.HasFallThrough <=> i.HasFallThrough
    /\ j.IsUnpredicable <=> i.IsUnpredicable
    /\ j.IsDone <=> i.IsDone

\* A token stays right when only other things are learned of its blocks.
LEMMA TokenSame ==
    ASSUME NEW all, NEW new, NEW t, TokenRight(f, kind, pays, all, t), SameBranches(all[t.BB], new[t.BB]),
           new[TargetOf(all, t)] = all[TargetOf(all, t)]
    PROVE  TokenRight(f, kind, pays, new, t)
  <1>1. TargetOf(new, t) = TargetOf(all, t) /\ NextOf(new, t) = NextOf(all, t)
    BY DEF TargetOf, NextOf, SameBranches
  <1>2. IsHead(f, kind, all[t.BB], t.BB)
    BY DEF TokenRight
  <1>3. Fresh(f, kind, all[t.BB], t.BB)
    BY <1>2 DEF IsHead
  <1>4. Fresh(f, kind, new[t.BB], t.BB)
    BY <1>3 DEF Fresh, SameBranches
  <1>5. IsHead(f, kind, new[t.BB], t.BB)
    BY <1>2, <1>4 DEF IsHead, SameBranches
  <1>6. IsTarget(f, pays, new[TargetOf(new, t)], TargetOf(new, t), NextOf(new, t))
    BY <1>1 DEF TokenRight
  <1> QED BY <1>5, <1>6 DEF TokenRight

\* So does what is known of a block.
LEMMA InfoSame ==
    ASSUME NEW i, NEW j, NEW b, InfoOf(f, kind, predicate, i, b), i.IsAnalyzed \/ i.IsBeingAnalyzed,
           SameBranches(i, j), j.Predicate = i.Predicate
    PROVE  InfoOf(f, kind, predicate, j, b)
  <1>1. ~i.IsDone => Fresh(f, kind, i, b)
    BY DEF InfoOf
  <1>2. ~j.IsDone => Fresh(f, kind, j, b)
    BY <1>1 DEF Fresh, SameBranches
  <1>3. (j.IsUnpredicable <=> i.IsUnpredicable) /\ (j.IsDone <=> i.IsDone)
    BY DEF SameBranches
  <1> QED BY <1>2, <1>3 DEF InfoOf

\* The analysis of the block has ended; it has begun.
Settled(i) == i.IsAnalyzed /\ ~i.IsBeingAnalyzed
Visited(i) == i.IsAnalyzed \/ i.IsBeingAnalyzed

\* Tokens are about blocks that are settled, and so are their targets.
LEMMA UnsettledChange ==
    ASSUME NEW n, Rightly(n), NEW all, NEW new, NEW b, ~Settled(all[b]),
           \A x \in Blocks \ {b} : new[x] = all[x],
           NEW tokens \in SUBSET IfcvtToken, TokensRight(f, kind, pays, all, tokens),
           \A t \in tokens : Settled(all[t.BB])
    PROVE  /\ \A t \in tokens : t.BB # b /\ Settled(new[t.BB])
           /\ TokensRight(f, kind, pays, new, tokens)
  <1>1. \A t \in tokens : t.BB \in Blocks /\ t.BB # b
    BY DEF IfcvtToken
  <1>2. \A t \in tokens : new[t.BB] = all[t.BB]
    BY <1>1
  <1>3. Twins(new, tokens)
    BY <1>2 DEF TokensRight, Twins
  <1>4. ASSUME NEW t \in tokens, new[t.BB].IsEnqueued PROVE TokenRight(f, kind, pays, new, t)
    <2>1. TokenRight(f, kind, pays, all, t)
      BY <1>2, <1>4 DEF TokensRight
    <2>2. IsHead(f, kind, all[t.BB], t.BB)
      BY <2>1 DEF TokenRight
    <2>3. all[t.BB].TrueBB \in 1 .. n /\ all[t.BB].FalseBB \in 1 .. n
      BY <2>2, <1>1, HeadGoes DEF Rightly
    <2>4. TargetOf(all, t) \in Blocks
      BY <2>3 DEF TargetOf, Rightly
    <2>5. Settled(all[TargetOf(all, t)])
      BY <2>1 DEF TokenRight, IsTarget, Settled
    <2>6. new[TargetOf(all, t)] = all[TargetOf(all, t)]
      BY <2>4, <2>5
    <2>7. SameBranches(all[t.BB], new[t.BB])
      BY <1>2 DEF SameBranches
    <2> QED BY <2>1, <2>6, <2>7, TokenSame
  <1> QED BY <1>1, <1>2, <1>3, <1>4 DEF TokensRight

\* An analysis that is right so far.
AInv(s) ==
    /\ s \in Analyses /\ InfoRight(f, kind, predicate, s.info)
    /\ TokensRight(f, kind, pays, s.info, s.tokens)
    /\ \A t \in s.tokens : Settled(s.info[t.BB])

\* r comes after s: what had been visited stays, and no more is being analyzed.
Later(s, r) ==
    /\ AInv(r)
    /\ \A x \in Blocks : /\ Visited(s.info[x]) => r.info[x] = s.info[x]
                         /\ r.info[x].IsBeingAnalyzed <=> s.info[x].IsBeingAnalyzed

\* b is visited, and nothing else happens.
Alters(s, r, b) ==
    /\ r \in Analyses /\ r.info[b] \in Infos
    /\ \A x \in Blocks \ {b} : r.info[x] = s.info[x]

\* Begin.
LEMMA BeginIs ==
    ASSUME NEW n, Rightly(n), NEW s, AInv(s), NEW b \in Blocks, ~Visited(s.info[b])
    PROVE  LET r == Begin(s, b)
           IN  /\ AInv(r) /\ Alters(s, r, b) /\ r.tokens = s.tokens
               /\ r.info[b].IsBeingAnalyzed /\ ~r.info[b].IsAnalyzed
  <1> DEFINE r == Begin(s, b)
             j == Scanned(s.info[b], b)
  <1>1. s.info \in [Blocks -> Infos] /\ s.tokens \in SUBSET IfcvtToken
    BY DEF AInv, Analyses
  <1>2. s.info[b] \in Infos
    BY <1>1
  <1>3. InfoOf(f, kind, predicate, s.info[b], b)
    BY DEF AInv, InfoRight, Blocks
  <1>4. /\ j \in Infos /\ j.IsBeingAnalyzed /\ (j.IsAnalyzed <=> s.info[b].IsAnalyzed)
        /\ InfoOf(f, kind, predicate, j, b)
    BY <1>2, <1>3, ScannedIs DEF Rightly
  <1>5. r = [s EXCEPT !.info[b] = j]
    BY DEF Begin, Scanned
  <1> HIDE DEF j, r
  <1>6. r = [info |-> [s.info EXCEPT ![b] = j], tokens |-> s.tokens]
    BY <1>5 DEF AInv, Analyses
  <1>7. r.info = [s.info EXCEPT ![b] = j] /\ r.tokens = s.tokens
    BY <1>6
  <1>8. r.info \in [Blocks -> Infos] /\ r.info[b] = j /\ \A x \in Blocks \ {b} : r.info[x] = s.info[x]
    BY <1>1, <1>4, <1>7
  <1>9. r \in Analyses
    BY <1>1, <1>6, <1>7, <1>8 DEF Analyses
  <1>10. InfoRight(f, kind, predicate, r.info)
    BY <1>4, <1>8 DEF InfoRight, AInv, Blocks
  <1>11. ~Settled(s.info[b])
    BY DEF Settled, Visited
  <1>12. TokensRight(f, kind, pays, r.info, r.tokens) /\ \A t \in r.tokens : Settled(r.info[t.BB])
    <2>1. TokensRight(f, kind, pays, s.info, s.tokens) /\ \A t \in s.tokens : Settled(s.info[t.BB])
      BY DEF AInv
    <2> QED BY <2>1, <1>1, <1>7, <1>8, <1>11, UnsettledChange
  <1>13. AInv(r)
    BY <1>9, <1>10, <1>12 DEF AInv
  <1>14. Alters(s, r, b)
    BY <1>4, <1>8, <1>9 DEF Alters
  <1> QED BY <1>4, <1>7, <1>8, <1>13, <1>14 DEF r, Visited

\* Block info as the analysis ends, and with or without tokens.
Ended(i) == [i EXCEPT !.IsBeingAnalyzed = FALSE, !.IsAnalyzed = TRUE]
Queued(i, e) == [i EXCEPT !.IsEnqueued = e]

\* What that changes.
LEMMA EndedIs ==
    ASSUME NEW i \in Infos, NEW e \in BOOLEAN
    PROVE  /\ Ended(i) \in Infos /\ SameBranches(i, Ended(i)) /\ Ended(i).Predicate = i.Predicate
           /\ Settled(Ended(i)) /\ Ended(i).IsEnqueued = i.IsEnqueued
           /\ Queued(i, e) \in Infos /\ SameBranches(i, Queued(i, e)) /\ Queued(i, e).Predicate = i.Predicate
           /\ Queued(i, e).IsEnqueued = e /\ (Visited(i) => Visited(Queued(i, e)))
  <1>1. Ended(i) \in Infos /\ SameBranches(i, Ended(i)) /\ Ended(i).Predicate = i.Predicate
    BY DEF Ended, Infos, SameBranches
  <1>2. Settled(Ended(i)) /\ Ended(i).IsEnqueued = i.IsEnqueued
    BY DEF Ended, Infos, Settled
  <1>3. Queued(i, e) \in Infos /\ SameBranches(i, Queued(i, e)) /\ Queued(i, e).Predicate = i.Predicate
    BY DEF Queued, Infos, SameBranches
  <1>4. Queued(i, e).IsEnqueued = e /\ (Visited(i) => Visited(Queued(i, e)))
    BY DEF Queued, Infos, Visited
  <1> QED BY <1>1, <1>2, <1>3, <1>4

\* Block b of s ends up as j.
Becomes(r, s, b, j, tokens) == r = [info |-> [s.info EXCEPT ![b] = j], tokens |-> tokens]

\* Finish.
LEMMA FinishOf ==
    ASSUME NEW I, NEW T, NEW b, b \in DOMAIN I, NEW s, s = [info |-> I, tokens |-> T]
    PROVE  Finish(s, b) = [info |-> [I EXCEPT ![b] = Ended(I[b])], tokens |-> T]
  <1>1. Finish(s, b) = [info |-> [[I EXCEPT ![b].IsBeingAnalyzed = FALSE] EXCEPT ![b].IsAnalyzed = TRUE],
                        tokens |-> T]
    <2> DEFINE s1 == [s EXCEPT !.info[b].IsBeingAnalyzed = FALSE]
               I1 == [I EXCEPT ![b].IsBeingAnalyzed = FALSE]
    <2>1. s1 = [info |-> I1, tokens |-> T]
      <3>1. s1 = [s EXCEPT !.info = I1]
        OBVIOUS
      <3> HIDE DEF I1
      <3>2. [s EXCEPT !.info = I1] = [info |-> I1, tokens |-> T]
        OBVIOUS
      <3> QED BY <3>1, <3>2
    <2>2. Finish(s, b) = [s1 EXCEPT !.info[b].IsAnalyzed = TRUE]
      BY DEF Finish
    <2> HIDE DEF s1, I1
    <2> DEFINE I2 == [I1 EXCEPT ![b].IsAnalyzed = TRUE]
    <2>3. [s1 EXCEPT !.info[b].IsAnalyzed = TRUE] = [info |-> I2, tokens |-> T]
      <3>1. [s1 EXCEPT !.info[b].IsAnalyzed = TRUE] = [s1 EXCEPT !.info = I2]
        BY <2>1
      <3> HIDE DEF I2
      <3>2. [s1 EXCEPT !.info = I2] = [info |-> I2, tokens |-> T]
        BY <2>1
      <3> QED BY <3>1, <3>2
    <2> QED BY <2>2, <2>3 DEF I1
  <1>2. [[I EXCEPT ![b].IsBeingAnalyzed = FALSE] EXCEPT ![b].IsAnalyzed = TRUE]
           = [I EXCEPT ![b] = Ended(I[b])]
    BY DEF Ended
  <1> QED BY <1>1, <1>2

\* The information that follows when that of one block ends up as j.
LEMMA BlockEnds ==
    ASSUME NEW n, Rightly(n), NEW s, AInv(s), NEW b \in Blocks, s.info[b].IsBeingAnalyzed, NEW j \in Infos,
           Settled(j), SameBranches(s.info[b], j), j.Predicate = s.info[b].Predicate,
           NEW tokens \in SUBSET IfcvtToken, NEW r, Becomes(r, s, b, j, tokens)
    PROVE  /\ Alters(s, r, b) /\ InfoRight(f, kind, predicate, r.info) /\ r.info[b] = j
           /\ TokensRight(f, kind, pays, r.info, s.tokens)
           /\ \A t \in s.tokens : t.BB # b /\ Settled(r.info[t.BB])
  <1>1. s.info \in [Blocks -> Infos] /\ s.tokens \in SUBSET IfcvtToken
    BY DEF AInv, Analyses
  <1>2. r.info = [s.info EXCEPT ![b] = j] /\ r.tokens = tokens /\ r = [info |-> r.info, tokens |-> r.tokens]
    BY DEF Becomes
  <1>3. r.info \in [Blocks -> Infos] /\ r.info[b] = j /\ \A x \in Blocks \ {b} : r.info[x] = s.info[x]
    BY <1>1, <1>2
  <1>4. r \in Analyses
    BY <1>2, <1>3 DEF Analyses
  <1>5. InfoOf(f, kind, predicate, s.info[b], b)
    BY DEF AInv, InfoRight, Blocks
  <1>6. InfoOf(f, kind, predicate, j, b)
    BY <1>5, InfoSame
  <1>7. InfoRight(f, kind, predicate, r.info)
    BY <1>3, <1>6 DEF InfoRight, AInv, Blocks
  <1>8. ~Settled(s.info[b])
    BY DEF Settled
  <1>9. TokensRight(f, kind, pays, s.info, s.tokens) /\ \A t \in s.tokens : Settled(s.info[t.BB])
    BY DEF AInv
  <1>10. TokensRight(f, kind, pays, r.info, s.tokens) /\ \A t \in s.tokens : t.BB # b /\ Settled(r.info[t.BB])
    BY <1>9, <1>1, <1>3, <1>8, UnsettledChange
  <1> QED BY <1>3, <1>4, <1>7, <1>10 DEF Alters

\* Finish without tokens.
LEMMA FinishIs ==
    ASSUME NEW n, Rightly(n), NEW s, AInv(s), NEW b \in Blocks, s.info[b].IsBeingAnalyzed
    PROVE  LET r == Finish(s, b) IN AInv(r) /\ Alters(s, r, b) /\ Settled(r.info[b])
  <1> DEFINE r == Finish(s, b)
             j == Ended(s.info[b])
  <1>1. s.info \in [Blocks -> Infos] /\ s.tokens \in SUBSET IfcvtToken
    BY DEF AInv, Analyses
  <1>2. s.info[b] \in Infos
    BY <1>1
  <1>3. j \in Infos /\ SameBranches(s.info[b], j) /\ j.Predicate = s.info[b].Predicate /\ Settled(j)
    BY <1>2, EndedIs
  <1>4. s = [info |-> s.info, tokens |-> s.tokens]
    BY DEF AInv, Analyses
  <1>5. Becomes(r, s, b, j, s.tokens)
    <2>1. b \in DOMAIN s.info
      BY <1>1
    <2> DEFINE I == s.info
               T == s.tokens
    <2>2. s = [info |-> I, tokens |-> T] /\ b \in DOMAIN I
      BY <1>4, <2>1
    <2> HIDE DEF I, T
    <2>3. Finish(s, b) = [info |-> [I EXCEPT ![b] = Ended(I[b])], tokens |-> T]
      BY ONLY <2>2, FinishOf
    <2> QED BY <2>3 DEF Becomes, I, T
  <1> HIDE DEF j, r
  <1>6. r.tokens = s.tokens
    BY <1>5 DEF Becomes
  <1>7. /\ Alters(s, r, b) /\ InfoRight(f, kind, predicate, r.info) /\ r.info[b] = j
        /\ TokensRight(f, kind, pays, r.info, s.tokens)
        /\ \A t \in s.tokens : t.BB # b /\ Settled(r.info[t.BB])
    BY <1>1, <1>3, <1>5, BlockEnds
  <1>8. AInv(r)
    BY <1>6, <1>7 DEF AInv, Alters
  <1> QED BY <1>3, <1>7, <1>8 DEF r

\* The tokens of block b.
TokenOf(s, b, k) == [BB |-> b, Kind |-> k, NeedSubsumption |-> NeedSub(s.info, b, k)]
TokensOf(s, b) == {TokenOf(s, b, k) : k \in Found(s.info, b)}

\* Finish with tokens.
LEMMA EnqueueIs ==
    ASSUME NEW n, Rightly(n), NEW s, AInv(s), NEW b \in Blocks, s.info[b].IsBeingAnalyzed,
           HeadKnown(n, s.info, b)
    PROVE  LET r == Finish(Enqueue(s, b), b) IN AInv(r) /\ Alters(s, r, b) /\ Settled(r.info[b])
  <1> DEFINE q == Enqueue(s, b)
             r == Finish(q, b)
             e == Found(s.info, b) # {}
             j == Ended(Queued(s.info[b], e))
             new == TokensOf(s, b)
             tokens == s.tokens \cup new
  <1>1. s.info \in [Blocks -> Infos] /\ s.tokens \in SUBSET IfcvtToken
    BY DEF AInv, Analyses
  <1>2. s.info[b] \in Infos
    BY <1>1
  <1>3. e \in BOOLEAN
    OBVIOUS
  <1>4. Queued(s.info[b], e) \in Infos /\ SameBranches(s.info[b], Queued(s.info[b], e))
        /\ Queued(s.info[b], e).Predicate = s.info[b].Predicate /\ Queued(s.info[b], e).IsEnqueued = e
    <2> HIDE DEF e
    <2> QED BY <1>2, <1>3, EndedIs
  <1>5. j \in Infos /\ SameBranches(s.info[b], j) /\ j.Predicate = s.info[b].Predicate /\ Settled(j) /\ j.IsEnqueued = e
    <2> DEFINE i == Queued(s.info[b], e)
    <2>1. j = Ended(i) /\ i \in Infos
      BY <1>4
    <2> HIDE DEF i, j
    <2>2. j \in Infos /\ SameBranches(i, j) /\ j.Predicate = i.Predicate /\ Settled(j) /\ j.IsEnqueued = i.IsEnqueued
      BY <2>1, EndedIs
    <2>3. SameBranches(s.info[b], i) /\ i.Predicate = s.info[b].Predicate /\ i.IsEnqueued = e
      BY <1>4 DEF i
    <2>4. SameBranches(s.info[b], j)
      BY <2>2, <2>3 DEF SameBranches
    <2> HIDE DEF e
    <2> QED BY <2>2, <2>3, <2>4
  <1>6. s = [info |-> s.info, tokens |-> s.tokens]
    BY DEF AInv, Analyses
  <1>7. q = [info |-> [s.info EXCEPT ![b] = Queued(s.info[b], e)], tokens |-> tokens]
    <2>1. q = [s EXCEPT !.info[b].IsEnqueued = e, !.tokens = tokens]
      BY DEF Enqueue, TokensOf, TokenOf
    <2> HIDE DEF q, e, tokens
    <2>2. q = [s EXCEPT !.info = [s.info EXCEPT ![b].IsEnqueued = e], !.tokens = tokens]
      BY <2>1, <1>6
    <2>3. [s.info EXCEPT ![b].IsEnqueued = e] = [s.info EXCEPT ![b] = Queued(s.info[b], e)]
      BY <1>1 DEF Queued
    <2>4. q = [s EXCEPT !.info = [s.info EXCEPT ![b] = Queued(s.info[b], e)], !.tokens = tokens]
      BY <2>2, <2>3
    <2> QED BY <2>4, <1>6
  <1>8. Becomes(r, s, b, j, tokens)
    <2> DEFINE i == Queued(s.info[b], e)
               info1 == [s.info EXCEPT ![b] = i]
    <2>1. q = [info |-> info1, tokens |-> tokens]
      BY <1>7
    <2>2. b \in DOMAIN info1 /\ info1[b] = i
      BY <1>1
    <2>3. [info1 EXCEPT ![b] = j] = [s.info EXCEPT ![b] = j]
      <3> HIDE DEF j, i, e
      <3> QED BY <1>1
    <2>4. j = Ended(i)
      OBVIOUS
    <2> HIDE DEF q, info1, tokens, e, i, j
    <2>5. Finish(q, b) = [info |-> [info1 EXCEPT ![b] = Ended(info1[b])], tokens |-> tokens]
      BY <2>1, <2>2, FinishOf
    <2> QED BY <2>2, <2>3, <2>4, <2>5 DEF Becomes
  <1> HIDE DEF j, r, q, tokens, e
  <1>9. \A k : k \in Found(s.info, b) => k \in DOMAIN IfcvtKind
    BY DEF Found
  <1>10. \A k \in Found(s.info, b) :
            /\ TokenRight(f, kind, pays, s.info, TokenOf(s, b, k)) /\ TokenOf(s, b, k) \in IfcvtToken
            /\ TokenOf(s, b, k).BB = b /\ TokenOf(s, b, k).Kind = k
            /\ k \in DOMAIN Twin => Twin[k] \in Found(s.info, b)
    <2> TAKE k \in Found(s.info, b)
    <2> DEFINE t == TokenOf(s, b, k)
    <2>1. t.BB = b /\ t.Kind = k /\ t.NeedSubsumption = NeedSub(s.info, b, k)
      BY DEF TokenOf
    <2>2. NeedSub(s.info, b, k) \in BOOLEAN
      BY Zenon DEF NeedSub
    <2>3. t \in IfcvtToken
      BY <2>2, <1>9 DEF IfcvtToken, TokenOf
    <2> HIDE DEF t
    <2>4. TokenRight(f, kind, pays, s.info, t) /\ (k \in DOMAIN Twin => Twin[k] \in Found(s.info, b))
      BY <2>1, FoundRight
    <2> QED BY <2>1, <2>3, <2>4 DEF t
  <1>11. \A t \in new : t \in IfcvtToken /\ t.BB = b /\ TokenRight(f, kind, pays, s.info, t)
    BY <1>10 DEF TokensOf
  <1>12. \A t \in new : t.Kind \in DOMAIN Twin => \E u \in new : u.BB = b /\ u.Kind = Twin[t.Kind]
    BY <1>10 DEF TokensOf
  <1> HIDE DEF new
  <1>13. tokens \in SUBSET IfcvtToken
    BY <1>1, <1>11 DEF tokens
  <1>14. /\ Alters(s, r, b) /\ InfoRight(f, kind, predicate, r.info) /\ r.info[b] = j
         /\ TokensRight(f, kind, pays, r.info, s.tokens)
         /\ \A t \in s.tokens : t.BB # b /\ Settled(r.info[t.BB])
    BY <1>5, <1>8, <1>13, BlockEnds
  <1>15. \A t \in new : TokenRight(f, kind, pays, r.info, t)
    <2> TAKE t \in new
    <2>1. TokenRight(f, kind, pays, s.info, t) /\ t.BB = b
      BY <1>11
    <2>2. IsHead(f, kind, s.info[b], b)
      BY <2>1 DEF TokenRight
    <2>3. /\ s.info[b].TrueBB \in 1 .. n /\ s.info[b].FalseBB \in 1 .. n
          /\ b \notin {s.info[b].TrueBB, s.info[b].FalseBB}
      <3>1. s.info[b].TrueBB \in 1 .. n /\ s.info[b].FalseBB \in 1 .. n
        BY <2>2, HeadGoes DEF Rightly
      <3> QED BY <3>1, <2>2 DEF IsHead
    <2>4. TargetOf(s.info, t) \in Blocks \ {b}
      BY <2>1, <2>3 DEF TargetOf, Rightly
    <2>5. r.info[TargetOf(s.info, t)] = s.info[TargetOf(s.info, t)]
      BY <2>4, <1>14 DEF Alters
    <2>6. SameBranches(s.info[t.BB], r.info[t.BB])
      BY <2>1, <1>5, <1>14
    <2> QED BY <2>1, <2>5, <2>6, TokenSame
  <1>16. r.tokens = tokens
    BY <1>8 DEF Becomes
  <1>17. \A t \in tokens : Settled(r.info[t.BB])
    BY <1>5, <1>11, <1>14 DEF tokens
  <1>18. Twins(r.info, tokens)
    <2>1. Twins(r.info, s.tokens)
      BY <1>14 DEF TokensRight
    <2> QED BY <2>1, <1>11, <1>12 DEF Twins, tokens
  <1>19. TokensRight(f, kind, pays, r.info, tokens)
    <2>1. \A t \in s.tokens : r.info[t.BB].IsEnqueued => TokenRight(f, kind, pays, r.info, t)
      BY <1>14 DEF TokensRight
    <2>2. \A t \in tokens : r.info[t.BB].IsEnqueued => TokenRight(f, kind, pays, r.info, t)
      BY <2>1, <1>15 DEF tokens
    <2> QED BY <2>2, <1>18 DEF TokensRight
  <1>20. AInv(r)
    BY <1>14, <1>16, <1>17, <1>19 DEF AInv, Alters
  <1> QED BY <1>5, <1>14, <1>20 DEF r, q
-----------------------------------------------------------------------------
(* The analysis of the blocks: nested calls.                               *)

\* The calls of AnalyzeBlock, by how deep they may be nested.
Base == [s \in Analyses |-> [b \in Blocks |-> s]]
Level(v) == [s \in Analyses |-> [b \in Blocks |-> Analyze(s, b, v)]]
Depths(m, w) == [d \in 0 .. m |-> IF d = 0 THEN Base ELSE Level(w[d - 1])]
Calls(w) ==
    [depth \in 0 .. Len(f.layout) |-> [s \in Analyses |-> [b \in Blocks |->
        IF depth = 0 THEN s ELSE Analyze(s, b, w[depth - 1])]]]

\* There is a function that satisfies the recursion.
LEMMA DepthsExist ==
    ASSUME NEW m \in Nat
    PROVE  \E w : w = Depths(m, w)
  <1> DEFINE G == {d \in 0 .. m : \E w : w = Depths(d, w)}
  <1>1. 0 \in G
    <2>1. PICK w : w = [d \in 0 .. 0 |-> Base]
      OBVIOUS
    <2>2. Depths(0, w) = [d \in 0 .. 0 |-> Base]
      BY DEF Depths
    <2> QED BY <2>1, <2>2
  <1>2. \A d \in 1 .. m : d - 1 \in G => d \in G
    <2> TAKE d \in 1 .. m
    <2> HAVE d - 1 \in G
    <2>1. PICK w : w = Depths(d - 1, w)
      OBVIOUS
    <2>2. PICK v : v = [e \in 0 .. d |-> IF e = d THEN Level(w[d - 1]) ELSE w[e]]
      OBVIOUS
    <2>3. \A e \in 0 .. d - 1 : v[e] = w[e] /\ w[e] = IF e = 0 THEN Base ELSE Level(w[e - 1])
      <3> TAKE e \in 0 .. d - 1
      <3>1. e \in 0 .. d /\ e # d
        OBVIOUS
      <3>2. v[e] = w[e]
        BY ONLY <2>2, <3>1
      <3>3. w[e] = IF e = 0 THEN Base ELSE Level(w[e - 1])
        BY ONLY <2>1, e \in 0 .. d - 1 DEF Depths
      <3> QED BY <3>2, <3>3
    <2>4. \A e \in 1 .. d : e - 1 \in 0 .. d - 1
      OBVIOUS
    <2>5. \A e \in 1 .. d : v[e] = Level(v[e - 1])
      <3> TAKE e \in 1 .. d
      <3>1. v[e - 1] = w[e - 1]
        BY <2>3, <2>4
      <3>2. CASE e = d
        BY <2>2, <3>1, <3>2
      <3>3. CASE e # d
        <4>1. e \in 0 .. d - 1 /\ e # 0
          BY <3>3
        <4> QED BY <4>1, <2>3, <3>1
      <3> QED BY <3>2, <3>3
    <2>6. v[0] = Base
      BY <2>3
    <2>7. \A e \in 0 .. d : v[e] = IF e = 0 THEN Base ELSE Level(v[e - 1])
      BY <2>5, <2>6
    <2>8. v = Depths(d, v)
      BY <2>2, <2>7 DEF Depths
    <2> QED BY <2>8
  <1> HIDE DEF G
  <1>3. m \in G
    BY <1>1, <1>2, InductionUpTo
  <1> QED BY <1>3 DEF G

\* AnalyzeBlock is one.
LEMMA CallsAre ==
    ASSUME NEW w
    PROVE  Calls(w) = Depths(Len(f.layout), w)
  <1> DEFINE At(depth) == [s \in Analyses |-> [b \in Blocks |->
                              IF depth = 0 THEN s ELSE Analyze(s, b, w[depth - 1])]]
  <1>1. At(0) = Base
    BY DEF Base
  <1>2. ASSUME NEW depth, depth # 0 PROVE At(depth) = Level(w[depth - 1])
    BY <1>2 DEF Level
  <1>3. Calls(w) = [depth \in 0 .. Len(f.layout) |-> At(depth)]
    BY DEF Calls
  <1> HIDE DEF At
  <1>4. \A depth \in 0 .. Len(f.layout) : At(depth) = IF depth = 0 THEN Base ELSE Level(w[depth - 1])
    BY <1>1, <1>2
  <1> QED BY <1>3, <1>4 DEF Depths

\* What AnalyzeBlock is at each depth.
LEMMA AnalyzeBlockIs ==
    ASSUME Len(f.layout) \in Nat
    PROVE  /\ AnalyzeBlock[0] = Base
           /\ \A d \in 1 .. Len(f.layout) : AnalyzeBlock[d] = Level(AnalyzeBlock[d - 1])
  <1>1. AnalyzeBlock = CHOOSE w : w = Calls(w)
    BY DEF AnalyzeBlock, Calls
  <1>2. \E w : w = Calls(w)
    BY DepthsExist, CallsAre
  <1>3. AnalyzeBlock = Calls(AnalyzeBlock)
    BY <1>1, <1>2
  <1>4. AnalyzeBlock = Depths(Len(f.layout), AnalyzeBlock)
    BY <1>3, CallsAre
  <1>5. \A d \in 0 .. Len(f.layout) : AnalyzeBlock[d] = IF d = 0 THEN Base ELSE Level(AnalyzeBlock[d - 1])
    BY <1>4 DEF Depths
  <1> QED BY <1>5

\* The blocks that have not been visited.
Unvisited(s) == {b \in Blocks : ~Visited(s.info[b])}
\* A call of b from s ends in r.
Reaches(s, b, r) == Later(s, r) /\ Visited(r.info[b])
\* v analyzes well whatever has at most d blocks left to visit.
AnalyzesUpTo(d, v) ==
    \A s \in Analyses, b \in Blocks :
        AInv(s) /\ Cardinality(Unvisited(s)) <= d => Reaches(s, b, v[s][b])

\* There are finitely many, and fewer when one is visited.
LEMMA UnvisitedIs ==
    ASSUME NEW n, Rightly(n), NEW s
    PROVE  /\ IsFiniteSet(Unvisited(s)) /\ Cardinality(Unvisited(s)) \in Nat /\ Cardinality(Unvisited(s)) <= n
           /\ Cardinality(Unvisited(s)) <= 0 => Unvisited(s) = {}
  <1>1. n \in Nat /\ 1 \in Nat /\ Blocks = 1 .. n /\ n > 0
    BY DEF Rightly
  <1>2. IsFiniteSet(1 .. n) /\ Cardinality(1 .. n) = n
    BY <1>1, FS_Interval
  <1>3. Unvisited(s) \subseteq 1 .. n
    BY <1>1 DEF Unvisited
  <1>4. IsFiniteSet(Unvisited(s)) /\ Cardinality(Unvisited(s)) <= n
    BY <1>2, <1>3, FS_Subset
  <1>5. Cardinality(Unvisited(s)) \in Nat
    BY <1>4, FS_CardinalityType
  <1>6. Cardinality(Unvisited(s)) = 0 <=> Unvisited(s) = {}
    BY <1>4, FS_EmptySet
  <1> QED BY <1>4, <1>5, <1>6

\* Later is transitive.
LEMMA LaterIs ==
    ASSUME NEW n, Rightly(n), NEW s, NEW r, NEW q, Later(s, r)
    PROVE  /\ Cardinality(Unvisited(r)) <= Cardinality(Unvisited(s))
           /\ \A x \in Blocks : Visited(s.info[x]) => Visited(r.info[x])
           /\ Later(r, q) => Later(s, q)
  <1>1. \A x \in Blocks : Visited(s.info[x]) => Visited(r.info[x])
    BY DEF Later
  <1>2. Unvisited(r) \subseteq Unvisited(s)
    BY <1>1 DEF Unvisited
  <1>3. Cardinality(Unvisited(r)) <= Cardinality(Unvisited(s))
    <2>1. IsFiniteSet(Unvisited(s))
      BY UnvisitedIs
    <2> QED BY <2>1, <1>2, FS_Subset
  <1>4. ASSUME Later(r, q) PROVE Later(s, q)
    BY <1>1, <1>4 DEF Later
  <1> QED BY <1>1, <1>3, <1>4

\* One that alters an unvisited block, and ends with it.
LEMMA AltersLater ==
    ASSUME NEW s, NEW r, NEW b, AInv(r), Alters(s, r, b), ~Visited(s.info[b]), ~r.info[b].IsBeingAnalyzed
    PROVE  Later(s, r)
  <1>1. ~s.info[b].IsBeingAnalyzed
    BY DEF Visited
  <1> QED BY <1>1 DEF Later, Alters

\* From s, b is begun, the blocks below are done, and b is finished.
LEMMA EndsLater ==
    ASSUME NEW n, Rightly(n), NEW s, NEW p, NEW q, NEW r, NEW b \in Blocks, ~Visited(s.info[b]), Alters(s, p, b),
           Later(p, q), Alters(q, r, b), AInv(r), Settled(r.info[b])
    PROVE  Reaches(s, b, r)
  <1>1. ~s.info[b].IsBeingAnalyzed /\ ~r.info[b].IsBeingAnalyzed /\ Visited(r.info[b])
    BY DEF Visited, Settled
  <1>2. ASSUME NEW x \in Blocks \ {b}
        PROVE  /\ Visited(s.info[x]) => r.info[x] = s.info[x]
               /\ r.info[x].IsBeingAnalyzed <=> s.info[x].IsBeingAnalyzed
    <2>1. p.info[x] = s.info[x] /\ r.info[x] = q.info[x]
      BY DEF Alters
    <2>2. /\ Visited(p.info[x]) => q.info[x] = p.info[x]
          /\ q.info[x].IsBeingAnalyzed <=> p.info[x].IsBeingAnalyzed
      BY DEF Later
    <2> QED BY <2>1, <2>2
  <1> QED BY <1>1, <1>2 DEF Reaches, Later

\* It is reflexive.
LEMMA LaterSame == ASSUME NEW s, AInv(s) PROVE Later(s, s)
  BY DEF Later

\* One block, when those below are analyzed well.
LEMMA AnalyzeIs ==
    ASSUME NEW n, Rightly(n), NEW s, AInv(s), NEW b \in Blocks, NEW d \in Nat, d # 0,
           Cardinality(Unvisited(s)) <= d, NEW v, AnalyzesUpTo(d - 1, v)
    PROVE  Reaches(s, b, Analyze(s, b, v))
  <1> DEFINE begun == Begin(s, b)
             i == begun.info[b]
             T == i.TrueBB
             F == i.FalseBB
             first == v[begun][T]
             below == v[first][F]
             r == Analyze(s, b, v)
             plain == \/ ~i.IsBrAnalyzable \/ i.BrCond = <<>> \/ i.IsDone \/ b \in {T, F} \/ F = None
             dull == below.info[T].IsDone /\ below.info[F].IsDone
  <1>1. /\ Visited(s.info[b]) => r = s
        /\ ~Visited(s.info[b]) /\ plain => r = Finish(begun, b)
        /\ ~Visited(s.info[b]) /\ ~plain /\ dull => r = Finish(below, b)
        /\ ~Visited(s.info[b]) /\ ~plain /\ ~dull => r = Finish(Enqueue(below, b), b)
    BY Zenon DEF Analyze, Visited
  <1> HIDE DEF r, begun
  <1>2. CASE Visited(s.info[b])
    <2>1. r = s
      BY <1>1, <1>2
    <2> QED BY <2>1, <1>2, LaterSame DEF Reaches, r
  <1>3. ASSUME ~Visited(s.info[b])
        PROVE  /\ AInv(begun) /\ Alters(s, begun, b) /\ i.IsBeingAnalyzed /\ ~i.IsAnalyzed
    BY <1>3, BeginIs DEF begun
  <1>4. CASE ~Visited(s.info[b]) /\ plain
    <2>1. r = Finish(begun, b)
      BY <1>1, <1>4
    <2>2. AInv(begun) /\ Alters(s, begun, b) /\ begun.info[b].IsBeingAnalyzed
      BY <1>3, <1>4
    <2>3. AInv(r) /\ Alters(begun, r, b) /\ Settled(r.info[b])
      BY <2>1, <2>2, FinishIs
    <2>4. Later(begun, begun)
      BY <2>2, LaterSame
    <2>5. ~Visited(s.info[b])
      BY <1>4
    <2> QED BY <2>2, <2>3, <2>4, <2>5, EndsLater DEF r
  <1>5. CASE ~Visited(s.info[b]) /\ ~plain
    <2>1. ~Visited(s.info[b])
      BY <1>5
    <2>2. AInv(begun) /\ Alters(s, begun, b) /\ i.IsBeingAnalyzed
      BY <1>3, <2>1
    <2>3. i.BrCond # <<>> /\ ~i.IsDone /\ b \notin {T, F} /\ F # None
      BY <1>5
    <2> HIDE DEF plain
    <2>4. InfoOf(f, kind, predicate, i, b)
      BY <2>2 DEF AInv, InfoRight, Blocks
    <2>5. Fresh(f, kind, i, b)
      BY <2>2, <2>3, <2>4 DEF InfoOf
    <2>6. IsHead(f, kind, i, b)
      BY <2>3, <2>5 DEF IsHead
    <2>7. T \in Blocks /\ F \in Blocks
      <3>1. b \in 1 .. n
        BY DEF Rightly
      <3>2. T \in 1 .. n /\ F \in 1 .. n
        BY <2>6, <3>1, HeadGoes DEF Rightly
      <3> QED BY <3>2 DEF Rightly
    <2> DEFINE c == Cardinality(Unvisited(begun))
    <2>8. c <= d - 1
      <3>1. Unvisited(begun) = Unvisited(s) \ {b} /\ b \in Unvisited(s)
        BY <2>1, <2>2 DEF Unvisited, Alters, Visited
      <3>2. IsFiniteSet(Unvisited(s)) /\ Cardinality(Unvisited(s)) \in Nat
        BY UnvisitedIs
      <3>3. c = Cardinality(Unvisited(s)) - 1
        BY <3>1, <3>2, FS_RemoveElement
      <3> QED BY <3>2, <3>3
    <2> HIDE DEF i, T, F, first, below
    <2>9. Reaches(begun, T, first)
      <3>1. begun \in Analyses
        BY <2>2 DEF AInv
      <3> QED BY <3>1, <2>2, <2>7, <2>8 DEF AnalyzesUpTo, first
    <2>10. AInv(first) /\ Later(begun, first) /\ Visited(first.info[T])
      BY <2>9 DEF Reaches, Later
    <2>11. Cardinality(Unvisited(first)) <= d - 1
      <3>1. Cardinality(Unvisited(first)) <= c
        BY <2>10, LaterIs
      <3>2. Cardinality(Unvisited(first)) \in Nat /\ c \in Nat
        BY UnvisitedIs
      <3> QED BY <3>1, <3>2, <2>8
    <2>12. Reaches(first, F, below)
      <3>1. first \in Analyses
        BY <2>10 DEF AInv
      <3> QED BY <3>1, <2>7, <2>10, <2>11 DEF AnalyzesUpTo, below
    <2>13. AInv(below) /\ Later(first, below) /\ Visited(below.info[F])
      BY <2>12 DEF Reaches, Later
    <2>14. Visited(below.info[T])
      BY <2>7, <2>10, <2>13, LaterIs
    <2>15. Later(begun, below)
      BY <2>10, <2>13, LaterIs
    <2>16. below.info[b] = i /\ below.info[b].IsBeingAnalyzed
      BY <2>2, <2>15 DEF Later, Visited, i
    <2>17. AInv(r) /\ Alters(below, r, b) /\ Settled(r.info[b])
      <3>1. CASE dull
        <4>1. r = Finish(below, b)
          BY <1>1, <1>5, <3>1
        <4> QED BY <4>1, <2>13, <2>16, FinishIs
      <3>2. CASE ~dull
        <4>1. r = Finish(Enqueue(below, b), b)
          BY <1>1, <1>5, <3>2
        <4>2. IsHead(f, kind, below.info[b], b)
          BY <2>6, <2>16
        <4>3. below.info[b].TrueBB = T /\ below.info[b].FalseBB = F
          BY <2>16 DEF T, F
        <4>4. HeadKnown(n, below.info, b)
          BY <4>2, <4>3, <2>13, <2>14 DEF HeadKnown, Rightly, AInv, Visited
        <4> QED BY <4>1, <4>4, <2>13, <2>16, EnqueueIs
      <3> QED BY <3>1, <3>2
    <2> QED BY <2>1, <2>2, <2>15, <2>17, EndsLater DEF r
  <1> QED BY <1>2, <1>4, <1>5

\* All calls analyze well those blocks they can reach.
LEMMA CallsAnalyze ==
    ASSUME NEW n, Rightly(n)
    PROVE  AnalyzesUpTo(n, AnalyzeBlock[n])
  <1> DEFINE G == {d \in 0 .. n : AnalyzesUpTo(d, AnalyzeBlock[d])}
  <1>1. n \in Nat /\ Len(f.layout) = n
    BY BlocksAre DEF Rightly
  <1>2. AnalyzeBlock[0] = Base /\ \A d \in 1 .. n : AnalyzeBlock[d] = Level(AnalyzeBlock[d - 1])
    BY <1>1, AnalyzeBlockIs
  <1>3. 0 \in G
    <2>1. \A s \in Analyses, b \in Blocks : Base[s][b] = s
      BY DEF Base
    <2>2. ASSUME NEW s \in Analyses, NEW b \in Blocks, AInv(s), Cardinality(Unvisited(s)) <= 0
          PROVE  Reaches(s, b, s)
      <3>1. Unvisited(s) = {}
        BY <2>2, UnvisitedIs
      <3>2. Visited(s.info[b])
        BY <3>1 DEF Unvisited
      <3> QED BY <2>2, <3>2, LaterSame DEF Reaches
    <2>3. AnalyzesUpTo(0, Base)
      BY <2>1, <2>2 DEF AnalyzesUpTo
    <2> QED BY <2>3, <1>1, <1>2
  <1>4. \A d \in 1 .. n : d - 1 \in G => d \in G
    <2> TAKE d \in 1 .. n
    <2> HAVE d - 1 \in G
    <2> DEFINE v == AnalyzeBlock[d - 1]
    <2>1. AnalyzesUpTo(d - 1, v) /\ AnalyzeBlock[d] = Level(v)
      BY <1>2
    <2> HIDE DEF v
    <2>2. \A s \in Analyses, b \in Blocks : Level(v)[s][b] = Analyze(s, b, v)
      BY DEF Level
    <2>3. d \in Nat /\ d # 0
      OBVIOUS
    <2>4. AnalyzesUpTo(d, Level(v))
      BY <2>1, <2>2, <2>3, AnalyzeIs DEF AnalyzesUpTo
    <2> QED BY <2>1, <2>4
  <1> HIDE DEF G
  <1>5. \A d \in 0 .. n : d \in G
    BY <1>1, <1>3, <1>4, InductionUpTo
  <1>6. n \in G
    BY <1>1, <1>5
  <1> QED BY <1>6 DEF G

\* a, and then one step for each of order.
Folded(m, a, step, order, w) ==
    [i \in 0 .. m |-> IF i = 0 THEN a ELSE step[w[i - 1]][order[i]]]

\* There is a function that satisfies that recursion too.
LEMMA FoldedExists ==
    ASSUME NEW m \in Nat, NEW a, NEW step, NEW order
    PROVE  \E w : w = Folded(m, a, step, order, w)
  <1> DEFINE G == {d \in 0 .. m : \E w : w = Folded(d, a, step, order, w)}
  <1>1. 0 \in G
    <2>1. PICK w : w = [d \in 0 .. 0 |-> a]
      OBVIOUS
    <2>2. Folded(0, a, step, order, w) = [d \in 0 .. 0 |-> a]
      BY DEF Folded
    <2> QED BY <2>1, <2>2
  <1>2. \A d \in 1 .. m : d - 1 \in G => d \in G
    <2> TAKE d \in 1 .. m
    <2> HAVE d - 1 \in G
    <2>1. PICK w : w = Folded(d - 1, a, step, order, w)
      OBVIOUS
    <2>2. PICK v : v = [e \in 0 .. d |-> IF e = d THEN step[w[d - 1]][order[d]] ELSE w[e]]
      OBVIOUS
    <2>3. \A e \in 0 .. d - 1 : v[e] = w[e] /\ w[e] = IF e = 0 THEN a ELSE step[w[e - 1]][order[e]]
      <3> TAKE e \in 0 .. d - 1
      <3>1. e \in 0 .. d /\ e # d
        OBVIOUS
      <3>2. v[e] = w[e]
        BY ONLY <2>2, <3>1
      <3>3. w[e] = IF e = 0 THEN a ELSE step[w[e - 1]][order[e]]
        BY ONLY <2>1, e \in 0 .. d - 1 DEF Folded
      <3> QED BY <3>2, <3>3
    <2>4. \A e \in 1 .. d : e - 1 \in 0 .. d - 1
      OBVIOUS
    <2>5. \A e \in 1 .. d : v[e] = step[v[e - 1]][order[e]]
      <3> TAKE e \in 1 .. d
      <3>1. v[e - 1] = w[e - 1]
        BY <2>3, <2>4
      <3>2. CASE e = d
        BY <2>2, <3>1, <3>2
      <3>3. CASE e # d
        <4>1. e \in 0 .. d - 1 /\ e # 0
          BY <3>3
        <4> QED BY <4>1, <2>3, <3>1
      <3> QED BY <3>2, <3>3
    <2>6. v[0] = a
      BY <2>3
    <2>7. \A e \in 0 .. d : v[e] = IF e = 0 THEN a ELSE step[v[e - 1]][order[e]]
      BY <2>5, <2>6
    <2>8. v = Folded(d, a, step, order, v)
      BY <2>2, <2>7 DEF Folded
    <2> QED BY <2>8
  <1> HIDE DEF G
  <1>3. m \in G
    BY <1>1, <1>2, InductionUpTo
  <1> QED BY <1>3 DEF G

\* The analysis begins with no tokens.
Start == [info |-> info, tokens |-> {}]

\* All blocks are analyzed, rightly.
LEMMA AllAnalyzedIs ==
    ASSUME NEW n, Rightly(n), AInv(Start)
    PROVE  Later(Start, AllAnalyzed)
  <1> DEFINE step == AnalyzeBlock[Len(f.layout)]
  <1>1. n \in Nat \ {0} /\ Len(f.layout) = n /\ \A i \in 1 .. n : f.layout[i] = i
    BY BlocksAre DEF Rightly
  <1>2. AllAnalyzed = (CHOOSE w : w = Folded(Len(f.layout), Start, step, f.layout, w))[Len(f.layout)]
    BY DEF AllAnalyzed, Folded, Start
  <1>3. step = AnalyzeBlock[n]
    BY <1>1
  <1> HIDE DEF step
  <1>4. PICK w : AllAnalyzed = w[n] /\ w = Folded(n, Start, step, f.layout, w)
    <2> DEFINE w0 == CHOOSE w : w = Folded(n, Start, step, f.layout, w)
    <2>1. w0 = Folded(n, Start, step, f.layout, w0)
      BY <1>1, FoldedExists
    <2> QED BY <1>1, <1>2, <2>1
  <1>5. w[0] = Start /\ \A i \in 1 .. n : w[i] = step[w[i - 1]][i]
    <2>1. \A i \in 0 .. n : w[i] = IF i = 0 THEN Start ELSE step[w[i - 1]][f.layout[i]]
      BY <1>4 DEF Folded
    <2> QED BY <2>1, <1>1
  <1> DEFINE G == {i \in 0 .. n : Later(Start, w[i])}
  <1>6. 0 \in G
    BY <1>1, <1>5, LaterSame
  <1>7. \A i \in 1 .. n : i - 1 \in G => i \in G
    <2> TAKE i \in 1 .. n
    <2> HAVE i - 1 \in G
    <2>1. Later(Start, w[i - 1])
      OBVIOUS
    <2> DEFINE s == w[i - 1]
    <2>2. AInv(s) /\ s \in Analyses
      BY <2>1 DEF Later, AInv
    <2>3. i \in Blocks
      BY <1>1 DEF Rightly
    <2>4. Cardinality(Unvisited(s)) <= n
      BY UnvisitedIs
    <2>5. AnalyzesUpTo(n, step)
      BY <1>3, CallsAnalyze
    <2> HIDE DEF s
    <2>6. Reaches(s, i, step[s][i])
      BY <2>2, <2>3, <2>4, <2>5 DEF AnalyzesUpTo
    <2>7. Later(Start, step[s][i])
      BY <2>1, <2>6, LaterIs DEF Reaches, s
    <2>8. w[i] = step[s][i]
      BY <1>5 DEF s
    <2> QED BY <2>7, <2>8
  <1> HIDE DEF G
  <1>8. n \in G
    <2>1. n \in Nat /\ n \in 0 .. n
      BY <1>1
    <2>2. \A i \in 0 .. n : i \in G
      BY ONLY <2>1, <1>6, <1>7, InductionUpTo
    <2> QED BY <2>1, <2>2
  <1> QED BY <1>4, <1>8 DEF G

\* The analysis.
LEMMA AnalyzeKeepsIInv ==
    ASSUME IInv, AnalyzeBlocks
    PROVE  IInv'
  <1>1. /\ FunctionRight(f, kind) /\ predicate \in [Blocks -> CondCodes]
        /\ info \in [Blocks -> Infos] /\ InfoRight(f, kind, predicate, info)
        /\ \A b \in Blocks : ~info[b].IsBeingAnalyzed
    BY DEF IInv
  <1>2. PICK n \in Nat \ {0} : f \in Functional(n) /\ EdgesRight(f, kind) /\ CodeOnce(f)
    BY <1>1 DEF FunctionRight
  <1>3. Rightly(n)
    BY <1>2, RightBlocks DEF Rightly, Blocks
  <1>4. AInv(Start)
    <2>1. Start \in Analyses /\ Start.info = info /\ Start.tokens = {}
      BY <1>1 DEF Start, Analyses
    <2>2. TokensRight(f, kind, pays, info, {})
      BY DEF TokensRight, Twins
    <2> QED BY <1>1, <2>1, <2>2 DEF AInv
  <1>5. Later(Start, AllAnalyzed)
    BY <1>3, <1>4, AllAnalyzedIs
  <1>6. /\ info' = AllAnalyzed.info /\ Tokens' = AllAnalyzed.tokens
        /\ phase' = "convert" /\ Change' = FALSE
        /\ f' = f /\ predicate' = predicate /\ kind' = kind /\ pays' = pays
    BY DEF AnalyzeBlocks
  <1>7. \A b \in Blocks : ~AllAnalyzed.info[b].IsBeingAnalyzed
    BY <1>1, <1>5 DEF Later, Start
  <1>8. AInv(AllAnalyzed)
    BY <1>5 DEF Later
  <1>9. /\ AllAnalyzed.info \in [Blocks -> Infos] /\ AllAnalyzed.tokens \subseteq IfcvtToken
        /\ InfoRight(f, kind, predicate, AllAnalyzed.info)
        /\ TokensRight(f, kind, pays, AllAnalyzed.info, AllAnalyzed.tokens)
    BY <1>8 DEF AInv, Analyses
  <1>10. Blocks' = Blocks
    BY <1>6 DEF Blocks
  <1>11. Infos' = Infos /\ IfcvtToken' = IfcvtToken
    BY <1>10, TypesSame
  <1>12. FunctionRight(f', kind') /\ predicate' \in [Blocks' -> CondCodes]
    BY <1>1, <1>6, <1>10
  <1>13. info' \in [Blocks' -> Infos'] /\ InfoRight(f', kind', predicate', info')
         /\ (\A b \in Blocks' : ~info'[b].IsBeingAnalyzed)
    BY <1>6, <1>7, <1>9, <1>10, <1>11
  <1>14. Tokens' \subseteq IfcvtToken' /\ TokensRight(f', kind', pays', info', Tokens')
    BY <1>6, <1>9, <1>11
  <1>15. phase' \in {"analyze", "convert", "done"} /\ Change' \in BOOLEAN
    BY <1>6
  <1> QED BY <1>12, <1>13, <1>14, <1>15 DEF IInv

\* The end of a round.
LEMMA RoundKeepsIInv ==
    ASSUME IInv, NextRound
    PROVE  IInv'
  <1>1. /\ f' = f /\ predicate' = predicate /\ info' = info /\ Tokens' = Tokens /\ Change' = Change
        /\ kind' = kind /\ pays' = pays /\ phase' \in {"analyze", "done"}
    BY DEF NextRound
  <1>2. Blocks' = Blocks
    BY <1>1 DEF Blocks
  <1>3. Infos' = Infos /\ IfcvtToken' = IfcvtToken
    BY <1>2, TypesSame
  <1>4. phase' \in {"analyze", "convert", "done"}
    BY <1>1
  <1> QED BY <1>1, <1>2, <1>3, <1>4 DEF IInv

\* Nothing.
LEMMA StutterKeepsIInv ==
    ASSUME IInv, UNCHANGED vars
    PROVE  IInv'
  <1>1. /\ f' = f /\ predicate' = predicate /\ info' = info /\ Tokens' = Tokens /\ Change' = Change
        /\ kind' = kind /\ pays' = pays /\ phase' = phase
    BY DEF vars
  <1>2. Blocks' = Blocks
    BY <1>1 DEF Blocks
  <1>3. Infos' = Infos /\ IfcvtToken' = IfcvtToken
    BY <1>2, TypesSame
  <1> QED BY <1>1, <1>2, <1>3 DEF IInv

\* Every step.
LEMMA NextKeepsIInv ==
    ASSUME IInv, [Next]_vars
    PROVE  IInv'
  BY AnalyzeKeepsIInv, SkipKeepsIInv, ConvertKeepsIInv, RoundKeepsIInv, StutterKeepsIInv DEF Next, Done
-----------------------------------------------------------------------------
(* The function to begin with.                                             *)

\* A sequence as long as its set is large has no repeats.
LEMMA NoRepeatsOf ==
    ASSUME NEW S, NEW s \in Seq(S), Len(s) = Cardinality(ToSet(s))
    PROVE  NoRepeats(s)
  <1> DEFINE D == 1 .. Len(s)
             T == ToSet(s)
  <1>1. IsFiniteSet(D) /\ Cardinality(D) = Len(s)
    <2>1. PICK l \in Nat : l = Len(s)
      OBVIOUS
    <2>2. IsFiniteSet(1 .. l) /\ Cardinality(1 .. l) = l
      BY <2>1, FS_Interval
    <2> QED BY <2>1, <2>2
  <1>2. s \in [D -> T]
    <2>1. \A i \in D : s[i] \in T
      BY Members
    <2> HIDE DEF T
    <2> QED BY <2>1
  <1>3. \A t \in T : \E i \in D : s[i] = t
    BY Members
  <1>4. s \in Surjection(D, T)
    BY <1>2, <1>3 DEF Surjection
  <1> HIDE DEF D, T
  <1>5. Cardinality(D) = Cardinality(T)
    BY <1>1 DEF T
  <1>6. s \in Injection(D, T)
    BY <1>1, <1>4, <1>5, FS_SurjSameCardinalityImpliesInj
  <1>7. \A i, j \in D : s[i] = s[j] => i = j
    BY <1>6 DEF Injection, IsInjective
  <1>8. DOMAIN s = D
    BY DEF D
  <1> QED BY <1>7, <1>8 DEF NoRepeats

\* Where the branches at the end of a block go to.
Targets(t) == IF t = <<RET>> THEN <<>> ELSE [i \in DOMAIN t |-> t[i].to]

\* They are those of the terminators.
LEMMA TargetsAre ==
    ASSUME NEW blocks, NEW t \in Terminators(blocks)
    PROVE  /\ Targets(t) \in Seq(blocks)
           /\ \A i \in ToSet(t) : i.op # "RET" => i.to \in ToSet(Targets(t))
           /\ Len(t) = 2 => Len(Targets(t)) = 2 /\ Targets(t)[1] = t[1].to /\ Targets(t)[2] = t[2].to
  <1>1. CASE t = <<>>
    <2>1. Targets(t) = <<>>
      BY <1>1 DEF Targets
    <2>2. ToSet(t) = {}
      BY <1>1 DEF ToSet
    <2>3. <<>> \in Seq(blocks) /\ Len(t) # 2
      BY <1>1
    <2> HIDE DEF Targets
    <2> QED BY <2>1, <2>2, <2>3
  <1>2. CASE t = <<RET>>
    <2>1. Targets(t) = <<>>
      BY <1>2 DEF Targets
    <2>2. \A i \in ToSet(t) : i.op = "RET"
      BY <1>2 DEF ToSet, RET
    <2> QED BY <1>2, <2>1, <2>2
  <1>3. ASSUME NEW x \in blocks, NEW i1, i1.op # "RET", i1.to = x, t = <<i1>>
        PROVE  Targets(t) = <<x>> /\ ToSet(t) = {i1} /\ Len(t) # 2
    <2>1. t # <<RET>>
      BY <1>3 DEF RET
    <2>2. Targets(t) = [i \in 1 .. 1 |-> t[i].to]
      BY <2>1, <1>3 DEF Targets
    <2>3. Targets(t) = <<x>>
      BY <2>2, <1>3
    <2> QED BY <2>3, <1>3 DEF ToSet
  <1>4. ASSUME NEW x \in blocks, NEW y \in blocks, NEW i1, NEW i2, i1.to = x, i2.to = y, t = <<i1, i2>>
        PROVE  Targets(t) = <<x, y>> /\ ToSet(t) = {i1, i2}
    <2>1. t # <<RET>>
      BY <1>4
    <2>2. Targets(t) = [i \in 1 .. 2 |-> t[i].to]
      BY <2>1, <1>4 DEF Targets
    <2>3. Targets(t) = <<x, y>>
      BY <2>2, <1>4
    <2> QED BY <2>3, <1>4 DEF ToSet
  <1>5. ASSUME NEW x \in blocks
        PROVE  <<x>> \in Seq(blocks) /\ ToSet(<<x>>) = {x}
    BY DEF ToSet
  <1>6. ASSUME NEW x \in blocks, NEW y \in blocks
        PROVE  <<x, y>> \in Seq(blocks) /\ ToSet(<<x, y>>) = {x, y} /\ Len(<<x, y>>) = 2
               /\ <<x, y>>[1] = x /\ <<x, y>>[2] = y
    BY DEF ToSet
  <1>7. CASE \E i1 : i1.op # "RET" /\ i1.to \in blocks /\ t = <<i1>>
    <2>1. PICK i1 : i1.op # "RET" /\ i1.to \in blocks /\ t = <<i1>>
      BY <1>7
    <2>2. Targets(t) = <<i1.to>> /\ ToSet(t) = {i1} /\ Len(t) # 2
      BY ONLY <1>3, <2>1
    <2>3. <<i1.to>> \in Seq(blocks) /\ ToSet(<<i1.to>>) = {i1.to}
      BY ONLY <1>5, <2>1
    <2> DEFINE r == Targets(t)
    <2>4. r \in Seq(blocks) /\ ToSet(r) = {i1.to}
      BY ONLY <2>2, <2>3
    <2> HIDE DEF r
    <2> QED BY <2>1, <2>2, <2>4 DEF r
  <1>8. CASE \E i1, i2 : i1.to \in blocks /\ i2.to \in blocks /\ t = <<i1, i2>>
    <2>1. PICK i1, i2 : i1.to \in blocks /\ i2.to \in blocks /\ t = <<i1, i2>>
      BY <1>8
    <2>2. Targets(t) = <<i1.to, i2.to>> /\ ToSet(t) = {i1, i2}
      BY <1>4, <2>1
    <2>3. t[1] = i1 /\ t[2] = i2
      BY <2>1
    <2>4. <<i1.to, i2.to>> \in Seq(blocks) /\ ToSet(<<i1.to, i2.to>>) = {i1.to, i2.to} /\ Len(<<i1.to, i2.to>>) = 2
          /\ <<i1.to, i2.to>>[1] = i1.to /\ <<i1.to, i2.to>>[2] = i2.to
      BY ONLY <1>6, <2>1
    <2> DEFINE r == Targets(t)
    <2>5. r \in Seq(blocks) /\ ToSet(r) = {i1.to, i2.to} /\ Len(r) = 2 /\ r[1] = i1.to /\ r[2] = i2.to
      BY ONLY <2>2, <2>4
    <2> HIDE DEF r
    <2> QED BY <2>1, <2>2, <2>3, <2>5 DEF r
  <1>9. \/ t = <<>> \/ t = <<RET>>
        \/ \E i1 : i1.op # "RET" /\ i1.to \in blocks /\ t = <<i1>>
        \/ \E i1, i2 : i1.to \in blocks /\ i2.to \in blocks /\ t = <<i1, i2>>
    <2>1. \A x, c : B(x).op # "RET" /\ B(x).to = x /\ BCC(x, c).op # "RET" /\ BCC(x, c).to = x
      BY DEF B, BCC
    <2> QED BY <2>1, TerminatorForms
  <1> QED BY <1>1, <1>2, <1>7, <1>8, <1>9

\* Build: the successors, and the predecessors that follow from them.
BuiltSuccs(s) ==
    [b \in DOMAIN s |-> Targets(s[b].term) \o IF s[b].falls THEN <<b + 1>> ELSE <<>>]
\* As many edges of block p to block b as p has.
Entering(succs, p, b) == [i \in 1 .. Times(succs[p], b) |-> p]
\* The predecessors, when those of block p are added to those of v.
WithPreds(D, succs, v, p) == [b \in D |-> v[b] \o Entering(succs, p, b)]
NoPreds(D) == [b \in D |-> <<>>]
PredsUpTo(m, D, succs, w) ==
    [p \in 0 .. m |-> IF p = 0 THEN NoPreds(D) ELSE WithPreds(D, succs, w[p - 1], p)]
BuiltUpTo(s, succs, w) ==
    [p \in 0 .. Len(s) |-> [b \in DOMAIN s |->
        IF p = 0 THEN <<>> ELSE w[p - 1][b] \o [i \in 1 .. Times(succs[p], b) |-> p]]]

\* There is a function that satisfies the recursion.
LEMMA PredsExist ==
    ASSUME NEW m \in Nat, NEW D, NEW succs
    PROVE  \E w : w = PredsUpTo(m, D, succs, w)
  <1> DEFINE G == {d \in 0 .. m : \E w : w = PredsUpTo(d, D, succs, w)}
  <1>1. 0 \in G
    <2>1. PICK w : w = [d \in 0 .. 0 |-> NoPreds(D)]
      OBVIOUS
    <2>2. PredsUpTo(0, D, succs, w) = [d \in 0 .. 0 |-> NoPreds(D)]
      BY DEF PredsUpTo
    <2> QED BY <2>1, <2>2
  <1>2. \A d \in 1 .. m : d - 1 \in G => d \in G
    <2> TAKE d \in 1 .. m
    <2> HAVE d - 1 \in G
    <2>1. PICK w : w = PredsUpTo(d - 1, D, succs, w)
      OBVIOUS
    <2>2. PICK v : v = [e \in 0 .. d |-> IF e = d THEN WithPreds(D, succs, w[d - 1], d) ELSE w[e]]
      OBVIOUS
    <2>3. \A e \in 0 .. d - 1 : v[e] = w[e]
              /\ w[e] = IF e = 0 THEN NoPreds(D) ELSE WithPreds(D, succs, w[e - 1], e)
      <3> TAKE e \in 0 .. d - 1
      <3>1. e \in 0 .. d /\ e # d
        OBVIOUS
      <3>2. v[e] = w[e]
        BY ONLY <2>2, <3>1
      <3>3. w[e] = IF e = 0 THEN NoPreds(D) ELSE WithPreds(D, succs, w[e - 1], e)
        BY ONLY <2>1, e \in 0 .. d - 1 DEF PredsUpTo
      <3> QED BY <3>2, <3>3
    <2>4. \A e \in 1 .. d : e - 1 \in 0 .. d - 1
      OBVIOUS
    <2>5. \A e \in 1 .. d : v[e] = WithPreds(D, succs, v[e - 1], e)
      <3> TAKE e \in 1 .. d
      <3>1. v[e - 1] = w[e - 1]
        BY <2>3, <2>4
      <3>2. CASE e = d
        BY <2>2, <3>1, <3>2
      <3>3. CASE e # d
        <4>1. e \in 0 .. d - 1 /\ e # 0
          BY <3>3
        <4> QED BY <4>1, <2>3, <3>1
      <3> QED BY <3>2, <3>3
    <2>6. v[0] = NoPreds(D)
      BY <2>3
    <2>7. \A e \in 0 .. d : v[e] = IF e = 0 THEN NoPreds(D) ELSE WithPreds(D, succs, v[e - 1], e)
      BY <2>5, <2>6
    <2>8. v = PredsUpTo(d, D, succs, v)
      BY <2>2, <2>7 DEF PredsUpTo
    <2> QED BY <2>8
  <1> HIDE DEF G
  <1>3. m \in G
    BY <1>1, <1>2, InductionUpTo
  <1> QED BY <1>3 DEF G

\* Build is made with it.
LEMMA BuiltUpToIs ==
    ASSUME NEW s, NEW succs, NEW w
    PROVE  BuiltUpTo(s, succs, w) = PredsUpTo(Len(s), DOMAIN s, succs, w)
  <1> DEFINE At(p) == [b \in DOMAIN s |->
                          IF p = 0 THEN <<>> ELSE w[p - 1][b] \o [i \in 1 .. Times(succs[p], b) |-> p]]
  <1>1. At(0) = NoPreds(DOMAIN s)
    BY DEF NoPreds
  <1>2. ASSUME NEW p, p # 0 PROVE At(p) = WithPreds(DOMAIN s, succs, w[p - 1], p)
    BY <1>2 DEF WithPreds, Entering
  <1>3. BuiltUpTo(s, succs, w) = [p \in 0 .. Len(s) |-> At(p)]
    BY DEF BuiltUpTo
  <1> HIDE DEF At
  <1>4. \A p \in 0 .. Len(s) : At(p) = IF p = 0 THEN NoPreds(DOMAIN s) ELSE WithPreds(DOMAIN s, succs, w[p - 1], p)
    BY <1>1, <1>2
  <1> QED BY <1>3, <1>4 DEF PredsUpTo

\* What Build makes of shapes.
LEMMA BuildIs ==
    ASSUME NEW s, Len(s) \in Nat
    PROVE  \E w : /\ w = PredsUpTo(Len(s), DOMAIN s, BuiltSuccs(s), w)
                  /\ Build(s) = [layout |-> [b \in DOMAIN s |-> b],
                                 body |-> [b \in DOMAIN s |-> IF s[b].kind = "none" THEN <<>> ELSE <<b>>],
                                 term |-> [b \in DOMAIN s |-> s[b].term],
                                 succs |-> BuiltSuccs(s),
                                 preds |-> w[Len(s)]]
  <1> DEFINE w0 == CHOOSE w : w = BuiltUpTo(s, BuiltSuccs(s), w)
  <1>1. Build(s) = [layout |-> [b \in DOMAIN s |-> b],
                    body |-> [b \in DOMAIN s |-> IF s[b].kind = "none" THEN <<>> ELSE <<b>>],
                    term |-> [b \in DOMAIN s |-> s[b].term],
                    succs |-> BuiltSuccs(s),
                    preds |-> w0[Len(s)]]
    BY DEF Build, BuiltUpTo, BuiltSuccs, Targets
  <1>2. \E w : w = BuiltUpTo(s, BuiltSuccs(s), w)
    BY PredsExist, BuiltUpToIs
  <1>3. w0 = BuiltUpTo(s, BuiltSuccs(s), w0)
    BY <1>2
  <1>4. w0 = PredsUpTo(Len(s), DOMAIN s, BuiltSuccs(s), w0)
    BY <1>3, BuiltUpToIs
  <1> HIDE DEF w0
  <1> QED BY <1>1, <1>4

\* Each block is once among the predecessors of those it goes to.
LEMMA PredsRight ==
    ASSUME NEW n \in Nat, NEW succs, \A p \in 1 .. n : succs[p] \in Seq(1 .. n) /\ NoRepeats(succs[p]),
           NEW w, w = PredsUpTo(n, 1 .. n, succs, w), NEW b \in 1 .. n
    PROVE  /\ w[n] = [c \in 1 .. n |-> w[n][c]]
           /\ w[n][b] \in Seq(1 .. n) /\ NoRepeats(w[n][b])
           /\ \A p \in 1 .. n : p \in ToSet(w[n][b]) <=> b \in ToSet(succs[p])
  <1> DEFINE D == 1 .. n
  <1>1. w[0] = NoPreds(D) /\ \A p \in 1 .. n : w[p] = WithPreds(D, succs, w[p - 1], p)
    <2>1. \A p \in 0 .. n : w[p] = IF p = 0 THEN NoPreds(D) ELSE WithPreds(D, succs, w[p - 1], p)
      BY DEF PredsUpTo
    <2> QED BY <2>1
  <1> DEFINE Ok(k, l) == /\ l \in Seq(1 .. n) /\ NoRepeats(l)
                         /\ \A p \in 1 .. n : p \in ToSet(l) <=> p <= k /\ b \in ToSet(succs[p])
             G == {k \in 0 .. n : Ok(k, w[k][b])}
  <1>2. 0 \in G
    <2>1. w[0][b] = <<>>
      BY <1>1 DEF NoPreds
    <2>2. <<>> \in Seq(1 .. n) /\ NoRepeats(<<>>) /\ ToSet(<<>>) = {}
      BY DEF NoRepeats, ToSet
    <2>3. \A p \in 1 .. n : ~(p <= 0)
      OBVIOUS
    <2>4. Ok(0, <<>>)
      BY <2>2, <2>3
    <2> HIDE DEF Ok
    <2> QED BY <2>1, <2>4
  <1>3. \A k \in 1 .. n : k - 1 \in G => k \in G
    <2> TAKE k \in 1 .. n
    <2> HAVE k - 1 \in G
    <2> DEFINE l == w[k - 1][b]
               e == Entering(succs, k, b)
    <2>1. Ok(k - 1, l)
      OBVIOUS
    <2>2. w[k][b] = l \o e
      BY <1>1 DEF WithPreds
    <2>3. succs[k] \in Seq(1 .. n) /\ NoRepeats(succs[k])
      OBVIOUS
    <2>4. Times(succs[k], b) = IF b \in ToSet(succs[k]) THEN 1 ELSE 0
      BY <2>3, TimesOnce
    <2>5. e = IF b \in ToSet(succs[k]) THEN <<k>> ELSE <<>>
      <3>1. CASE b \in ToSet(succs[k])
        <4>1. e = [i \in 1 .. 1 |-> k]
          BY <2>4, <3>1 DEF Entering
        <4>2. [i \in 1 .. 1 |-> k] = <<k>>
          OBVIOUS
        <4> HIDE DEF e
        <4> QED BY <4>1, <4>2, <3>1
      <3>2. CASE b \notin ToSet(succs[k])
        <4>1. e = [i \in 1 .. 0 |-> k]
          BY <2>4, <3>2 DEF Entering
        <4>2. [i \in 1 .. 0 |-> k] = <<>>
          OBVIOUS
        <4> HIDE DEF e
        <4> QED BY <4>1, <4>2, <3>2
      <3> QED BY <3>1, <3>2
    <2>6. l \in Seq(1 .. n) /\ NoRepeats(l) /\ \A p \in 1 .. n : p \in ToSet(l) <=> p <= k - 1 /\ b \in ToSet(succs[p])
      BY <2>1
    <2> HIDE DEF l, e
    <2>7. /\ e \in Seq(1 .. n) /\ NoRepeats(e)
          /\ ToSet(e) = IF b \in ToSet(succs[k]) THEN {k} ELSE {}
      <3>1. <<k>> \in Seq(1 .. n) /\ NoRepeats(<<k>>) /\ ToSet(<<k>>) = {k}
        BY DEF NoRepeats, ToSet
      <3>2. <<>> \in Seq(1 .. n) /\ NoRepeats(<<>>) /\ ToSet(<<>>) = {}
        BY DEF NoRepeats, ToSet
      <3> QED BY <2>5, <3>1, <3>2
    <2>8. k \notin ToSet(l)
      BY <2>6
    <2>9. ToSet(l) \cap ToSet(e) = {}
      BY <2>7, <2>8
    <2>10. l \o e \in Seq(1 .. n) /\ NoRepeats(l \o e) /\ ToSet(l \o e) = ToSet(l) \cup ToSet(e)
      BY <2>6, <2>7, <2>9, JoinOf
    <2>11. ASSUME NEW p \in 1 .. n
           PROVE  p \in ToSet(l \o e) <=> p <= k /\ b \in ToSet(succs[p])
      <3>1. p \in ToSet(l) <=> p <= k - 1 /\ b \in ToSet(succs[p])
        BY <2>6
      <3>2. p \in ToSet(e) <=> p = k /\ b \in ToSet(succs[k])
        BY <2>7
      <3>3. p <= k <=> p <= k - 1 \/ p = k
        OBVIOUS
      <3> QED BY <3>1, <3>2, <3>3, <2>10
    <2>12. Ok(k, l \o e)
      BY <2>10, <2>11
    <2> HIDE DEF Ok
    <2>13. Ok(k, w[k][b]) /\ k \in 0 .. n
      BY <2>2, <2>12
    <2> QED BY <2>13
  <1> HIDE DEF G, Ok
  <1>4. n \in G
    <2>1. \A i \in 0 .. n : i \in G
      BY ONLY n \in Nat, <1>2, <1>3, InductionUpTo
    <2> QED BY <2>1
  <1>5. Ok(n, w[n][b])
    BY <1>4 DEF G
  <1>6. w[n] = [c \in 1 .. n |-> w[n][c]]
    <2>1. n # 0
      OBVIOUS
    <2>2. w[n] = WithPreds(D, succs, w[n - 1], n)
      BY <1>1, <2>1
    <2> QED BY <2>2 DEF WithPreds
  <1>7. \A p \in 1 .. n : p <= n
    OBVIOUS
  <1> QED BY <1>5, <1>6, <1>7 DEF Ok

\* A sequence is one over every set that its elements are in.
LEMMA SubSeqOf ==
    ASSUME NEW S, NEW T, NEW s \in Seq(S), ToSet(s) \subseteq T
    PROVE  s \in Seq(T)
  <1>1. \A i \in 1 .. Len(s) : s[i] \in T
    BY Members
  <1> QED BY <1>1

\* Where control goes there is a block, or none.
LEMMA DestinationsAre ==
    ASSUME NEW n \in Nat \ {0}, NEW g, NEW kd, g.layout = [b \in 1 .. n |-> b], NEW b \in 1 .. n,
           g.term[b] \in Terminators(1 .. n)
    PROVE  Destinations(g, kd, b) \subseteq (1 .. n) \cup {None}
  <1>1. After(g, b) \in (1 .. n) \cup {None}
    <2>1. After(g, b) = IF b = n THEN None ELSE b + 1
      BY LayoutOf
    <2> QED BY <2>1
  <1>2. ASSUME NEW z PROVE Taken(g, b, z) \in (1 .. n) \cup {None, Returns}
    <2> DEFINE t == g.term[b]
               a == After(g, b)
    <2>1. /\ t = <<>> => Taken(g, b, z) = a
          /\ t = <<RET>> => Taken(g, b, z) = Returns
          /\ \A x : t = <<B(x)>> => Taken(g, b, z) = x
          /\ \A x, c : t = <<BCC(x, c)>> => Taken(g, b, z) = IF Holds(c, z) THEN x ELSE a
          /\ \A x, y, c : t = <<BCC(x, c), B(y)>> => Taken(g, b, z) = IF Holds(c, z) THEN x ELSE y
      BY TakenForms
    <2>2. PICK blocks : blocks = 1 .. n
      OBVIOUS
    <2>3. t \in Terminators(blocks) /\ a \in blocks \cup {None}
      BY <1>1, <2>2
    <2> HIDE DEF t, a
    <2>4. \/ t = <<>>
          \/ t = <<RET>>
          \/ \E x \in blocks : t = <<B(x)>>
          \/ \E x \in blocks, c \in DOMAIN getOppositeCondition : t = <<BCC(x, c)>>
          \/ \E x, y \in blocks, c \in DOMAIN getOppositeCondition : t = <<BCC(x, c), B(y)>>
      BY ONLY <2>3, TerminatorForms
    <2>5. Taken(g, b, z) \in blocks \cup {None, Returns}
      <3>1. CASE t = <<>>
        BY <2>1, <2>3, <3>1
      <3>2. CASE t = <<RET>>
        BY <2>1, <2>3, <3>2
      <3>3. CASE \E x \in blocks : t = <<B(x)>>
        BY <2>1, <2>3, <3>3
      <3>4. CASE \E x \in blocks, c \in DOMAIN getOppositeCondition : t = <<BCC(x, c)>>
        <4>1. PICK x \in blocks, c \in DOMAIN getOppositeCondition : t = <<BCC(x, c)>>
          BY <3>4
        <4>2. Taken(g, b, z) = IF Holds(c, z) THEN x ELSE a
          BY <2>1, <4>1
        <4> QED BY <2>3, <4>2
      <3>5. CASE \E x, y \in blocks, c \in DOMAIN getOppositeCondition : t = <<BCC(x, c), B(y)>>
        <4>1. PICK x \in blocks, y \in blocks, c \in DOMAIN getOppositeCondition : t = <<BCC(x, c), B(y)>>
          BY <3>5
        <4>2. Taken(g, b, z) = IF Holds(c, z) THEN x ELSE y
          BY <2>1, <4>1
        <4> QED BY <4>2
      <3> QED BY <2>4, <3>1, <3>2, <3>3, <3>4, <3>5
    <2> QED BY <2>2, <2>5
  <1> QED BY <1>2 DEF Destinations

\* What was built of shapes whose edges are the ways control can go.
LEMMA BuiltRight ==
    ASSUME NEW s \in Functions, f = Build(s), kind = [b \in Blocks |-> s[b].kind],
           \A b \in Blocks : /\ Len(f.succs[b]) = Cardinality(Destinations(f, kind, b))
                             /\ ToSet(f.succs[b]) = Destinations(f, kind, b)
    PROVE  FunctionRight(f, kind)
  <1> DEFINE n == Len(s)
             R(D) == [kind : STRING, term : Terminators(D), falls : BOOLEAN]
  <1>1. s # <<>> /\ s \in Seq(R(DOMAIN s))
    BY FunctionsAssumption
  <1>2. n \in Nat \ {0} /\ DOMAIN s = 1 .. n
    BY <1>1
  <1>3. \A b \in 1 .. n : s[b] \in R(1 .. n)
    <2> DEFINE Q == R(DOMAIN s)
    <2>1. s \in Seq(Q)
      BY <1>1
    <2>2. Q = R(1 .. n)
      BY <1>2
    <2> HIDE DEF Q
    <2>3. \A b \in 1 .. n : s[b] \in Q
      BY <2>1
    <2> HIDE DEF R
    <2> QED BY <2>2, <2>3
  <1>4. \A b \in 1 .. n : s[b].term \in Terminators(1 .. n) /\ s[b].falls \in BOOLEAN
    BY <1>3
  <1>5. PICK w : /\ w = PredsUpTo(n, 1 .. n, BuiltSuccs(s), w)
                 /\ f = [layout |-> [b \in 1 .. n |-> b],
                         body |-> [b \in 1 .. n |-> IF s[b].kind = "none" THEN <<>> ELSE <<b>>],
                         term |-> [b \in 1 .. n |-> s[b].term],
                         succs |-> BuiltSuccs(s),
                         preds |-> w[n]]
    BY <1>2, BuildIs
  <1> HIDE DEF n
  <1>6. /\ f.layout = [b \in 1 .. n |-> b] /\ f.succs = BuiltSuccs(s) /\ f.preds = w[n]
        /\ f.body = [b \in 1 .. n |-> IF s[b].kind = "none" THEN <<>> ELSE <<b>>]
        /\ f.term = [b \in 1 .. n |-> s[b].term]
        /\ f = [layout |-> f.layout, body |-> f.body, term |-> f.term, succs |-> f.succs, preds |-> f.preds]
    BY <1>5
  <1>7. Blocks = 1 .. n
    BY <1>6 DEF Blocks
  <1>8. /\ f.succs = [b \in 1 .. n |-> f.succs[b]]
        /\ \A b \in 1 .. n : f.succs[b] = Targets(s[b].term) \o IF s[b].falls THEN <<b + 1>> ELSE <<>>
    BY <1>2, <1>6 DEF BuiltSuccs
  <1>9. ASSUME NEW b \in 1 .. n
        PROVE  /\ f.succs[b] \in Seq(1 .. n) /\ NoRepeats(f.succs[b])
               /\ BranchesTrue(f, b)
    <2> DEFINE t == s[b].term
               q == IF s[b].falls THEN <<b + 1>> ELSE <<>>
               S == 1 .. n + 1
               l == f.succs[b]
    <2>1. t \in Terminators(1 .. n) /\ f.term[b] = t
      BY <1>4, <1>6
    <2>2. l = Targets(t) \o q
      BY <1>8
    <2>3. q \in Seq(S)
      <3>1. b + 1 \in S
        BY <1>2
      <3>2. <<b + 1>> \in Seq(S) /\ <<>> \in Seq(S)
        BY <3>1
      <3> QED BY <3>2
    <2> HIDE DEF t, q, l
    <2>4. /\ Targets(t) \in Seq(1 .. n)
          /\ \A i \in ToSet(t) : i.op # "RET" => i.to \in ToSet(Targets(t))
          /\ Len(t) = 2 => Len(Targets(t)) = 2 /\ Targets(t)[1] = t[1].to /\ Targets(t)[2] = t[2].to
      BY <2>1, TargetsAre
    <2>5. Targets(t) \in Seq(S)
      <3>1. ToSet(Targets(t)) \subseteq 1 .. n
        BY <2>4, Members
      <3>2. ToSet(Targets(t)) \subseteq S
        BY <3>1, <1>2
      <3> QED BY <2>4, <3>2, SubSeqOf
    <2> HIDE DEF S
    <2>6. /\ l \in Seq(S) /\ ToSet(l) = ToSet(Targets(t)) \cup ToSet(q)
          /\ \A i \in 1 .. Len(Targets(t)) : l[i] = Targets(t)[i]
          /\ Len(l) = Len(Targets(t)) + Len(q)
      BY <2>2, <2>3, <2>5, JoinOf
    <2>7. /\ Len(l) = Cardinality(ToSet(l)) /\ ToSet(l) = Destinations(f, kind, b)
      BY <1>7 DEF l
    <2>8. ToSet(l) \subseteq (1 .. n) \cup {None}
      <3>1. f.term[b] \in Terminators(1 .. n) /\ b \in 1 .. n
        BY <2>1
      <3>2. Destinations(f, kind, b) \subseteq (1 .. n) \cup {None}
        BY ONLY <3>1, <1>2, <1>6, DestinationsAre
      <3> QED BY <2>7, <3>2
    <2>9. ToSet(l) \subseteq S
      BY <2>6, Members
    <2>10. ToSet(l) \subseteq 1 .. n
      BY <2>8, <2>9 DEF S, None
    <2>11. l \in Seq(1 .. n)
      BY <2>6, <2>10, SubSeqOf
    <2>12. NoRepeats(l)
      BY <2>7, <2>11, NoRepeatsOf
    <2>13. \A i \in ToSet(t) : i.op # "RET" => i.to \in ToSet(l)
      BY <2>4, <2>6
    <2>14. ASSUME Len(t) = 2 PROVE t[1].to # t[2].to
      <3>1. Len(Targets(t)) = 2 /\ Targets(t)[1] = t[1].to /\ Targets(t)[2] = t[2].to
        BY <2>4, <2>14
      <3>2. l[1] = t[1].to /\ l[2] = t[2].to
        BY <2>6, <3>1
      <3>3. Len(q) \in Nat
        BY <2>3
      <3>4. Len(l) = 2 + Len(q)
        BY ONLY <2>6, <3>1
      <3>5. 1 \in 1 .. Len(l) /\ 2 \in 1 .. Len(l) /\ DOMAIN l = 1 .. Len(l)
        BY <3>3, <3>4, <2>11
      <3> QED BY <3>2, <3>5, <2>12 DEF NoRepeats
    <2> QED BY <2>1, <2>11, <2>12, <2>13, <2>14 DEF l, BranchesTrue
  <1>10. ASSUME NEW b \in 1 .. n
         PROVE  /\ f.preds = [c \in 1 .. n |-> f.preds[c]]
                /\ f.preds[b] \in Seq(1 .. n) /\ NoRepeats(f.preds[b])
                /\ \A p \in 1 .. n : p \in ToSet(f.preds[b]) <=> b \in ToSet(f.succs[p])
    <2>1. w = PredsUpTo(n, 1 .. n, f.succs, w)
      BY <1>5, <1>6
    <2>2. \A p \in 1 .. n : f.succs[p] \in Seq(1 .. n) /\ NoRepeats(f.succs[p])
      BY <1>9
    <2>3. n \in Nat
      BY <1>2
    <2>4. /\ w[n] = [c \in 1 .. n |-> w[n][c]]
          /\ w[n][b] \in Seq(1 .. n) /\ NoRepeats(w[n][b])
          /\ \A p \in 1 .. n : p \in ToSet(w[n][b]) <=> b \in ToSet(f.succs[p])
      BY ONLY <2>1, <2>2, <2>3, b \in 1 .. n, PredsRight
    <2> QED BY <2>4, <1>6
  <1>11. f \in Functional(n)
    <2>1. f.succs \in [1 .. n -> Seq(1 .. n)]
      BY <1>8, <1>9
    <2>2. f.preds \in [1 .. n -> Seq(1 .. n)]
      <3>1. 1 \in 1 .. n
        BY <1>2
      <3>2. f.preds = [c \in 1 .. n |-> f.preds[c]]
        BY <3>1, <1>10
      <3> QED BY <3>2, <1>10
    <2>3. f.term \in [1 .. n -> Terminators(1 .. n)]
      BY <1>4, <1>6
    <2>4. f.body \in [1 .. n -> Seq(1 .. n)]
      <3>1. \A b \in 1 .. n : <<b>> \in Seq(1 .. n) /\ <<>> \in Seq(1 .. n)
        OBVIOUS
      <3> QED BY <3>1, <1>6
    <2>5. f.layout \in {[b \in 1 .. n |-> b]}
      BY <1>6
    <2> QED BY ONLY <1>6, <2>1, <2>2, <2>3, <2>4, <2>5 DEF Functional
  <1>12. DOMAIN f.term = 1 .. n
    BY <1>6
  <1>13. EdgesRight(f, kind)
    BY <1>7, <1>9, <1>10, <1>12 DEF EdgesRight
  <1>14. CodeOnce(f)
    <2>1. ASSUME NEW b \in 1 .. n PROVE NoRepeats(f.body[b]) /\ ToSet(f.body[b]) \subseteq {b}
      <3>1. f.body[b] = <<>> \/ f.body[b] = <<b>>
        BY <1>6
      <3>2. NoRepeats(<<>>) /\ ToSet(<<>>) = {} /\ NoRepeats(<<b>>) /\ ToSet(<<b>>) = {b}
        BY DEF NoRepeats, ToSet
      <3> QED BY <3>1, <3>2
    <2> QED BY <2>1, <1>12 DEF CodeOnce
  <1> QED BY <1>2, <1>11, <1>13, <1>14 DEF FunctionRight

\* All functions the pass begins with.
LEMMA InitIInv ==
    ASSUME Init
    PROVE  IInv
  <1>1. PICK s \in Functions :
          /\ f = Build(s)
          /\ kind = [b \in Blocks |-> s[b].kind]
          /\ \A b \in Blocks : /\ Len(f.succs[b]) = Cardinality(Destinations(f, kind, b))
                               /\ ToSet(f.succs[b]) = Destinations(f, kind, b)
          /\ predicate = [b \in Blocks |-> "AL"]
          /\ info = [b \in Blocks |-> NoInfo]
          /\ Tokens = {} /\ phase = "analyze" /\ Change \in BOOLEAN
    BY DEF Init
  <1>2. FunctionRight(f, kind)
    BY <1>1, BuiltRight
  <1>3. PICK n \in Nat \ {0} : f \in Functional(n)
    BY <1>2 DEF FunctionRight
  <1>4. Blocks = 1 .. n
    BY <1>3, RightBlocks DEF Blocks
  <1>5. "AL" \in CondCodes
    BY DEF CondCodes
  <1>6. /\ NoInfo \in Infos /\ ~NoInfo.IsAnalyzed /\ ~NoInfo.IsBeingAnalyzed /\ NoInfo.Predicate = <<>>
    BY DEF NoInfo, Infos, None
  <1>7. predicate \in [Blocks -> CondCodes]
    BY <1>1, <1>5
  <1>8. info \in [Blocks -> Infos] /\ \A b \in Blocks : info[b] = NoInfo
    BY <1>1, <1>6
  <1>9. InfoRight(f, kind, predicate, info)
    <2>1. ASSUME NEW b \in Blocks PROVE InfoOf(f, kind, predicate, info[b], b)
      <3>1. \A u \in ToSet(f.body[b]) : predicate[u] = "AL"
        <4>1. f.body[b] \in Seq(1 .. n)
          BY <1>3, <1>4, BlockIs
        <4>2. ToSet(f.body[b]) \subseteq Blocks
          BY <4>1, <1>4, Members
        <4> QED BY <4>2, <1>1
      <3> QED BY <3>1, <1>6, <1>8 DEF InfoOf
    <2> QED BY <2>1 DEF InfoRight, Blocks
  <1>10. \A b \in Blocks : ~info[b].IsBeingAnalyzed
    BY <1>6, <1>8
  <1>11. Tokens \subseteq IfcvtToken /\ TokensRight(f, kind, pays, info, Tokens)
    BY <1>1 DEF TokensRight, Twins
  <1> QED BY <1>1, <1>2, <1>7, <1>8, <1>9, <1>10, <1>11 DEF IInv
-----------------------------------------------------------------------------
(* What follows.                                                           *)

\* A terminator names a block or none.
LEMMA TerminatorsGo ==
    ASSUME NEW blocks, NEW t \in Terminators(blocks), NEW i \in ToSet(t)
    PROVE  i.to \in blocks \cup {None}
  <1>1. \A x, c : B(x).to = x /\ BCC(x, c).to = x
    BY DEF B, BCC
  <1>2. RET.to = None
    BY DEF RET
  <1>3. \A i1, i2 : ToSet(<<i1>>) = {i1} /\ ToSet(<<i1, i2>>) = {i1, i2}
    BY DEF ToSet
  <1>4. ToSet(<<>>) = {}
    BY DEF ToSet
  <1>5. \/ t = <<>>
        \/ t = <<RET>>
        \/ \E x \in blocks : t = <<B(x)>>
        \/ \E x \in blocks, c \in DOMAIN getOppositeCondition : t = <<BCC(x, c)>>
        \/ \E x, y \in blocks, c \in DOMAIN getOppositeCondition : t = <<BCC(x, c), B(y)>>
    BY TerminatorForms
  <1>6. CASE t = <<>>
    BY <1>4, <1>6
  <1>7. CASE t = <<RET>>
    BY <1>2, <1>3, <1>7
  <1>8. CASE \E x \in blocks : t = <<B(x)>>
    BY <1>1, <1>3, <1>8
  <1>9. CASE \E x \in blocks, c \in DOMAIN getOppositeCondition : t = <<BCC(x, c)>>
    BY <1>1, <1>3, <1>9
  <1>10. CASE \E x, y \in blocks, c \in DOMAIN getOppositeCondition : t = <<BCC(x, c), B(y)>>
    BY <1>1, <1>3, <1>10
  <1> QED BY <1>5, <1>6, <1>7, <1>8, <1>9, <1>10

\* The types.
LEMMA IInvTypes ==
    ASSUME IInv
    PROVE  TypeOK
  <1>1. PICK n \in Nat \ {0} : f \in Functional(n) /\ EdgesRight(f, kind) /\ CodeOnce(f)
    BY DEF IInv, FunctionRight
  <1>2. DOMAIN f.term = 1 .. n /\ InLayout(f) = 1 .. n /\ Len(f.layout) = n
    BY <1>1, BlocksAre
  <1>3. Cardinality(InLayout(f)) = Len(f.layout)
    <2>1. Cardinality(1 .. n) = n
      BY FS_Interval
    <2> QED BY <2>1, <1>2
  <1>4. ASSUME NEW b \in 1 .. n
        PROVE  /\ ToSet(f.body[b]) \cup ToSet(f.succs[b]) \cup ToSet(f.preds[b]) \subseteq 1 .. n
               /\ \A i \in ToSet(f.term[b]) : i.to \in (1 .. n) \cup {None}
    <2>1. /\ f.body[b] \in Seq(1 .. n) /\ f.term[b] \in Terminators(1 .. n)
          /\ f.succs[b] \in Seq(1 .. n) /\ f.preds[b] \in Seq(1 .. n)
      BY <1>1, BlockIs
    <2>2. ToSet(f.body[b]) \subseteq 1 .. n /\ ToSet(f.succs[b]) \subseteq 1 .. n /\ ToSet(f.preds[b]) \subseteq 1 .. n
      BY <2>1, Members
    <2>3. \A i \in ToSet(f.term[b]) : i.to \in (1 .. n) \cup {None}
      BY <2>1, TerminatorsGo
    <2> QED BY <2>2, <2>3
  <1>5. IsFunction(f)
    BY <1>2, <1>3, <1>4 DEF IsFunction
  <1> QED BY <1>5 DEF TypeOK, IInv

\* The edges.
LEMMA IInvEdges ==
    ASSUME IInv
    PROVE  EdgesTrue
  <1>1. PICK n \in Nat \ {0} : f \in Functional(n) /\ EdgesRight(f, kind) /\ CodeOnce(f)
    BY DEF IInv, FunctionRight
  <1>2. DOMAIN f.term = 1 .. n
    BY <1>1, BlocksAre
  <1>3. DOMAIN f.succs = 1 .. n
    BY <1>1 DEF Functional
  <1>4. ASSUME NEW b \in 1 .. n, NEW c \in 1 .. n
        PROVE  Times(f.succs[b], c) = Times(f.preds[c], b)
    <2>1. f.succs[b] \in Seq(1 .. n) /\ f.preds[c] \in Seq(1 .. n)
      BY <1>1, BlockIs
    <2>2. /\ NoRepeats(f.succs[b]) /\ NoRepeats(f.preds[c])
          /\ c \in ToSet(f.succs[b]) <=> b \in ToSet(f.preds[c])
      BY <1>1, <1>2 DEF EdgesRight
    <2>3. Times(f.succs[b], c) = IF c \in ToSet(f.succs[b]) THEN 1 ELSE 0
      BY <2>1, <2>2, TimesOnce
    <2>4. Times(f.preds[c], b) = IF b \in ToSet(f.preds[c]) THEN 1 ELSE 0
      BY <2>1, <2>2, TimesOnce
    <2> QED BY <2>2, <2>3, <2>4
  <1>5. EdgesPaired(f)
    BY <1>3, <1>4 DEF EdgesPaired
  <1>6. \A b \in Blocks : ToSet(f.succs[b]) = Destinations(f, kind, b)
    BY <1>1 DEF EdgesRight, Blocks
  <1> QED BY <1>5, <1>6, IInvTypes DEF EdgesTrue

\* The tokens.
LEMMA IInvTokens ==
    ASSUME IInv
    PROVE  TokensSound
  <1>1. PICK n \in Nat \ {0} : f \in Functional(n) /\ EdgesRight(f, kind) /\ CodeOnce(f)
    BY DEF IInv, FunctionRight
  <1>2. Blocks = 1 .. n
    BY <1>1, RightBlocks DEF Blocks
  <1>3. InfoRight(f, kind, predicate, info) /\ Tokens \subseteq IfcvtToken
    BY DEF IInv
  <1>4. ASSUME NEW t \in Tokens, info[t.BB].IsEnqueued
        PROVE  TokenRight(f, kind, pays, info, t) /\ t.BB \in 1 .. n /\ IsHead(f, kind, info[t.BB], t.BB)
    <2>1. TokenRight(f, kind, pays, info, t)
      BY <1>4 DEF IInv, TokensRight
    <2>2. t.BB \in Blocks
      BY <1>3 DEF IfcvtToken
    <2> QED BY <2>1, <2>2, <1>2 DEF TokenRight
  <1>5. TokensCurrent
    <2> SUFFICES ASSUME NEW t \in Tokens, info[t.BB].IsEnqueued
                 PROVE  /\ Analysis(f, t.BB).TBB = info[t.BB].TrueBB
                        /\ Analysis(f, t.BB).Cond = info[t.BB].BrCond
                        /\ ToSet(f.succs[t.BB]) = {info[t.BB].TrueBB, info[t.BB].FalseBB}
                        /\ t.Kind \in Found(info, t.BB)
      BY DEF TokensCurrent, Analysis
    <2>1. TokenRight(f, kind, pays, info, t) /\ t.BB \in 1 .. n /\ IsHead(f, kind, info[t.BB], t.BB)
      BY <1>4
    <2>2. Analysis(f, t.BB).TBB = info[t.BB].TrueBB /\ Analysis(f, t.BB).Cond = info[t.BB].BrCond
      BY <2>1 DEF IsHead, Fresh
    <2>3. ToSet(f.succs[t.BB]) = {info[t.BB].TrueBB, info[t.BB].FalseBB}
      BY <2>1, <1>1, HeadGoes
    <2>4. t.Kind \in Found(info, t.BB)
      BY <2>1, <1>1, <1>3, StillFound
    <2> QED BY <2>2, <2>3, <2>4
  <1>6. TargetCases
    <2> SUFFICES ASSUME NEW t \in Tokens, IsLast(t), info[t.BB].IsEnqueued
                 PROVE  /\ t.Kind \in {"ICTriangle", "ICTriangleFalse"}
                        /\ Len(f.preds[Cvt(t)]) = 1 /\ f.term[Cvt(t)] = <<>> /\ info[Cvt(t)].FalseBB = None
                        /\ \A u \in ToSet(f.body[Cvt(t)]) : predicate[u] = "AL"
      BY DEF TargetCases
    <2>1. TokenRight(f, kind, pays, info, t) /\ t.BB \in 1 .. n
      BY <1>4
    <2>2. t.Kind \in {"ICTriangle", "ICTriangleFalse"}
      <3> SUFFICES ASSUME t.Kind \in DOMAIN Twin PROVE FALSE
        <4>1. t.Kind \in {"ICTriangle", "ICTriangleRev", "ICTriangleFalse", "ICTriangleFRev"}
          BY <2>1 DEF TokenRight
        <4> QED BY <4>1 DEF Twin
      <3>1. PICK u \in Tokens : u.BB = t.BB /\ u.Kind = Twin[t.Kind]
        BY DEF IInv, TokensRight, Twins
      <3>2. \/ t.Kind = "ICTriangleRev" /\ u.Kind = "ICTriangle"
            \/ t.Kind = "ICTriangleFRev" /\ u.Kind = "ICTriangleFalse"
        BY <3>1 DEF Twin
      <3>3. u # t /\ u.Kind # t.Kind /\ ~(IfcvtKind[u.Kind] < IfcvtKind[t.Kind])
        BY <3>2 DEF IfcvtKind
      <3>4. IfcvtTokenCmp(u, t)
        BY <3>1, <3>3 DEF IsLast
      <3>5. ~u.NeedSubsumption /\ ~t.NeedSubsumption
        <4>1. TokenRight(f, kind, pays, info, u)
          BY <1>4, <3>1
        <4> QED BY <4>1, <2>1 DEF TokenRight
      <3>6. u.NeedSubsumption = t.NeedSubsumption
        <4>1. u.NeedSubsumption \in BOOLEAN /\ t.NeedSubsumption \in BOOLEAN
          BY <1>3 DEF IfcvtToken
        <4> QED BY <4>1, <3>5
      <3> QED BY <3>3, <3>4, <3>6 DEF IfcvtTokenCmp
    <2> DEFINE C == TargetOf(info, t)
    <2>3. Cvt(t) = C
      BY <2>2 DEF Cvt, TargetOf
    <2>4. Len(f.preds[C]) = 1
      BY <2>1 DEF TokenRight, IsTarget
    <2>5. /\ TriangleAt(n, t.BB, C, NextOf(info, t)) /\ info[C].FalseBB = None
          /\ \A u \in ToSet(f.body[C]) : predicate[u] = "AL"
      BY <2>1, <1>1, <1>3, TokenTriangle
    <2>6. f.term[C] = <<>>
      BY <2>5 DEF TriangleAt
    <2> HIDE DEF C
    <2> QED BY <2>2, <2>3, <2>4, <2>5, <2>6
  <1> QED BY <1>5, <1>6 DEF TokensSound

\* The function, what the pass knows of its blocks and the tokens it has queued are
\* right at all times, for every function of this target, however many blocks it has.
THEOREM IInvAlways == Spec => []IInv
  <1>1. Init => IInv
    BY InitIInv
  <1>2. IInv /\ [Next]_vars => IInv'
    BY NextKeepsIInv
  <1> QED BY <1>1, <1>2, PTL DEF Spec

\* The edges of the machine function are the ways that control can go, before and after
\* every conversion, and are in the lists of both blocks.
THEOREM EdgesTrueAlways == Spec => []EdgesTrue
  BY IInvAlways, IInvEdges, PTL

\* No token the pass converts is stale, and all are of triangles whose block falls
\* through, is entered from its head alone and was not predicated.
THEOREM TokensSoundAlways == Spec => []TokensSound
  BY IInvAlways, IInvTokens, PTL

-----------------------------------------------------------------------------
(* Blocks passed over.                                                     *)

\* Where control may go.
Ways(n) == (1 .. n) \cup {None, Returns}
\* steps[k] says where it ends up when at most k blocks are passed over: it stops at a
\* block that has the stretch stop[b], from another it goes on to to[b].
Walks(n, m, stop, to, steps) ==
    \A k \in 0 .. m : \A b \in Ways(n) :
        steps[k][b] = IF b \in {None, Returns} THEN b
                      ELSE IF stop[b] # 0 THEN stop[b]
                      ELSE IF k = 0 THEN Spins ELSE steps[k - 1][to[b]]

\* What is found within k steps is found within more.
LEMMA WalksOn ==
    ASSUME NEW n \in Nat, NEW m \in Nat, NEW stop, NEW to \in [1 .. n -> Ways(n)],
           NEW steps, Walks(n, m, stop, to, steps)
    PROVE  \A k \in 1 .. m : \A b \in Ways(n) :
              steps[k - 1][b] # Spins => steps[k][b] = steps[k - 1][b]
  <1> DEFINE G == {k \in 0 .. m : k # 0 => \A b \in Ways(n) :
                      steps[k - 1][b] # Spins => steps[k][b] = steps[k - 1][b]}
  <1>1. 0 \in G
    OBVIOUS
  <1>2. \A k \in 1 .. m : k - 1 \in G => k \in G
    <2> TAKE k \in 1 .. m
    <2> HAVE k - 1 \in G
    <2> SUFFICES ASSUME NEW b \in Ways(n), steps[k - 1][b] # Spins PROVE steps[k][b] = steps[k - 1][b]
      OBVIOUS
    <2>0. k \in 0 .. m /\ k - 1 \in 0 .. m /\ k # 0
      OBVIOUS
    <2>a. k - 1 # 0 => \A x \in Ways(n) :
             steps[k - 1 - 1][x] # Spins => steps[k - 1][x] = steps[k - 1 - 1][x]
      OBVIOUS
    <2> HIDE DEF G
    <2>1. steps[k][b] = IF b \in {None, Returns} THEN b ELSE IF stop[b] # 0 THEN stop[b]
                        ELSE steps[k - 1][to[b]]
      BY <2>0 DEF Walks
    <2>2. steps[k - 1][b] = IF b \in {None, Returns} THEN b ELSE IF stop[b] # 0 THEN stop[b]
                            ELSE IF k - 1 = 0 THEN Spins ELSE steps[k - 1 - 1][to[b]]
      BY <2>0 DEF Walks
    <2>3. CASE b \in {None, Returns} \/ stop[b] # 0
      BY <2>1, <2>2, <2>3
    <2>4. CASE ~(b \in {None, Returns} \/ stop[b] # 0)
      <3>1. k - 1 # 0 /\ steps[k - 1][b] = steps[k - 1 - 1][to[b]]
        BY <2>2, <2>4
      <3>2. to[b] \in Ways(n)
        BY <2>4 DEF Ways
      <3> QED BY <3>1, <3>2, <2>1, <2>4, <2>a
    <2> QED BY <2>3, <2>4
  <1> HIDE DEF G
  <1>3. \A k \in 0 .. m : k \in G
    BY <1>1, <1>2, InductionUpTo
  <1>4. \A k \in 1 .. m : k \in 0 .. m /\ k # 0
    OBVIOUS
  <1> QED BY <1>3, <1>4 DEF G

\* The blocks from which it ends up somewhere within k steps.
Ending(n, steps, k) == {b \in 1 .. n : steps[k][b] # Spins}

\* A walk that has ended stays where it is.
LEMMA EndingGrows ==
    ASSUME NEW n \in Nat, NEW m \in Nat, NEW stop, NEW to \in [1 .. n -> Ways(n)],
           NEW steps, Walks(n, m, stop, to, steps), NEW k \in 1 .. m
    PROVE  /\ Ending(n, steps, k - 1) \subseteq Ending(n, steps, k)
           /\ k # m /\ Ending(n, steps, k - 1) = Ending(n, steps, k) =>
                 Ending(n, steps, k) = Ending(n, steps, k + 1)
  <1>1. Ending(n, steps, k - 1) \subseteq Ending(n, steps, k)
    <2>1. \A b \in 1 .. n : b \in Ways(n)
      BY DEF Ways
    <2>2. \A b \in Ways(n) : steps[k - 1][b] # Spins => steps[k][b] = steps[k - 1][b]
      BY WalksOn
    <2> QED BY <2>1, <2>2 DEF Ending
  <1>2. ASSUME k # m, Ending(n, steps, k - 1) = Ending(n, steps, k)
        PROVE  Ending(n, steps, k) = Ending(n, steps, k + 1)
    <2>0. k \in 0 .. m /\ k + 1 \in 0 .. m /\ k # 0 /\ k + 1 # 0 /\ k + 1 - 1 = k
      BY <1>2
    <2>1. ASSUME NEW b \in 1 .. n PROVE steps[k][b] # Spins <=> steps[k + 1][b] # Spins
      <3>0. b \in Ways(n) /\ b \notin {None, Returns}
        BY DEF Ways, None, Returns
      <3>1. steps[k][b] = IF stop[b] # 0 THEN stop[b] ELSE steps[k - 1][to[b]]
        BY <3>0, <2>0 DEF Walks
      <3>2. steps[k + 1][b] = IF stop[b] # 0 THEN stop[b] ELSE steps[k][to[b]]
        BY <3>0, <2>0 DEF Walks
      <3>3. steps[k - 1][to[b]] # Spins <=> steps[k][to[b]] # Spins
        <4>1. to[b] \in Ways(n)
          OBVIOUS
        <4>2. CASE to[b] \in 1 .. n
          BY <4>2, <1>2 DEF Ending
        <4>3. CASE to[b] \in {None, Returns}
          <5>1. k - 1 \in 0 .. m
            OBVIOUS
          <5>2. steps[k - 1][to[b]] = to[b] /\ steps[k][to[b]] = to[b]
            BY <4>1, <4>3, <5>1, <2>0 DEF Walks
          <5> QED BY <5>2
        <4> QED BY <4>1, <4>2, <4>3 DEF Ways
      <3> QED BY <3>1, <3>2, <3>3
    <2> QED BY <2>1 DEF Ending
  <1> QED BY <1>1, <1>2

\* With n blocks n steps are enough.
LEMMA WalksSettle ==
    ASSUME NEW n \in Nat, NEW stop, NEW to \in [1 .. n -> Ways(n)],
           NEW steps, Walks(n, n + 1, stop, to, steps)
    PROVE  \A b \in Ways(n) : steps[n + 1][b] = steps[n][b]
  <1> DEFINE E(k) == Ending(n, steps, k)
             G == {k \in 0 .. n : E(k) = E(k + 1) \/ Cardinality(E(k + 1)) >= k + 1}
  <1>a. n + 1 \in Nat /\ \A k \in 0 .. n : k + 1 \in 1 .. n + 1 /\ k + 1 - 1 = k
    OBVIOUS
  <1>b. IsFiniteSet(1 .. n) /\ Cardinality(1 .. n) = n
    <2>1. Cardinality(1 .. n) = IF 1 > n THEN 0 ELSE n - 1 + 1
      BY FS_Interval
    <2> QED BY <2>1, FS_Interval
  <1>c. \A k : E(k) \subseteq 1 .. n
    BY DEF Ending
  <1>d. \A k : IsFiniteSet(E(k)) /\ Cardinality(E(k)) \in Nat /\ Cardinality(E(k)) =< n
    <2> TAKE k
    <2> HIDE DEF E
    <2>1. IsFiniteSet(E(k)) /\ Cardinality(E(k)) =< Cardinality(1 .. n)
      BY <1>b, <1>c, FS_Subset
    <2> QED BY <2>1, <1>b, FS_CardinalityType
  <1>e. \A k \in 0 .. n : E(k) \subseteq E(k + 1)
    <2> TAKE k \in 0 .. n
    <2>1. Ending(n, steps, k + 1 - 1) \subseteq Ending(n, steps, k + 1)
      BY <1>a, EndingGrows
    <2> QED BY <2>1, <1>a
  <1>f. \A k \in 0 .. n : E(k) # E(k + 1) => Cardinality(E(k + 1)) >= Cardinality(E(k)) + 1
    <2> TAKE k \in 0 .. n
    <2> HAVE E(k) # E(k + 1)
    <2>0. E(k) \subseteq E(k + 1) /\ IsFiniteSet(E(k + 1)) /\ E(k) # E(k + 1)
      BY <1>d, <1>e
    <2> HIDE DEF E
    <2>1. Cardinality(E(k)) =< Cardinality(E(k + 1)) /\ Cardinality(E(k)) # Cardinality(E(k + 1))
      BY <2>0, FS_Subset
    <2>2. Cardinality(E(k)) \in Nat /\ Cardinality(E(k + 1)) \in Nat
      BY <1>d
    <2> QED BY <2>1, <2>2
  <1>1. 0 \in G
    <2>1. 0 \in 0 .. n
      OBVIOUS
    <2>2. CASE E(0) = E(0 + 1)
      BY <2>1, <2>2
    <2>3. CASE E(0) # E(0 + 1)
      <3>1. Cardinality(E(0 + 1)) >= 0 + 1
        <4> HIDE DEF E
        <4>1. Cardinality(E(0 + 1)) >= Cardinality(E(0)) + 1
          BY <2>1, <2>3, <1>f
        <4>2. Cardinality(E(0)) \in Nat /\ Cardinality(E(0 + 1)) \in Nat
          BY <1>d
        <4> QED BY <4>1, <4>2
      <3> QED BY <2>1, <3>1
    <2> QED BY <2>2, <2>3
  <1>2. \A k \in 1 .. n : k - 1 \in G => k \in G
    <2> TAKE k \in 1 .. n
    <2> HAVE k - 1 \in G
    <2>0. k \in 0 .. n /\ k - 1 + 1 = k /\ k # n + 1 /\ k \in 1 .. n + 1
      OBVIOUS
    <2>1. E(k - 1) = E(k) \/ Cardinality(E(k)) >= k
      BY <2>0
    <2>2. CASE E(k - 1) = E(k)
      <3>1. Ending(n, steps, k - 1) = Ending(n, steps, k) => Ending(n, steps, k) = Ending(n, steps, k + 1)
        BY <2>0, <1>a, EndingGrows
      <3> QED BY <3>1, <2>2, <2>0
    <2>3. CASE Cardinality(E(k)) >= k
      <3>1. CASE E(k) = E(k + 1)
        BY <3>1, <2>0
      <3>2. CASE E(k) # E(k + 1)
        <4>1. Cardinality(E(k + 1)) >= k + 1
          <5> HIDE DEF E
          <5>1. Cardinality(E(k + 1)) >= Cardinality(E(k)) + 1
            BY <3>2, <2>0, <1>f
          <5>2. Cardinality(E(k)) \in Nat /\ Cardinality(E(k + 1)) \in Nat
            BY <1>d
          <5> QED BY <5>1, <5>2, <2>3
        <4> QED BY <4>1, <2>0
      <3> QED BY <3>1, <3>2
    <2> QED BY <2>1, <2>2, <2>3
  <1>3. n \in G
    <2> HIDE DEF G
    <2>1. \A k \in 0 .. n : k \in G
      BY <1>1, <1>2, InductionUpTo
    <2> QED BY <2>1
  <1>4. E(n) = E(n + 1)
    <2>1. E(n) = E(n + 1) \/ Cardinality(E(n + 1)) >= n + 1
      BY <1>3
    <2>2. Cardinality(E(n + 1)) \in Nat /\ Cardinality(E(n + 1)) =< n
      BY <1>d
    <2> QED BY <2>1, <2>2
  <1>5. ASSUME NEW b \in Ways(n) PROVE steps[n + 1][b] = steps[n][b]
    <2>0. n + 1 \in 1 .. n + 1 /\ n + 1 - 1 = n /\ n + 1 \in 0 .. n + 1 /\ n \in 0 .. n + 1
      OBVIOUS
    <2>1. CASE steps[n][b] # Spins
      BY <2>0, <2>1, <1>a, WalksOn
    <2>2. CASE steps[n][b] = Spins
      <3>1. CASE b \in 1 .. n
        BY <1>4, <2>2, <3>1 DEF Ending
      <3>2. CASE b \in {None, Returns}
        BY <3>2, <2>0 DEF Walks
      <3> QED BY <3>1, <3>2 DEF Ways
    <2> QED BY <2>1, <2>2
  <1> QED BY <1>5

\* Where it ends up from each block, however many are passed over.
EndsAt(n, stop, to, ends) ==
    \A b \in Ways(n) :
        ends[b] = IF b \in {None, Returns} THEN b ELSE IF stop[b] # 0 THEN stop[b] ELSE ends[to[b]]

\* Where a walk has ended nothing more is passed over.
LEMMA WalksEnd ==
    ASSUME NEW n \in Nat, NEW stop, NEW to \in [1 .. n -> Ways(n)],
           NEW steps, Walks(n, n + 1, stop, to, steps)
    PROVE  EndsAt(n, stop, to, steps[n])
  <1>1. n + 1 \in 0 .. n + 1 /\ n + 1 # 0 /\ n + 1 - 1 = n
    OBVIOUS
  <1>2. \A b \in Ways(n) :
           steps[n + 1][b] = IF b \in {None, Returns} THEN b
                             ELSE IF stop[b] # 0 THEN stop[b] ELSE steps[n][to[b]]
    BY <1>1 DEF Walks
  <1>3. \A b \in Ways(n) : steps[n + 1][b] = steps[n][b]
    BY WalksSettle
  <1> QED BY <1>2, <1>3 DEF EndsAt

\* The second way of going on is the first, but that what block C has is now in block b,
\* the only one that went to C when it did not stop; C goes on to Nx.
Bypass(n, b, C, Nx, stop, to, stop2, to2) ==
    /\ n \in Nat /\ {b, C, Nx} \subseteq 1 .. n /\ b # C /\ Nx # C
    /\ to \in [1 .. n -> Ways(n)] /\ to2 \in [1 .. n -> Ways(n)]
    /\ \A x \in (1 .. n) \ {b, C} :
          stop2[x] = stop[x] /\ to2[x] = to[x] /\ (stop[x] = 0 => to[x] # C)
    /\ stop2[C] = 0 /\ to2[C] = Nx
    /\ stop[b] # 0 => stop2[b] = stop[b]
    /\ stop[b] = 0 => \/ to[b] = C /\ stop[C] # 0 /\ stop2[b] = stop[C]
                      \/ to[b] = Nx /\ stop2[b] = 0 /\ to2[b] \in {Nx, C}

\* What the first finds the second finds.
LEMMA BypassFinds ==
    ASSUME NEW n, NEW b, NEW C, NEW Nx, NEW stop, NEW to, NEW stop2, NEW to2,
           Bypass(n, b, C, Nx, stop, to, stop2, to2),
           NEW steps, Walks(n, n, stop, to, steps), NEW ends, EndsAt(n, stop2, to2, ends)
    PROVE  \A x \in Ways(n) \ {C} : steps[n][x] # Spins => ends[x] = steps[n][x]
  <1>t. /\ n \in Nat /\ b \in 1 .. n /\ C \in 1 .. n /\ Nx \in 1 .. n /\ b # C /\ Nx # C
        /\ to \in [1 .. n -> Ways(n)] /\ to2 \in [1 .. n -> Ways(n)]
    BY DEF Bypass
  <1> USE <1>t
  <1> DEFINE G == {k \in 0 .. n : \A x \in Ways(n) \ {C} : steps[k][x] # Spins => ends[x] = steps[k][x]}
  <1>0. \A x \in Ways(n) : x \notin {None, Returns} => x \in 1 .. n
    BY DEF Ways
  <1>a. b \in Ways(n) /\ C \in Ways(n) /\ Nx \in Ways(n) /\ {b, C, Nx} \cap {None, Returns} = {}
    BY DEF Ways, None, Returns
  <1>1. ASSUME NEW k \in 0 .. n,
               k # 0 => \A x \in Ways(n) \ {C} : steps[k - 1][x] # Spins => ends[x] = steps[k - 1][x],
               NEW x \in Ways(n) \ {C}, steps[k][x] # Spins
        PROVE  ends[x] = steps[k][x]
    <2>1. steps[k][x] = IF x \in {None, Returns} THEN x ELSE IF stop[x] # 0 THEN stop[x]
                        ELSE IF k = 0 THEN Spins ELSE steps[k - 1][to[x]]
      BY DEF Walks
    <2>2. ends[x] = IF x \in {None, Returns} THEN x ELSE IF stop2[x] # 0 THEN stop2[x] ELSE ends[to2[x]]
      BY DEF EndsAt
    <2>3. CASE x \in {None, Returns}
      BY <2>1, <2>2, <2>3
    <2>4. CASE x \in 1 .. n /\ stop[x] # 0
      <3>1. stop2[x] = stop[x]
        BY <2>4 DEF Bypass
      <3>2. x \notin {None, Returns}
        BY <2>4 DEF None, Returns
      <3> QED BY <3>1, <3>2, <2>1, <2>2, <2>4
    <2>5. CASE x \in 1 .. n /\ stop[x] = 0
      <3>1. x \notin {None, Returns}
        BY <2>5 DEF None, Returns
      <3>2. k # 0 /\ steps[k][x] = steps[k - 1][to[x]] /\ to[x] \in Ways(n)
        BY <3>1, <2>1, <2>5, <1>1
      <3>3. CASE x # b
        <4>1. stop2[x] = 0 /\ to2[x] = to[x] /\ to[x] # C
          BY <2>5, <3>3 DEF Bypass
        <4>2. ends[x] = ends[to[x]]
          BY <4>1, <3>1, <2>2
        <4> QED BY <4>1, <4>2, <3>2, <1>1
      <3>4. CASE x = b /\ to[b] = C /\ stop[C] # 0 /\ stop2[b] = stop[C]
        <4>1. k - 1 \in 0 .. n
          BY <3>2
        <4>2. steps[k - 1][C] = stop[C]
          BY <4>1, <1>a, <3>4 DEF Walks
        <4> QED BY <4>2, <3>4, <3>2, <2>2, <3>1
      <3>5. CASE x = b /\ to[b] = Nx /\ stop2[b] = 0 /\ to2[b] \in {Nx, C}
        <4>1. ends[b] = ends[to2[b]]
          BY <2>2, <3>1, <3>5
        <4>2. ends[C] = ends[Nx]
          BY <1>a DEF EndsAt, Bypass
        <4>3. ends[b] = ends[Nx]
          BY <4>1, <4>2, <3>5
        <4>4. ends[Nx] = steps[k - 1][Nx]
          BY <3>2, <3>5, <1>1, <1>a
        <4> QED BY <4>3, <4>4, <3>2, <3>5
      <3> QED BY <3>3, <3>4, <3>5, <2>5 DEF Bypass
    <2> QED BY <2>3, <2>4, <2>5, <1>0
  <1>2. 0 \in G
    <2>1. 0 \in 0 .. n
      OBVIOUS
    <2> QED BY <2>1, <1>1
  <1>3. \A k \in 1 .. n : k - 1 \in G => k \in G
    <2> TAKE k \in 1 .. n
    <2> HAVE k - 1 \in G
    <2>1. k \in 0 .. n
      OBVIOUS
    <2>2. \A x \in Ways(n) \ {C} : steps[k - 1][x] # Spins => ends[x] = steps[k - 1][x]
      OBVIOUS
    <2> QED BY <2>1, <2>2, <1>1
  <1> HIDE DEF G
  <1>4. \A k \in 0 .. n : k \in G
    BY <1>2, <1>3, InductionUpTo
  <1>5. n \in G
    BY <1>4
  <1> QED BY <1>5 DEF G

\* What the second finds the first finds.
LEMMA BypassFound ==
    ASSUME NEW n, NEW b, NEW C, NEW Nx, NEW stop, NEW to, NEW stop2, NEW to2,
           Bypass(n, b, C, Nx, stop, to, stop2, to2),
           NEW steps, Walks(n, n, stop2, to2, steps), NEW ends, EndsAt(n, stop, to, ends)
    PROVE  \A x \in Ways(n) \ {C} : steps[n][x] # Spins => ends[x] = steps[n][x]
  <1>t. /\ n \in Nat /\ b \in 1 .. n /\ C \in 1 .. n /\ Nx \in 1 .. n /\ b # C /\ Nx # C
        /\ to \in [1 .. n -> Ways(n)] /\ to2 \in [1 .. n -> Ways(n)]
    BY DEF Bypass
  <1> USE <1>t
  <1> DEFINE At(x) == IF x = C THEN Nx ELSE x
             G == {k \in 0 .. n : \A x \in Ways(n) : steps[k][x] # Spins => ends[At(x)] = steps[k][x]}
  <1>0. \A x \in Ways(n) : x \notin {None, Returns} => x \in 1 .. n
    BY DEF Ways
  <1>a. b \in Ways(n) /\ C \in Ways(n) /\ Nx \in Ways(n) /\ {b, C, Nx} \cap {None, Returns} = {}
    BY DEF Ways, None, Returns
  <1>1. ASSUME NEW k \in 0 .. n,
               k # 0 => \A x \in Ways(n) : steps[k - 1][x] # Spins => ends[At(x)] = steps[k - 1][x],
               NEW x \in Ways(n), steps[k][x] # Spins
        PROVE  ends[At(x)] = steps[k][x]
    <2>1. steps[k][x] = IF x \in {None, Returns} THEN x ELSE IF stop2[x] # 0 THEN stop2[x]
                        ELSE IF k = 0 THEN Spins ELSE steps[k - 1][to2[x]]
      BY DEF Walks
    <2>2. ends[x] = IF x \in {None, Returns} THEN x ELSE IF stop[x] # 0 THEN stop[x] ELSE ends[to[x]]
      BY DEF EndsAt
    <2>3. CASE x \in {None, Returns}
      <3>1. x # C
        BY <2>3, <1>a
      <3> QED BY <3>1, <2>1, <2>2, <2>3
    <2>4. CASE x = C
      <3>1. k # 0 /\ steps[k][C] = steps[k - 1][Nx]
        BY <2>1, <2>4, <1>a, <1>1 DEF Bypass
      <3>2. ends[At(Nx)] = steps[k - 1][Nx]
        BY <3>1, <1>1, <1>a, <2>4
      <3> QED BY <3>1, <3>2, <2>4
    <2>5. CASE x \in (1 .. n) \ {b, C}
      <3>1. x \notin {None, Returns}
        BY <2>5 DEF None, Returns
      <3>2. stop2[x] = stop[x] /\ to2[x] = to[x] /\ (stop[x] = 0 => to[x] # C)
        BY <2>5 DEF Bypass
      <3>3. CASE stop[x] # 0
        BY <3>1, <3>2, <3>3, <2>1, <2>2, <2>5
      <3>4. CASE stop[x] = 0
        <4>1. k # 0 /\ steps[k][x] = steps[k - 1][to[x]] /\ to[x] \in Ways(n) /\ to[x] # C
          BY <3>1, <3>2, <3>4, <2>1, <2>5, <1>1
        <4>2. ends[to[x]] = steps[k - 1][to[x]]
          BY <4>1, <1>1
        <4> QED BY <4>1, <4>2, <3>1, <3>4, <2>2, <2>5
      <3> QED BY <3>3, <3>4
    <2>6. CASE x = b
      <3>1. b \notin {None, Returns}
        BY <1>a
      <3>2. CASE stop[b] # 0
        BY <2>1, <2>2, <2>6, <3>1, <3>2 DEF Bypass
      <3>3. CASE stop[b] = 0 /\ to[b] = C /\ stop[C] # 0 /\ stop2[b] = stop[C]
        <4>1. ends[b] = ends[C]
          BY <2>2, <2>6, <3>1, <3>3
        <4>2. ends[C] = stop[C]
          BY <1>a, <3>3 DEF EndsAt
        <4> QED BY <4>1, <4>2, <2>1, <2>6, <3>1, <3>3
      <3>4. CASE stop[b] = 0 /\ to[b] = Nx /\ stop2[b] = 0 /\ to2[b] \in {Nx, C}
        <4>1. ends[b] = ends[Nx]
          BY <2>2, <2>6, <3>1, <3>4
        <4>2. k # 0 /\ steps[k][b] = steps[k - 1][to2[b]] /\ to2[b] \in Ways(n)
          BY <2>1, <2>6, <3>1, <3>4, <1>1
        <4>3. ends[At(to2[b])] = steps[k - 1][to2[b]]
          BY <4>2, <2>6, <1>1
        <4>4. At(to2[b]) = Nx
          BY <3>4
        <4> QED BY <4>1, <4>2, <4>3, <4>4, <2>6
      <3> QED BY <3>2, <3>3, <3>4 DEF Bypass
    <2> QED BY <2>3, <2>4, <2>5, <2>6, <1>0
  <1>2. 0 \in G
    <2>1. 0 \in 0 .. n
      OBVIOUS
    <2> QED BY <2>1, <1>1
  <1>3. \A k \in 1 .. n : k - 1 \in G => k \in G
    <2> TAKE k \in 1 .. n
    <2> HAVE k - 1 \in G
    <2>1. k \in 0 .. n
      OBVIOUS
    <2>2. \A x \in Ways(n) : steps[k - 1][x] # Spins => ends[At(x)] = steps[k - 1][x]
      OBVIOUS
    <2> QED BY <2>1, <2>2, <1>1
  <1> HIDE DEF G
  <1>4. \A k \in 0 .. n : k \in G
    BY <1>2, <1>3, InductionUpTo
  <1>5. n \in G
    BY <1>4
  <1> QED BY <1>5 DEF G

\* Both end up at the same stretch.
LEMMA BypassSame ==
    ASSUME NEW n, NEW b, NEW C, NEW Nx, NEW stop, NEW to, NEW stop2, NEW to2,
           Bypass(n, b, C, Nx, stop, to, stop2, to2),
           NEW steps, Walks(n, n + 1, stop, to, steps),
           NEW steps2, Walks(n, n + 1, stop2, to2, steps2)
    PROVE  \A x \in Ways(n) \ {C} : steps2[n][x] = steps[n][x]
  <1>t. /\ n \in Nat /\ b \in 1 .. n /\ C \in 1 .. n /\ Nx \in 1 .. n /\ b # C /\ Nx # C
        /\ to \in [1 .. n -> Ways(n)] /\ to2 \in [1 .. n -> Ways(n)]
    BY DEF Bypass
  <1>1. EndsAt(n, stop, to, steps[n]) /\ EndsAt(n, stop2, to2, steps2[n])
    BY <1>t, WalksEnd
  <1>2. Walks(n, n, stop, to, steps) /\ Walks(n, n, stop2, to2, steps2)
    <2>1. \A k \in 0 .. n : k \in 0 .. n + 1
      BY <1>t
    <2> QED BY <2>1 DEF Walks
  <1>3. \A x \in Ways(n) \ {C} : steps[n][x] # Spins => steps2[n][x] = steps[n][x]
    <2>1. Walks(n, n, stop, to, steps) /\ EndsAt(n, stop2, to2, steps2[n])
      BY <1>1, <1>2
    <2> QED BY <2>1, BypassFinds
  <1>4. \A x \in Ways(n) \ {C} : steps2[n][x] # Spins => steps[n][x] = steps2[n][x]
    <2>1. Walks(n, n, stop2, to2, steps2) /\ EndsAt(n, stop, to, steps[n])
      BY <1>1, <1>2
    <2> QED BY <2>1, BypassFound
  <1> QED BY <1>3, <1>4

\* The first stretch of s that runs when the flags are z, 0 if none does.
RunsAt(s, p, z) == SelectInSeq(s, LAMBDA u : Holds(p[u], z))

\* The first of s that runs, or 0.
Runs(s, p, z) == IF RunsAt(s, p, z) = 0 THEN 0 ELSE s[RunsAt(s, p, z)]

\* What RunsAt finds.
LEMMA RunsAtIs ==
    ASSUME NEW S, NEW s \in Seq(S), NEW p, NEW z
    PROVE  \/ RunsAt(s, p, z) = 0 /\ \A i \in 1 .. Len(s) : ~Holds(p[s[i]], z)
           \/ /\ RunsAt(s, p, z) \in 1 .. Len(s) /\ Holds(p[s[RunsAt(s, p, z)]], z)
              /\ \A i \in 1 .. RunsAt(s, p, z) - 1 : ~Holds(p[s[i]], z)
  <1> DEFINE I == {i \in 1 .. Len(s) : Holds(p[s[i]], z)}
  <1>1. RunsAt(s, p, z) = IF I # {} THEN CHOOSE x \in I : \A y \in I : x =< y ELSE 0
    BY DEF RunsAt, SelectInSeq, Min
  <1>2. CASE I = {}
    <2>1. \A i \in 1 .. Len(s) : ~Holds(p[s[i]], z)
      BY <1>2
    <2> QED BY <2>1, <1>1, <1>2
  <1>3. CASE I # {}
    <2>1. I \subseteq Nat
      OBVIOUS
    <2>2. \E x \in I : \A y \in I : x =< y
      <3> HIDE DEF I
      <3> QED BY <2>1, <1>3, SmallestOf
    <2>3. RunsAt(s, p, z) \in I /\ \A y \in I : RunsAt(s, p, z) =< y
      <3> HIDE DEF I
      <3> QED BY <2>2, <1>1, <1>3
    <2>4. RunsAt(s, p, z) \in 1 .. Len(s) /\ Holds(p[s[RunsAt(s, p, z)]], z)
      BY <2>3
    <2>5. ASSUME NEW i \in 1 .. RunsAt(s, p, z) - 1 PROVE ~Holds(p[s[i]], z)
      <3>1. i \in 1 .. Len(s) /\ ~(RunsAt(s, p, z) =< i)
        BY <2>4
      <3>2. i \notin I
        BY <2>3, <3>1
      <3> QED BY <3>1, <3>2
    <2> QED BY <2>4, <2>5
  <1> QED BY <1>2, <1>3

\* The place determines what it is.
LEMMA RunsAtPlace ==
    ASSUME NEW S, NEW s \in Seq(S), NEW p, NEW z, NEW k \in 1 .. Len(s), Holds(p[s[k]], z),
           \A i \in 1 .. k - 1 : ~Holds(p[s[i]], z)
    PROVE  RunsAt(s, p, z) = k
  <1> DEFINE r == RunsAt(s, p, z)
  <1>1. \/ r = 0 /\ \A i \in 1 .. Len(s) : ~Holds(p[s[i]], z)
        \/ r \in 1 .. Len(s) /\ Holds(p[s[r]], z) /\ \A i \in 1 .. r - 1 : ~Holds(p[s[i]], z)
    BY RunsAtIs
  <1> HIDE DEF r
  <1>2. r \in 1 .. Len(s) /\ Holds(p[s[r]], z) /\ \A i \in 1 .. r - 1 : ~Holds(p[s[i]], z)
    BY <1>1
  <1>3. r \notin 1 .. k - 1 /\ k \notin 1 .. r - 1
    BY <1>2
  <1>4. r = k
    BY <1>2, <1>3
  <1> QED BY <1>4 DEF r

\* What runs is of the sequence; without repeats it says what does.
LEMMA RunsIs ==
    ASSUME NEW n \in Nat, NEW s \in Seq(1 .. n), NEW p, NEW z
    PROVE  /\ Runs(s, p, z) = 0 <=> \A u \in ToSet(s) : ~Holds(p[u], z)
           /\ Runs(s, p, z) # 0 => Runs(s, p, z) \in ToSet(s) /\ Runs(s, p, z) \in 1 .. n
           /\ Len(s) > 0 /\ Holds(p[s[1]], z) => Runs(s, p, z) = s[1]
  <1> DEFINE r == RunsAt(s, p, z)
  <1>0. Len(s) \in Nat /\ \A i \in 1 .. Len(s) : s[i] \in 1 .. n /\ s[i] # 0 /\ s[i] \in ToSet(s)
    <2>1. \A i \in 1 .. Len(s) : s[i] \in 1 .. n
      OBVIOUS
    <2> QED BY <2>1, Members
  <1>1. \/ r = 0 /\ \A i \in 1 .. Len(s) : ~Holds(p[s[i]], z)
        \/ r \in 1 .. Len(s) /\ Holds(p[s[r]], z) /\ \A i \in 1 .. r - 1 : ~Holds(p[s[i]], z)
    BY RunsAtIs
  <1>2. Runs(s, p, z) = IF r = 0 THEN 0 ELSE s[r]
    BY DEF Runs
  <1>3. \A u \in ToSet(s) : \E i \in 1 .. Len(s) : s[i] = u
    BY Members
  <1>4. Len(s) > 0 /\ Holds(p[s[1]], z) => r = 1
    <2> HAVE Len(s) > 0 /\ Holds(p[s[1]], z)
    <2>1. 1 \in 1 .. Len(s) /\ \A i \in 1 .. 1 - 1 : ~Holds(p[s[i]], z)
      BY <1>0
    <2> QED BY <2>1, RunsAtPlace
  <1> HIDE DEF r
  <1>5. r = 0 => Runs(s, p, z) = 0 /\ \A u \in ToSet(s) : ~Holds(p[u], z)
    BY <1>0, <1>1, <1>2, <1>3
  <1>6. r # 0 => /\ Runs(s, p, z) # 0 /\ Runs(s, p, z) \in ToSet(s) /\ Runs(s, p, z) \in 1 .. n
                 /\ Holds(p[Runs(s, p, z)], z)
    BY <1>0, <1>1, <1>2
  <1> QED BY <1>2, <1>4, <1>5, <1>6

\* Only what is in the sequence matters.
LEMMA RunsSame ==
    ASSUME NEW S, NEW s \in Seq(S), NEW p, NEW q, NEW z,
           \A u \in ToSet(s) : Holds(p[u], z) <=> Holds(q[u], z)
    PROVE  Runs(s, p, z) = Runs(s, q, z)
  <1> DEFINE r == RunsAt(s, p, z)
  <1>0. Len(s) \in Nat /\ \A i \in 1 .. Len(s) : Holds(p[s[i]], z) <=> Holds(q[s[i]], z)
    BY Members
  <1>1. \/ r = 0 /\ \A i \in 1 .. Len(s) : ~Holds(p[s[i]], z)
        \/ r \in 1 .. Len(s) /\ Holds(p[s[r]], z) /\ \A i \in 1 .. r - 1 : ~Holds(p[s[i]], z)
    BY RunsAtIs
  <1>2. \/ RunsAt(s, q, z) = 0
        \/ RunsAt(s, q, z) \in 1 .. Len(s) /\ Holds(q[s[RunsAt(s, q, z)]], z)
    BY RunsAtIs
  <1> HIDE DEF r
  <1>3. RunsAt(s, q, z) = r
    <2>1. CASE r = 0
      BY <2>1, <1>0, <1>1, <1>2
    <2>2. CASE r # 0
      <3>1. r \in 1 .. Len(s) /\ Holds(q[s[r]], z)
        BY <2>2, <1>0, <1>1
      <3>2. \A i \in 1 .. r - 1 : i \in 1 .. Len(s)
        BY <3>1, <1>0
      <3>3. \A i \in 1 .. r - 1 : ~Holds(q[s[i]], z)
        BY <2>2, <3>2, <1>0, <1>1
      <3> QED BY <3>1, <3>3, RunsAtPlace
    <2> QED BY <2>1, <2>2
  <1> QED BY <1>3 DEF Runs, r

\* Of two sequences joined.
LEMMA RunsJoin ==
    ASSUME NEW n \in Nat, NEW s \in Seq(1 .. n), NEW t \in Seq(1 .. n), NEW p, NEW z
    PROVE  Runs(s \o t, p, z) = IF Runs(s, p, z) # 0 THEN Runs(s, p, z) ELSE Runs(t, p, z)
  <1> DEFINE j == s \o t
             a == RunsAt(s, p, z)
             c == RunsAt(t, p, z)
  <1>0. /\ j \in Seq(1 .. n) /\ Len(j) = Len(s) + Len(t) /\ Len(s) \in Nat /\ Len(t) \in Nat
        /\ \A i \in 1 .. Len(s) : j[i] = s[i]
        /\ \A i \in 1 .. Len(t) : j[Len(s) + i] = t[i]
    BY JoinOf
  <1>1. \/ a = 0 /\ \A i \in 1 .. Len(s) : ~Holds(p[s[i]], z)
        \/ a \in 1 .. Len(s) /\ Holds(p[s[a]], z) /\ \A i \in 1 .. a - 1 : ~Holds(p[s[i]], z)
    BY RunsAtIs
  <1>2. \/ c = 0 /\ \A i \in 1 .. Len(t) : ~Holds(p[t[i]], z)
        \/ c \in 1 .. Len(t) /\ Holds(p[t[c]], z) /\ \A i \in 1 .. c - 1 : ~Holds(p[t[i]], z)
    BY RunsAtIs
  <1>3. \A x \in 1 .. n : x # 0
    OBVIOUS
  <1>4. (\A i \in 1 .. Len(s) : s[i] \in 1 .. n) /\ (\A i \in 1 .. Len(t) : t[i] \in 1 .. n)
    OBVIOUS
  <1>5. Runs(s, p, z) = (IF a = 0 THEN 0 ELSE s[a]) /\ Runs(t, p, z) = (IF c = 0 THEN 0 ELSE t[c])
    BY DEF Runs
  <1>6. Runs(j, p, z) = IF RunsAt(j, p, z) = 0 THEN 0 ELSE j[RunsAt(j, p, z)]
    BY DEF Runs
  <1>7. \/ RunsAt(j, p, z) = 0
        \/ RunsAt(j, p, z) \in 1 .. Len(j) /\ Holds(p[j[RunsAt(j, p, z)]], z)
    BY <1>0, RunsAtIs
  <1>8. ASSUME NEW k \in 1 .. Len(j), Holds(p[j[k]], z), \A i \in 1 .. k - 1 : ~Holds(p[j[i]], z)
        PROVE  RunsAt(j, p, z) = k
    BY <1>0, <1>8, RunsAtPlace
  <1> HIDE DEF a, c, j
  <1>9. \A i \in 1 .. Len(j) : i \in 1 .. Len(s) \/ (i - Len(s) \in 1 .. Len(t) /\ i = Len(s) + (i - Len(s)))
    BY <1>0
  <1>10. CASE a # 0
    <2>1. a \in 1 .. Len(j) /\ Holds(p[j[a]], z) /\ j[a] = s[a] /\ a # 0
      BY <1>0, <1>1, <1>10
    <2>2. \A i \in 1 .. a - 1 : i \in 1 .. Len(s)
      BY <1>0, <1>1, <1>10
    <2>3. \A i \in 1 .. a - 1 : ~Holds(p[j[i]], z)
      BY <2>2, <1>0, <1>1, <1>10
    <2>4. RunsAt(j, p, z) = a
      BY <2>1, <2>3, <1>8
    <2>5. Runs(s, p, z) = s[a] /\ s[a] # 0
      BY <1>1, <1>3, <1>4, <1>5, <1>10
    <2>6. Runs(j, p, z) = s[a]
      BY <2>1, <2>4, <1>6
    <2> QED BY <2>5, <2>6 DEF j
  <1>a. a = 0 => \A i \in 1 .. Len(s) : ~Holds(p[j[i]], z)
    <2> HAVE a = 0
    <2>1. \A i \in 1 .. Len(s) : ~Holds(p[s[i]], z)
      BY ONLY <1>1, a = 0
    <2>2. \A i \in 1 .. Len(s) : j[i] = s[i]
      BY <1>0
    <2> QED BY ONLY <2>1, <2>2
  <1>b. /\ c = 0 => \A i \in 1 .. Len(t) : ~Holds(p[t[i]], z)
        /\ c # 0 => /\ c \in 1 .. Len(t) /\ Holds(p[t[c]], z)
                    /\ \A i \in 1 .. c - 1 : ~Holds(p[t[i]], z)
    BY ONLY <1>2, <1>0
  <1>c. \A i \in 1 .. Len(t) : Holds(p[j[Len(s) + i]], z) <=> Holds(p[t[i]], z)
    <2> TAKE i \in 1 .. Len(t)
    <2>1. j[Len(s) + i] = t[i]
      BY <1>0
    <2> QED BY ONLY <2>1
  <1>11. CASE a = 0 /\ c # 0
    <2>1. c \in 1 .. Len(t) /\ Len(s) + c \in 1 .. Len(j) /\ Len(s) + c # 0
      BY <1>0, <1>b, <1>11
    <2>2. j[Len(s) + c] = t[c] /\ Holds(p[j[Len(s) + c]], z)
      BY <2>1, <1>0, <1>b, <1>c, <1>11
    <2>3. ASSUME NEW i \in 1 .. Len(s) + c - 1 PROVE ~Holds(p[j[i]], z)
      <3>1. CASE i \in 1 .. Len(s)
        BY <3>1, <1>a, <1>11
      <3>2. CASE i \notin 1 .. Len(s)
        <4>1. PICK m \in 1 .. c - 1 : i = Len(s) + m
          <5>1. i - Len(s) \in 1 .. c - 1 /\ i = Len(s) + (i - Len(s))
            BY <3>2, <2>1, <1>0
          <5> QED BY <5>1
        <4>2. m \in 1 .. Len(t)
          BY <4>1, <2>1, <1>0
        <4>3. ~Holds(p[t[m]], z)
          BY <1>b, <1>11
        <4>4. ~Holds(p[j[Len(s) + m]], z)
          BY <4>2, <4>3, <1>c
        <4> QED BY <4>1, <4>4
      <3> QED BY <3>1, <3>2
    <2>4. RunsAt(j, p, z) = Len(s) + c
      <3>1. PICK k : k = Len(s) + c
        OBVIOUS
      <3>2. k \in 1 .. Len(j) /\ Holds(p[j[k]], z) /\ \A i \in 1 .. k - 1 : ~Holds(p[j[i]], z)
        BY <2>1, <2>2, <2>3, <3>1
      <3>3. RunsAt(j, p, z) = k
        BY <3>2, <1>8
      <3> QED BY <3>1, <3>3
    <2>5. Runs(j, p, z) = t[c]
      BY <2>1, <2>2, <2>4, <1>6
    <2> QED BY <2>5, <1>5, <1>11 DEF j
  <1>12. CASE a = 0 /\ c = 0
    <2>1. ASSUME NEW i \in 1 .. Len(j) PROVE ~Holds(p[j[i]], z)
      <3>1. CASE i \in 1 .. Len(s)
        BY <3>1, <1>a, <1>12
      <3>2. CASE i \notin 1 .. Len(s)
        <4>1. PICK m \in 1 .. Len(t) : i = Len(s) + m
          BY <3>2, <1>9
        <4>2. ~Holds(p[j[Len(s) + m]], z)
          BY <1>b, <1>c, <1>12
        <4> QED BY <4>1, <4>2
      <3> QED BY <3>1, <3>2
    <2>2. RunsAt(j, p, z) = 0
      BY <2>1, <1>7
    <2> QED BY <2>2, <1>5, <1>6, <1>12 DEF j
  <1> QED BY <1>10, <1>11, <1>12

\* The recursion of Lands: w[k - 1] is what is found in one step fewer.
LandLevel(g, p, z, found) ==
    [b \in Int |-> IF b <= 0 THEN b ELSE IF RunsAt(g.body[b], p, z) # 0
                   THEN g.body[b][RunsAt(g.body[b], p, z)] ELSE found[Taken(g, b, z)]]

\* The parts of Lands: what runs in a block, where control is after each number of
\* blocks, and after all of them.
LandFirst(g, p, z) ==
    [b \in Int |-> IF b <= 0 THEN b ELSE IF RunsAt(g.body[b], p, z) # 0
                   THEN g.body[b][RunsAt(g.body[b], p, z)] ELSE Spins]
LandLevels(g, p, z, m, w) ==
    [k \in 0 .. m |-> IF k = 0 THEN LandFirst(g, p, z) ELSE LandLevel(g, p, z, w[k - 1])]
LandUpTo(g, p, z, w) ==
    [k \in 0 .. Len(g.layout) |-> [b \in Int |->
        IF b <= 0 THEN b
        ELSE IF RunsAt(g.body[b], p, z) # 0 THEN g.body[b][RunsAt(g.body[b], p, z)]
        ELSE IF k = 0 THEN Spins ELSE w[k - 1][Taken(g, b, z)]]]

\* There is a function that satisfies the recursion.
LEMMA LandLevelsExist ==
    ASSUME NEW g, NEW p, NEW z, NEW m \in Nat
    PROVE  \E w : w = LandLevels(g, p, z, m, w)
  <1> DEFINE G == {d \in 0 .. m : \E w : w = LandLevels(g, p, z, d, w)}
  <1>1. 0 \in G
    <2>1. PICK w : w = [d \in 0 .. 0 |-> LandFirst(g, p, z)]
      OBVIOUS
    <2>2. LandLevels(g, p, z, 0, w) = [d \in 0 .. 0 |-> LandFirst(g, p, z)]
      BY DEF LandLevels
    <2> QED BY <2>1, <2>2
  <1>2. \A d \in 1 .. m : d - 1 \in G => d \in G
    <2> TAKE d \in 1 .. m
    <2> HAVE d - 1 \in G
    <2>1. PICK w : w = LandLevels(g, p, z, d - 1, w)
      OBVIOUS
    <2>2. PICK v : v = [e \in 0 .. d |-> IF e = d THEN LandLevel(g, p, z, w[d - 1]) ELSE w[e]]
      OBVIOUS
    <2>3. \A e \in 0 .. d - 1 : v[e] = w[e] /\ w[e] = IF e = 0 THEN LandFirst(g, p, z) ELSE LandLevel(g, p, z, w[e - 1])
      <3> TAKE e \in 0 .. d - 1
      <3>1. e \in 0 .. d /\ e # d
        OBVIOUS
      <3>2. v[e] = w[e]
        BY ONLY <2>2, <3>1
      <3>3. w[e] = IF e = 0 THEN LandFirst(g, p, z) ELSE LandLevel(g, p, z, w[e - 1])
        BY ONLY <2>1, e \in 0 .. d - 1 DEF LandLevels
      <3> QED BY <3>2, <3>3
    <2>4. \A e \in 1 .. d : e - 1 \in 0 .. d - 1
      OBVIOUS
    <2>5. \A e \in 1 .. d : v[e] = LandLevel(g, p, z, v[e - 1])
      <3> TAKE e \in 1 .. d
      <3>1. v[e - 1] = w[e - 1]
        BY <2>3, <2>4
      <3>2. CASE e = d
        BY <2>2, <3>1, <3>2
      <3>3. CASE e # d
        <4>1. e \in 0 .. d - 1 /\ e # 0
          BY <3>3
        <4> QED BY <4>1, <2>3, <3>1
      <3> QED BY <3>2, <3>3
    <2>6. v[0] = LandFirst(g, p, z)
      BY <2>3
    <2>7. \A e \in 0 .. d : v[e] = IF e = 0 THEN LandFirst(g, p, z) ELSE LandLevel(g, p, z, v[e - 1])
      BY <2>5, <2>6
    <2>8. v = LandLevels(g, p, z, d, v)
      BY <2>2, <2>7 DEF LandLevels
    <2> QED BY <2>8
  <1> HIDE DEF G
  <1>3. m \in G
    BY <1>1, <1>2, InductionUpTo
  <1> QED BY <1>3 DEF G

\* Lands is made with it.
LEMMA LandUpToIs ==
    ASSUME NEW g, NEW p, NEW z, NEW w
    PROVE  LandUpTo(g, p, z, w) = LandLevels(g, p, z, Len(g.layout), w)
  <1> DEFINE At(k) == [b \in Int |->
                 IF b <= 0 THEN b
                 ELSE IF RunsAt(g.body[b], p, z) # 0 THEN g.body[b][RunsAt(g.body[b], p, z)]
                 ELSE IF k = 0 THEN Spins ELSE w[k - 1][Taken(g, b, z)]]
  <1>1. At(0) = LandFirst(g, p, z)
    BY DEF LandFirst
  <1>2. ASSUME NEW k, k # 0 PROVE At(k) = LandLevel(g, p, z, w[k - 1])
    BY <1>2 DEF LandLevel
  <1>3. LandUpTo(g, p, z, w) = [k \in 0 .. Len(g.layout) |-> At(k)]
    BY DEF LandUpTo
  <1> HIDE DEF At
  <1>4. \A k \in 0 .. Len(g.layout) :
           At(k) = IF k = 0 THEN LandFirst(g, p, z) ELSE LandLevel(g, p, z, w[k - 1])
    BY <1>1, <1>2
  <1> QED BY <1>3, <1>4 DEF LandLevels

\* Lands block by block.
LEMMA LandsRecurses ==
    ASSUME NEW g, NEW p, NEW z, Len(g.layout) \in Nat
    PROVE  \E w : /\ w = LandLevels(g, p, z, Len(g.layout), w)
                  /\ \A x : Lands(g, p, x, z) = w[Len(g.layout)][x]
  <1> DEFINE v == CHOOSE w : w = LandUpTo(g, p, z, w)
  <1>1. \A x : Lands(g, p, x, z) = v[Len(g.layout)][x]
    BY DEF Lands, LandUpTo, RunsAt
  <1>2. \E w : w = LandUpTo(g, p, z, w)
    BY LandLevelsExist, LandUpToIs
  <1>3. v = LandUpTo(g, p, z, v)
    BY <1>2
  <1> HIDE DEF v
  <1>4. v = LandLevels(g, p, z, Len(g.layout), v)
    BY <1>3, LandUpToIs
  <1> QED BY <1>1, <1>4

\* Blocks without code that runs are passed over.
Stops(n, g, p, z) == [b \in 1 .. n |-> Runs(g.body[b], p, z)]

\* Where each block goes.
Goes(n, g, z) == [b \in 1 .. n |-> Taken(g, b, z)]

\* That is a block, the caller or nowhere.
LEMMA GoesType ==
    ASSUME NEW n \in Nat \ {0}, NEW g \in Functional(n), NEW z, NEW b \in 1 .. n
    PROVE  Taken(g, b, z) \in Ways(n)
  <1>1. g.term[b] \in Terminators(1 .. n)
    BY BlockIs
  <1>2. After(g, b) \in Ways(n)
    <2>1. b = n => After(g, b) = None
      BY BlockIs
    <2>2. b # n => After(g, b) = b + 1 /\ b + 1 \in 1 .. n
      BY BlockIs
    <2> QED BY <2>1, <2>2 DEF Ways
  <1>3. Returns \in Ways(n) /\ 1 .. n \subseteq Ways(n)
    BY DEF Ways
  <1>4. PICK blocks : blocks = 1 .. n
    OBVIOUS
  <1>5. \/ g.term[b] = <<>>
        \/ g.term[b] = <<RET>>
        \/ \E x \in blocks : g.term[b] = <<B(x)>>
        \/ \E x \in blocks, c \in DOMAIN getOppositeCondition : g.term[b] = <<BCC(x, c)>>
        \/ \E x, y \in blocks, c \in DOMAIN getOppositeCondition : g.term[b] = <<BCC(x, c), B(y)>>
    BY <1>1, <1>4, TerminatorForms
  <1> QED BY <1>2, <1>3, <1>4, <1>5, TakenForms

\* Lands is what such a walk finds.
LEMMA LandsIs ==
    ASSUME NEW n \in Nat \ {0}, NEW g \in Functional(n), NEW p, NEW z
    PROVE  \E steps : /\ Walks(n, n + 1, Stops(n, g, p, z), Goes(n, g, z), steps)
                      /\ \A x : Lands(g, p, x, z) = steps[n][x]
  <1>0. Len(g.layout) = n
    BY BlocksAre
  <1>1. PICK w : /\ w = LandLevels(g, p, z, n, w)
                 /\ \A x : Lands(g, p, x, z) = w[n][x]
    BY <1>0, LandsRecurses
  <1>2. PICK steps : steps = [k \in 0 .. n + 1 |-> IF k = n + 1 THEN LandLevel(g, p, z, w[n]) ELSE w[k]]
    OBVIOUS
  <1>3. \A k \in 0 .. n : k \in 0 .. n + 1 /\ k # n + 1
    OBVIOUS
  <1>4. \A k \in 0 .. n : steps[k] = w[k]
    BY <1>2, <1>3
  <1>5. \A k \in 0 .. n : w[k] = IF k = 0 THEN LandFirst(g, p, z) ELSE LandLevel(g, p, z, w[k - 1])
    BY <1>1 DEF LandLevels
  <1>6. \A k \in 0 .. n + 1 :
           steps[k] = IF k = 0 THEN LandFirst(g, p, z) ELSE LandLevel(g, p, z, steps[k - 1])
    <2> TAKE k \in 0 .. n + 1
    <2>1. CASE k = n + 1
      <3>1. n \in 0 .. n /\ k # 0 /\ k - 1 = n
        BY <2>1
      <3>2. steps[k] = LandLevel(g, p, z, w[n])
        BY <1>2, <2>1
      <3> QED BY <3>1, <3>2, <1>4
    <2>2. CASE k # n + 1
      <3>1. k \in 0 .. n /\ (k # 0 => k - 1 \in 0 .. n)
        BY <2>2
      <3> QED BY <3>1, <1>4, <1>5
    <2> QED BY <2>1, <2>2
  <1>7. ASSUME NEW b \in Ways(n), NEW v
        PROVE  /\ LandFirst(g, p, z)[b] = IF b \in {None, Returns} THEN b
                     ELSE IF Stops(n, g, p, z)[b] # 0 THEN Stops(n, g, p, z)[b] ELSE Spins
               /\ LandLevel(g, p, z, v)[b] = IF b \in {None, Returns} THEN b
                     ELSE IF Stops(n, g, p, z)[b] # 0 THEN Stops(n, g, p, z)[b] ELSE v[Goes(n, g, z)[b]]
    <2>1. b \in Int /\ (b <= 0 <=> b \in {None, Returns}) /\ (b \notin {None, Returns} => b \in 1 .. n)
      BY DEF Ways, None, Returns
    <2>2. CASE b \in {None, Returns}
      BY <2>1, <2>2 DEF LandFirst, LandLevel
    <2>3. CASE b \notin {None, Returns}
      <3>1. b \in 1 .. n /\ ~(b <= 0)
        BY <2>1, <2>3
      <3>2. Stops(n, g, p, z)[b] = Runs(g.body[b], p, z) /\ Goes(n, g, z)[b] = Taken(g, b, z)
        BY <3>1 DEF Stops, Goes
      <3>3. RunsAt(g.body[b], p, z) # 0 <=> Runs(g.body[b], p, z) # 0
        <4>1. g.body[b] \in Seq(1 .. n)
          BY <3>1, BlockIs
        <4>2. RunsAt(g.body[b], p, z) = 0 \/ RunsAt(g.body[b], p, z) \in 1 .. Len(g.body[b])
          BY <4>1, RunsAtIs
        <4>3. \A i \in 1 .. Len(g.body[b]) : g.body[b][i] \in 1 .. n
          BY <4>1
        <4>4. \A x \in 1 .. n : x # 0
          OBVIOUS
        <4> QED BY <4>2, <4>3, <4>4 DEF Runs
      <3>4. Runs(g.body[b], p, z) # 0 => Runs(g.body[b], p, z) = g.body[b][RunsAt(g.body[b], p, z)]
        BY <3>3 DEF Runs
      <3>5. LandFirst(g, p, z)[b] = IF RunsAt(g.body[b], p, z) # 0
                 THEN g.body[b][RunsAt(g.body[b], p, z)] ELSE Spins
        BY <3>1, <2>1 DEF LandFirst
      <3>6. LandLevel(g, p, z, v)[b] = IF RunsAt(g.body[b], p, z) # 0
                 THEN g.body[b][RunsAt(g.body[b], p, z)] ELSE v[Taken(g, b, z)]
        BY <3>1, <2>1 DEF LandLevel
      <3> QED BY <2>3, <3>2, <3>3, <3>4, <3>5, <3>6
    <2> QED BY <2>2, <2>3
  <1>8. Walks(n, n + 1, Stops(n, g, p, z), Goes(n, g, z), steps)
    <2> SUFFICES ASSUME NEW k \in 0 .. n + 1, NEW b \in Ways(n)
                 PROVE  steps[k][b] = IF b \in {None, Returns} THEN b
                                      ELSE IF Stops(n, g, p, z)[b] # 0 THEN Stops(n, g, p, z)[b]
                                      ELSE IF k = 0 THEN Spins ELSE steps[k - 1][Goes(n, g, z)[b]]
      BY DEF Walks
    <2>1. CASE k = 0
      BY <2>1, <1>6, <1>7
    <2>2. CASE k # 0
      <3>1. steps[k] = LandLevel(g, p, z, steps[k - 1])
        BY <2>2, <1>6
      <3>2. PICK v : v = steps[k - 1]
        OBVIOUS
      <3>3. LandLevel(g, p, z, v)[b] = IF b \in {None, Returns} THEN b
                     ELSE IF Stops(n, g, p, z)[b] # 0 THEN Stops(n, g, p, z)[b] ELSE v[Goes(n, g, z)[b]]
        BY <1>7
      <3> QED BY <3>1, <3>2, <3>3, <2>2
    <2> QED BY <2>1, <2>2
  <1>9. n \in 0 .. n
    OBVIOUS
  <1> QED BY <1>1, <1>4, <1>8, <1>9

\* What comes after u.
RestAfter(s, u) == SubSeq(s, IndexOf(s, u) + 1, Len(s))

\* Sequences of the same elements are the same.
LEMMA SequencesSame ==
    ASSUME NEW S, NEW s \in Seq(S), NEW t \in Seq(S), Len(s) = Len(t),
           \A i \in 1 .. Len(s) : s[i] = t[i]
    PROVE  s = t
  OBVIOUS

\* The rest of a sequence after a place.
LEMMA RestIs ==
    ASSUME NEW S, NEW s \in Seq(S), NoRepeats(s), NEW k \in 1 .. Len(s)
    PROVE  /\ RestAfter(s, s[k]) \in Seq(S) /\ Len(RestAfter(s, s[k])) = Len(s) - k
           /\ \A i \in 1 .. Len(s) - k : RestAfter(s, s[k])[i] = s[k + i]
  <1>1. IndexOf(s, s[k]) = k
    BY FirstAt
  <1>2. RestAfter(s, s[k]) = SubSeq(s, k + 1, Len(s))
    BY <1>1 DEF RestAfter
  <1>3. Len(s) \in Nat /\ k \in 1 .. Len(s)
    OBVIOUS
  <1>4. \A i \in 1 .. Len(s) - k : k + i \in 1 .. Len(s) /\ k + 1 + i - 1 = k + i
    BY <1>3
  <1> DEFINE r == SubSeq(s, k + 1, Len(s))
  <1>5. r \in Seq(S)
    <2>1. \A i \in k + 1 .. Len(s) : s[i] \in S
      <3>1. \A i \in k + 1 .. Len(s) : i \in 1 .. Len(s)
        BY <1>3
      <3> QED BY <3>1
    <2> QED BY <2>1, <1>3
  <1>6. Len(r) = Len(s) - k
    BY <1>3
  <1>7. \A i \in 1 .. Len(s) - k : r[i] = s[k + i]
    BY <1>3, <1>4
  <1> QED BY <1>2, <1>5, <1>6, <1>7

\* The rest of two sequences joined.
LEMMA RestOfJoin ==
    ASSUME NEW S, NEW s \in Seq(S), NEW t \in Seq(S), NoRepeats(s), NoRepeats(t),
           ToSet(s) \cap ToSet(t) = {}, NEW u
    PROVE  /\ u \in ToSet(s) => RestAfter(s \o t, u) = RestAfter(s, u) \o t
           /\ u \in ToSet(t) => RestAfter(s \o t, u) = RestAfter(t, u)
  <1> DEFINE j == s \o t
  <1>0. /\ j \in Seq(S) /\ Len(j) = Len(s) + Len(t) /\ Len(s) \in Nat /\ Len(t) \in Nat
        /\ \A i \in 1 .. Len(s) : j[i] = s[i]
        /\ \A i \in 1 .. Len(t) : j[Len(s) + i] = t[i]
        /\ NoRepeats(j)
    BY JoinOf
  <1>1. ASSUME u \in ToSet(s) PROVE RestAfter(j, u) = RestAfter(s, u) \o t
    <2>1. PICK k \in 1 .. Len(s) : s[k] = u
      BY <1>1, Members
    <2>2. k \in 1 .. Len(j) /\ j[k] = u
      BY <2>1, <1>0
    <2> HIDE DEF j
    <2>3. /\ RestAfter(j, u) \in Seq(S) /\ Len(RestAfter(j, u)) = Len(j) - k
          /\ \A i \in 1 .. Len(j) - k : RestAfter(j, u)[i] = j[k + i]
      BY <2>2, <1>0, RestIs
    <2>4. /\ RestAfter(s, u) \in Seq(S) /\ Len(RestAfter(s, u)) = Len(s) - k
          /\ \A i \in 1 .. Len(s) - k : RestAfter(s, u)[i] = s[k + i]
      BY <2>1, RestIs
    <2> DEFINE r == RestAfter(s, u)
    <2>5. /\ r \o t \in Seq(S) /\ Len(r \o t) = Len(r) + Len(t)
          /\ \A i \in 1 .. Len(r) : (r \o t)[i] = r[i]
          /\ \A i \in 1 .. Len(t) : (r \o t)[Len(r) + i] = t[i]
      <3>1. r \in Seq(S)
        BY <2>4
      <3> HIDE DEF r
      <3> QED BY <3>1, JoinOf
    <2>6. PICK q : q = r \o t
      OBVIOUS
    <2>7. PICK w : w = RestAfter(j, u)
      OBVIOUS
    <2> HIDE DEF r
    <2>8. \A i \in 1 .. Len(j) - k : w[i] = q[i]
      <3> TAKE i \in 1 .. Len(j) - k
      <3>1. w[i] = j[k + i]
        BY <2>3, <2>7
      <3>2. CASE i \in 1 .. Len(s) - k
        <4>1. q[i] = s[k + i]
          BY <3>2, <2>4, <2>5, <2>6 DEF r
        <4>2. k + i \in 1 .. Len(s)
          BY <3>2, <2>1, <1>0
        <4> QED BY <4>1, <4>2, <3>1, <1>0
      <3>3. CASE i \notin 1 .. Len(s) - k
        <4>1. PICK m \in 1 .. Len(t) : m = i - (Len(s) - k)
          <5>1. i - (Len(s) - k) \in 1 .. Len(t)
            BY <3>3, <2>1, <1>0
          <5> QED BY <5>1
        <4>2. i = Len(s) - k + m /\ k + i = Len(s) + m
          BY <4>1, <2>1, <1>0
        <4>3. q[i] = t[m]
          BY <4>2, <2>4, <2>5, <2>6 DEF r
        <4>4. j[k + i] = t[m]
          BY <4>2, <1>0
        <4> QED BY <4>3, <4>4, <3>1
      <3> QED BY <3>2, <3>3
    <2>9. Len(q) = Len(j) - k /\ Len(w) = Len(j) - k /\ q \in Seq(S) /\ w \in Seq(S)
      <3>1. Len(q) = Len(s) - k + Len(t)
        BY <2>4, <2>5, <2>6 DEF r
      <3>2. Len(s) - k + Len(t) = Len(j) - k
        BY <1>0, <2>1
      <3> QED BY <3>1, <3>2, <2>3, <2>5, <2>6, <2>7
    <2>10. w = q
      BY <2>8, <2>9, SequencesSame
    <2> QED BY <2>6, <2>7, <2>10 DEF r
  <1>2. ASSUME u \in ToSet(t) PROVE RestAfter(j, u) = RestAfter(t, u)
    <2>1. PICK k \in 1 .. Len(t) : t[k] = u
      BY <1>2, Members
    <2>2. Len(s) + k \in 1 .. Len(j) /\ j[Len(s) + k] = u
      BY <2>1, <1>0
    <2>a. PICK h : h = Len(s) + k
      OBVIOUS
    <2> HIDE DEF j
    <2>3. /\ RestAfter(j, u) \in Seq(S) /\ Len(RestAfter(j, u)) = Len(j) - h
          /\ \A i \in 1 .. Len(j) - h : RestAfter(j, u)[i] = j[h + i]
      <3>1. h \in 1 .. Len(j) /\ j[h] = u
        BY <2>2, <2>a
      <3> QED BY <3>1, <1>0, RestIs
    <2>4. /\ RestAfter(t, u) \in Seq(S) /\ Len(RestAfter(t, u)) = Len(t) - k
          /\ \A i \in 1 .. Len(t) - k : RestAfter(t, u)[i] = t[k + i]
      BY <2>1, RestIs
    <2>5. PICK q : q = RestAfter(t, u)
      OBVIOUS
    <2>6. PICK w : w = RestAfter(j, u)
      OBVIOUS
    <2>7. Len(j) - h = Len(t) - k
      BY <2>a, <1>0
    <2>8. \A i \in 1 .. Len(t) - k : w[i] = q[i]
      <3> TAKE i \in 1 .. Len(t) - k
      <3>1. w[i] = j[h + i] /\ q[i] = t[k + i]
        BY <2>3, <2>4, <2>5, <2>6, <2>7
      <3>2. PICK m : m = k + i
        OBVIOUS
      <3>3. m \in 1 .. Len(t) /\ h + i = Len(s) + m
        BY <3>2, <2>a, <2>1, <1>0
      <3> QED BY <3>1, <3>2, <3>3, <1>0
    <2>9. w = q
      <3>1. Len(w) = Len(t) - k /\ Len(q) = Len(t) - k /\ w \in Seq(S) /\ q \in Seq(S)
        BY <2>3, <2>4, <2>5, <2>6, <2>7
      <3> QED BY <3>1, <2>8, SequencesSame
    <2> QED BY <2>5, <2>6, <2>9
  <1> QED BY <1>1, <1>2
-----------------------------------------------------------------------------
(* What a function means.                                                  *)

\* The same as Means; kd is what the code is.
MeansBy(kd, g, p) ==
    [u \in Code(g) \cup {0} |-> [z \in Flagsets |->
        IF u = 0 THEN Lands(g, p, Head(g.layout), z)
        ELSE IF kd[u] = "noreturn" THEN Returns
        ELSE LandsAfter(g, p, CHOOSE b \in InLayout(g) : Contains(g.body[b], u), u, z)]]

\* The stretch that runs next, in block b or where it goes to.
RunsOn(g, p, b, u, z) ==
    IF Runs(RestAfter(g.body[b], u), p, z) # 0 THEN Runs(RestAfter(g.body[b], u), p, z)
    ELSE Lands(g, p, Taken(g, b, z), z)

\* LandsAfter is made with it.
LEMMA LandsAfterIs ==
    ASSUME NEW n \in Nat \ {0}, NEW g \in Functional(n), NEW p, NEW z, NEW b \in 1 .. n,
           NoRepeats(g.body[b]), NEW u \in ToSet(g.body[b])
    PROVE  LandsAfter(g, p, b, u, z) = RunsOn(g, p, b, u, z)
  <1> DEFINE rest == RestAfter(g.body[b], u)
  <1>1. LandsAfter(g, p, b, u, z) = IF RunsAt(rest, p, z) # 0 THEN rest[RunsAt(rest, p, z)]
                                    ELSE Lands(g, p, Taken(g, b, z), z)
    BY DEF LandsAfter, RestAfter, IndexOf, RunsAt
  <1>2. g.body[b] \in Seq(1 .. n)
    BY BlockIs
  <1>3. PICK k \in 1 .. Len(g.body[b]) : g.body[b][k] = u
    <2>1. PICK s \in Seq(1 .. n) : s = g.body[b]
      BY <1>2
    <2>2. \E k \in 1 .. Len(s) : s[k] = u
      BY <2>1, Members
    <2> QED BY <2>1, <2>2
  <1>4. rest \in Seq(1 .. n)
    BY <1>2, <1>3, RestIs
  <1> HIDE DEF rest
  <1>5. RunsAt(rest, p, z) = 0 \/ RunsAt(rest, p, z) \in 1 .. Len(rest)
    BY <1>4, RunsAtIs
  <1>6. \A i \in 1 .. Len(rest) : rest[i] \in 1 .. n
    BY <1>4
  <1>7. \A x \in 1 .. n : x # 0
    OBVIOUS
  <1>8. RunsAt(rest, p, z) # 0 <=> Runs(rest, p, z) # 0
    BY <1>5, <1>6, <1>7 DEF Runs
  <1>9. RunsAt(rest, p, z) # 0 => Runs(rest, p, z) = rest[RunsAt(rest, p, z)]
    BY DEF Runs
  <1> QED BY <1>1, <1>8, <1>9 DEF RunsOn, rest

\* The code is that of the blocks.
LEMMA CodeIs ==
    ASSUME NEW n \in Nat \ {0}, NEW g \in Functional(n)
    PROVE  /\ \A u : u \in Code(g) <=> \E b \in 1 .. n : u \in ToSet(g.body[b])
           /\ Code(g) \subseteq 1 .. n /\ 0 \notin Code(g)
  <1>1. InLayout(g) = 1 .. n
    BY BlocksAre
  <1>2. Code(g) = UNION {ToSet(g.body[b]) : b \in 1 .. n}
    BY <1>1 DEF Code
  <1>3. \A b \in 1 .. n : ToSet(g.body[b]) \subseteq 1 .. n
    BY BlockIs, Members
  <1> QED BY <1>2, <1>3

\* From the entry, and from each stretch of each block.
MeansAt(n, kd, g, p, z) ==
    /\ MeansBy(kd, g, p)[0][z] = Lands(g, p, 1, z)
    /\ \A b \in 1 .. n : \A u \in ToSet(g.body[b]) :
          MeansBy(kd, g, p)[u][z] = IF kd[u] = "noreturn" THEN Returns ELSE RunsOn(g, p, b, u, z)

\* Means says that of all code.
LEMMA MeansIs ==
    ASSUME NEW n \in Nat \ {0}, NEW g \in Functional(n), CodeOnce(g), NEW p, NEW kd, NEW z \in Flagsets
    PROVE  MeansAt(n, kd, g, p, z) /\ DOMAIN MeansBy(kd, g, p) = Code(g) \cup {0}
  <1>1. InLayout(g) = 1 .. n /\ DOMAIN g.term = 1 .. n /\ Head(g.layout) = 1
    BY BlocksAre
  <1>2. MeansBy(kd, g, p)[0][z] = Lands(g, p, 1, z)
    BY <1>1 DEF MeansBy
  <1>3. ASSUME NEW b \in 1 .. n, NEW u \in ToSet(g.body[b])
        PROVE  MeansBy(kd, g, p)[u][z] = IF kd[u] = "noreturn" THEN Returns ELSE RunsOn(g, p, b, u, z)
    <2>1. u \in Code(g) /\ u # 0
      BY CodeIs
    <2>2. MeansBy(kd, g, p)[u][z] = IF kd[u] = "noreturn" THEN Returns
              ELSE LandsAfter(g, p, CHOOSE d \in InLayout(g) : Contains(g.body[d], u), u, z)
      BY <2>1 DEF MeansBy
    <2>3. \A d \in 1 .. n : Contains(g.body[d], u) <=> d = b
      <3> TAKE d \in 1 .. n
      <3>1. Contains(g.body[d], u) <=> u \in ToSet(g.body[d])
        BY BlockIs, Members
      <3> QED BY <3>1, <1>1 DEF CodeOnce
    <2>4. (CHOOSE d \in InLayout(g) : Contains(g.body[d], u)) = b
      BY <2>3, <1>1
    <2>5. NoRepeats(g.body[b])
      BY <1>1 DEF CodeOnce
    <2>6. LandsAfter(g, p, b, u, z) = RunsOn(g, p, b, u, z)
      BY <2>5, LandsAfterIs
    <2> QED BY <2>2, <2>4, <2>6
  <1>4. DOMAIN MeansBy(kd, g, p) = Code(g) \cup {0}
    BY DEF MeansBy
  <1> QED BY <1>2, <1>3, <1>4 DEF MeansAt

\* Block C of a triangle converted: its code runs under condition c, by q.
Converting(n, b, C, Nx, h, t, c, q) ==
    /\ TriangleAt(n, b, C, Nx)
    /\ \E keep, e : GoesOn(b, C, Nx, t, keep, e) /\ ConvertedTo(n, h, b, C, t, keep, e)
    /\ CodeOnce(h) /\ Len(f.preds[C]) = 1
    /\ \A z \in Flagsets : Taken(f, b, z) = IF Holds(c, z) THEN C ELSE Nx
    /\ \A u \in ToSet(f.body[C]) : predicate[u] = "AL" /\ q[u] = c
    /\ \A u \in (1 .. n) \ ToSet(f.body[C]) : q[u] = predicate[u]
    /\ \A u \in 1 .. n : kind[u] # "alu" => predicate[u] = "AL"

\* No other block goes to C, unless it ends in a call that does not return.
LEMMA OnlyHead ==
    ASSUME NEW n, NEW b, NEW C, NEW Nx, NEW h, NEW t, NEW c, NEW q,
           Converting(n, b, C, Nx, h, t, c, q), NEW x \in 1 .. n, x # b, NEW z \in Flagsets,
           f.body[x] = <<>> \/ kind[Last(f.body[x])] # "noreturn"
    PROVE  Taken(f, x, z) # C
  <1>1. /\ n \in Nat \ {0} /\ f \in Functional(n) /\ EdgesRight(f, kind)
        /\ b \in 1 .. n /\ C \in 1 .. n /\ Len(f.preds[C]) = 1
    BY DEF Converting, TriangleAt
  <1>2. SUFFICES ASSUME Taken(f, x, z) = C PROVE FALSE
    OBVIOUS
  <1>3. C # Returns
    BY <1>1 DEF Returns
  <1>4. C \in Destinations(f, kind, x)
    BY <1>2, <1>3 DEF Destinations
  <1>5. DOMAIN f.term = 1 .. n
    BY <1>1, BlocksAre
  <1>6. x \in ToSet(f.preds[C])
    BY <1>1, <1>4, <1>5 DEF EdgesRight
  <1>7. b \in ToSet(f.preds[C])
    <2>1. C \in ToSet(f.succs[b])
      BY DEF Converting, TriangleAt, Splits
    <2> QED BY <2>1, <1>1, <1>5 DEF EdgesRight
  <1>8. f.preds[C] \in Seq(1 .. n)
    BY <1>1, BlockIs
  <1>9. ToSet(f.preds[C]) = {f.preds[C][1]}
    BY <1>1, <1>8, SingleIs
  <1> QED BY <1>6, <1>7, <1>9

\* The first element.
LEMMA NonEmpty ==
    ASSUME NEW S, NEW s \in Seq(S), s # <<>>
    PROVE  Len(s) > 0 /\ 1 \in 1 .. Len(s) /\ s[1] \in S
  OBVIOUS

\* What a conversion leaves of the blocks.
LEMMA ConvertingIs ==
    ASSUME NEW n, NEW b, NEW C, NEW Nx, NEW h, NEW t, NEW c, NEW q,
           Converting(n, b, C, Nx, h, t, c, q)
    PROVE  /\ n \in Nat \ {0} /\ f \in Functional(n) /\ h \in Functional(n)
           /\ b \in 1 .. n /\ C \in 1 .. n /\ Nx \in 1 .. n /\ b # C /\ b # Nx /\ C # Nx
           /\ f.body[C] # <<>> /\ h.body[C] = <<>> /\ h.body[b] = f.body[b] \o f.body[C]
           /\ \A d \in (1 .. n) \ {b, C} : h.body[d] = f.body[d]
           /\ \A d \in (1 .. n) \ {b} : \A z : Taken(h, d, z) = Taken(f, d, z)
           /\ \A z : Taken(f, C, z) = Nx /\ Taken(h, b, z) \in {Nx, C}
           /\ CodeOnce(f) /\ CodeOnce(h)
           /\ \A u \in ToSet(f.body[C]) : kind[u] = "alu"
  <1>1. /\ n \in Nat \ {0} /\ f \in Functional(n) /\ CodeOnce(f)
        /\ b \in 1 .. n /\ C \in 1 .. n /\ Nx \in 1 .. n /\ b # C /\ b # Nx /\ C # Nx
        /\ f.term[C] = <<>> /\ f.body[C] # <<>> /\ After(f, C) = Nx
        /\ \A u \in ToSet(f.body[C]) : kind[u] = "alu"
    BY DEF Converting, TriangleAt
  <1>2. PICK keep, e : GoesOn(b, C, Nx, t, keep, e) /\ ConvertedTo(n, h, b, C, t, keep, e)
    BY DEF Converting
  <1>3. /\ h \in Functional(n) /\ h.layout = f.layout
        /\ h.body[b] = f.body[b] \o f.body[C] /\ h.body[C] = <<>>
        /\ \A d \in (1 .. n) \ {b, C} : h.body[d] = f.body[d]
        /\ h.term[b] = t /\ \A d \in (1 .. n) \ {b} : h.term[d] = f.term[d]
    BY <1>2 DEF ConvertedTo
  <1>4. \A d \in (1 .. n) \ {b} : \A z : Taken(h, d, z) = Taken(f, d, z)
    BY <1>3, TakenSame
  <1>5. \A z : Taken(f, C, z) = Nx
    BY <1>1, TakenForms
  <1>6. \A z : Taken(h, b, z) \in {Nx, C}
    <2> TAKE z
    <2>1. CASE t = <<>> /\ keep = C /\ After(f, b) = C
      <3>1. After(h, b) = C
        <4>1. \A d \in 1 .. n : After(h, d) = IF d = n THEN None ELSE d + 1
          BY <1>1, <1>3, BlocksAre
        <4>2. \A d \in 1 .. n : After(f, d) = IF d = n THEN None ELSE d + 1
          BY <1>1, BlocksAre
        <4> QED BY <4>1, <4>2, <2>1, <1>1
      <3>2. Taken(h, b, z) = After(h, b)
        BY <2>1, <1>3, TakenForms
      <3> QED BY <3>1, <3>2
    <2>2. CASE t = <<B(Nx)>> /\ keep = Nx
      BY <2>2, <1>3, TakenForms
    <2> QED BY <2>1, <2>2, <1>2 DEF GoesOn
  <1>7. CodeOnce(h)
    BY DEF Converting
  <1> QED BY <1>1, <1>3, <1>4, <1>5, <1>6, <1>7

\* What runs first in each block, before and after.
LEMMA ConvertingRuns ==
    ASSUME NEW n, NEW b, NEW C, NEW Nx, NEW h, NEW t, NEW c, NEW q,
           Converting(n, b, C, Nx, h, t, c, q), NEW z \in Flagsets
    PROVE  /\ \A s \in Seq(1 .. n) : ToSet(s) \cap ToSet(f.body[C]) = {} =>
                 Runs(s, q, z) = Runs(s, predicate, z)
           /\ \A s \in Seq(1 .. n) : ToSet(s) \subseteq ToSet(f.body[C]) =>
                 /\ Holds(c, z) => Runs(s, q, z) = Runs(s, predicate, z)
                 /\ ~Holds(c, z) => Runs(s, q, z) = 0
                 /\ s # <<>> => Runs(s, predicate, z) = s[1] /\ s[1] # 0
  <1>0. n \in Nat
    BY ConvertingIs
  <1>1. ASSUME NEW s \in Seq(1 .. n), ToSet(s) \cap ToSet(f.body[C]) = {}
        PROVE  Runs(s, q, z) = Runs(s, predicate, z)
    <2>1. \A u \in ToSet(s) : q[u] = predicate[u]
      <3>1. ToSet(s) \subseteq 1 .. n
        BY Members
      <3> QED BY <3>1, <1>1 DEF Converting
    <2>2. \A u \in ToSet(s) : Holds(q[u], z) <=> Holds(predicate[u], z)
      BY <2>1
    <2> QED BY <2>2, RunsSame
  <1>2. ASSUME NEW s \in Seq(1 .. n), ToSet(s) \subseteq ToSet(f.body[C])
        PROVE  /\ Holds(c, z) => Runs(s, q, z) = Runs(s, predicate, z)
               /\ ~Holds(c, z) => Runs(s, q, z) = 0
               /\ s # <<>> => Runs(s, predicate, z) = s[1] /\ s[1] # 0
    <2>1. \A u \in ToSet(s) : q[u] = c /\ predicate[u] = "AL"
      BY <1>2 DEF Converting
    <2>2. Holds("AL", z)
      BY DEF Holds
    <2>3. Holds(c, z) => Runs(s, q, z) = Runs(s, predicate, z)
      <3> HAVE Holds(c, z)
      <3>1. \A u \in ToSet(s) : Holds(q[u], z) <=> Holds(predicate[u], z)
        BY <2>1, <2>2
      <3> QED BY <3>1, RunsSame
    <2>4. ~Holds(c, z) => Runs(s, q, z) = 0
      <3> HAVE ~Holds(c, z)
      <3>1. \A u \in ToSet(s) : ~Holds(q[u], z)
        BY <2>1
      <3> QED BY <3>1, <1>0, RunsIs
    <2>5. s # <<>> => Runs(s, predicate, z) = s[1] /\ s[1] # 0
      <3> HAVE s # <<>>
      <3>1. Len(s) > 0 /\ 1 \in 1 .. Len(s) /\ s[1] \in 1 .. n
        BY NonEmpty
      <3>2. s[1] \in ToSet(s)
        BY <3>1, Members
      <3>3. Holds(predicate[s[1]], z)
        BY <3>2, <2>1, <2>2
      <3>4. s[1] # 0
        BY <3>1
      <3> QED BY <3>1, <3>3, <3>4, <1>0, RunsIs
    <2> QED BY <2>3, <2>4, <2>5
  <1> QED BY <1>1, <1>2

\* A block in which nothing runs does not end in a call that does not return.
LEMMA NothingRuns ==
    ASSUME NEW n, NEW b, NEW C, NEW Nx, NEW h, NEW t, NEW c, NEW q,
           Converting(n, b, C, Nx, h, t, c, q), NEW z \in Flagsets,
           NEW s \in Seq(1 .. n), s # <<>>, Runs(s, predicate, z) = 0
    PROVE  kind[Last(s)] # "noreturn"
  <1>0. n \in Nat
    BY ConvertingIs
  <1>1. Last(s) \in ToSet(s) /\ ToSet(s) \subseteq 1 .. n
    BY LastIn, Members
  <1>2. ~Holds(predicate[Last(s)], z)
    BY <1>0, <1>1, RunsIs
  <1>3. predicate[Last(s)] # "AL"
    BY <1>2 DEF Holds
  <1>4. \A u \in 1 .. n : kind[u] # "alu" => predicate[u] = "AL"
    BY DEF Converting
  <1> QED BY <1>1, <1>3, <1>4

\* Block C is passed over by those that go to it no more.
LEMMA ConvertingBypass ==
    ASSUME NEW n, NEW b, NEW C, NEW Nx, NEW h, NEW t, NEW c, NEW q,
           Converting(n, b, C, Nx, h, t, c, q), NEW z \in Flagsets
    PROVE  Bypass(n, b, C, Nx, Stops(n, f, predicate, z), Goes(n, f, z), Stops(n, h, q, z), Goes(n, h, z))
  <1> DEFINE stop == Stops(n, f, predicate, z)
             to == Goes(n, f, z)
             stop2 == Stops(n, h, q, z)
             to2 == Goes(n, h, z)
  <1>1. /\ n \in Nat \ {0} /\ f \in Functional(n) /\ h \in Functional(n)
        /\ b \in 1 .. n /\ C \in 1 .. n /\ Nx \in 1 .. n /\ b # C /\ C # Nx
        /\ f.body[C] # <<>> /\ h.body[C] = <<>> /\ h.body[b] = f.body[b] \o f.body[C]
        /\ \A d \in (1 .. n) \ {b, C} : h.body[d] = f.body[d]
        /\ \A d \in (1 .. n) \ {b} : Taken(h, d, z) = Taken(f, d, z)
        /\ Taken(f, C, z) = Nx /\ Taken(h, b, z) \in {Nx, C}
        /\ CodeOnce(f)
    <2>1. /\ n \in Nat \ {0} /\ f \in Functional(n) /\ h \in Functional(n)
          /\ b \in 1 .. n /\ C \in 1 .. n /\ Nx \in 1 .. n /\ b # C /\ b # Nx /\ C # Nx
          /\ f.body[C] # <<>> /\ h.body[C] = <<>> /\ h.body[b] = f.body[b] \o f.body[C]
          /\ \A d \in (1 .. n) \ {b, C} : h.body[d] = f.body[d]
          /\ \A d \in (1 .. n) \ {b} : \A y : Taken(h, d, y) = Taken(f, d, y)
          /\ \A y : Taken(f, C, y) = Nx /\ Taken(h, b, y) \in {Nx, C}
          /\ CodeOnce(f) /\ CodeOnce(h)
          /\ \A u \in ToSet(f.body[C]) : kind[u] = "alu"
      BY ConvertingIs
    <2> QED BY <2>1
  <1>2. \A x \in 1 .. n : /\ stop[x] = Runs(f.body[x], predicate, z) /\ to[x] = Taken(f, x, z)
                          /\ stop2[x] = Runs(h.body[x], q, z) /\ to2[x] = Taken(h, x, z)
    BY DEF Stops, Goes
  <1>3. to \in [1 .. n -> Ways(n)] /\ to2 \in [1 .. n -> Ways(n)]
    BY <1>1, GoesType DEF Goes
  <1> HIDE DEF stop, to, stop2, to2
  <1>4. \A x \in 1 .. n : f.body[x] \in Seq(1 .. n)
    BY <1>1, BlockIs
  <1>5. \A x \in (1 .. n) \ {C} : ToSet(f.body[x]) \cap ToSet(f.body[C]) = {}
    <2>1. DOMAIN f.term = 1 .. n
      BY <1>1, BlocksAre
    <2> QED BY <2>1, <1>1 DEF CodeOnce
  <1>6. \A x \in (1 .. n) \ {C} : Runs(f.body[x], q, z) = Runs(f.body[x], predicate, z)
    BY <1>4, <1>5, ConvertingRuns
  <1>7. ASSUME NEW x \in (1 .. n) \ {b, C}
        PROVE  stop2[x] = stop[x] /\ to2[x] = to[x] /\ (stop[x] = 0 => to[x] # C)
    <2>1. stop2[x] = stop[x] /\ to2[x] = to[x]
      BY <1>1, <1>2, <1>6
    <2>2. stop[x] = 0 => to[x] # C
      <3> HAVE stop[x] = 0
      <3>1. Runs(f.body[x], predicate, z) = 0 /\ f.body[x] \in Seq(1 .. n)
        BY <1>2, <1>4
      <3>2. f.body[x] = <<>> \/ kind[Last(f.body[x])] # "noreturn"
        BY <3>1, NothingRuns
      <3>3. Taken(f, x, z) # C
        BY <3>2, OnlyHead
      <3> QED BY <3>3, <1>2
    <2> QED BY <2>1, <2>2
  <1>8. stop2[C] = 0 /\ to2[C] = Nx
    <2>1. Runs(<<>>, q, z) = 0
      <3>1. PICK s : s = <<>>
        OBVIOUS
      <3>2. s \in Seq(1 .. n) /\ ToSet(s) = {}
        BY <3>1 DEF ToSet
      <3>3. n \in Nat
        BY <1>1
      <3>4. Runs(s, q, z) = 0
        BY <3>2, <3>3, RunsIs
      <3> QED BY <3>1, <3>4
    <2> QED BY <2>1, <1>1, <1>2
  <1>9. Runs(h.body[b], q, z) = IF Runs(f.body[b], predicate, z) # 0 THEN Runs(f.body[b], predicate, z)
                                ELSE Runs(f.body[C], q, z)
    <2>1. Runs(f.body[b] \o f.body[C], q, z) = IF Runs(f.body[b], q, z) # 0 THEN Runs(f.body[b], q, z)
                                               ELSE Runs(f.body[C], q, z)
      <3>1. PICK s \in Seq(1 .. n), r \in Seq(1 .. n) : s = f.body[b] /\ r = f.body[C]
        BY <1>1, <1>4
      <3>2. Runs(s \o r, q, z) = IF Runs(s, q, z) # 0 THEN Runs(s, q, z) ELSE Runs(r, q, z)
        BY <1>1, RunsJoin
      <3> QED BY <3>1, <3>2
    <2> QED BY <2>1, <1>1, <1>6
  <1>10. stop[b] # 0 => stop2[b] = stop[b]
    <2>1. stop[b] = Runs(f.body[b], predicate, z) /\ stop2[b] = Runs(h.body[b], q, z)
      BY <1>1, <1>2
    <2> QED BY <2>1, <1>9
  <1>11. ASSUME stop[b] = 0
         PROVE  \/ to[b] = C /\ stop[C] # 0 /\ stop2[b] = stop[C]
                \/ to[b] = Nx /\ stop2[b] = 0 /\ to2[b] \in {Nx, C}
    <2>1. stop2[b] = Runs(f.body[C], q, z)
      <3>1. stop[b] = Runs(f.body[b], predicate, z) /\ stop2[b] = Runs(h.body[b], q, z)
        BY <1>1, <1>2
      <3> QED BY <3>1, <1>9, <1>11
    <2>2. f.body[C] \in Seq(1 .. n) /\ ToSet(f.body[C]) \subseteq ToSet(f.body[C])
      BY <1>1, <1>4
    <2>3. /\ Holds(c, z) => Runs(f.body[C], q, z) = Runs(f.body[C], predicate, z)
          /\ ~Holds(c, z) => Runs(f.body[C], q, z) = 0
          /\ Runs(f.body[C], predicate, z) # 0
      BY <2>2, <1>1, ConvertingRuns
    <2>4. Taken(f, b, z) = IF Holds(c, z) THEN C ELSE Nx
      BY DEF Converting
    <2>5. stop[C] = Runs(f.body[C], predicate, z) /\ to[b] = Taken(f, b, z) /\ to2[b] = Taken(h, b, z)
      BY <1>1, <1>2
    <2>6. CASE Holds(c, z)
      BY <2>1, <2>3, <2>4, <2>5, <2>6
    <2>7. CASE ~Holds(c, z)
      BY <2>1, <2>3, <2>4, <2>5, <2>7, <1>1
    <2> QED BY <2>6, <2>7
  <1>12. Bypass(n, b, C, Nx, stop, to, stop2, to2)
    BY <1>1, <1>3, <1>7, <1>8, <1>10, <1>11 DEF Bypass
  <1> QED BY <1>12 DEF stop, to, stop2, to2

\* Control ends up at the same stretch from every block but C.
LEMMA ConvertingLands ==
    ASSUME NEW n, NEW b, NEW C, NEW Nx, NEW h, NEW t, NEW c, NEW q,
           Converting(n, b, C, Nx, h, t, c, q), NEW z \in Flagsets
    PROVE  /\ \A x \in Ways(n) \ {C} : Lands(h, q, x, z) = Lands(f, predicate, x, z)
           /\ Lands(h, q, C, z) = Lands(f, predicate, Nx, z)
           /\ Lands(f, predicate, C, z) = f.body[C][1]
  <1>1. /\ n \in Nat \ {0} /\ f \in Functional(n) /\ h \in Functional(n)
        /\ b \in 1 .. n /\ C \in 1 .. n /\ Nx \in 1 .. n /\ C # Nx /\ f.body[C] # <<>>
    <2>1. /\ n \in Nat \ {0} /\ f \in Functional(n) /\ h \in Functional(n)
          /\ b \in 1 .. n /\ C \in 1 .. n /\ Nx \in 1 .. n /\ b # C /\ b # Nx /\ C # Nx
          /\ f.body[C] # <<>> /\ h.body[C] = <<>> /\ h.body[b] = f.body[b] \o f.body[C]
          /\ \A d \in (1 .. n) \ {b, C} : h.body[d] = f.body[d]
          /\ \A d \in (1 .. n) \ {b} : \A y : Taken(h, d, y) = Taken(f, d, y)
          /\ \A y : Taken(f, C, y) = Nx /\ Taken(h, b, y) \in {Nx, C}
          /\ CodeOnce(f) /\ CodeOnce(h)
          /\ \A u \in ToSet(f.body[C]) : kind[u] = "alu"
      BY ConvertingIs
    <2> QED BY <2>1
  <1>2. PICK s : /\ Walks(n, n + 1, Stops(n, f, predicate, z), Goes(n, f, z), s)
                 /\ \A x : Lands(f, predicate, x, z) = s[n][x]
    BY <1>1, LandsIs
  <1>3. PICK s2 : /\ Walks(n, n + 1, Stops(n, h, q, z), Goes(n, h, z), s2)
                  /\ \A x : Lands(h, q, x, z) = s2[n][x]
    BY <1>1, LandsIs
  <1>4. Bypass(n, b, C, Nx, Stops(n, f, predicate, z), Goes(n, f, z), Stops(n, h, q, z), Goes(n, h, z))
    BY ConvertingBypass
  <1>5. \A x \in Ways(n) \ {C} : s2[n][x] = s[n][x]
    BY <1>2, <1>3, <1>4, BypassSame
  <1>6. \A x \in Ways(n) \ {C} : Lands(h, q, x, z) = Lands(f, predicate, x, z)
    BY <1>2, <1>3, <1>5
  <1>7. /\ EndsAt(n, Stops(n, f, predicate, z), Goes(n, f, z), s[n])
        /\ EndsAt(n, Stops(n, h, q, z), Goes(n, h, z), s2[n])
    <2>1. n \in Nat /\ Goes(n, f, z) \in [1 .. n -> Ways(n)] /\ Goes(n, h, z) \in [1 .. n -> Ways(n)]
      BY <1>4 DEF Bypass
    <2> QED BY <2>1, <1>2, <1>3, WalksEnd
  <1>8. C \in Ways(n) /\ Nx \in Ways(n) /\ C \notin {None, Returns}
    BY <1>1 DEF Ways, None, Returns
  <1>9. Stops(n, h, q, z)[C] = 0 /\ Goes(n, h, z)[C] = Nx
    BY <1>4 DEF Bypass
  <1>10. s2[n][C] = s2[n][Nx]
    BY <1>7, <1>8, <1>9 DEF EndsAt
  <1>11. Stops(n, f, predicate, z)[C] = f.body[C][1] /\ f.body[C][1] # 0
    <2>1. Stops(n, f, predicate, z)[C] = Runs(f.body[C], predicate, z)
      BY <1>1 DEF Stops
    <2>2. f.body[C] \in Seq(1 .. n) /\ ToSet(f.body[C]) \subseteq ToSet(f.body[C])
      BY <1>1, BlockIs
    <2> QED BY <2>1, <2>2, <1>1, ConvertingRuns
  <1>12. s[n][C] = f.body[C][1]
    BY <1>7, <1>8, <1>11 DEF EndsAt
  <1>13. Nx \in Ways(n) \ {C}
    BY <1>1, <1>8
  <1>14. Lands(h, q, C, z) = Lands(f, predicate, Nx, z)
    BY <1>2, <1>3, <1>5, <1>10, <1>13
  <1>15. Lands(f, predicate, C, z) = f.body[C][1]
    BY <1>2, <1>12
  <1> QED BY <1>6, <1>14, <1>15

\* The elements of a rest are elements of the sequence.
LEMMA RestPart ==
    ASSUME NEW S, NEW s \in Seq(S), NoRepeats(s), NEW u \in ToSet(s)
    PROVE  RestAfter(s, u) \in Seq(S) /\ ToSet(RestAfter(s, u)) \subseteq ToSet(s)
  <1> DEFINE rest == RestAfter(s, u)
  <1>1. PICK k \in 1 .. Len(s) : s[k] = u
    BY Members
  <1>2. /\ rest \in Seq(S) /\ Len(rest) = Len(s) - k
        /\ \A i \in 1 .. Len(s) - k : rest[i] = s[k + i]
    BY <1>1, RestIs
  <1> HIDE DEF rest
  <1>3. \A i \in 1 .. Len(s) - k : k + i \in 1 .. Len(s)
    <2>1. Len(s) \in Nat
      OBVIOUS
    <2> QED BY <2>1
  <1>4. ToSet(rest) \subseteq ToSet(s)
    <2> SUFFICES ASSUME NEW x \in ToSet(rest) PROVE x \in ToSet(s)
      OBVIOUS
    <2>1. PICK i \in 1 .. Len(rest) : rest[i] = x
      BY <1>2, Members
    <2>2. i \in 1 .. Len(s) - k
      BY <1>2
    <2>3. x = s[k + i] /\ k + i \in 1 .. Len(s)
      BY <2>1, <2>2, <1>2, <1>3
    <2> QED BY <2>3, Members
  <1> QED BY <1>2, <1>4 DEF rest

\* From a stretch in another block control goes on as before.
LEMMA OtherRunsOn ==
    ASSUME NEW n, NEW b, NEW C, NEW Nx, NEW h, NEW t, NEW c, NEW q,
           Converting(n, b, C, Nx, h, t, c, q), NEW z \in Flagsets,
           NEW d \in (1 .. n) \ {b, C}, NEW u \in ToSet(f.body[d]), kind[u] # "noreturn"
    PROVE  RunsOn(h, q, d, u, z) = RunsOn(f, predicate, d, u, z)
  <1> DEFINE rest == RestAfter(f.body[d], u)
  <1>1. /\ n \in Nat \ {0} /\ f \in Functional(n) /\ C \in 1 .. n /\ CodeOnce(f)
        /\ h.body[d] = f.body[d] /\ Taken(h, d, z) = Taken(f, d, z)
    <2>1. /\ n \in Nat \ {0} /\ f \in Functional(n) /\ h \in Functional(n)
          /\ b \in 1 .. n /\ C \in 1 .. n /\ Nx \in 1 .. n /\ b # C /\ b # Nx /\ C # Nx
          /\ f.body[C] # <<>> /\ h.body[C] = <<>> /\ h.body[b] = f.body[b] \o f.body[C]
          /\ \A x \in (1 .. n) \ {b, C} : h.body[x] = f.body[x]
          /\ \A x \in (1 .. n) \ {b} : \A y : Taken(h, x, y) = Taken(f, x, y)
          /\ \A y : Taken(f, C, y) = Nx /\ Taken(h, b, y) \in {Nx, C}
          /\ CodeOnce(f) /\ CodeOnce(h)
          /\ \A v \in ToSet(f.body[C]) : kind[v] = "alu"
      BY ConvertingIs
    <2> QED BY <2>1
  <1>2. /\ f.body[d] \in Seq(1 .. n) /\ NoRepeats(f.body[d])
        /\ ToSet(f.body[d]) \cap ToSet(f.body[C]) = {}
    <2>1. DOMAIN f.term = 1 .. n /\ f.body[d] \in Seq(1 .. n)
      BY <1>1, BlocksAre
    <2> QED BY <2>1, <1>1 DEF CodeOnce
  <1>3. PICK s \in Seq(1 .. n) : s = f.body[d]
    BY <1>2
  <1>4. PICK k \in 1 .. Len(s) : s[k] = u
    BY <1>3, Members
  <1>5. /\ rest \in Seq(1 .. n) /\ Len(rest) = Len(s) - k
        /\ \A i \in 1 .. Len(s) - k : rest[i] = s[k + i]
    <2>1. NoRepeats(s)
      BY <1>2, <1>3
    <2>2. RestAfter(s, s[k]) = rest
      BY <1>3, <1>4
    <2> HIDE DEF rest
    <2> QED BY <2>1, <2>2, RestIs
  <1> HIDE DEF rest
  <1>7. ToSet(rest) \subseteq ToSet(s)
    BY <1>2, <1>3, RestPart DEF rest
  <1>8. Runs(rest, q, z) = Runs(rest, predicate, z)
    <2>1. ToSet(rest) \cap ToSet(f.body[C]) = {}
      BY <1>2, <1>3, <1>7
    <2> QED BY <2>1, <1>5, ConvertingRuns
  <1>9. ASSUME Runs(rest, predicate, z) = 0 PROVE Taken(f, d, z) # C
    <2>1. kind[Last(s)] # "noreturn"
      <3>1. CASE k = Len(s)
        BY <3>1, <1>4 DEF Last
      <3>2. CASE k # Len(s)
        <4>1. Len(s) \in Nat
          OBVIOUS
        <4>2. Len(s) - k \in 1 .. Len(s) - k /\ k + (Len(s) - k) = Len(s)
          BY <4>1, <3>2
        <4>3. rest[Len(rest)] = s[Len(s)]
          BY <4>2, <1>5
        <4>4. rest # <<>> /\ Last(rest) = Last(s)
          BY <4>2, <4>3, <1>5 DEF Last
        <4>5. kind[Last(rest)] # "noreturn"
          BY <4>4, <1>5, <1>9, NothingRuns
        <4> QED BY <4>4, <4>5
      <3> QED BY <3>1, <3>2
    <2> QED BY <2>1, <1>3, OnlyHead
  <1>10. Taken(f, d, z) \in Ways(n)
    BY <1>1, GoesType
  <1>11. Runs(rest, predicate, z) = 0 => Lands(h, q, Taken(f, d, z), z) = Lands(f, predicate, Taken(f, d, z), z)
    BY <1>9, <1>10, ConvertingLands
  <1>12. RunsOn(h, q, d, u, z) = IF Runs(rest, q, z) # 0 THEN Runs(rest, q, z)
                                 ELSE Lands(h, q, Taken(f, d, z), z)
    BY <1>1 DEF RunsOn, rest
  <1>13. RunsOn(f, predicate, d, u, z) = IF Runs(rest, predicate, z) # 0 THEN Runs(rest, predicate, z)
                                 ELSE Lands(f, predicate, Taken(f, d, z), z)
    BY DEF RunsOn, rest
  <1> QED BY <1>8, <1>11, <1>12, <1>13

\* From a stretch in block b the code of C runs if it did.
LEMMA HeadRunsOn ==
    ASSUME NEW n, NEW b, NEW C, NEW Nx, NEW h, NEW t, NEW c, NEW q,
           Converting(n, b, C, Nx, h, t, c, q), NEW z \in Flagsets, NEW u \in ToSet(f.body[b])
    PROVE  RunsOn(h, q, b, u, z) = RunsOn(f, predicate, b, u, z)
  <1> DEFINE rest == RestAfter(f.body[b], u)
             s == f.body[b]
             m == f.body[C]
  <1>1. /\ n \in Nat \ {0} /\ f \in Functional(n) /\ C \in 1 .. n /\ b \in 1 .. n /\ b # C /\ C # Nx
        /\ Nx \in 1 .. n /\ CodeOnce(f) /\ h.body[b] = s \o m /\ m # <<>> /\ Taken(h, b, z) \in {Nx, C}
    <2>1. /\ n \in Nat \ {0} /\ f \in Functional(n) /\ h \in Functional(n)
          /\ b \in 1 .. n /\ C \in 1 .. n /\ Nx \in 1 .. n /\ b # C /\ b # Nx /\ C # Nx
          /\ f.body[C] # <<>> /\ h.body[C] = <<>> /\ h.body[b] = f.body[b] \o f.body[C]
          /\ \A x \in (1 .. n) \ {b, C} : h.body[x] = f.body[x]
          /\ \A x \in (1 .. n) \ {b} : \A y : Taken(h, x, y) = Taken(f, x, y)
          /\ \A y : Taken(f, C, y) = Nx /\ Taken(h, b, y) \in {Nx, C}
          /\ CodeOnce(f) /\ CodeOnce(h)
          /\ \A v \in ToSet(f.body[C]) : kind[v] = "alu"
      BY ConvertingIs
    <2> QED BY <2>1
  <1>2. /\ s \in Seq(1 .. n) /\ m \in Seq(1 .. n) /\ NoRepeats(s) /\ NoRepeats(m)
        /\ ToSet(s) \cap ToSet(m) = {}
    <2>1. DOMAIN f.term = 1 .. n /\ s \in Seq(1 .. n) /\ m \in Seq(1 .. n)
      BY <1>1, BlocksAre
    <2> QED BY <2>1, <1>1 DEF CodeOnce
  <1>3. RestAfter(h.body[b], u) = rest \o m
    <2>1. \A x : x \in ToSet(s) => RestAfter(s \o m, x) = RestAfter(s, x) \o m
      <3> HIDE DEF s, m
      <3> QED BY <1>2, RestOfJoin
    <2> QED BY <2>1, <1>1
  <1>4. rest \in Seq(1 .. n) /\ ToSet(rest) \subseteq ToSet(s)
    BY <1>2, RestPart
  <1>5. RunsOn(h, q, b, u, z) = IF Runs(RestAfter(h.body[b], u), q, z) # 0
                                THEN Runs(RestAfter(h.body[b], u), q, z)
                                ELSE Lands(h, q, Taken(h, b, z), z)
    BY DEF RunsOn
  <1>6. RunsOn(f, predicate, b, u, z) = IF Runs(rest, predicate, z) # 0 THEN Runs(rest, predicate, z)
                                 ELSE Lands(f, predicate, Taken(f, b, z), z)
    BY DEF RunsOn
  <1> HIDE DEF rest, s, m
  <1>7. Runs(rest, q, z) = Runs(rest, predicate, z)
    <2>1. ToSet(rest) \cap ToSet(f.body[C]) = {}
      BY <1>2, <1>4 DEF m
    <2> QED BY <2>1, <1>4, ConvertingRuns
  <1>8. Runs(rest \o m, q, z) = IF Runs(rest, predicate, z) # 0 THEN Runs(rest, predicate, z) ELSE Runs(m, q, z)
    <2>1. rest \in Seq(1 .. n) /\ m \in Seq(1 .. n) /\ n \in Nat
      BY <1>1, <1>2, <1>4
    <2>2. Runs(rest \o m, q, z) = IF Runs(rest, q, z) # 0 THEN Runs(rest, q, z) ELSE Runs(m, q, z)
      BY <2>1, RunsJoin
    <2> QED BY <2>2, <1>7
  <1>9. /\ Holds(c, z) => Runs(m, q, z) = Runs(m, predicate, z)
        /\ ~Holds(c, z) => Runs(m, q, z) = 0
        /\ Runs(m, predicate, z) = m[1] /\ m[1] # 0
    <2>1. m \in Seq(1 .. n) /\ ToSet(m) \subseteq ToSet(f.body[C]) /\ m # <<>>
      BY <1>1, <1>2 DEF m
    <2> QED BY <2>1, ConvertingRuns
  <1>10. Taken(f, b, z) = IF Holds(c, z) THEN C ELSE Nx
    BY DEF Converting
  <1>11. Nx \in Ways(n) \ {C}
    BY <1>1 DEF Ways
  <1>12. /\ Lands(h, q, Nx, z) = Lands(f, predicate, Nx, z)
         /\ Lands(h, q, C, z) = Lands(f, predicate, Nx, z)
         /\ Lands(f, predicate, C, z) = m[1]
    BY <1>11, ConvertingLands DEF m
  <1>13. CASE Runs(rest, predicate, z) # 0
    BY <1>3, <1>5, <1>6, <1>8, <1>13
  <1>14. CASE Runs(rest, predicate, z) = 0 /\ Holds(c, z)
    <2>1. RunsOn(h, q, b, u, z) = m[1]
      BY <1>3, <1>5, <1>8, <1>9, <1>14
    <2>2. RunsOn(f, predicate, b, u, z) = m[1]
      BY <1>6, <1>10, <1>12, <1>14
    <2> QED BY <2>1, <2>2
  <1>15. CASE Runs(rest, predicate, z) = 0 /\ ~Holds(c, z)
    <2>1. RunsOn(h, q, b, u, z) = Lands(h, q, Taken(h, b, z), z)
      BY <1>3, <1>5, <1>8, <1>9, <1>15
    <2>2. Lands(h, q, Taken(h, b, z), z) = Lands(f, predicate, Nx, z)
      BY <1>1, <1>12
    <2>3. RunsOn(f, predicate, b, u, z) = Lands(f, predicate, Nx, z)
      BY <1>6, <1>10, <1>15
    <2> QED BY <2>1, <2>2, <2>3
  <1> QED BY <1>13, <1>14, <1>15

\* From a stretch of block C, now in block b, too.
LEMMA TargetRunsOn ==
    ASSUME NEW n, NEW b, NEW C, NEW Nx, NEW h, NEW t, NEW c, NEW q,
           Converting(n, b, C, Nx, h, t, c, q), NEW z \in Flagsets, NEW u \in ToSet(f.body[C]),
           Holds(c, z)
    PROVE  RunsOn(h, q, b, u, z) = RunsOn(f, predicate, C, u, z)
  <1> DEFINE rest == RestAfter(f.body[C], u)
             s == f.body[b]
             m == f.body[C]
  <1>1. /\ n \in Nat \ {0} /\ f \in Functional(n) /\ C \in 1 .. n /\ b \in 1 .. n /\ b # C /\ C # Nx
        /\ Nx \in 1 .. n /\ CodeOnce(f) /\ h.body[b] = s \o m /\ Taken(h, b, z) \in {Nx, C}
        /\ Taken(f, C, z) = Nx
    <2>1. /\ n \in Nat \ {0} /\ f \in Functional(n) /\ h \in Functional(n)
          /\ b \in 1 .. n /\ C \in 1 .. n /\ Nx \in 1 .. n /\ b # C /\ b # Nx /\ C # Nx
          /\ f.body[C] # <<>> /\ h.body[C] = <<>> /\ h.body[b] = f.body[b] \o f.body[C]
          /\ \A x \in (1 .. n) \ {b, C} : h.body[x] = f.body[x]
          /\ \A x \in (1 .. n) \ {b} : \A y : Taken(h, x, y) = Taken(f, x, y)
          /\ \A y : Taken(f, C, y) = Nx /\ Taken(h, b, y) \in {Nx, C}
          /\ CodeOnce(f) /\ CodeOnce(h)
          /\ \A v \in ToSet(f.body[C]) : kind[v] = "alu"
      BY ConvertingIs
    <2> QED BY <2>1
  <1>2. /\ s \in Seq(1 .. n) /\ m \in Seq(1 .. n) /\ NoRepeats(s) /\ NoRepeats(m)
        /\ ToSet(s) \cap ToSet(m) = {}
    <2>1. DOMAIN f.term = 1 .. n /\ s \in Seq(1 .. n) /\ m \in Seq(1 .. n)
      BY <1>1, BlocksAre
    <2> QED BY <2>1, <1>1 DEF CodeOnce
  <1>3. RestAfter(h.body[b], u) = rest
    <2>1. \A x : x \in ToSet(m) => RestAfter(s \o m, x) = RestAfter(m, x)
      <3> HIDE DEF s, m
      <3> QED BY <1>2, RestOfJoin
    <2> QED BY <2>1, <1>1
  <1>4. rest \in Seq(1 .. n) /\ ToSet(rest) \subseteq ToSet(m)
    BY <1>2, RestPart
  <1>5. RunsOn(h, q, b, u, z) = IF Runs(RestAfter(h.body[b], u), q, z) # 0
                                THEN Runs(RestAfter(h.body[b], u), q, z)
                                ELSE Lands(h, q, Taken(h, b, z), z)
    BY DEF RunsOn
  <1>6. RunsOn(f, predicate, C, u, z) = IF Runs(rest, predicate, z) # 0 THEN Runs(rest, predicate, z)
                                 ELSE Lands(f, predicate, Taken(f, C, z), z)
    BY DEF RunsOn
  <1>7. Runs(rest, q, z) = Runs(rest, predicate, z)
    <2> HIDE DEF rest
    <2> QED BY <1>4, ConvertingRuns
  <1>8. Nx \in Ways(n) \ {C}
    BY <1>1 DEF Ways
  <1>9. /\ Lands(h, q, Nx, z) = Lands(f, predicate, Nx, z)
        /\ Lands(h, q, C, z) = Lands(f, predicate, Nx, z)
    BY <1>8, ConvertingLands
  <1> HIDE DEF rest, s, m
  <1>10. Lands(h, q, Taken(h, b, z), z) = Lands(f, predicate, Taken(f, C, z), z)
    BY <1>1, <1>9
  <1> QED BY <1>3, <1>5, <1>6, <1>7, <1>10

\* No code is lost.
LEMMA ConvertingCode ==
    ASSUME NEW n, NEW b, NEW C, NEW Nx, NEW h, NEW t, NEW c, NEW q,
           Converting(n, b, C, Nx, h, t, c, q)
    PROVE  Code(h) = Code(f)
  <1>1. /\ n \in Nat \ {0} /\ f \in Functional(n) /\ h \in Functional(n)
        /\ b \in 1 .. n /\ C \in 1 .. n /\ Nx \in 1 .. n /\ b # C /\ b # Nx /\ C # Nx
        /\ f.body[C] # <<>> /\ h.body[C] = <<>> /\ h.body[b] = f.body[b] \o f.body[C]
        /\ \A d \in (1 .. n) \ {b, C} : h.body[d] = f.body[d]
        /\ \A d \in (1 .. n) \ {b} : \A y : Taken(h, d, y) = Taken(f, d, y)
        /\ \A y : Taken(f, C, y) = Nx /\ Taken(h, b, y) \in {Nx, C}
        /\ CodeOnce(f) /\ CodeOnce(h)
        /\ \A u \in ToSet(f.body[C]) : kind[u] = "alu"
    BY ConvertingIs
  <1>2. ToSet(h.body[b]) = ToSet(f.body[b]) \cup ToSet(f.body[C])
    <2>1. f.body[b] \in Seq(1 .. n) /\ f.body[C] \in Seq(1 .. n)
      BY <1>1, BlockIs
    <2>2. ToSet(f.body[b] \o f.body[C]) = ToSet(f.body[b]) \cup ToSet(f.body[C])
      BY <2>1, JoinOf
    <2> QED BY <2>2, <1>1
  <1>3. ToSet(h.body[C]) = {}
    BY <1>1 DEF ToSet
  <1>4. \A d \in (1 .. n) \ {b, C} : ToSet(h.body[d]) = ToSet(f.body[d])
    BY <1>1
  <1>5. \A u : u \in Code(h) <=> \E d \in 1 .. n : u \in ToSet(h.body[d])
    BY <1>1, CodeIs
  <1>6. \A u : u \in Code(f) <=> \E d \in 1 .. n : u \in ToSet(f.body[d])
    BY <1>1, CodeIs
  <1>7. b \in 1 .. n /\ C \in 1 .. n
    BY <1>1
  <1>8. \A u : (\E d \in 1 .. n : u \in ToSet(h.body[d])) <=> (\E d \in 1 .. n : u \in ToSet(f.body[d]))
    BY ONLY <1>2, <1>3, <1>4, <1>7
  <1> QED BY <1>5, <1>6, <1>8

\* What the code means stays the same, wherever it runs.
LEMMA ConvertingMeans ==
    ASSUME NEW n, NEW b, NEW C, NEW Nx, NEW h, NEW t, NEW c, NEW q,
           Converting(n, b, C, Nx, h, t, c, q), C # 1, NEW z \in Flagsets,
           NEW u \in Code(f) \cup {0}, u = 0 \/ Holds(q[u], z)
    PROVE  /\ MeansBy(kind, h, q)[u][z] = MeansBy(kind, f, predicate)[u][z]
           /\ u = 0 \/ Holds(predicate[u], z)
  <1>1. /\ n \in Nat \ {0} /\ f \in Functional(n) /\ h \in Functional(n)
        /\ b \in 1 .. n /\ C \in 1 .. n /\ Nx \in 1 .. n /\ b # C /\ b # Nx /\ C # Nx
        /\ f.body[C] # <<>> /\ h.body[C] = <<>> /\ h.body[b] = f.body[b] \o f.body[C]
        /\ \A d \in (1 .. n) \ {b, C} : h.body[d] = f.body[d]
        /\ \A d \in (1 .. n) \ {b} : \A y : Taken(h, d, y) = Taken(f, d, y)
        /\ \A y : Taken(f, C, y) = Nx /\ Taken(h, b, y) \in {Nx, C}
        /\ CodeOnce(f) /\ CodeOnce(h)
        /\ \A v \in ToSet(f.body[C]) : kind[v] = "alu"
    BY ConvertingIs
  <1>2. MeansAt(n, kind, f, predicate, z) /\ MeansAt(n, kind, h, q, z)
    BY <1>1, MeansIs
  <1>3. ASSUME NEW d \in 1 .. n, NEW v
        PROVE  /\ v \in ToSet(f.body[d]) => MeansBy(kind, f, predicate)[v][z]
                     = IF kind[v] = "noreturn" THEN Returns ELSE RunsOn(f, predicate, d, v, z)
               /\ v \in ToSet(h.body[d]) => MeansBy(kind, h, q)[v][z]
                     = IF kind[v] = "noreturn" THEN Returns ELSE RunsOn(h, q, d, v, z)
    BY <1>2 DEF MeansAt
  <1>a. b \in 1 .. n /\ C \in 1 .. n
    BY <1>1
  <1>4. ToSet(h.body[b]) = ToSet(f.body[b]) \cup ToSet(f.body[C])
    <2>1. f.body[b] \in Seq(1 .. n) /\ f.body[C] \in Seq(1 .. n)
      BY <1>1, BlockIs
    <2>2. ToSet(f.body[b] \o f.body[C]) = ToSet(f.body[b]) \cup ToSet(f.body[C])
      BY <2>1, JoinOf
    <2> QED BY <2>2, <1>1
  <1>5. CASE u = 0
    <2>1. 1 \in Ways(n) \ {C}
      BY <1>1 DEF Ways
    <2>2. Lands(h, q, 1, z) = Lands(f, predicate, 1, z)
      BY <2>1, ConvertingLands
    <2> QED BY <2>2, <1>2, <1>5 DEF MeansAt
  <1>6. ASSUME u # 0
        PROVE  /\ MeansBy(kind, h, q)[u][z] = MeansBy(kind, f, predicate)[u][z]
               /\ Holds(predicate[u], z)
    <2>1. PICK d \in 1 .. n : u \in ToSet(f.body[d])
      BY <1>1, <1>6, CodeIs
    <2>2. Holds(q[u], z) /\ u \in 1 .. n
      BY <1>1, <1>6, CodeIs
    <2>3. CASE d = C
      <3>1. u \in ToSet(f.body[C]) /\ u \in ToSet(h.body[b]) /\ kind[u] # "noreturn"
        BY <2>1, <2>3, <1>1, <1>4
      <3>2. q[u] = c /\ predicate[u] = "AL"
        BY <3>1 DEF Converting
      <3>3. Holds(c, z) /\ Holds(predicate[u], z)
        BY <2>2, <3>2 DEF Holds
      <3>4. RunsOn(h, q, b, u, z) = RunsOn(f, predicate, C, u, z)
        BY <3>1, <3>3, TargetRunsOn
      <3> QED BY <2>3, <3>1, <3>3, <3>4, <1>a, <1>3
    <2>4. CASE d # C
      <3>1. u \notin ToSet(f.body[C])
        <4>1. DOMAIN f.term = 1 .. n
          BY <1>1, BlocksAre
        <4> QED BY <4>1, <1>1, <2>1, <2>4 DEF CodeOnce
      <3>2. q[u] = predicate[u]
        BY <3>1, <2>2 DEF Converting
      <3>3. Holds(predicate[u], z)
        BY <3>2, <2>2
      <3>4. CASE kind[u] = "noreturn"
        <4>1. u \in ToSet(h.body[d])
          <5>1. CASE d = b
            BY <5>1, <2>1, <1>4
          <5>2. CASE d # b
            <6>1. h.body[d] = f.body[d]
              BY <5>2, <2>4, <1>1
            <6> QED BY <6>1, <2>1
          <5> QED BY <5>1, <5>2
        <4> QED BY <4>1, <3>3, <3>4, <2>1, <1>3
      <3>5. CASE kind[u] # "noreturn" /\ d = b
        <4>1. u \in ToSet(h.body[b]) /\ u \in ToSet(f.body[b])
          BY <3>5, <2>1, <1>4
        <4>2. RunsOn(h, q, b, u, z) = RunsOn(f, predicate, b, u, z)
          BY <4>1, HeadRunsOn
        <4> QED BY <4>1, <4>2, <3>3, <3>5, <1>a, <1>3
      <3>6. CASE kind[u] # "noreturn" /\ d # b
        <4>1. d \in (1 .. n) \ {b, C}
          BY <3>6, <2>4
        <4>2. u \in ToSet(h.body[d])
          <5>1. h.body[d] = f.body[d]
            BY <4>1, <1>1
          <5> QED BY <5>1, <2>1
        <4>3. RunsOn(h, q, d, u, z) = RunsOn(f, predicate, d, u, z)
          BY <4>1, <3>6, <2>1, OtherRunsOn
        <4> QED BY <4>2, <4>3, <3>3, <3>6, <2>1, <1>3
      <3> QED BY <3>4, <3>5, <3>6
    <2> QED BY <2>3, <2>4
  <1> QED BY <1>5, <1>6
-----------------------------------------------------------------------------
(* Control goes where it was meant to.                                     *)

\* The function means what it did: no block goes to the entry, and only code that
\* can be predicated has been.
RInv ==
    /\ ToSet(f.preds[1]) = {}
    /\ \A u \in Blocks : kind[u] # "alu" => predicate[u] = "AL"
    /\ DOMAIN meant = Code(f) \cup {0}
    /\ \A u \in Code(f) \cup {0} : \A z \in Flagsets :
          u = 0 \/ Holds(predicate[u], z) => MeansBy(kind, f, predicate)[u][z] = meant[u][z]

\* Of a condition and its opposite one holds.
LEMMA Opposite ==
    ASSUME NEW c \in DOMAIN getOppositeCondition, NEW z
    PROVE  Holds(getOppositeCondition[c], z) <=> ~Holds(c, z)
  <1>1. c \in {"EQ", "NE", "P", "N", "LO", "HS", "V", "NV", "GT", "GE", "LT", "LE", "HI", "LS"}
    BY DEF getOppositeCondition
  <1>2. /\ c = "EQ" => getOppositeCondition[c] = "NE"
        /\ c = "NE" => getOppositeCondition[c] = "EQ"
        /\ c = "P" => getOppositeCondition[c] = "N"
        /\ c = "N" => getOppositeCondition[c] = "P"
        /\ c = "LO" => getOppositeCondition[c] = "HS"
        /\ c = "HS" => getOppositeCondition[c] = "LO"
        /\ c = "V" => getOppositeCondition[c] = "NV"
        /\ c = "NV" => getOppositeCondition[c] = "V"
        /\ c = "GT" => getOppositeCondition[c] = "LE"
        /\ c = "LE" => getOppositeCondition[c] = "GT"
        /\ c = "GE" => getOppositeCondition[c] = "LT"
        /\ c = "LT" => getOppositeCondition[c] = "GE"
        /\ c = "HI" => getOppositeCondition[c] = "LS"
        /\ c = "LS" => getOppositeCondition[c] = "HI"
    BY DEF getOppositeCondition
  <1>3. /\ Holds("EQ", z) <=> "Z" \in z
        /\ Holds("NE", z) <=> "Z" \notin z
        /\ Holds("P", z) <=> "N" \notin z
        /\ Holds("N", z) <=> "N" \in z
        /\ Holds("LO", z) <=> "C" \in z
        /\ Holds("HS", z) <=> "C" \notin z
        /\ Holds("V", z) <=> "V" \in z
        /\ Holds("NV", z) <=> "V" \notin z
    BY DEF Holds
  <1>4. /\ Holds("GT", z) <=> SameSign(z) /\ "Z" \notin z
        /\ Holds("GE", z) <=> SameSign(z)
        /\ Holds("LT", z) <=> ~SameSign(z)
        /\ Holds("LE", z) <=> "Z" \in z \/ ~SameSign(z)
        /\ Holds("HI", z) <=> "C" \notin z /\ "Z" \notin z
        /\ Holds("LS", z) <=> "C" \in z \/ "Z" \in z
    BY DEF Holds
  <1>5. CASE c \in {"EQ", "NE", "P", "N", "LO", "HS", "V", "NV"}
    BY <1>2, <1>3, <1>5
  <1>6. CASE c \in {"GT", "GE", "LT", "LE", "HI", "LS"}
    BY <1>2, <1>4, <1>6
  <1> QED BY <1>1, <1>5, <1>6

\* Means, with what the code is.
LEMMA MeansByIs == Means(f, predicate) = MeansBy(kind, f, predicate)
  BY DEF Means, MeansBy

\* All functions the pass begins with.
LEMMA InitRInv ==
    ASSUME Init
    PROVE  RInv
  <1>1. /\ f.preds[1] = <<>> /\ predicate = [b \in Blocks |-> "AL"]
        /\ meant = Means(f, predicate)
    BY DEF Init
  <1>2. ToSet(f.preds[1]) = {}
    BY <1>1 DEF ToSet
  <1>3. \A u \in Blocks : predicate[u] = "AL"
    BY <1>1
  <1>4. meant = MeansBy(kind, f, predicate)
    BY <1>1, MeansByIs
  <1>5. DOMAIN meant = Code(f) \cup {0}
    BY <1>4 DEF MeansBy
  <1> QED BY <1>2, <1>3, <1>4, <1>5 DEF RInv

\* The token of a conversion, and the condition that its block runs under.
LEMMA TokenTaken ==
    ASSUME NEW n \in Nat \ {0}, f \in Functional(n), EdgesRight(f, kind), CodeOnce(f),
           InfoRight(f, kind, predicate, info), NEW token, token.BB \in 1 .. n,
           TokenRight(f, kind, pays, info, token),
           token.Kind \in {"ICTriangle", "ICTriangleFalse"}, NEW z
    PROVE  Taken(f, token.BB, z) = IF Holds(CvtCond(token)[1], z) THEN TargetOf(info, token)
                                   ELSE NextOf(info, token)
  <1> DEFINE i == info[token.BB]
  <1>1. IsHead(f, kind, i, token.BB)
    BY DEF TokenRight
  <1>2. PICK c \in DOMAIN getOppositeCondition :
              i.BrCond = <<c>> /\ Splits(f, token.BB, c, i.TrueBB, i.FalseBB)
    BY <1>1, HeadSplits DEF IsHead
  <1>3. Taken(f, token.BB, z) = IF Holds(c, z) THEN i.TrueBB ELSE i.FalseBB
    BY <1>2, SplitsTaken
  <1>4. CvtCond(token)[1] = IF token.Kind = "ICTriangle" THEN c ELSE getOppositeCondition[c]
    BY <1>2, CondIs
  <1>5. CASE token.Kind = "ICTriangle"
    <2>1. TargetOf(info, token) = i.TrueBB /\ NextOf(info, token) = i.FalseBB
      BY <1>5 DEF TargetOf, NextOf
    <2>2. CvtCond(token)[1] = c
      BY <1>4, <1>5
    <2> QED BY <2>1, <2>2, <1>3
  <1>6. CASE token.Kind = "ICTriangleFalse"
    <2>1. TargetOf(info, token) = i.FalseBB /\ NextOf(info, token) = i.TrueBB
      BY <1>6 DEF TargetOf, NextOf
    <2>2. CvtCond(token)[1] = getOppositeCondition[c]
      BY <1>4, <1>6
    <2>3. Holds(CvtCond(token)[1], z) <=> ~Holds(c, z)
      BY <2>2, Opposite
    <2> QED BY <2>1, <2>3, <1>3
  <1> QED BY <1>5, <1>6

\* A conversion is one of a triangle whose block is not the entry.
LEMMA ConvertConverts ==
    ASSUME IInv, RInv, IfConvertTriangle
    PROVE  \E n \in Nat \ {0} : \E b, C, Nx, t, c :
              /\ Converting(n, b, C, Nx, f', t, c, predicate') /\ C # 1
              /\ Blocks = 1 .. n /\ Blocks' = 1 .. n /\ ToSet(f'.preds[1]) = {}
  <1>1. PICK n \in Nat \ {0} : f \in Functional(n) /\ EdgesRight(f, kind) /\ CodeOnce(f)
    BY DEF IInv, FunctionRight
  <1>2. /\ predicate \in [Blocks -> CondCodes]
        /\ info \in [Blocks -> Infos] /\ InfoRight(f, kind, predicate, info)
        /\ Tokens \subseteq IfcvtToken /\ TokensRight(f, kind, pays, info, Tokens)
    BY DEF IInv
  <1>3. PICK token \in Tokens, C \in Blocks, Nx \in Blocks : \E t, keep, e :
              /\ ConvertsTo(n, token, C, Nx, t, keep, e) /\ TokenRight(f, kind, pays, info, token)
              /\ token.Kind \in {"ICTriangle", "ICTriangleFalse"}
    BY <1>1, <1>2, ConversionIs
  <1>4. PICK t, keep, e :
              /\ ConvertsTo(n, token, C, Nx, t, keep, e) /\ TokenRight(f, kind, pays, info, token)
              /\ token.Kind \in {"ICTriangle", "ICTriangleFalse"}
    BY <1>3
  <1>5. PICK b, c : b = token.BB /\ c = CvtCond(token)[1]
    OBVIOUS
  <1>6. /\ TriangleAt(n, b, C, Nx) /\ GoesOn(b, C, Nx, t, keep, e)
        /\ C = TargetOf(info, token) /\ Nx = NextOf(info, token)
        /\ f' = Converted(b, C, t, keep, e)
        /\ predicate' = PredicateBlock(C, CvtCond(token))
    BY <1>4, <1>5 DEF ConvertsTo
  <1>7. PICK h, q : h = f' /\ q = predicate'
    OBVIOUS
  <1>8. ConvertedTo(n, h, b, C, t, keep, e) /\ CodeOnce(h)
    BY <1>6, <1>7, ConvertedFields, ConvertedCode
  <1>9. Blocks = 1 .. n /\ Blocks' = 1 .. n /\ b \in 1 .. n
    <2>1. h \in Functional(n)
      BY <1>8 DEF ConvertedTo
    <2>2. DOMAIN f.term = 1 .. n /\ DOMAIN h.term = 1 .. n
      BY <1>1, <2>1, RightBlocks
    <2> QED BY <2>2, <1>5, <1>7, <1>2 DEF Blocks, IfcvtToken
  <1>10. Len(f.preds[C]) = 1
    BY <1>4, <1>6 DEF TokenRight, IsTarget
  <1>11. \A z : Taken(f, b, z) = IF Holds(c, z) THEN C ELSE Nx
    <2> TAKE z
    <2>1. token.BB \in 1 .. n
      BY <1>5, <1>9
    <2>2. Taken(f, token.BB, z) = IF Holds(CvtCond(token)[1], z) THEN TargetOf(info, token)
                                  ELSE NextOf(info, token)
      BY <2>1, <1>1, <1>2, <1>4, TokenTaken
    <2> QED BY <2>2, <1>5, <1>6
  <1>12. \A u \in ToSet(f.body[C]) : predicate[u] = "AL"
    <2>1. token.BB \in 1 .. n
      BY <1>5, <1>9
    <2>2. \A u \in ToSet(f.body[TargetOf(info, token)]) : predicate[u] = "AL"
      BY <2>1, <1>1, <1>2, <1>4, TokenTriangle
    <2> QED BY <2>2, <1>6
  <1>13. f.body[C] \in Seq(1 .. n) /\ ToSet(f.body[C]) \subseteq 1 .. n
    BY <1>1, <1>9, BlockIs, Members
  <1>14. \A u \in 1 .. n : Contains(f.body[C], u) <=> u \in ToSet(f.body[C])
    BY <1>13, Members
  <1>15. \A u \in 1 .. n : q[u] = IF u \in ToSet(f.body[C]) /\ predicate[u] = "AL" THEN c ELSE predicate[u]
    BY <1>5, <1>6, <1>7, <1>9, <1>14 DEF PredicateBlock
  <1>16. /\ \A u \in ToSet(f.body[C]) : predicate[u] = "AL" /\ q[u] = c
         /\ \A u \in (1 .. n) \ ToSet(f.body[C]) : q[u] = predicate[u]
    BY <1>12, <1>13, <1>15
  <1>17. \A u \in 1 .. n : kind[u] # "alu" => predicate[u] = "AL"
    BY <1>9 DEF RInv
  <1>18. Converting(n, b, C, Nx, h, t, c, q)
    BY <1>6, <1>8, <1>10, <1>11, <1>16, <1>17 DEF Converting
  <1>19. C # 1
    <2>1. C \in ToSet(f.succs[b]) /\ b \in 1 .. n /\ C \in 1 .. n
      BY <1>6 DEF TriangleAt, Splits
    <2>2. b \in ToSet(f.preds[C])
      <3>1. DOMAIN f.term = 1 .. n
        BY <1>1, RightBlocks
      <3> QED BY <2>1, <3>1, <1>1 DEF EdgesRight
    <2> QED BY <2>2 DEF RInv
  <1>20. ToSet(h.preds[1]) = {}
    <2>1. 1 \in 1 .. n
      OBVIOUS
    <2>2. CASE e = 1
      BY <2>2, <1>8 DEF ConvertedTo, RInv
    <2>3. CASE e # 1
      BY <2>1, <2>3, <1>8 DEF ConvertedTo, RInv
    <2> QED BY <2>2, <2>3
  <1> QED BY <1>7, <1>9, <1>18, <1>19, <1>20

\* A conversion.
LEMMA ConvertKeepsRInv ==
    ASSUME IInv, RInv, IfConvertTriangle
    PROVE  RInv'
  <1>1. PICK n \in Nat \ {0} : \E b, C, Nx, t, c :
              /\ Converting(n, b, C, Nx, f', t, c, predicate') /\ C # 1
              /\ Blocks = 1 .. n /\ Blocks' = 1 .. n /\ ToSet(f'.preds[1]) = {}
    BY ConvertConverts
  <1>2. PICK b, C, Nx, t, c :
              /\ Converting(n, b, C, Nx, f', t, c, predicate') /\ C # 1
              /\ Blocks = 1 .. n /\ Blocks' = 1 .. n /\ ToSet(f'.preds[1]) = {}
    BY <1>1
  <1>3. PICK h, q : h = f' /\ q = predicate'
    OBVIOUS
  <1>4. Converting(n, b, C, Nx, h, t, c, q)
    BY <1>2, <1>3
  <1>5. Code(h) = Code(f)
    BY <1>4, ConvertingCode
  <1>6. meant' = meant /\ kind' = kind
    BY DEF IfConvertTriangle
  <1>7. ASSUME NEW u \in Blocks, kind[u] # "alu"
        PROVE  q[u] = "AL"
    <2>1. u \in 1 .. n /\ predicate[u] = "AL"
      BY <1>2, <1>7 DEF RInv
    <2>2. u \notin ToSet(f.body[C])
      BY <1>4, <1>7 DEF Converting, TriangleAt
    <2>3. q[u] = predicate[u]
      BY <2>1, <2>2, <1>4 DEF Converting
    <2> QED BY <2>1, <2>3
  <1>8. ASSUME NEW u \in Code(f) \cup {0}, NEW z \in Flagsets, u = 0 \/ Holds(q[u], z)
        PROVE  MeansBy(kind, h, q)[u][z] = meant[u][z]
    <2>1. /\ MeansBy(kind, h, q)[u][z] = MeansBy(kind, f, predicate)[u][z]
          /\ u = 0 \/ Holds(predicate[u], z)
      BY <1>2, <1>4, <1>8, ConvertingMeans
    <2>2. MeansBy(kind, f, predicate)[u][z] = meant[u][z]
      BY <2>1 DEF RInv
    <2> QED BY <2>1, <2>2
  <1>9. \A u \in Code(h) \cup {0} : \A z \in Flagsets :
              u = 0 \/ Holds(q[u], z) => MeansBy(kind, h, q)[u][z] = meant[u][z]
    BY <1>5, <1>8
  <1>10. MeansBy(kind', f', predicate') = MeansBy(kind, h, q)
    BY <1>3, <1>6
  <1>11. DOMAIN meant' = Code(f') \cup {0}
    BY <1>3, <1>5, <1>6 DEF RInv
  <1>12. \A u \in Blocks' : kind'[u] # "alu" => predicate'[u] = "AL"
    BY <1>2, <1>3, <1>6, <1>7
  <1>13. \A u \in Code(f') \cup {0} : \A z \in Flagsets :
              u = 0 \/ Holds(predicate'[u], z) => MeansBy(kind', f', predicate')[u][z] = meant'[u][z]
    BY <1>3, <1>6, <1>9, <1>10
  <1>14. ToSet(f'.preds[1]) = {}
    BY <1>2
  <1> QED BY <1>11, <1>12, <1>13, <1>14 DEF RInv, MeansBy, Flagsets

\* Every step.
LEMMA NextKeepsRInv ==
    ASSUME IInv, RInv, [Next]_vars
    PROVE  RInv'
  <1>1. CASE IfConvertTriangle
    BY <1>1, ConvertKeepsRInv
  <1>2. ASSUME UNCHANGED <<f, predicate, kind, meant>>
        PROVE  RInv'
    <2>1. f' = f /\ predicate' = predicate /\ kind' = kind /\ meant' = meant
      BY <1>2
    <2>2. Blocks' = Blocks
      BY <2>1 DEF Blocks
    <2>3. ToSet(f'.preds[1]) = {}
      BY <2>1 DEF RInv
    <2>4. \A u \in Blocks' : kind'[u] # "alu" => predicate'[u] = "AL"
      BY <2>1, <2>2 DEF RInv
    <2>5. MeansBy(kind', f', predicate') = MeansBy(kind, f, predicate) /\ Code(f') = Code(f)
      BY <2>1
    <2>6. DOMAIN meant' = Code(f') \cup {0}
      BY <2>1, <2>5 DEF RInv
    <2>7. \A u \in Code(f') \cup {0} : \A z \in Flagsets :
              u = 0 \/ Holds(predicate'[u], z) => MeansBy(kind', f', predicate')[u][z] = meant'[u][z]
      BY <2>1, <2>5 DEF RInv
    <2> QED BY <2>3, <2>4, <2>6, <2>7 DEF RInv, MeansBy, Flagsets
  <1>3. CASE AnalyzeBlocks
    BY <1>2, <1>3 DEF AnalyzeBlocks
  <1>4. CASE Skip
    BY <1>2, <1>4 DEF Skip
  <1>5. CASE NextRound
    BY <1>2, <1>5 DEF NextRound
  <1>6. CASE Done
    BY <1>2, <1>6 DEF Done, vars
  <1>7. CASE UNCHANGED vars
    BY <1>2, <1>7 DEF vars
  <1> QED BY <1>1, <1>3, <1>4, <1>5, <1>6, <1>7 DEF Next

\* What follows.
LEMMA IInvRuns ==
    ASSUME IInv, RInv
    PROVE  RunsAsMeant
  <1>1. PICK n \in Nat \ {0} : f \in Functional(n) /\ EdgesRight(f, kind) /\ CodeOnce(f)
    BY DEF IInv, FunctionRight
  <1>2. Blocks = 1 .. n /\ DOMAIN f.term = 1 .. n
    BY <1>1, RightBlocks DEF Blocks
  <1>3. ASSUME NEW u \in Blocks \cap DOMAIN meant
        PROVE  Cardinality({d \in Blocks : Contains(f.body[d], u)}) = 1
    <2>1. u \in Code(f)
      <3>1. u \in Code(f) \cup {0} /\ u # 0
        BY <1>2 DEF RInv
      <3> QED BY <3>1
    <2>2. PICK d \in 1 .. n : u \in ToSet(f.body[d])
      BY <2>1, <1>1, CodeIs
    <2>3. \A x \in 1 .. n : Contains(f.body[x], u) <=> x = d
      <3> TAKE x \in 1 .. n
      <3>1. f.body[x] \in Seq(1 .. n)
        BY <1>1, BlockIs
      <3>2. Contains(f.body[x], u) <=> u \in ToSet(f.body[x])
        BY <3>1, Members
      <3> QED BY <2>2, <3>2, <1>1, <1>2 DEF CodeOnce
    <2>4. {x \in Blocks : Contains(f.body[x], u)} = {d}
      BY <2>3, <1>2
    <2> QED BY <2>4, FS_Singleton
  <1>4. ASSUME NEW d \in Blocks
        PROVE  ~Contains(f.term[d], Failed)
    <2>1. PICK blocks : blocks = 1 .. n
      OBVIOUS
    <2>2. f.term[d] \in Terminators(blocks)
      BY <1>1, <1>2, <2>1, BlockIs
    <2>3. PICK t : t = f.term[d]
      OBVIOUS
    <2>4. \/ t = <<>>
          \/ t = <<RET>>
          \/ \E x \in blocks : t = <<B(x)>>
          \/ \E x \in blocks, c \in DOMAIN getOppositeCondition : t = <<BCC(x, c)>>
          \/ \E x, y \in blocks, c \in DOMAIN getOppositeCondition : t = <<BCC(x, c), B(y)>>
      BY <2>2, <2>3, TerminatorForms
    <2>5. \A x, c : RET # Failed /\ B(x) # Failed /\ BCC(x, c) # Failed
      BY DEF RET, B, BCC, Failed
    <2>6. \A i \in 1 .. Len(t) : t[i] # Failed
      BY <2>4, <2>5
    <2> QED BY <2>3, <2>6 DEF Contains
  <1>5. CodeKept
    BY <1>3, <1>4 DEF CodeKept
  <1>6. \A u \in Code(f) \cup {0} : \A z \in Flagsets :
              u = 0 \/ Holds(predicate[u], z) => Means(f, predicate)[u][z] = meant[u][z]
    BY MeansByIs DEF RInv
  <1> QED BY <1>5, <1>6 DEF RunsAsMeant

\* No block ever goes to the entry, only code that can be predicated has been, and the
\* function means what it did.
THEOREM RInvAlways == Spec => [](IInv /\ RInv)
  <1>1. Init => IInv /\ RInv
    BY InitIInv, InitRInv
  <1>2. (IInv /\ RInv) /\ [Next]_vars => (IInv /\ RInv)'
    BY NextKeepsIInv, NextKeepsRInv
  <1> QED BY <1>1, <1>2, PTL DEF Spec

\* Predicated execution does what the branches did: for every function of this target,
\* however many blocks it has, after every conversion control goes from each stretch of
\* code to the one it went to before, and no code is lost or copied.
THEOREM RunsAsMeantAlways == Spec => []RunsAsMeant
  BY RInvAlways, IInvRuns, PTL
-----------------------------------------------------------------------------
LEMMA DivisionBelow ==
    ASSUME NEW a \in Nat, NEW d \in Nat \ {0}
    PROVE  /\ a \div d \in Nat
           /\ d * (a \div d) <= a
           /\ a < d * (a \div d) + d
  OBVIOUS

LEMMA RemainderBelow ==
    ASSUME NEW a \in Nat
    PROVE  /\ a % WordSize \in Nat
           /\ a % WordSize <= a
           /\ a < WordSize => a % WordSize = a
  BY CostAssumption
-----------------------------------------------------------------------------
(* Whether conversion pays: the fractions.                                 *)

\* Scaled weights have a sum that fits and is not 0.
LEMMA SumFits ==
    ASSUME NEW ws \in Weights \X Weights
    PROVE  /\ ScaleOf(ws) \in Nat \ {0}
           /\ getSumForBlock(ws) \in 1 .. WordSize - 1
           /\ \A i \in 1 .. 2 : getEdgeWeight(ws[i]) \in 1 .. WordSize - 1
  <1> DEFINE a == getEdgeWeight(ws[1])
             b == getEdgeWeight(ws[2])
             S == ScaleOf(ws)
  <1>0. ws[1] \in Weights /\ ws[2] \in Weights
    OBVIOUS
  <1>1. a \in 1 .. WordSize - 1 /\ b \in 1 .. WordSize - 1
    <2>1. \A w \in Weights : getEdgeWeight(w) \in 1 .. WordSize - 1
      BY CostAssumption DEF getEdgeWeight
    <2> QED BY <1>0, <2>1
  <1>2. a \div 1 = a /\ b \div 1 = b
    BY <1>1, CostAssumption
  <1>3. SumOver(ws, 1) = a + b /\ getSumForBlock(ws) = a \div S + b \div S
    BY <1>2 DEF SumOver, getSumForBlock
  <1>4. S = IF a + b < WordSize THEN 1 ELSE (a + b) \div (WordSize - 1) + 1
    BY <1>3 DEF ScaleOf
  <1>. HIDE DEF a, b, S
  <1>5. CASE a + b < WordSize
    BY <1>1, <1>2, <1>3, <1>4, <1>5, CostAssumption DEF a, b, S
  <1>6. CASE a + b >= WordSize
    <2>1. \/ S = 2
          \/ S = 3 /\ a = WordSize - 1 /\ b = WordSize - 1
      <3> DEFINE q == (a + b) \div (WordSize - 1)
      <3>1. /\ q \in Nat
            /\ (WordSize - 1) * q <= a + b
            /\ a + b < (WordSize - 1) * q + (WordSize - 1)
        <4>1. a + b \in Nat /\ WordSize - 1 \in Nat \ {0}
          BY <1>1, CostAssumption
        <4> QED BY <4>1, DivisionBelow
      <3>2. S = q + 1
        BY <1>1, <1>4, <1>6, CostAssumption
      <3>. HIDE DEF q
      <3>3. q # 0
        BY <3>1, <1>1, <1>6, CostAssumption
      <3>4. q < 3
        <4>1. SUFFICES ASSUME q >= 3 PROVE FALSE
          BY <3>1
        <4>2. (WordSize - 1) * q >= (WordSize - 1) * 3
          BY <3>1, <4>1, CostAssumption
        <4> QED BY <3>1, <4>2, <1>1, CostAssumption
      <3>5. q = 2 => a = WordSize - 1 /\ b = WordSize - 1
        BY <3>1, <1>1, CostAssumption
      <3> QED BY <3>1, <3>2, <3>3, <3>4, <3>5
    <2>2. CASE S = 2
      BY <1>1, <1>3, <1>6, <2>2, CostAssumption DEF a, b, S
    <2>3. CASE S = 3 /\ a = WordSize - 1 /\ b = WordSize - 1
      BY <1>1, <1>3, <1>6, <2>3, CostAssumption DEF a, b, S
    <2> QED BY <2>1, <2>2, <2>3
  <1> QED BY <1>1, <1>5, <1>6, CostAssumption

\* The fractions of both edges are legal, and complements.
LEMMA FractionsSound ==
    ASSUME NEW ws \in Weights \X Weights
    PROVE  /\ getEdgeProbability(ws, 1).D \in 1 .. WordSize - 1
           /\ getEdgeProbability(ws, 1).N \in 0 .. getEdgeProbability(ws, 1).D
           /\ getEdgeProbability(ws, 2).N \in 0 .. getEdgeProbability(ws, 1).D
           /\ getCompl(getEdgeProbability(ws, 1)) = getEdgeProbability(ws, 2)
  <1> DEFINE S == ScaleOf(ws)
             m == getEdgeWeight(ws[1]) \div S
             n == getEdgeWeight(ws[2]) \div S
             D == getSumForBlock(ws)
  <1>1. D \in 1 .. WordSize - 1 /\ m \in Nat /\ n \in Nat
    BY SumFits, DivisionBelow, CostAssumption
  <1>2. D = m + n
    BY DEF getSumForBlock, SumOver
  <1>3. /\ getEdgeProbability(ws, 1) = [N |-> m, D |-> D]
        /\ getEdgeProbability(ws, 2) = [N |-> n, D |-> D]
    BY DEF getEdgeProbability, BranchProbability
  <1>4. getCompl(getEdgeProbability(ws, 1)) = [N |-> D - m, D |-> D]
    BY <1>3 DEF getCompl, BranchProbability
  <1>. HIDE DEF S, m, n, D
  <1>5. D - m = n
    BY <1>1, <1>2
  <1> QED BY <1>1, <1>2, <1>3, <1>4, <1>5, CostAssumption
-----------------------------------------------------------------------------
(* Whether conversion pays: the decision.                                  *)

\* A product that wraps around, divided: never more than the exact quotient.
LEMMA RoundedBelow ==
    ASSUME NEW n \in Nat, NEW c \in Nat, NEW d \in Nat \ {0}
    PROVE  /\ ((n * c) % WordSize) \div d \in Nat
           /\ d * (((n * c) % WordSize) \div d) <= n * c
  <1>1. n * c \in Nat
    OBVIOUS
  <1>2. (n * c) % WordSize \in Nat /\ (n * c) % WordSize <= n * c
    BY <1>1, RemainderBelow
  <1> QED BY <1>1, <1>2, DivisionBelow

\* Where the cost c of the predicated code, which fits a word, is not above the
\* wrapped sum of a quotient q and the cost of the branch, it is not above the sum.
LEMMA CostBelow ==
    ASSUME NEW c \in 0 .. WordSize - 1, NEW q \in Nat, NEW d \in Nat \ {0}, NEW e \in Nat,
           d * q <= e,
           c % WordSize <= (q + BranchCost + Misprediction) % WordSize
    PROVE  d * c <= e + d * (BranchCost + Misprediction)
  <1>1. BranchCost + Misprediction = 2 /\ q + BranchCost + Misprediction = q + 2
    BY DEF BranchCost, Misprediction
  <1>2. c <= q + 2
    BY <1>1, RemainderBelow, CostAssumption
  <1>3. d * c <= d * (q + 2)
    BY <1>2
  <1>4. d * (q + 2) = d * q + d * 2
    OBVIOUS
  <1> QED BY <1>1, <1>3, <1>4

\* One block that is converted.
LEMMA OneNeverALoss ==
    ASSUME NEW T \in Cycles, NEW TX \in Extra, NEW n \in Nat, NEW d \in Nat \ {0},
           isProfitableToIfCvt(T, TX, BranchProbability(n, d))
    PROVE  T # 0 /\ d * (T + TX) <= d * (BranchCost + Misprediction) + n * T
  <1> DEFINE q == ((n * T) % WordSize) \div d
  <1>1. /\ T # 0
        /\ (T + TX) % WordSize <= (q + BranchCost + Misprediction) % WordSize
    BY DEF isProfitableToIfCvt, BranchProbability
  <1>2. T \in Nat /\ TX \in Nat /\ T + TX \in 0 .. WordSize - 1
    BY CostAssumption
  <1>3. q \in Nat /\ d * q <= n * T
    BY <1>2, RoundedBelow
  <1>. HIDE DEF q
  <1>4. n * T \in Nat
    BY <1>2
  <1>5. d * (T + TX) <= n * T + d * (BranchCost + Misprediction)
    BY <1>1, <1>2, <1>3, <1>4, CostBelow
  <1> QED BY <1>1, <1>2, <1>4, <1>5 DEF BranchCost, Misprediction

\* Two blocks that are converted.
LEMMA BothNeverALoss ==
    ASSUME NEW T \in Cycles, NEW TX \in Extra, NEW F \in Cycles, NEW FX \in Extra,
           NEW d \in Nat \ {0}, NEW n \in 0 .. d,
           areProfitableToIfCvt(T, TX, F, FX, BranchProbability(n, d))
    PROVE  /\ T # 0 /\ F # 0
           /\ d * (T + TX + F + FX)
                  <= d * (BranchCost + Misprediction) + (n * T + (d - n) * F)
  <1> DEFINE q == ((n * T) % WordSize) \div d
             r == (((d - n) * F) % WordSize) \div d
  <1>1. /\ T # 0 /\ F # 0
        /\ (T + F + TX + FX) % WordSize <= (q + r + BranchCost + Misprediction) % WordSize
    BY DEF areProfitableToIfCvt, BranchProbability
  <1>2. /\ T \in Nat /\ TX \in Nat /\ F \in Nat /\ FX \in Nat
        /\ T + F + TX + FX \in 0 .. WordSize - 1
    BY CostAssumption
  <1>3. n \in Nat /\ d - n \in Nat
    OBVIOUS
  <1>4. /\ q \in Nat /\ d * q <= n * T
        /\ r \in Nat /\ d * r <= (d - n) * F
    BY <1>2, <1>3, RoundedBelow
  <1>5. n * T \in Nat /\ (d - n) * F \in Nat
    BY <1>2, <1>3
  <1>. HIDE DEF q, r
  <1> DEFINE e == n * T + (d - n) * F
  <1>6. d * (q + r) <= e /\ e \in Nat /\ q + r \in Nat
    <2>1. d * (q + r) = d * q + d * r
      BY <1>4
    <2>2. d * q \in Nat /\ d * r \in Nat
      BY <1>4
    <2> QED BY <1>4, <1>5, <2>1, <2>2
  <1>. HIDE DEF e
  <1>7. d * (T + F + TX + FX) <= e + d * (BranchCost + Misprediction)
    BY <1>1, <1>2, <1>6, CostBelow
  <1>8. T + F + TX + FX = T + TX + F + FX
    BY <1>2
  <1>9. d * (BranchCost + Misprediction) \in Nat
    BY DEF BranchCost, Misprediction
  <1>10. d * (T + TX + F + FX) <= d * (BranchCost + Misprediction) + e
    BY <1>6, <1>7, <1>8, <1>9, <1>2
  <1> QED BY <1>1, <1>10 DEF e
-----------------------------------------------------------------------------
(* Whether conversion pays: the machine.                                   *)

CostInv ==
    /\ stage \in {"weigh", "decide", "done"}
    /\ weights \in Weights \X Weights
    /\ side \in {"true", "false", "both"}
    /\ TCycles \in Cycles /\ TExtra \in Extra /\ FCycles \in Cycles /\ FExtra \in Extra
    /\ \E d \in Nat \ {0} : \E n \in 0 .. d : prob = BranchProbability(n, d)
    /\ stage # "done" => ~converted
    /\ ProbabilitySound
    /\ NeverALoss

\* What the if-converter is told of an edge.
LEMMA Weighed ==
    ASSUME NEW ws \in Weights \X Weights
    PROVE  /\ \E d \in Nat \ {0} : \E n \in 0 .. d :
                  getEdgeProbability(ws, 1) = BranchProbability(n, d)
           /\ \E d \in Nat \ {0} : \E n \in 0 .. d :
                  getCompl(getEdgeProbability(ws, 1)) = BranchProbability(n, d)
  <1> DEFINE D == getSumForBlock(ws)
             m == getEdgeWeight(ws[1]) \div ScaleOf(ws)
             n == getEdgeWeight(ws[2]) \div ScaleOf(ws)
  <1>1. /\ getEdgeProbability(ws, 1) = BranchProbability(m, D)
        /\ getEdgeProbability(ws, 2) = BranchProbability(n, D)
    BY DEF getEdgeProbability
  <1>2. D \in 1 .. WordSize - 1 /\ m \in 0 .. D /\ n \in 0 .. D
    BY FractionsSound, <1>1 DEF BranchProbability
  <1>3. getCompl(getEdgeProbability(ws, 1)) = BranchProbability(n, D)
    BY <1>1, FractionsSound
  <1>. HIDE DEF D, m, n
  <1>4. D \in Nat \ {0}
    BY <1>2, CostAssumption
  <1> QED BY <1>1, <1>2, <1>3, <1>4

LEMMA CostInit ==
    InitCosts => CostInv
  <1> SUFFICES ASSUME InitCosts PROVE CostInv
    OBVIOUS
  <1>1. /\ stage = "weigh" /\ converted = FALSE
        /\ prob = BranchProbability(0, 1)
        /\ weights \in Weights \X Weights
    BY DEF InitCosts
  <1>2. ProbabilitySound /\ NeverALoss
    BY <1>1 DEF ProbabilitySound, NeverALoss
  <1> QED BY <1>1, <1>2 DEF InitCosts, CostInv

LEMMA WeighKeeps ==
    CostInv /\ Weigh => CostInv'
  <1> SUFFICES ASSUME CostInv, Weigh PROVE CostInv'
    OBVIOUS
  <1> USE DEF CostInv, Weigh
  <1>1. weights' = weights /\ side' = side /\ stage' = "decide" /\ ~converted'
    OBVIOUS
  <1>2. NeverALoss'
    BY <1>1 DEF NeverALoss
  <1>3. prob' = getEdgeProbability(weights, IF side = "false" THEN 2 ELSE 1)
    BY FractionsSound
  <1>4. ProbabilitySound'
    <2> DEFINE p == getEdgeProbability(weights, 1)
               q == getEdgeProbability(weights, 2)
    <2>1. /\ p.D \in 1 .. WordSize - 1 /\ p.N \in 0 .. p.D
          /\ q.D = p.D /\ q.N \in 0 .. p.D
      BY FractionsSound DEF getEdgeProbability, BranchProbability
    <2>. HIDE DEF p, q
    <2>2. prob' = IF side = "false" THEN q ELSE p
      BY <1>3 DEF p, q
    <2>3. prob'.D \in 1 .. WordSize - 1 /\ prob'.N \in 0 .. prob'.D
      BY <2>1, <2>2
    <2> QED BY <1>1, <1>3, <2>3 DEF ProbabilitySound
  <1>5. \E d \in Nat \ {0} : \E n \in 0 .. d : prob' = BranchProbability(n, d)
    BY Weighed
  <1> QED BY <1>1, <1>2, <1>4, <1>5

LEMMA DecideKeeps ==
    CostInv /\ Decide => CostInv'
  <1> SUFFICES ASSUME CostInv, Decide PROVE CostInv'
    OBVIOUS
  <1> USE DEF CostInv, Decide
  <1>1. /\ weights' = weights /\ side' = side /\ stage' = "done" /\ prob' = prob
        /\ TCycles' = TCycles /\ TExtra' = TExtra /\ FCycles' = FCycles /\ FExtra' = FExtra
    OBVIOUS
  <1>2. ProbabilitySound'
    BY <1>1 DEF ProbabilitySound
  <1>3. NeverALoss'
    <2> SUFFICES ASSUME converted' PROVE ~Empty /\ PredicatedCost <= BranchingCost
      BY <1>1 DEF NeverALoss, Empty, PredicatedCost, BranchingCost
    <2>0. PICK d \in Nat \ {0} : \E n \in 0 .. d : prob = BranchProbability(n, d)
      OBVIOUS
    <2>1. PICK n \in 0 .. d : prob = BranchProbability(n, d)
      BY <2>0
    <2>2. prob.N = n /\ prob.D = d /\ n \in Nat
      BY <2>1 DEF BranchProbability
    <2>3. CASE side = "true"
      <3>1. isProfitableToIfCvt(TCycles, TExtra, BranchProbability(n, d))
        BY <2>1, <2>3
      <3>2. TCycles # 0
            /\ d * (TCycles + TExtra) <= d * (BranchCost + Misprediction) + n * TCycles
        BY <2>2, <3>1, OneNeverALoss
      <3> QED BY <2>2, <2>3, <3>2 DEF Empty, PredicatedCost, BranchingCost
    <2>4. CASE side = "false"
      <3>1. isProfitableToIfCvt(FCycles, FExtra, BranchProbability(n, d))
        BY <2>1, <2>4
      <3>2. FCycles # 0
            /\ d * (FCycles + FExtra) <= d * (BranchCost + Misprediction) + n * FCycles
        BY <2>2, <3>1, OneNeverALoss
      <3> QED BY <2>2, <2>4, <3>2 DEF Empty, PredicatedCost, BranchingCost
    <2>5. CASE side = "both"
      <3>1. areProfitableToIfCvt(TCycles, TExtra, FCycles, FExtra, BranchProbability(n, d))
        BY <2>1, <2>5
      <3>2. /\ TCycles # 0 /\ FCycles # 0
            /\ d * (TCycles + TExtra + FCycles + FExtra)
                   <= d * (BranchCost + Misprediction) + (n * TCycles + (d - n) * FCycles)
        BY <3>1, BothNeverALoss
      <3> QED BY <2>2, <2>5, <3>2 DEF Empty, PredicatedCost, BranchingCost
    <2> QED BY <2>3, <2>4, <2>5
  <1> QED BY <1>1, <1>2, <1>3

LEMMA CostStep ==
    CostInv /\ [NextCosts]_costVars => CostInv'
  <1> SUFFICES ASSUME CostInv, [NextCosts]_costVars PROVE CostInv'
    OBVIOUS
  <1>1. CASE Weigh
    BY <1>1, WeighKeeps
  <1>2. CASE Decide
    BY <1>2, DecideKeeps
  <1>3. CASE UNCHANGED costVars
    BY <1>3 DEF CostInv, costVars, ProbabilitySound, NeverALoss, Empty, PredicatedCost,
        BranchingCost
  <1> QED BY <1>1, <1>2, <1>3 DEF NextCosts, Decided

LEMMA CostAlways ==
    SpecCosts => []CostInv
  BY CostInit, CostStep, PTL DEF SpecCosts

\* Fractions of edges satisfy what BranchProbability asserts, and the complement of
\* one edge's is the other's, for words and weights of every size.
THEOREM ProbabilityAlwaysSound ==
    SpecCosts => []ProbabilitySound
  <1>1. CostInv => ProbabilitySound
    BY DEF CostInv
  <1> QED BY <1>1, CostAlways, PTL

\* If-conversion never predicates code at a loss, whatever wraps around.
THEOREM AlwaysNeverALoss ==
    SpecCosts => []NeverALoss
  <1>1. CostInv => NeverALoss
    BY DEF CostInv
  <1> QED BY <1>1, CostAlways, PTL
=============================================================================
