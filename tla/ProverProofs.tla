---------------------------- MODULE ProverProofs ----------------------------
(***************************************************************************)
(* Completeness: no gate of verify() rejects what the honest prover sends, *)
(* for every number of queries and layers, every challenge and every draw. *)
(***************************************************************************)
EXTENDS Prover, DriverProofs

\* The column of layer i, the terminal layer for i = L.
WordAt(i) == IF i = 0 THEN RowColumn(comp, ood, z, gamma) ELSE Fold(i - 1, fri[i], betas[i])

PositionsOf(i) == 0 .. (DomainSize[D - i] - 1)

\* What has been said: each message is the honest one, each layer the fold of the last.
Witnessed ==
  /\ pc \notin {"lengths", "trace"} => trace = TCol /\ alpha \in Challenges
  /\ pc \notin {"lengths", "trace", "comp"} => comp = CompCol(alpha) /\ z \in Challenges
  /\ pc \in {"fri", "final"} \cup Drawn =>
       FeltToPointOk(z) /\ ood = OpeningsOf(alpha, z) /\ gamma \in Challenges

Folded ==
  /\ fri \in Seq(UNION {FriRoots[i] : i \in 0 .. (L - 1)}) /\ betas \in Seq(Challenges)
  /\ Len(fri) = Len(betas) /\ Len(fri) <= L
  /\ pc \in {"lengths", "trace", "comp", "openings"} => fri = << >>
  /\ pc = "fri" => Len(fri) < L
  /\ pc \in {"final"} \cup Drawn => Len(fri) = L
  /\ pc \in {"fri", "final"} \cup Drawn =>
       /\ \A i \in 1 .. Len(fri) : fri[i] \in FriRoots[i - 1] /\ fri[i] = WordAt(i - 1)
       /\ cur = WordAt(Len(fri))

\* The gates before the first bundle will pass.
Drawable ==
  pc \in Drawn => /\ powOk /\ idx \in [1 .. N -> Indices]
                  /\ final = cur[0] /\ cur[0] = cur[1]

\* What is opened and carried is what the columns hold at the query's position.
AtPosition == pos \in PositionsOf(j) /\ val = WordAt(j)[pos]

Climbing ==
  /\ climb.of \in {"trace", "comp", "fri"}
  /\ climb.depth = IF climb.of = "fri" THEN D - j ELSE D
  /\ climb.level \in 0 .. climb.depth
  /\ climb.cursor \in 0 .. (DomainSize[climb.depth - climb.level] - 1)
  /\ climb.acc = Tree(Target)[climb.level][climb.cursor]

Answered ==
  /\ pc \in {"lengths", "trace", "comp", "openings", "fri", "final", "gate", "ood"} => k = 0
  /\ pc \in InBundle => k \in 0 .. (N - 1)
  /\ pc = "comp-leaf" => tx = TCol[Query]
  /\ pc = "deep" => tx = TCol[Query] /\ cx = comp[Query]
  /\ pc = "pair" => j \in 0 .. (L - 1) /\ AtPosition
  /\ pc = "fold" => j \in 0 .. (L - 1) /\ AtPosition /\ sib = WordAt(j)[SiblingOf(pos)]
  /\ pc = "last" => j = L /\ AtPosition
  /\ pc = "climb" =>
       /\ Climbing
       /\ climb.of = "trace" => tx = TCol[Query]
       /\ climb.of = "comp" => tx = TCol[Query] /\ cx = comp[Query]
       /\ climb.of = "fri" =>
            j \in 0 .. (L - 1) /\ AtPosition /\ sib = WordAt(j)[SiblingOf(pos)]

Stages == {"lengths", "trace", "comp", "openings", "fri", "final"} \cup Drawn

(***************************************************************************)
(* While nothing is rejected, the columns are the honest ones and what the *)
(* verifier carries is their value where it looks; that is what no gate    *)
(* can object to.                                                          *)
(***************************************************************************)
Unrejected == pc \in Stages /\ Witnessed /\ Folded /\ Drawable /\ Answered

-----------------------------------------------------------------------------
(* What the columns hold *)

\* The positions of a layer: the sibling of one is one, the last layer has two.
LEMMA LayerPositions ==
  /\ \A i \in 0 .. L : DomainSize[D - i] \in Nat /\ DomainSize[D - i] > 0
  /\ \A i \in 0 .. (L - 1) : DomainSize[D - i] = 2 * DomainSize[D - (i + 1)]
  /\ \A i \in 0 .. L : \A p \in PositionsOf(i) : p \in Nat /\ SiblingOf(p) \in PositionsOf(i)
  /\ PositionsOf(0) = Indices /\ PositionsOf(L) = 0 .. 1
<1>1. ASSUME NEW i \in 0 .. L PROVE DomainSize[D - i] \in Nat /\ DomainSize[D - i] > 0
  <2>1. D - i \in 0 .. D BY Sizes
  <2> QED BY <2>1, Sizes
<1>2. ASSUME NEW d \in 1 .. D PROVE DomainSize[d] = 2 * DomainSize[d - 1]
  <2>1. d \in 0 .. D /\ d > 0 BY Sizes
  <2> QED BY <2>1, Sizes
<1>3. ASSUME NEW i \in 0 .. (L - 1) PROVE DomainSize[D - i] = 2 * DomainSize[D - (i + 1)]
  <2>1. D - i \in 1 .. D /\ (D - i) - 1 = D - (i + 1) BY Sizes
  <2> QED BY <2>1, <1>2
<1>4. ASSUME NEW i \in 0 .. L, NEW p \in PositionsOf(i)
      PROVE  p \in Nat /\ SiblingOf(p) \in PositionsOf(i)
  <2>1. D - i \in 1 .. D /\ (D - i) - 1 \in 0 .. D BY Sizes
  <2>2. /\ DomainSize[D - i] = 2 * DomainSize[(D - i) - 1]
        /\ DomainSize[(D - i) - 1] \in Nat /\ DomainSize[D - i] \in Nat
    BY <2>1, <1>1, <1>2, Sizes
  <2>3. p \in Nat /\ p < DomainSize[D - i] BY <2>2 DEF PositionsOf
  <2>4. p \div 2 < DomainSize[(D - i) - 1] BY <2>1, <2>3, HalfInRange
  <2>5. SiblingOf(p) \in Nat /\ SiblingOf(p) < DomainSize[D - i]
    BY <2>2, <2>3, <2>4, Halves
  <2> QED BY <2>2, <2>3, <2>5 DEF PositionsOf
<1>5. PositionsOf(0) = Indices
  <2>1. D - 0 = D BY Sizes
  <2> QED BY <2>1 DEF PositionsOf, Indices
<1>6. PositionsOf(L) = 0 .. 1
  <2>1. D - L = 1 /\ 1 \in 1 .. D /\ 1 - 1 = 0 BY Sizes
  <2>2. DomainSize[1] = 2 * DomainSize[0] /\ DomainSize[0] = 1 BY <2>1, <1>2, Sizes
  <2> QED BY <2>1, <2>2 DEF PositionsOf
<1> QED BY <1>1, <1>3, <1>4, <1>5, <1>6

\* A column that stands under a root is opened at each position by its value there.
LEMMA Grows ==
  ASSUME NEW w, NEW depth \in 0 .. D, Grown(w, depth)
  PROVE  /\ \A p \in 0 .. (DomainSize[depth] - 1) : w[p] \in QM31 /\ Tree(w)[0][p] = Leaf(w[p])
         /\ \A l \in 1 .. depth : \A i \in 0 .. (DomainSize[depth - l] - 1) :
              Tree(w)[l][i] = Node(Tree(w)[l - 1][2 * i], Tree(w)[l - 1][2 * i + 1])
BY Zenon DEF Grown

\* A canonical element is accepted as such.
LEMMA InFieldCanonical == ASSUME NEW v \in QM31 PROVE Canonical(v)
<1>1. ASSUME NEW c \in M31 PROVE c < P BY FieldAssumption DEF M31
<1> QED BY <1>1 DEF Canonical, QM31

\* One level up an honest tree, with the sibling digest that stands there.
LEMMA HonestStep ==
  ASSUME NEW w, NEW depth \in 0 .. D, Grown(w, depth),
         NEW l \in 0 .. (depth - 1), NEW c \in 0 .. (DomainSize[depth - l] - 1)
  PROVE  /\ c \div 2 \in 0 .. (DomainSize[depth - (l + 1)] - 1)
         /\ MerkleStep(Tree(w)[l][SiblingOf(c)], Tree(w)[l][c], NodeIsRight(c))
              = Tree(w)[l + 1][c \div 2]
<1> DEFINE h == c \div 2
<1>1. depth - l \in 1 .. D /\ depth - l \in 0 .. D /\ (depth - l) - 1 = depth - (l + 1)
      /\ depth - (l + 1) \in 0 .. D
  BY Sizes
<1>2. c \in Nat /\ c < DomainSize[depth - l]
  <2>1. DomainSize[depth - l] \in Nat BY <1>1, Sizes
  <2> QED BY <2>1
<1>3. h \in Nat /\ h < DomainSize[depth - (l + 1)] BY <1>1, <1>2, HalfInRange, Halves
<1>4. DomainSize[depth - (l + 1)] \in Nat BY <1>1, Sizes
<1>5. h \in 0 .. (DomainSize[depth - (l + 1)] - 1)
  <2> HIDE DEF h
  <2> QED BY <1>3, <1>4
<1>6. l + 1 \in 1 .. depth /\ (l + 1) - 1 = l BY Sizes
<1>7. Tree(w)[l + 1][h] = Node(Tree(w)[l][2 * h], Tree(w)[l][2 * h + 1])
  BY <1>5, <1>6, Grows, Zenon
<1>8. CASE NodeIsRight(c)
  <2>1. c = 2 * h + 1 /\ SiblingOf(c) = 2 * h BY <1>2, <1>8, Halves
  <2> QED BY <1>5, <1>7, <1>8, <2>1 DEF MerkleStep
<1>9. CASE ~NodeIsRight(c)
  <2>1. c = 2 * h /\ SiblingOf(c) = 2 * h + 1 BY <1>2, <1>9, Halves
  <2> QED BY <1>5, <1>7, <1>9, <2>1 DEF MerkleStep
<1> QED BY <1>8, <1>9

(***************************************************************************)
(* With the inverse of the pair's twiddle for a hint, folding the carried  *)
(* value with its sibling gives the folded column's value at half the      *)
(* position, whichever member of the pair was carried.                     *)
(***************************************************************************)
LEMMA HonestFold ==
  ASSUME NEW i \in 0 .. (L - 1), NEW w, NEW b, NEW p \in PositionsOf(i)
  PROVE  LET x == Twiddle(i, EvenOf(p)) IN
         /\ HintRequires(x, M31Inv(x))
         /\ FoldLayerStepHint(w[p], w[SiblingOf(p)], M31Inv(x), b, NodeIsRight(p))
              = Fold(i, w, b)[p \div 2]
         /\ p \div 2 \in PositionsOf(i + 1)
<1> DEFINE x == Twiddle(i, EvenOf(p))
           h == p \div 2
<1>1. /\ DomainSize[D - i] \in Nat /\ DomainSize[D - (i + 1)] \in Nat
      /\ p \in Nat /\ p < DomainSize[D - i]
  <2>1. i \in 0 .. L /\ i + 1 \in 0 .. L BY Sizes
  <2>2. DomainSize[D - i] \in Nat /\ DomainSize[D - (i + 1)] \in Nat BY <2>1, LayerPositions
  <2> QED BY <2>2 DEF PositionsOf
<1>2. x \in M31 \ {0} BY ColumnsAssumption DEF PositionsOf
<1>3. HintRequires(x, M31Inv(x)) BY <1>2, InverseAssumption DEF HintRequires
<1>4. h \in PositionsOf(i + 1)
  <2>1. D - i \in 1 .. D /\ (D - i) - 1 = D - (i + 1) BY Sizes
  <2>2. h \in Nat /\ h < DomainSize[D - (i + 1)] BY <1>1, <2>1, HalfInRange, Halves
  <2> HIDE DEF h
  <2> QED BY <1>1, <2>2 DEF PositionsOf
<1>5. Fold(i, w, b)[h] = FriFoldStep(w[2 * h], w[2 * h + 1], Twiddle(i, 2 * h), b)
  <2>1. D - 1 - i = D - (i + 1) BY Sizes
  <2> HIDE DEF h
  <2> QED BY <1>4, <2>1 DEF Fold, PositionsOf
<1>6. FoldLayerStepHint(w[p], w[SiblingOf(p)], M31Inv(x), b, NodeIsRight(p))
        = FriFoldStepHint(w[2 * h], w[2 * h + 1], M31Inv(x), b)
      /\ EvenOf(p) = 2 * h
  <2>1. CASE NodeIsRight(p)
    <3>1. p = 2 * h + 1 /\ SiblingOf(p) = 2 * h /\ EvenOf(p) = SiblingOf(p) BY <1>1, <2>1, Halves
    <3> HIDE DEF h, x
    <3> QED BY <2>1, <3>1 DEF FoldLayerStepHint
  <2>2. CASE ~NodeIsRight(p)
    <3>1. p = 2 * h /\ SiblingOf(p) = 2 * h + 1 /\ EvenOf(p) = p BY <1>1, <2>2, Halves
    <3> HIDE DEF h, x
    <3> QED BY <2>2, <3>1 DEF FoldLayerStepHint
  <2> QED BY <2>1, <2>2
<1>7. FriFoldStepHint(w[2 * h], w[2 * h + 1], M31Inv(x), b)
        = FriFoldStep(w[2 * h], w[2 * h + 1], Twiddle(i, 2 * h), b)
  <2>1. x = Twiddle(i, 2 * h) BY <1>6
  <2> HIDE DEF h, x
  <2> QED BY <2>1 DEF FriFoldStepHint, FriFoldStep
<1> QED BY <1>3, <1>4, <1>5, <1>6, <1>7

\* The fold of a layer the honest prover commits stays in the field.
LEMMA FoldInField ==
  ASSUME NEW i \in 0 .. (L - 1), NEW w \in FriRoots[i], NEW b \in Challenges,
         NEW p \in PositionsOf(i + 1)
  PROVE  Fold(i, w, b)[p] \in QM31
<1>1. DomainSize[D - i] = 2 * DomainSize[D - (i + 1)] /\ D - 1 - i = D - (i + 1) /\ D - i \in 0 .. D
  BY LayerPositions, Sizes
<1>2. DomainSize[D - i] \in Nat /\ DomainSize[D - (i + 1)] \in Nat
  <2>1. i \in 0 .. L /\ i + 1 \in 0 .. L BY Sizes
  <2> QED BY <2>1, LayerPositions
<1>3. 2 * p \in PositionsOf(i) /\ 2 * p + 1 \in PositionsOf(i) /\ EvenOf(2 * p) = 2 * p
  <2>1. p \in Nat /\ p < DomainSize[D - (i + 1)] BY <1>2 DEF PositionsOf
  <2>2. EvenOf(2 * p) = 2 * p BY <2>1 DEF EvenOf
  <2> QED BY <1>1, <1>2, <2>1, <2>2 DEF PositionsOf
<1>4. Grown(w, D - i) BY ColumnsAssumption
<1>5. w[2 * p] \in QM31 /\ w[2 * p + 1] \in QM31 BY <1>1, <1>3, <1>4, Grows DEF PositionsOf
<1>6. Twiddle(i, 2 * p) \in M31 \ {0} BY <1>3, ColumnsAssumption DEF PositionsOf
<1>7. M31Inv(Twiddle(i, 2 * p)) \in Nat BY <1>6, InverseAssumption, M31Bounds
<1>8. b \in QM31 BY StatementAssumption
<1>9. FriFoldStepHint(w[2 * p], w[2 * p + 1], M31Inv(Twiddle(i, 2 * p)), b) \in QM31
  BY <1>5, <1>7, <1>8, HintedFoldClosed
<1>10. Fold(i, w, b)[p] = FriFoldStep(w[2 * p], w[2 * p + 1], Twiddle(i, 2 * p), b)
  BY <1>1 DEF Fold, PositionsOf
<1> QED BY <1>9, <1>10 DEF FriFoldStep, FriFoldStepHint

-----------------------------------------------------------------------------
(* While the prover commits *)

\* Before the first message nothing has been said.
LEMMA ProverInitUnrejected == ProverInit => Unrejected /\ PanicsOnlyOnExceptionalChallenge
<1> SUFFICES ASSUME ProverInit PROVE Unrejected /\ PanicsOnlyOnExceptionalChallenge OBVIOUS
<1> USE DEF ProverInit, Init, Unsaid
<1>1. Witnessed BY DEF Witnessed, Drawn, InBundle
<1>2. Folded
  <2>1. \A S : << >> \in Seq(S) /\ Len(<< >>) = 0 OBVIOUS
  <2> QED BY <2>1, Sizes DEF Folded, Drawn, InBundle
<1>3. Drawable /\ Answered BY DEF Drawable, Answered, Drawn, InBundle
<1> QED BY <1>1, <1>2, <1>3 DEF Unrejected, Stages, PanicsOnlyOnExceptionalChallenge

\* The lengths of an honest proof are those of the parameters.
LEMMA LengthsUnrejected ==
  ASSUME Unrejected, Lengths(L, N), UNCHANGED cur PROVE Unrejected'
<1>1. pc = "lengths" /\ pc' = "trace" /\ UNCHANGED <<messages, challenges, bundle>>
  BY DEF Lengths, Require
<1> USE <1>1 DEF messages, challenges, bundle
<1>2. Witnessed' BY DEF Witnessed, Drawn, InBundle
<1>3. Folded' BY DEF Unrejected, Folded, Drawn, InBundle
<1>4. Drawable' /\ Answered' BY DEF Unrejected, Drawable, Answered, Drawn, InBundle
<1> QED BY <1>2, <1>3, <1>4 DEF Unrejected, Stages

\* The trace column is the prover's.
LEMMA TraceUnrejected ==
  ASSUME Unrejected, NEW c \in Challenges, ProveTrace(c) PROVE Unrejected'
<1> USE DEF ProveTrace, CommitTrace, bundle
<1>1. Witnessed' BY DEF Witnessed, Drawn, InBundle
<1>2. Folded' BY DEF Unrejected, Folded, Drawn, InBundle
<1>3. Drawable' /\ Answered' BY DEF Unrejected, Drawable, Answered, Drawn, InBundle
<1> QED BY <1>1, <1>2, <1>3 DEF Unrejected, Stages

\* The composition column is the one alpha asks for.
LEMMA CompUnrejected ==
  ASSUME Unrejected, NEW c \in Challenges, ProveComp(c) PROVE Unrejected'
<1> USE DEF ProveComp, CommitComp, bundle
<1>1. Witnessed' BY DEF Unrejected, Witnessed, Drawn, InBundle
<1>2. Folded' BY DEF Unrejected, Folded, Drawn, InBundle
<1>3. Drawable' /\ Answered' BY DEF Unrejected, Drawable, Answered, Drawn, InBundle
<1> QED BY <1>1, <1>2, <1>3 DEF Unrejected, Stages

\* The openings are canonical, and gamma fixes the first layer.
LEMMA OpeningsUnrejected ==
  ASSUME Unrejected, NEW c \in Challenges, ProveOpenings(c) PROVE Unrejected'
<1> DEFINE o == OpeningsOf(alpha, z)
<1>1. pc = "openings" BY DEF ProveOpenings, AbsorbOpenings
<1>2. /\ trace = TCol /\ alpha \in Challenges /\ comp = CompCol(alpha) /\ z \in Challenges
      /\ FeltToPointOk(z)
  BY <1>1 DEF Unrejected, Witnessed, ProveOpenings, ExceptionalZ
<1>3. \A i \in DOMAIN o : Canonical(o[i]) BY <1>2, WitnessAssumption
<1>4. /\ ood' = o /\ gamma' = c /\ pc' = "fri" /\ cur' = RowColumn(comp, o, z, c)
      /\ UNCHANGED <<trace, comp, fri, final, alpha, z, betas, powOk, idx, bundle>>
  BY <1>3 DEF ProveOpenings, AbsorbOpenings, Require
<1> HIDE DEF o
<1>5. Witnessed' BY <1>2, <1>4 DEF Witnessed, Drawn, InBundle, o
<1>6. Folded'
  <2> DEFINE Roots == UNION {FriRoots[i] : i \in 0 .. (L - 1)}
  <2>1. fri \in Seq(Roots) /\ betas \in Seq(Challenges) /\ fri = << >> /\ Len(fri) = Len(betas)
    BY <1>1 DEF Unrejected, Folded
  <2>2. Len(fri) = 0 BY <2>1
  <2>3. WordAt(0)' = RowColumn(comp, o, z, c) BY <1>4 DEF WordAt, RowColumn
  <2>4. cur' = WordAt(Len(fri))' BY <1>4, <2>2, <2>3
  <2>5. fri' \in Seq(Roots) /\ betas' \in Seq(Challenges) BY <1>4, <2>1
  <2>6. Len(fri') = 0 /\ Len(betas') = 0 BY <1>4, <2>1, <2>2
  <2>7. 0 < L /\ 0 <= L /\ \A i \in 1 .. 0 : FALSE BY Sizes
  <2>8. pc' = "fri" BY <1>4
  <2> QED BY <2>4, <2>5, <2>6, <2>7, <2>8 DEF Folded, Drawn, InBundle
<1>7. Drawable' /\ Answered'
  BY <1>1, <1>4 DEF Unrejected, Drawable, Answered, Drawn, InBundle, bundle
<1> QED BY <1>4, <1>5, <1>6, <1>7 DEF Unrejected, Stages

\* The layer about to be committed is a codeword.
LEMMA CurIsCodeword ==
  ASSUME Unrejected, pc = "fri", ~ExceptionalRow PROVE cur \in FriRoots[Len(fri)]
<1>1. /\ trace = TCol /\ alpha \in Challenges /\ comp = CompCol(alpha) /\ z \in Challenges
      /\ FeltToPointOk(z) /\ ood = OpeningsOf(alpha, z) /\ gamma \in Challenges
  BY DEF Unrejected, Witnessed
<1>2. /\ fri \in Seq(UNION {FriRoots[i] : i \in 0 .. (L - 1)}) /\ betas \in Seq(Challenges)
      /\ Len(fri) = Len(betas) /\ Len(fri) < L
      /\ \A i \in 1 .. Len(fri) : fri[i] \in FriRoots[i - 1]
      /\ cur = WordAt(Len(fri))
  BY DEF Unrejected, Folded
<1>3. CASE Len(fri) = 0
  <2>1. fri = << >> BY <1>2, <1>3
  <2>2. cur = RowColumn(CompCol(alpha), OpeningsOf(alpha, z), z, gamma)
    BY <1>1, <1>2, <1>3 DEF WordAt
  <2>3. \A q \in Indices : cur[q] # None BY <2>1, <2>2 DEF ExceptionalRow, RowColumn
  <2> HIDE DEF RowColumn
  <2> QED BY <1>1, <1>3, <2>2, <2>3, WitnessAssumption
<1>4. CASE Len(fri) # 0
  <2> DEFINE n == Len(fri)
  <2>1. n \in 1 .. n /\ n - 1 \in 0 .. (L - 2) /\ (n - 1) + 1 = n BY <1>2, <1>4, Sizes
  <2>2. fri[n] \in FriRoots[n - 1] BY <1>2, <2>1
  <2>3. betas[n] \in Challenges BY <1>2, <2>1
  <2>4. cur = Fold(n - 1, fri[n], betas[n]) BY <1>2, <1>4 DEF WordAt
  <2> HIDE DEF n
  <2>5. Fold(n - 1, fri[n], betas[n]) \in FriRoots[(n - 1) + 1]
    BY <2>1, <2>2, <2>3, WitnessAssumption
  <2> QED BY <2>1, <2>4, <2>5 DEF n
<1> QED BY <1>3, <1>4

\* A sequence with one more element.
LEMMA Appended ==
  ASSUME NEW S, NEW s \in Seq(S), NEW e \in S
  PROVE  /\ Append(s, e) \in Seq(S) /\ Len(Append(s, e)) = Len(s) + 1
         /\ Append(s, e)[Len(s) + 1] = e
         /\ \A i \in 1 .. Len(s) : Append(s, e)[i] = s[i]
OBVIOUS

\* Each layer committed is the fold of the one before.
LEMMA LayerUnrejected ==
  ASSUME Unrejected, NEW c \in Challenges, ProveLayer(c) PROVE Unrejected'
<1> DEFINE Roots == UNION {FriRoots[i] : i \in 0 .. (L - 1)}
<1>0. PICK n \in Nat : n = Len(fri)
  <2>1. fri \in Seq(Roots) BY DEF Unrejected, Folded
  <2> QED BY <2>1
<1>1. /\ pc = "fri" /\ ~ExceptionalRow /\ fri' = Append(fri, cur) /\ betas' = Append(betas, c)
      /\ pc' = IF n + 1 = L THEN "final" ELSE "fri"
      /\ cur' = Fold(n, cur, c)
      /\ UNCHANGED <<trace, comp, ood, final, alpha, z, gamma, powOk, idx, bundle>>
  BY <1>0 DEF ProveLayer, FriBetaStep
<1>2. /\ fri \in Seq(Roots) /\ betas \in Seq(Challenges)
      /\ n = Len(betas) /\ n < L
      /\ \A i \in 1 .. n : fri[i] \in FriRoots[i - 1] /\ fri[i] = WordAt(i - 1)
      /\ cur = WordAt(n)
  BY <1>0, <1>1, Sizes DEF Unrejected, Folded
<1>3. cur \in FriRoots[n] BY <1>0, <1>1, CurIsCodeword
<1>4. cur \in Roots
  <2>1. n \in 0 .. (L - 1) BY <1>2, Sizes
  <2> QED BY <1>3, <2>1
<1> HIDE DEF Roots
<1>5. /\ fri' \in Seq(Roots) /\ betas' \in Seq(Challenges)
      /\ Len(fri') = n + 1 /\ Len(betas') = n + 1
      /\ fri'[n + 1] = cur /\ betas'[n + 1] = c
      /\ \A i \in 1 .. n : fri'[i] = fri[i] /\ betas'[i] = betas[i]
  <2>1. fri \in Seq(Roots) /\ Len(fri) = n /\ fri' = Append(fri, cur)
        /\ betas \in Seq(Challenges) /\ Len(betas) = n /\ betas' = Append(betas, c)
    BY <1>0, <1>1, <1>2
  <2>2. /\ fri' \in Seq(Roots) /\ Len(fri') = n + 1 /\ fri'[n + 1] = cur
        /\ \A i \in 1 .. n : fri'[i] = fri[i]
    BY <1>4, <2>1, Appended
  <2>3. /\ betas' \in Seq(Challenges) /\ Len(betas') = n + 1 /\ betas'[n + 1] = c
        /\ \A i \in 1 .. n : betas'[i] = betas[i]
    BY <2>1, Appended
  <2> QED BY <2>2, <2>3
<1>6. \A i \in 0 .. n : WordAt(i)' = WordAt(i)
  <2> SUFFICES ASSUME NEW i \in 0 .. n PROVE WordAt(i)' = WordAt(i) OBVIOUS
  <2>1. CASE i = 0 BY <1>1, <2>1 DEF WordAt, RowColumn
  <2>2. CASE i # 0
    <3>1. i \in 1 .. n BY <1>2, <2>2
    <3> QED BY <1>5, <2>2, <3>1 DEF WordAt, Fold
  <2> QED BY <2>1, <2>2
<1>7. \A i \in 1 .. (n + 1) : fri'[i] \in FriRoots[i - 1] /\ fri'[i] = WordAt(i - 1)'
  <2> SUFFICES ASSUME NEW i \in 1 .. (n + 1)
               PROVE  fri'[i] \in FriRoots[i - 1] /\ fri'[i] = WordAt(i - 1)'
    OBVIOUS
  <2>0. i - 1 \in 0 .. n BY <1>2
  <2>1. WordAt(i - 1)' = WordAt(i - 1) BY <1>6, <2>0
  <2>2. CASE i = n + 1
    <3>1. i - 1 = n BY <1>2, <2>2
    <3> QED BY <1>2, <1>3, <1>5, <2>1, <2>2, <3>1
  <2>3. CASE i # n + 1
    <3>1. i \in 1 .. n BY <1>2, <2>3
    <3>2. fri'[i] = fri[i] /\ fri[i] \in FriRoots[i - 1] /\ fri[i] = WordAt(i - 1)
      BY <1>2, <1>5, <3>1
    <3> QED BY <2>1, <3>2
  <2> QED BY <2>2, <2>3
<1>8. cur' = WordAt(n + 1)'
  <2>1. (n + 1) # 0 /\ (n + 1) - 1 = n BY <1>2
  <2> QED BY <1>1, <1>5, <2>1 DEF WordAt, Fold
<1>9. pc' \in {"fri", "final"} /\ (pc' = "fri" => n + 1 < L) /\ (pc' = "final" => n + 1 = L)
      /\ n + 1 <= L
  BY <1>1, <1>2, Sizes
<1>10. Folded' BY <1>5, <1>7, <1>8, <1>9 DEF Folded, Drawn, InBundle, Roots
<1>11. Witnessed' BY <1>1, <1>9 DEF Unrejected, Witnessed, Drawn, InBundle
<1>12. Drawable' /\ Answered'
  BY <1>1, <1>9 DEF Unrejected, Drawable, Answered, Drawn, InBundle, bundle
<1> QED BY <1>9, <1>10, <1>11, <1>12 DEF Unrejected, Stages

\* The terminal layer is constant, and an element of the field.
LEMMA TerminalIsConstant ==
  ASSUME Unrejected, pc = "final" PROVE cur[0] = cur[1] /\ cur[0] \in QM31
<1>1. /\ fri \in Seq(UNION {FriRoots[i] : i \in 0 .. (L - 1)}) /\ betas \in Seq(Challenges)
      /\ Len(fri) = Len(betas) /\ Len(fri) = L
      /\ \A i \in 1 .. L : fri[i] \in FriRoots[i - 1]
      /\ cur = WordAt(L)
  BY DEF Unrejected, Folded
<1>2. L \in 1 .. L /\ L # 0 /\ L - 1 \in 0 .. (L - 1) /\ (L - 1) + 1 = L BY Sizes
<1>3. fri[L] \in FriRoots[L - 1] /\ betas[L] \in Challenges
  <2>1. betas \in Seq(Challenges) /\ L \in 1 .. Len(betas) BY <1>1, <1>2
  <2>2. betas[L] \in Challenges BY <2>1
  <2> QED BY <1>1, <1>2, <2>2
<1>4. cur = Fold(L - 1, fri[L], betas[L]) BY <1>1, <1>2 DEF WordAt
<1>5. 0 \in PositionsOf(L) BY LayerPositions
<1>6. Fold(L - 1, fri[L], betas[L])[0] \in QM31 BY <1>2, <1>3, <1>5, FoldInField
<1> QED BY <1>3, <1>4, <1>6, WitnessAssumption

\* The constant sent is the terminal layer's, the nonce is good.
LEMMA FinalUnrejected ==
  ASSUME Unrejected, NEW ix \in [1 .. N -> Indices], ProveFinal(ix) PROVE Unrejected'
<1>1. pc = "final" BY DEF ProveFinal, DrawQueries
<1>2. cur[0] = cur[1] /\ Canonical(cur[0]) BY <1>1, TerminalIsConstant, InFieldCanonical
<1>3. /\ final' = cur[0] /\ powOk' = TRUE /\ idx' = ix /\ pc' = "gate" /\ UNCHANGED cur
      /\ UNCHANGED <<trace, comp, ood, fri, alpha, z, gamma, betas, bundle>>
  BY <1>2 DEF ProveFinal, DrawQueries, Require
<1>4. Witnessed' BY <1>1, <1>3 DEF Unrejected, Witnessed, Drawn, InBundle
<1>5. \A i : WordAt(i)' = WordAt(i) BY <1>3 DEF WordAt, RowColumn, Fold
<1>6. Folded' BY <1>1, <1>3, <1>5 DEF Unrejected, Folded, Drawn, InBundle
<1>7. Drawable' BY <1>2, <1>3 DEF Drawable
<1>8. Answered' BY <1>1, <1>3 DEF Unrejected, Answered, InBundle, bundle
<1> QED BY <1>3, <1>4, <1>6, <1>7, <1>8 DEF Unrejected, Stages, Drawn, InBundle

-----------------------------------------------------------------------------
(* While the verifier checks *)

\* From the draw on, what was said is what the prover meant to say.
LEMMA Said ==
  ASSUME Unrejected, pc \in Drawn
  PROVE  /\ trace = TCol /\ alpha \in Challenges /\ comp = CompCol(alpha) /\ z \in Challenges
         /\ FeltToPointOk(z) /\ ood = OpeningsOf(alpha, z) /\ gamma \in Challenges
         /\ Grown(trace, D) /\ Grown(comp, D)
         /\ \A i \in 0 .. (L - 1) :
              /\ fri[i + 1] \in FriRoots[i] /\ Grown(fri[i + 1], D - i)
              /\ fri[i + 1] = WordAt(i) /\ betas[i + 1] \in Challenges
         /\ \A p \in PositionsOf(L) : WordAt(L)[p] = final
<1>1. /\ trace = TCol /\ alpha \in Challenges /\ comp = CompCol(alpha) /\ z \in Challenges
      /\ FeltToPointOk(z) /\ ood = OpeningsOf(alpha, z) /\ gamma \in Challenges
  BY DEF Unrejected, Witnessed, Drawn, InBundle
<1>2. Grown(trace, D) /\ Grown(comp, D) BY <1>1, ColumnsAssumption
<1>3. /\ betas \in Seq(Challenges) /\ Len(betas) = L /\ Len(fri) = L
      /\ \A i \in 1 .. Len(fri) : fri[i] \in FriRoots[i - 1] /\ fri[i] = WordAt(i - 1)
      /\ cur = WordAt(Len(fri))
  BY DEF Unrejected, Folded
<1>4. ASSUME NEW i \in 0 .. (L - 1)
      PROVE  /\ fri[i + 1] \in FriRoots[i] /\ Grown(fri[i + 1], D - i)
             /\ fri[i + 1] = WordAt(i) /\ betas[i + 1] \in Challenges
  <2>1. i + 1 \in 1 .. L /\ (i + 1) - 1 = i BY Sizes
  <2>2. fri[i + 1] \in FriRoots[i] /\ fri[i + 1] = WordAt(i) BY <1>3, <2>1
  <2>3. betas[i + 1] \in Challenges
    <3>1. i + 1 \in 1 .. Len(betas) BY <1>3, <2>1
    <3> QED BY <1>3, <3>1
  <2> QED BY <2>2, <2>3, ColumnsAssumption
<1>5. ASSUME NEW p \in PositionsOf(L) PROVE WordAt(L)[p] = final
  <2>1. p = 0 \/ p = 1 BY LayerPositions
  <2>2. final = cur[0] /\ cur[0] = cur[1] BY DEF Unrejected, Drawable
  <2>3. cur = WordAt(L) BY <1>3
  <2> QED BY <2>1, <2>2, <2>3
<1> QED BY <1>1, <1>2, <1>4, <1>5

\* The bundle in hand is one of the N, at a position of the domain.
LEMMA AtQuery ==
  ASSUME Unrejected, pc \in InBundle
  PROVE  k \in 0 .. (N - 1) /\ Query \in PositionsOf(0)
<1>1. k \in 0 .. (N - 1) /\ idx \in [1 .. N -> Indices]
  BY DEF Unrejected, Answered, Drawable, Drawn
<1>2. k + 1 \in 1 .. N BY <1>1, Sizes
<1> QED BY <1>1, <1>2, LayerPositions DEF Query

\* What was said stays said.
LEMMA Kept ==
  ASSUME Unrejected, pc \in Drawn, pc' \in Drawn, UNCHANGED <<messages, challenges, cur>>
  PROVE  Witnessed' /\ Folded' /\ Drawable' /\ pc' \in Stages
<1> USE DEF messages, challenges
<1>1. Witnessed' BY DEF Unrejected, Witnessed, Drawn, InBundle
<1>2. \A i : WordAt(i)' = WordAt(i) BY DEF WordAt, RowColumn, Fold
<1>3. Folded' BY <1>2 DEF Unrejected, Folded, Drawn, InBundle
<1>4. Drawable' BY DEF Unrejected, Drawable
<1> QED BY <1>1, <1>3, <1>4 DEF Stages

\* What is carried keeps its meaning.
LEMMA AtPositionFrame ==
  ASSUME UNCHANGED <<messages, challenges, j, pos, val>>
  PROVE  (AtPosition' <=> AtPosition) /\ WordAt(j)' = WordAt(j)
<1>1. WordAt(j)' = WordAt(j) BY DEF messages, challenges, WordAt, RowColumn, Fold
<1>2. PositionsOf(j)' = PositionsOf(j) BY DEF PositionsOf
<1> QED BY <1>1, <1>2 DEF AtPosition

\* The grinding gate lets the honest nonce through.
LEMMA GrindingUnrejected ==
  ASSUME Unrejected, GrindingGate, UNCHANGED cur PROVE Unrejected'
<1>1. pc = "gate" BY DEF GrindingGate
<1>2. powOk /\ idx \in [1 .. N -> Indices] /\ Len(betas) = L
  BY <1>1 DEF Unrejected, Drawable, Folded, Drawn
<1>3. Len(idx) = N BY <1>2, Sizes
<1>4. pc' = "ood" /\ UNCHANGED <<messages, challenges, bundle>>
  BY <1>2, <1>3 DEF GrindingGate, Require
<1>5. Witnessed' /\ Folded' /\ Drawable' /\ pc' \in Stages BY <1>1, <1>4, Kept DEF Drawn
<1>6. Answered' BY <1>1, <1>4 DEF Unrejected, Answered, InBundle, bundle
<1> QED BY <1>5, <1>6 DEF Unrejected

\* The out-of-domain gate lets the witness's openings through.
LEMMA OodUnrejected ==
  ASSUME Unrejected, OodClosure, UNCHANGED cur PROVE Unrejected'
<1>1. pc = "ood" BY DEF OodClosure
<1>2. FeltToPointOk(z) /\ ComposeCheck(ood, z, alpha) BY <1>1, Said, WitnessAssumption DEF Drawn
<1>3. pc' = "trace-leaf" /\ UNCHANGED <<messages, challenges, bundle>>
  BY <1>2 DEF OodClosure, Require
<1>4. Witnessed' /\ Folded' /\ Drawable' /\ pc' \in Stages
  BY <1>1, <1>3, Kept DEF Drawn, InBundle
<1>5. Answered'
  <2>1. k' = 0 /\ 0 \in 0 .. (N - 1) BY <1>1, <1>3, Sizes DEF Unrejected, Answered, bundle
  <2> QED BY <1>3, <2>1 DEF Answered
<1> QED BY <1>4, <1>5 DEF Unrejected

\* The trace leaf opened is the committed one, a base field element.
LEMMA OpenTraceUnrejected ==
  ASSUME Unrejected, pc = "trace-leaf", OpenTrace(trace[Query], D), UNCHANGED cur
  PROVE  Unrejected'
<1> DEFINE v == trace[Query]
<1>1. /\ k \in 0 .. (N - 1) /\ Query \in PositionsOf(0) /\ trace = TCol /\ Grown(trace, D)
      /\ 0 \in 0 .. D /\ D - 0 = D /\ D \in 0 .. D
  BY AtQuery, Said, Sizes DEF Drawn, InBundle
<1>2. v \in QM31 /\ Tree(trace)[0][Query] = Leaf(v) BY <1>1, Grows DEF PositionsOf
<1>3. IsBase(v) BY <1>1, LayerPositions, ColumnsAssumption
<1>4. Canonical(v) BY <1>2, InFieldCanonical
<1>5. /\ pc' = "climb" /\ tx' = v
      /\ climb' = [acc |-> Leaf(v), level |-> 0, cursor |-> Query, depth |-> D, of |-> "trace"]
      /\ UNCHANGED <<messages, challenges, k, cx, j, pos, val, sib>>
  BY <1>3, <1>4 DEF OpenTrace, Require, StartClimb
<1>6. Witnessed' /\ Folded' /\ Drawable' /\ pc' \in Stages BY <1>5, Kept DEF Drawn, InBundle
<1>7. trace' = trace /\ Query' = Query BY <1>5 DEF messages, challenges, Query
<1>8. Target' = trace BY <1>5, <1>7 DEF Target
<1>9. Climbing' BY <1>1, <1>2, <1>5, <1>8 DEF Climbing, PositionsOf
<1>10. Answered' BY <1>1, <1>5, <1>7, <1>9 DEF Answered
<1> QED BY <1>6, <1>10 DEF Unrejected

\* The composition leaf opened is the committed one.
LEMMA OpenCompUnrejected ==
  ASSUME Unrejected, pc = "comp-leaf", OpenComp(comp[Query], D), UNCHANGED cur
  PROVE  Unrejected'
<1> DEFINE v == comp[Query]
<1>1. /\ k \in 0 .. (N - 1) /\ Query \in PositionsOf(0) /\ Grown(comp, D)
      /\ 0 \in 0 .. D /\ D - 0 = D /\ D \in 0 .. D
  BY AtQuery, Said, Sizes DEF Drawn, InBundle
<1>2. v \in QM31 /\ Tree(comp)[0][Query] = Leaf(v) BY <1>1, Grows DEF PositionsOf
<1>3. Canonical(v) BY <1>2, InFieldCanonical
<1>4. /\ pc' = "climb" /\ cx' = v
      /\ climb' = [acc |-> Leaf(v), level |-> 0, cursor |-> Query, depth |-> D, of |-> "comp"]
      /\ UNCHANGED <<messages, challenges, k, tx, j, pos, val, sib>>
  BY <1>3 DEF OpenComp, Require, StartClimb
<1>5. Witnessed' /\ Folded' /\ Drawable' /\ pc' \in Stages BY <1>4, Kept DEF Drawn, InBundle
<1>6. comp' = comp /\ Query' = Query BY <1>4 DEF messages, challenges, Query
<1>7. Target' = comp BY <1>4, <1>6 DEF Target
<1>8. Climbing' BY <1>1, <1>2, <1>4, <1>7 DEF Climbing, PositionsOf
<1>9. tx = TCol[Query] BY DEF Unrejected, Answered
<1>10. Answered' BY <1>1, <1>4, <1>6, <1>8, <1>9 DEF Answered
<1> QED BY <1>5, <1>10 DEF Unrejected

\* The sibling opened is the committed one, and the pair hashes to its committed parent.
LEMMA OpenPairUnrejected ==
  ASSUME Unrejected, pc = "pair", OpenPair(fri[j + 1][SiblingOf(pos)], D - 1 - j), UNCHANGED cur
  PROVE  Unrejected'
<1> DEFINE w == fri[j + 1]
           v == w[SiblingOf(pos)]
<1>1. j \in 0 .. (L - 1) /\ AtPosition BY DEF Unrejected, Answered
<1>2. /\ k \in 0 .. (N - 1) /\ Grown(w, D - j) /\ w = WordAt(j)
  BY <1>1, AtQuery, Said DEF Drawn, InBundle
<1>3. pos \in PositionsOf(j) /\ SiblingOf(pos) \in PositionsOf(j) /\ val = w[pos]
  <2>1. j \in 0 .. L BY <1>1, Sizes
  <2> QED BY <1>1, <1>2, <2>1, LayerPositions DEF AtPosition
<1>4. D - j \in 0 .. D /\ 0 \in 0 .. ((D - j) - 1) /\ (D - j) - 0 = D - j /\ 0 + 1 = 1
      /\ (D - 1 - j) + 1 = D - j /\ 1 \in 0 .. (D - j)
  BY <1>1, Sizes
<1> HIDE DEF w
<1>5. /\ v \in QM31 /\ Tree(w)[0][SiblingOf(pos)] = Leaf(v) /\ Tree(w)[0][pos] = Leaf(val)
  BY <1>2, <1>3, <1>4, Grows DEF PositionsOf
<1>6. /\ pos \div 2 \in 0 .. (DomainSize[(D - j) - 1] - 1)
      /\ MerkleStep(Leaf(v), Leaf(val), NodeIsRight(pos)) = Tree(w)[1][pos \div 2]
  <2>1. pos \in 0 .. (DomainSize[(D - j) - 0] - 1) BY <1>3, <1>4 DEF PositionsOf
  <2>2. /\ pos \div 2 \in 0 .. (DomainSize[(D - j) - (0 + 1)] - 1)
        /\ MerkleStep(Tree(w)[0][SiblingOf(pos)], Tree(w)[0][pos], NodeIsRight(pos))
             = Tree(w)[0 + 1][pos \div 2]
    BY <1>2, <1>4, <2>1, HonestStep
  <2> QED BY <1>4, <1>5, <2>2
<1>7. /\ pc' = "climb" /\ sib' = v
      /\ climb' = [acc |-> Tree(w)[1][pos \div 2], level |-> 1, cursor |-> pos \div 2,
                   depth |-> D - j, of |-> "fri"]
      /\ UNCHANGED <<messages, challenges, k, tx, cx, j, pos, val>>
  <2>1. Canonical(v) BY <1>5, InFieldCanonical
  <2> QED BY <1>4, <1>6, <2>1 DEF OpenPair, Require, StartClimb, w
<1>8. Witnessed' /\ Folded' /\ Drawable' /\ pc' \in Stages BY <1>7, Kept DEF Drawn, InBundle
<1>9. Target' = w BY <1>7 DEF Target, messages, w
<1>10. Climbing' BY <1>4, <1>6, <1>7, <1>9 DEF Climbing
<1>11. AtPosition' /\ WordAt(j)' = WordAt(j) /\ sib' = WordAt(j)[SiblingOf(pos)]
  BY <1>1, <1>2, <1>7, AtPositionFrame
<1>12. Answered' BY <1>1, <1>2, <1>7, <1>10, <1>11 DEF Answered
<1> QED BY <1>8, <1>12 DEF Unrejected

\* A climb is in a tree the prover grew.
LEMMA ClimbGrown ==
  ASSUME Unrejected, pc = "climb"
  PROVE  /\ Climbing /\ climb.depth \in 0 .. D /\ Grown(Target, climb.depth)
         /\ climb.of = "fri" => j \in 0 .. (L - 1) /\ AtPosition /\ sib = WordAt(j)[SiblingOf(pos)]
<1>1. /\ Climbing
      /\ climb.of = "fri" => j \in 0 .. (L - 1) /\ AtPosition /\ sib = WordAt(j)[SiblingOf(pos)]
  BY DEF Unrejected, Answered
<1>2. Grown(trace, D) /\ Grown(comp, D) /\ (j \in 0 .. (L - 1) => Grown(fri[j + 1], D - j))
  BY Said DEF Drawn, InBundle
<1>3. climb.depth \in 0 .. D BY <1>1, Sizes DEF Climbing
<1>4. Grown(Target, climb.depth) BY <1>1, <1>2 DEF Climbing, Target
<1> QED BY <1>1, <1>3, <1>4

\* One level up, the digest is the committed one.
LEMMA ClimbUnrejected ==
  ASSUME Unrejected, ClimbStep(SibDigest), UNCHANGED cur PROVE Unrejected'
<1> DEFINE depth == climb.depth
           l == climb.level
           c == climb.cursor
<1>1. /\ pc = "climb" /\ pc' = "climb" /\ l < depth
      /\ climb' = [acc |-> MerkleStep(SibDigest, climb.acc, NodeIsRight(c)), level |-> l + 1,
                   cursor |-> c \div 2, depth |-> depth, of |-> climb.of]
      /\ UNCHANGED <<messages, challenges, k, tx, cx, j, pos, val, sib>>
  BY DEF ClimbStep, StartClimb
<1>2. /\ Climbing /\ depth \in 0 .. D /\ Grown(Target, depth)
      /\ climb.of = "fri" => j \in 0 .. (L - 1) /\ AtPosition /\ sib = WordAt(j)[SiblingOf(pos)]
  BY <1>1, ClimbGrown
<1>3. /\ l \in 0 .. (depth - 1) /\ l + 1 \in 0 .. depth
      /\ c \in 0 .. (DomainSize[depth - l] - 1) /\ climb.acc = Tree(Target)[l][c]
  BY <1>1, <1>2, Sizes DEF Climbing
<1>4. /\ c \div 2 \in 0 .. (DomainSize[depth - (l + 1)] - 1)
      /\ MerkleStep(SibDigest, climb.acc, NodeIsRight(c)) = Tree(Target)[l + 1][c \div 2]
  BY <1>2, <1>3, HonestStep DEF SibDigest
<1>5. Witnessed' /\ Folded' /\ Drawable' /\ pc' \in Stages BY <1>1, Kept DEF Drawn, InBundle
<1>6. Target' = Target BY <1>1, <1>2 DEF Target, Climbing, messages
<1>7. Climbing' BY <1>1, <1>2, <1>3, <1>4, <1>6 DEF Climbing
<1>8. (AtPosition' <=> AtPosition) /\ WordAt(j)' = WordAt(j) BY <1>1, AtPositionFrame
<1>9. Query' = Query /\ comp' = comp BY <1>1 DEF Query, messages, challenges
<1>10. k \in 0 .. (N - 1) BY <1>1, AtQuery DEF InBundle
<1>11. Answered' BY <1>1, <1>2, <1>7, <1>8, <1>9, <1>10 DEF Unrejected, Answered
<1> QED BY <1>5, <1>11 DEF Unrejected

\* The top of the climb is the root.
LEMMA RootUnrejected ==
  ASSUME Unrejected, CheckRoot, UNCHANGED cur PROVE Unrejected'
<1>1. pc = "climb" /\ climb.level = climb.depth BY DEF CheckRoot
<1>2. /\ Climbing /\ climb.depth \in 0 .. D
      /\ climb.of = "fri" => j \in 0 .. (L - 1) /\ AtPosition /\ sib = WordAt(j)[SiblingOf(pos)]
  BY <1>1, ClimbGrown
<1>3. climb.acc = Root(Tree(Target), IF climb.of = "fri" THEN D - j ELSE D)
  <2>1. climb.depth - climb.level = 0 BY <1>1, <1>2
  <2>2. climb.cursor \in 0 .. 0 BY <1>2, <2>1, Sizes DEF Climbing
  <2>3. climb.cursor = 0 BY <2>2
  <2> QED BY <1>1, <1>2, <2>3 DEF Climbing, Root
<1>4. /\ pc' = CASE climb.of = "trace" -> "comp-leaf"
                 [] climb.of = "comp"  -> "deep"
                 [] climb.of = "fri"   -> "fold"
      /\ UNCHANGED <<messages, challenges, k, tx, cx, j, pos, val, sib, hashes>>
  BY <1>3 DEF CheckRoot, Require
<1>5. (AtPosition' <=> AtPosition) /\ WordAt(j)' = WordAt(j) BY <1>4, AtPositionFrame
<1>6. Query' = Query /\ comp' = comp BY <1>4 DEF Query, messages, challenges
<1>7. k \in 0 .. (N - 1) BY <1>1, AtQuery DEF InBundle
<1>8. /\ climb.of = "trace" => tx = TCol[Query]
      /\ climb.of = "comp" => tx = TCol[Query] /\ cx = comp[Query]
  BY <1>1 DEF Unrejected, Answered
<1>9. pc' \in {"comp-leaf", "deep", "fold"} /\ Answered'
  <2>1. CASE climb.of = "trace"
    <3>1. pc' = "comp-leaf" BY <1>4, <2>1
    <3> QED BY <1>4, <1>6, <1>7, <1>8, <2>1, <3>1 DEF Answered
  <2>2. CASE climb.of = "comp"
    <3>1. pc' = "deep" BY <1>4, <2>2
    <3> QED BY <1>4, <1>6, <1>7, <1>8, <2>2, <3>1 DEF Answered
  <2>3. CASE climb.of = "fri"
    <3>1. pc' = "fold" BY <1>4, <2>3
    <3> QED BY <1>2, <1>4, <1>5, <1>7, <2>3, <3>1 DEF Answered
  <2> QED BY <1>2, <2>1, <2>2, <2>3 DEF Climbing
<1>10. Witnessed' /\ Folded' /\ Drawable' /\ pc' \in Stages
  BY <1>1, <1>4, <1>9, Kept DEF Drawn, InBundle
<1> QED BY <1>9, <1>10 DEF Unrejected

\* The row the verifier computes is the first layer's value at the query.
LEMMA RowUnrejected ==
  ASSUME Unrejected, ComputeRow, UNCHANGED cur PROVE Unrejected'
<1> DEFINE row == DeepRow(tx, cx, Query, ood, z, gamma)
<1>1. pc = "deep" BY DEF ComputeRow
<1>2. k \in 0 .. (N - 1) /\ Query \in PositionsOf(0) BY <1>1, AtQuery DEF InBundle
<1>3. 0 \in 0 .. (L - 1) /\ 0 + 1 = 1 /\ D - 0 = D /\ D \in 0 .. D BY Sizes
<1>4. Grown(fri[1], D) /\ fri[1] = WordAt(0) BY <1>1, <1>3, Said DEF Drawn, InBundle
<1>5. tx = TCol[Query] /\ cx = comp[Query] BY <1>1 DEF Unrejected, Answered
<1>6. WordAt(0)[Query] = row BY <1>2, <1>5, LayerPositions DEF WordAt, RowColumn
<1>7. row # None
  <2>1. fri[1][Query] \in QM31 BY <1>2, <1>3, <1>4, Grows DEF PositionsOf
  <2> QED BY <1>4, <1>6, <2>1, StatementAssumption
<1>8. /\ val' = row /\ j' = 0 /\ pos' = Query /\ pc' = "pair"
      /\ UNCHANGED <<messages, challenges, k, tx, cx, sib, climb, hashes>>
  BY <1>7 DEF ComputeRow, Require
<1> HIDE DEF row
<1>9. Witnessed' /\ Folded' /\ Drawable' /\ pc' \in Stages BY <1>1, <1>8, Kept DEF Drawn, InBundle
<1>10. AtPosition'
  <2>1. WordAt(j)' = WordAt(0) BY <1>8 DEF WordAt, RowColumn, messages, challenges
  <2>2. PositionsOf(j)' = PositionsOf(0) BY <1>8 DEF PositionsOf
  <2> QED BY <1>2, <1>6, <1>8, <2>1, <2>2 DEF AtPosition
<1>11. Answered' BY <1>2, <1>3, <1>8, <1>10 DEF Answered
<1> QED BY <1>9, <1>11 DEF Unrejected

\* Folding the pair gives the next layer's value, or the terminal layer's.
LEMMA FoldUnrejected ==
  ASSUME Unrejected, FoldOne(M31Inv(Twiddle(j, EvenOf(pos)))), UNCHANGED cur PROVE Unrejected'
<1> DEFINE x == Twiddle(j, EvenOf(pos))
           w == fri[j + 1]
           b == betas[j + 1]
<1>1. pc = "fold" BY DEF FoldOne
<1>2. j \in 0 .. (L - 1) /\ AtPosition /\ sib = WordAt(j)[SiblingOf(pos)]
  BY <1>1 DEF Unrejected, Answered
<1>3. w = WordAt(j) BY <1>1, <1>2, Said DEF Drawn, InBundle
<1>4. pos \in PositionsOf(j) /\ val = w[pos] /\ sib = w[SiblingOf(pos)]
  BY <1>2, <1>3 DEF AtPosition
<1> HIDE DEF w, b
<1>5. /\ HintRequires(x, M31Inv(x))
      /\ FoldLayerStepHint(val, sib, M31Inv(x), b, NodeIsRight(pos)) = Fold(j, w, b)[pos \div 2]
      /\ pos \div 2 \in PositionsOf(j + 1)
  BY <1>2, <1>4, HonestFold
<1>6. /\ val' = Fold(j, w, b)[pos \div 2]
      /\ j' = j + 1 /\ pos' = pos \div 2 /\ sib' = None
      /\ pc' = IF j + 1 = L THEN "last" ELSE "pair"
      /\ UNCHANGED <<messages, challenges, k, tx, cx, climb, hashes>>
  BY <1>5 DEF FoldOne, Require, b
<1>7. /\ pc' \in {"last", "pair"} /\ (pc' = "last" => j' = L)
      /\ (pc' = "pair" => j' \in 0 .. (L - 1)) /\ j + 1 # 0 /\ (j + 1) - 1 = j
  BY <1>2, <1>6, Sizes
<1>8. Witnessed' /\ Folded' /\ Drawable' /\ pc' \in Stages
  BY <1>1, <1>6, <1>7, Kept DEF Drawn, InBundle
<1>9. AtPosition'
  <2>1. WordAt(j)' = Fold(j, w, b)
    BY <1>6, <1>7 DEF WordAt, Fold, messages, challenges, w, b
  <2>2. PositionsOf(j)' = PositionsOf(j + 1) BY <1>6 DEF PositionsOf
  <2> QED BY <1>5, <1>6, <2>1, <2>2 DEF AtPosition
<1>10. k \in 0 .. (N - 1) BY <1>1, AtQuery DEF InBundle
<1>11. Answered' BY <1>6, <1>7, <1>9, <1>10 DEF Answered
<1> QED BY <1>8, <1>11 DEF Unrejected

\* The last fold is the constant.
LEMMA LastUnrejected ==
  ASSUME Unrejected, LastLayer, UNCHANGED cur PROVE Unrejected'
<1>1. pc = "last" BY DEF LastLayer
<1>2. j = L /\ AtPosition BY <1>1 DEF Unrejected, Answered
<1>3. val = final BY <1>1, <1>2, Said DEF AtPosition, Drawn, InBundle
<1>4. /\ k' = k + 1 /\ pc' = IF k + 1 = N THEN "accepted" ELSE "trace-leaf"
      /\ UNCHANGED <<messages, challenges>>
  BY <1>3 DEF LastLayer, Require
<1>5. k \in 0 .. (N - 1) BY <1>1, AtQuery DEF InBundle
<1>6. pc' \in {"accepted", "trace-leaf"} /\ (pc' = "trace-leaf" => k' \in 0 .. (N - 1))
  BY <1>4, <1>5, Sizes
<1>7. Witnessed' /\ Folded' /\ Drawable' /\ pc' \in Stages
  BY <1>1, <1>4, <1>6, Kept DEF Drawn, InBundle
<1>8. Answered' BY <1>6 DEF Answered, InBundle
<1> QED BY <1>7, <1>8 DEF Unrejected

\* A panic, the verdict or a stuttering step says nothing new.
LEMMA IdleUnrejected == ASSUME Unrejected, UNCHANGED <<vars, cur>> PROVE Unrejected'
<1> USE DEF vars, messages, challenges, bundle
<1>1. Witnessed' BY DEF Unrejected, Witnessed
<1>2. \A i : WordAt(i)' = WordAt(i) BY DEF WordAt, RowColumn, Fold
<1>3. Folded' BY <1>2 DEF Unrejected, Folded
<1>4. Drawable' BY DEF Unrejected, Drawable
<1>5. (AtPosition' <=> AtPosition) /\ WordAt(j)' = WordAt(j) BY AtPositionFrame
<1>6. Query' = Query BY DEF Query
<1>7. Climbing' <=> Climbing BY DEF Climbing, Target
<1>8. Answered' BY <1>5, <1>6, <1>7 DEF Unrejected, Answered
<1> QED BY <1>1, <1>3, <1>4, <1>8 DEF Unrejected

\* No step of either program gets the honest proof rejected.
LEMMA ProverNextUnrejected ==
  Unrejected /\ PanicsOnlyOnExceptionalChallenge /\ [ProverNext]_<<vars, proverVars>>
    => (Unrejected /\ PanicsOnlyOnExceptionalChallenge)'
<1> SUFFICES ASSUME Unrejected, PanicsOnlyOnExceptionalChallenge,
                    [ProverNext]_<<vars, proverVars>>
             PROVE  (Unrejected /\ PanicsOnlyOnExceptionalChallenge)'
  OBVIOUS
<1>1. ASSUME Prove PROVE Unrejected' /\ PanicsOnlyOnExceptionalChallenge'
  <2>1. PanicsOnlyOnExceptionalChallenge' BY <1>1 DEF Prove, PanicsOnlyOnExceptionalChallenge
  <2>2. CASE Lengths(L, N) /\ UNCHANGED cur BY <2>1, <2>2, LengthsUnrejected
  <2>3. CASE \E c \in Challenges :
               ProveTrace(c) \/ ProveComp(c) \/ ProveOpenings(c) \/ ProveLayer(c)
    BY <2>1, <2>3, TraceUnrejected, CompUnrejected, OpeningsUnrejected, LayerUnrejected
  <2>4. CASE \E ix \in [1 .. N -> Indices] : ProveFinal(ix) BY <2>1, <2>4, FinalUnrejected
  <2>5. CASE AnswerQuery /\ UNCHANGED cur
    BY <2>1, <2>5, OpenTraceUnrejected, OpenCompUnrejected, OpenPairUnrejected, ClimbUnrejected,
       FoldUnrejected DEF AnswerQuery
  <2>6. CASE VerifierStep /\ UNCHANGED cur
    BY <2>1, <2>6, GrindingUnrejected, OodUnrejected, RootUnrejected, RowUnrejected, LastUnrejected
       DEF VerifierStep
  <2> QED BY <1>1, <2>1, <2>2, <2>3, <2>4, <2>5, <2>6 DEF Prove
<1>2. ASSUME UNCHANGED <<vars, cur>>
      PROVE  (ExceptionalZ \/ ExceptionalRow)' <=> ExceptionalZ \/ ExceptionalRow
  BY <1>2 DEF ExceptionalZ, ExceptionalRow, vars, messages, challenges
<1>3. ASSUME Panic PROVE Unrejected' /\ PanicsOnlyOnExceptionalChallenge'
  <2>1. UNCHANGED <<vars, cur>> BY <1>3 DEF Panic
  <2>2. ~TerminalNotConstant BY TerminalIsConstant DEF TerminalNotConstant
  <2>3. ExceptionalZ \/ ExceptionalRow BY <1>3, <2>2 DEF Panic
  <2> QED BY <1>2, <2>1, <2>3, IdleUnrejected DEF PanicsOnlyOnExceptionalChallenge
<1>4. ASSUME UNCHANGED <<vars, proverVars>> PROVE Unrejected' /\ PanicsOnlyOnExceptionalChallenge'
  <2>1. UNCHANGED <<vars, cur>> /\ panicked' = panicked BY <1>4 DEF proverVars
  <2> QED BY <1>2, <2>1, IdleUnrejected DEF PanicsOnlyOnExceptionalChallenge
<1>5. ProverNext => Prove \/ Panic \/ UNCHANGED <<vars, proverVars>>
  BY DEF ProverNext, Stopped, Returned
<1> QED BY <1>1, <1>3, <1>4, <1>5

-----------------------------------------------------------------------------
\* The honest proof stays unrejected.
LEMMA ProverInvariance ==
  ProverSafety => [](Unrejected /\ PanicsOnlyOnExceptionalChallenge)
BY ProverInitUnrejected, ProverNextUnrejected, PTL DEF ProverSafety

(***************************************************************************)
(* Whatever the challenges and the positions drawn, with repetitions or    *)
(* not, no gate of verify() rejects what prove.rs sends: canonicity, list  *)
(* lengths, grinding, the out-of-domain closure, every Merkle root, every  *)
(* hint and the last layer.                                                *)
(***************************************************************************)
THEOREM Completeness == ProverSafety => []HonestNeverRejected
<1>1. Unrejected => HonestNeverRejected
  BY DEF Unrejected, Stages, Drawn, InBundle, HonestNeverRejected
<1> QED BY ProverInvariance, <1>1, PTL

(***************************************************************************)
(* "honest terminal must be constant" of prove.rs never fires: only an     *)
(* exceptional z or gamma makes the prover panic.                          *)
(***************************************************************************)
THEOREM TerminalAssertion == ProverSafety => []PanicsOnlyOnExceptionalChallenge
BY ProverInvariance, PTL
=============================================================================
