---------------------------- MODULE ReplayProofs ----------------------------
(***************************************************************************)
(* The production driver has one answer per query: whatever the columns,   *)
(* the kind of proof and the bundle sent in place of one, a bundle that    *)
(* passes is the one read off the committed columns.                       *)
(***************************************************************************)
EXTENDS Replay, DriverProofs

-----------------------------------------------------------------------------
(* What is known of a bundle, piece by piece, once the piece was read. *)

\* The answer as verify() takes it, to trees that stand for the columns.
Given ==
  /\ AllBuilt /\ idx \in [1 .. N -> Indices]
  /\ \A n \in 1 .. N : WellTyped(bundles[n])

AllRead == \A n \in 1 .. k : Reduced(bundles[n]) = BundleAt(idx[n])

TraceRead == Current.tX = trace[Query] /\ Current.tSibs = TreeSibs(trace, D, Query, 0)
CompRead  == Current.cX = comp[Query] /\ Current.cSibs = TreeSibs(comp, D, Query, 0)

PairRead(i) ==
  LET p == PositionAt(Query, i - 1) IN
  /\ Current.pairs[i].sib = fri[i][SiblingOf(p)]
  /\ Current.pairs[i].sibs = TreeSibs(fri[i], D + 1 - i, p, 1)

HintRead(i) ==
  /\ i <= Len(Current.hints)
  /\ Current.hints[i] % P = M31Inv(Twiddle(i - 1, EvenOf(PositionAt(Query, i - 1))))

LayersRead ==
  /\ TraceRead /\ CompRead
  /\ j \in 0 .. L /\ pos = PositionAt(Query, j) /\ pos \in 0 .. (DomainSize[D - j] - 1)
  /\ \A i \in 1 .. j : PairRead(i) /\ HintRead(i)

\* Where the climb stands, in which tree, and what is read of its siblings if
\* its digest is the committed one.
ClimbDepth == IF climb.of = "fri" THEN D - j ELSE D
ClimbStart == IF climb.of = "fri" THEN pos ELSE Query

LeafRead ==
  /\ climb.of = "trace" => Current.tX = trace[Query]
  /\ climb.of = "comp" => Current.cX = comp[Query]
  /\ climb.of = "fri" => Current.pairs[j + 1].sib = fri[j + 1][SiblingOf(pos)]

SibsRead ==
  \A i \in 1 .. (climb.level - From) :
    Path[i] = Tree(Target)[From + i - 1][SiblingOf(PositionAt(ClimbStart, From + i - 1))]

Climbing ==
  /\ climb.of \in {"trace", "comp", "fri"} /\ climb.depth = ClimbDepth
  /\ climb.level \in From .. ClimbDepth /\ Len(Path) = ClimbDepth - From
  /\ climb.cursor = PositionAt(ClimbStart, climb.level)
  /\ climb.cursor \in 0 .. (DomainSize[ClimbDepth - climb.level] - 1)
  /\ climb.acc = Tree(Target)[climb.level][climb.cursor] => LeafRead /\ SibsRead
  /\ climb.of = "comp" => TraceRead
  /\ climb.of = "fri" => j < L /\ LayersRead

Stage ==
  /\ pc = "comp-leaf" => TraceRead
  /\ pc = "deep" => TraceRead /\ CompRead
  /\ pc = "pair" => j < L /\ LayersRead
  /\ pc = "climb" => Climbing
  /\ pc = "fold" => j < L /\ LayersRead /\ PairRead(j + 1)
  /\ pc = "last" => j = L /\ LayersRead

Progress ==
  /\ pc \in {"lengths", "trace", "comp", "openings", "fri", "final", "gate", "ood"} => k = 0
  /\ pc \in {"lengths", "trace", "comp", "openings", "fri", "final"} => bundles = << >>
  /\ pc = "gate" => idx \in [1 .. N -> Indices]
  /\ pc \in {"ood", "accepted"} \cup InBundle => bundles # << >>
  /\ pc \in Drawn /\ bundles # << >> => Given /\ AllRead
  /\ pc \in InBundle => k \in 0 .. (N - 1)
  /\ pc = "accepted" => k = N

ReadInv == Progress /\ Stage

-----------------------------------------------------------------------------
(* Columns, trees and lists *)

\* A position's position at its own layer is itself.
LEMMA PositionZero == ASSUME NEW p \in Nat PROVE PositionAt(p, 0) = p
BY Sizes DEF PositionAt

\* build_tree makes a tree, whose leaves are the column's.
LEMMA BuiltIsTree ==
  ASSUME NEW w, NEW depth, Built(w, depth)
  PROVE  /\ IsTree(Tree(w), depth)
         /\ \A p \in 0 .. (DomainSize[depth] - 1) : Tree(w)[0][p] = Leaf(w[p])
BY DEF Built, IsTree

\* The sibling of a position is a position.
LEMMA SiblingInRange ==
  ASSUME NEW d \in 1 .. D, NEW p \in 0 .. (DomainSize[d] - 1)
  PROVE  SiblingOf(p) \in 0 .. (DomainSize[d] - 1)
<1>1. d \in 0 .. D /\ d - 1 \in 0 .. D /\ d > 0 BY Sizes
<1>2. DomainSize[d - 1] \in Nat /\ DomainSize[d] = 2 * DomainSize[d - 1] BY <1>1, Sizes
<1> DEFINE h == p \div 2
<1>3. p \in Nat /\ h \in Nat BY <1>2
<1>4. h < DomainSize[d - 1] BY <1>2, <1>3, HalfInRange
<1>5. SiblingOf(p) = 2 * h \/ SiblingOf(p) = 2 * h + 1 BY <1>3, Halves
<1> HIDE DEF h
<1> QED BY <1>2, <1>3, <1>4, <1>5

\* A hint that is required to invert is the inverse, up to a multiple of P.
LEMMA HintIsInverse ==
  ASSUME NEW i \in 0 .. (L - 1), NEW p \in 0 .. (DomainSize[D - i] - 1), NEW hint \in Nat,
         HintRequires(Twiddle(i, EvenOf(p)), hint)
  PROVE  hint % P = M31Inv(Twiddle(i, EvenOf(p)))
<1> DEFINE x == Twiddle(i, EvenOf(p))
<1>1. x \in M31 \ {0} BY DrawsAssumption
<1>2. M31Mul(x, hint) = 1 BY DEF HintRequires
<1> HIDE DEF x
<1>3. x \in Nat BY <1>1, M31Bounds
<1>4. M31Inv(x) \in M31 /\ M31Mul(x, M31Inv(x)) = 1 BY <1>1, InverseAssumption
<1>5. M31Inv(x) \in Nat BY <1>4, M31Bounds
<1>6. M31Mul(1, hint) = M31Mul(1, M31Inv(x)) BY <1>2, <1>3, <1>4, <1>5, InversesAgree
<1>7. P \in Nat /\ P > 2 BY FieldAssumption
<1>8. M31Mul(1, hint) = hint % P BY DEF M31Mul
<1>9. M31Mul(1, M31Inv(x)) = M31Inv(x) BY <1>4, <1>5, <1>7 DEF M31Mul, M31
<1> QED BY <1>6, <1>8, <1>9 DEF x

\* A bundle right in every part is the one read off the columns.
LEMMA WholeRead ==
  ASSUME NEW b, WellTyped(b), NEW q,
         b.tX = trace[q], b.tSibs = TreeSibs(trace, D, q, 0),
         b.cX = comp[q], b.cSibs = TreeSibs(comp, D, q, 0),
         \A i \in 1 .. L : LET p == PositionAt(q, i - 1) IN
           /\ b.pairs[i].sib = fri[i][SiblingOf(p)]
           /\ b.pairs[i].sibs = TreeSibs(fri[i], D + 1 - i, p, 1),
         \A i \in 1 .. L :
           /\ i <= Len(b.hints)
           /\ b.hints[i] % P = M31Inv(Twiddle(i - 1, EvenOf(PositionAt(q, i - 1))))
  PROVE  Reduced(b) = BundleAt(q)
<1> DEFINE PairsAt == [i \in 1 .. L |->
                         LET p == PositionAt(q, i - 1) IN
                         [sib |-> fri[i][SiblingOf(p)], sibs |-> TreeSibs(fri[i], D + 1 - i, p, 1)]]
           HintsAt == [i \in 1 .. L |-> M31Inv(Twiddle(i - 1, EvenOf(PositionAt(q, i - 1))))]
           Halved  == [i \in 1 .. Len(b.hints) |-> b.hints[i] % P]
<1>1. b.pairs = PairsAt
  <2>1. b.pairs = [i \in 1 .. L |-> [sib |-> b.pairs[i].sib, sibs |-> b.pairs[i].sibs]]
    BY DEF WellTyped
  <2>2. \A i \in 1 .. L :
          [sib |-> b.pairs[i].sib, sibs |-> b.pairs[i].sibs]
            = [sib |-> fri[i][SiblingOf(PositionAt(q, i - 1))],
               sibs |-> TreeSibs(fri[i], D + 1 - i, PositionAt(q, i - 1), 1)]
    OBVIOUS
  <2> QED BY <2>1, <2>2
<1>2. Len(b.hints) = L
  <2>1. L \in 1 .. L /\ L \in Nat BY Sizes
  <2>2. Len(b.hints) \in 0 .. L BY DEF WellTyped, List
  <2>3. L <= Len(b.hints) BY <2>1
  <2> QED BY <2>1, <2>2, <2>3
<1>3. Halved = HintsAt BY <1>2
<1> HIDE DEF PairsAt, HintsAt, Halved
<1>4. b = [tX |-> b.tX, tSibs |-> b.tSibs, cX |-> b.cX, cSibs |-> b.cSibs,
           pairs |-> b.pairs, hints |-> b.hints]
  BY DEF WellTyped
<1>5. Reduced(b) = [b EXCEPT !.hints = Halved] BY DEF Reduced, Halved
<1>6. [b EXCEPT !.hints = Halved]
        = [tX |-> b.tX, tSibs |-> b.tSibs, cX |-> b.cX, cSibs |-> b.cSibs,
           pairs |-> b.pairs, hints |-> Halved]
  BY <1>4
<1>7. BundleAt(q) = [tX |-> trace[q], tSibs |-> TreeSibs(trace, D, q, 0),
                     cX |-> comp[q], cSibs |-> TreeSibs(comp, D, q, 0),
                     pairs |-> PairsAt, hints |-> HintsAt]
  BY DEF BundleAt, PairsAt, HintsAt
<1> QED BY <1>1, <1>3, <1>5, <1>6, <1>7

-----------------------------------------------------------------------------
(* What a step that leaves messages, indices and bundles alone does to what *)
(* was read: nothing.                                                       *)

LEMMA GivenFrame ==
  ASSUME UNCHANGED <<messages, challenges, replayVars>> PROVE Given' <=> Given
BY DEF messages, challenges, replayVars, Given, AllBuilt, Built

LEMMA AllReadFrame ==
  ASSUME UNCHANGED <<messages, challenges, k, replayVars>> PROVE AllRead' <=> AllRead
BY DEF messages, challenges, replayVars, AllRead, BundleAt, TreeSibs

LEMMA ReadFrame ==
  ASSUME UNCHANGED <<messages, challenges, k, replayVars>>
  PROVE  /\ TraceRead' <=> TraceRead
         /\ CompRead' <=> CompRead
         /\ \A i : PairRead(i)' <=> PairRead(i)
         /\ \A i : HintRead(i)' <=> HintRead(i)
BY DEF messages, challenges, replayVars, TraceRead, CompRead, PairRead, HintRead, Current, Query,
       TreeSibs

LEMMA LayersFrame ==
  ASSUME UNCHANGED <<messages, challenges, k, j, pos, replayVars>> PROVE LayersRead' <=> LayersRead
BY ReadFrame DEF messages, challenges, LayersRead, Query

-----------------------------------------------------------------------------
(* Every step keeps what was read. *)

\* What holds wherever a bundle is read.
LEMMA Reading ==
  ASSUME ReadInv, pc \in InBundle
  PROVE  /\ Given /\ AllRead /\ bundles # << >> /\ k \in 0 .. (N - 1) /\ k + 1 \in 1 .. N
         /\ Query \in Indices /\ Query \in 0 .. (DomainSize[D] - 1) /\ WellTyped(Current)
<1>1. Given /\ AllRead /\ bundles # << >> /\ k \in 0 .. (N - 1)
  BY DEF ReadInv, Progress, Drawn, InBundle
<1>2. k + 1 \in 1 .. N BY <1>1, Sizes
<1>3. Query \in Indices /\ WellTyped(Current) BY <1>1, <1>2 DEF Given, Query, Current
<1> QED BY <1>1, <1>2, <1>3 DEF Indices

\* From one point of a bundle to another, the bundles before it stay read.
LEMMA ProgressKept ==
  ASSUME ReadInv, pc \in InBundle, pc' \in InBundle,
         UNCHANGED <<messages, challenges, k, replayVars>>
  PROVE  Progress'
<1>1. Given' /\ AllRead' /\ bundles' # << >> /\ k' \in 0 .. (N - 1)
  BY Reading, GivenFrame, AllReadFrame DEF replayVars
<1>2. pc' \in {"trace-leaf", "comp-leaf", "deep", "pair", "climb", "fold", "last"}
  BY DEF InBundle
<1> QED BY <1>1, <1>2 DEF Progress, InBundle

\* After a rejection nothing is claimed.
LEMMA RejectRead == ASSUME ReadInv, Reject, UNCHANGED replayVars PROVE ReadInv'
BY DEF Reject, ReadInv, Progress, Stage, Drawn, InBundle

\* What a climb of each kind looks at, before and after a step.
LEMMA Focus ==
  /\ climb.of = "trace" => /\ Path = Current.tSibs /\ Target = trace /\ From = 0
                           /\ ClimbDepth = D /\ ClimbStart = Query
  /\ climb.of = "comp" => /\ Path = Current.cSibs /\ Target = comp /\ From = 0
                          /\ ClimbDepth = D /\ ClimbStart = Query
  /\ climb.of = "fri" => /\ Path = Current.pairs[j + 1].sibs /\ Target = fri[j + 1] /\ From = 1
                         /\ ClimbDepth = D - j /\ ClimbStart = pos
BY DEF Path, Target, From, ClimbDepth, ClimbStart

LEMMA FocusAfter ==
  /\ climb'.of = "trace" => /\ Path' = Current'.tSibs /\ Target' = trace' /\ From' = 0
                            /\ ClimbDepth' = D /\ ClimbStart' = Query'
  /\ climb'.of = "comp" => /\ Path' = Current'.cSibs /\ Target' = comp' /\ From' = 0
                           /\ ClimbDepth' = D /\ ClimbStart' = Query'
  /\ climb'.of = "fri" => /\ Path' = Current'.pairs[j' + 1].sibs /\ Target' = fri'[j' + 1]
                          /\ From' = 1 /\ ClimbDepth' = D - j' /\ ClimbStart' = pos'
BY DEF Path, Target, From, ClimbDepth, ClimbStart

\* The trace leaf: if its digest is the committed one, so is its value.
LEMMA OpenTraceRead ==
  ASSUME ReadInv, pc = "trace-leaf", UNCHANGED replayVars,
         OpenTrace(Current.tX, Len(Current.tSibs))
  PROVE  ReadInv'
<1>1. CASE Reject BY <1>1, RejectRead
<1>2. CASE ~Reject
  <2>1. /\ Len(Current.tSibs) = D /\ pc' = "climb"
        /\ climb' = [acc |-> Leaf(Current.tX), level |-> 0, cursor |-> Query, depth |-> D,
                     of |-> "trace"]
        /\ UNCHANGED <<messages, challenges, k, j, pos, replayVars>>
    BY <1>2 DEF OpenTrace, Require, StartClimb
  <2>2. /\ climb'.of = "trace" /\ climb'.acc = Leaf(Current.tX) /\ climb'.level = 0
        /\ climb'.cursor = Query /\ climb'.depth = D
    BY <2>1
  <2>3. Current' = Current /\ Query' = Query /\ trace' = trace
    BY <2>1 DEF Current, Query, messages, challenges, replayVars
  <2>4. /\ Path' = Current.tSibs /\ Target' = trace /\ From' = 0
        /\ ClimbDepth' = D /\ ClimbStart' = Query
    BY <2>2, <2>3, FocusAfter
  <2>5. /\ Query \in 0 .. (DomainSize[D] - 1) /\ Query \in Nat /\ Given /\ pc \in InBundle
        /\ pc' \in InBundle
    BY <2>1, Reading, Sizes DEF InBundle
  <2>6. Tree(trace)[0][Query] = Leaf(trace[Query])
    BY <2>5, BuiltIsTree DEF Given, AllBuilt
  <2>7. climb'.acc = Tree(Target')[climb'.level][climb'.cursor] => LeafRead' /\ SibsRead'
    <3>1. SUFFICES ASSUME Leaf(Current.tX) = Leaf(trace[Query]) PROVE LeafRead' /\ SibsRead'
      BY <2>2, <2>4, <2>6
    <3>2. LeafRead' BY <2>2, <2>3, <3>1, Injective DEF LeafRead
    <3>3. climb'.level - From' = 0 BY <2>2, <2>4
    <3> QED BY <3>2, <3>3 DEF SibsRead
  <2>8. /\ climb'.cursor = PositionAt(ClimbStart', climb'.level)
        /\ climb'.level \in From' .. ClimbDepth'
        /\ climb'.cursor \in 0 .. (DomainSize[ClimbDepth' - climb'.level] - 1)
        /\ Len(Path') = ClimbDepth' - From'
    BY <2>1, <2>2, <2>4, <2>5, PositionZero, Sizes
  <2>9. Climbing' BY <2>2, <2>4, <2>7, <2>8 DEF Climbing
  <2>10. Progress' BY <2>1, <2>5, ProgressKept
  <2> QED BY <2>1, <2>9, <2>10 DEF ReadInv, Stage
<1> QED BY <1>1, <1>2

\* The composition leaf likewise.
LEMMA OpenCompRead ==
  ASSUME ReadInv, pc = "comp-leaf", UNCHANGED replayVars,
         OpenComp(Current.cX, Len(Current.cSibs))
  PROVE  ReadInv'
<1>1. CASE Reject BY <1>1, RejectRead
<1>2. CASE ~Reject
  <2>1. /\ Len(Current.cSibs) = D /\ pc' = "climb"
        /\ climb' = [acc |-> Leaf(Current.cX), level |-> 0, cursor |-> Query, depth |-> D,
                     of |-> "comp"]
        /\ UNCHANGED <<messages, challenges, k, j, pos, replayVars>>
    BY <1>2 DEF OpenComp, Require, StartClimb
  <2>2. /\ climb'.of = "comp" /\ climb'.acc = Leaf(Current.cX) /\ climb'.level = 0
        /\ climb'.cursor = Query /\ climb'.depth = D
    BY <2>1
  <2>3. Current' = Current /\ Query' = Query /\ comp' = comp
    BY <2>1 DEF Current, Query, messages, challenges, replayVars
  <2>4. /\ Path' = Current.cSibs /\ Target' = comp /\ From' = 0
        /\ ClimbDepth' = D /\ ClimbStart' = Query
    BY <2>2, <2>3, FocusAfter
  <2>5. /\ Query \in 0 .. (DomainSize[D] - 1) /\ Query \in Nat /\ Given /\ pc \in InBundle
        /\ pc' \in InBundle
    BY <2>1, Reading, Sizes DEF InBundle
  <2>6. Tree(comp)[0][Query] = Leaf(comp[Query])
    BY <2>5, BuiltIsTree DEF Given, AllBuilt
  <2>7. climb'.acc = Tree(Target')[climb'.level][climb'.cursor] => LeafRead' /\ SibsRead'
    <3>1. SUFFICES ASSUME Leaf(Current.cX) = Leaf(comp[Query]) PROVE LeafRead' /\ SibsRead'
      BY <2>2, <2>4, <2>6
    <3>2. LeafRead' BY <2>2, <2>3, <3>1, Injective DEF LeafRead
    <3>3. climb'.level - From' = 0 BY <2>2, <2>4
    <3> QED BY <3>2, <3>3 DEF SibsRead
  <2>8. /\ climb'.cursor = PositionAt(ClimbStart', climb'.level)
        /\ climb'.level \in From' .. ClimbDepth'
        /\ climb'.cursor \in 0 .. (DomainSize[ClimbDepth' - climb'.level] - 1)
        /\ Len(Path') = ClimbDepth' - From'
    BY <2>1, <2>2, <2>4, <2>5, PositionZero, Sizes
  <2>9. TraceRead' BY <2>1, ReadFrame DEF ReadInv, Stage
  <2>10. Climbing' BY <2>2, <2>4, <2>7, <2>8, <2>9 DEF Climbing
  <2>11. Progress' BY <2>1, <2>5, ProgressKept
  <2> QED BY <2>1, <2>10, <2>11 DEF ReadInv, Stage
<1> QED BY <1>1, <1>2

\* The tree a climb stands in, and the values at its leaves.
LEMMA TargetBuilt ==
  ASSUME Given
  PROVE  /\ IsTree(Tree(trace), D) /\ IsTree(Tree(comp), D)
         /\ \A i \in 0 .. (L - 1) :
              /\ IsTree(Tree(fri[i + 1]), D - i)
              /\ \A p \in 0 .. (DomainSize[D - i] - 1) :
                   Tree(fri[i + 1])[0][p] = Leaf(fri[i + 1][p])
<1>1. IsTree(Tree(trace), D) /\ IsTree(Tree(comp), D) BY BuiltIsTree DEF Given, AllBuilt
<1>2. ASSUME NEW i \in 0 .. (L - 1)
      PROVE  /\ IsTree(Tree(fri[i + 1]), D - i)
             /\ \A p \in 0 .. (DomainSize[D - i] - 1) :
                  Tree(fri[i + 1])[0][p] = Leaf(fri[i + 1][p])
  <2>1. i + 1 \in 1 .. L /\ D + 1 - (i + 1) = D - i BY Sizes
  <2>2. Built(fri[i + 1], D - i) BY <2>1 DEF Given, AllBuilt
  <2> QED BY <2>2, BuiltIsTree
<1> QED BY <1>1, <1>2

\* The sibling of a pair: if the parent's digest is the committed one, so is the sibling.
LEMMA OpenPairRead ==
  ASSUME ReadInv, pc = "pair", UNCHANGED replayVars,
         OpenPair(Current.pairs[j + 1].sib, Len(Current.pairs[j + 1].sibs))
  PROVE  ReadInv'
<1> DEFINE v == Current.pairs[j + 1].sib
           tree == Tree(fri[j + 1])
           acc == MerkleStep(Leaf(v), Leaf(val), NodeIsRight(pos))
<1>1. CASE Reject BY <1>1, RejectRead
<1>2. CASE ~Reject
  <2>1. /\ Len(Current.pairs[j + 1].sibs) = D - 1 - j /\ pc' = "climb"
        /\ climb' = [acc |-> acc, level |-> 1, cursor |-> pos \div 2,
                     depth |-> D - 1 - j + 1, of |-> "fri"]
        /\ UNCHANGED <<messages, challenges, k, j, pos, replayVars>>
    BY <1>2 DEF OpenPair, Require, StartClimb
  <2>2. /\ climb'.of = "fri" /\ climb'.acc = acc /\ climb'.level = 1
        /\ climb'.cursor = pos \div 2 /\ climb'.depth = D - 1 - j + 1
    BY <2>1
  <2>3. Current' = Current /\ fri' = fri /\ j' = j /\ pos' = pos
    BY <2>1 DEF Current, messages, replayVars
  <2>4. /\ Path' = Current.pairs[j + 1].sibs /\ Target' = fri[j + 1] /\ From' = 1
        /\ ClimbDepth' = D - j /\ ClimbStart' = pos
    BY <2>2, <2>3, FocusAfter
  <2>5. Given /\ pc \in InBundle /\ pc' \in InBundle BY <2>1, Reading DEF InBundle
  <2>6. j < L /\ LayersRead BY DEF ReadInv, Stage
  <2>7. /\ j \in 0 .. (L - 1) /\ pos \in 0 .. (DomainSize[D - j] - 1)
        /\ D - j \in 1 .. D /\ D - 1 - j + 1 = D - j /\ (D - j) - 1 \in 0 .. D
    BY <2>6, Sizes DEF LayersRead
  <2>8. DomainSize[D - j] \in Nat /\ pos \in Nat /\ pos < DomainSize[D - j] BY <2>7, Sizes
  <2>9. climb'.acc = Tree(Target')[climb'.level][climb'.cursor] => LeafRead' /\ SibsRead'
    <3>1. SUFFICES ASSUME acc = tree[0 + 1][pos \div 2] PROVE LeafRead' /\ SibsRead'
      BY <2>2, <2>4
    <3>2. IsTree(tree, D - j) /\ tree[0][SiblingOf(pos)] = Leaf(fri[j + 1][SiblingOf(pos)])
      BY <2>5, <2>7, TargetBuilt, SiblingInRange
    <3>3. Leaf(v) = tree[0][SiblingOf(pos)]
      <4> HIDE DEF tree, v
      <4>1. D - j \in 0 .. D /\ 0 \in 0 .. ((D - j) - 1) /\ pos < DomainSize[(D - j) - 0]
        BY <2>7, <2>8
      <4>2. MerkleStep(Leaf(v), Leaf(val), NodeIsRight(pos)) = tree[0 + 1][pos \div 2]
        BY <3>1
      <4> QED BY <2>8, <3>2, <4>1, <4>2, StepBinds
    <3>4. v = fri[j + 1][SiblingOf(pos)] BY <3>2, <3>3, Injective
    <3>5. LeafRead' BY <2>2, <2>3, <3>4 DEF LeafRead
    <3>6. climb'.level - From' = 0 BY <2>2, <2>4
    <3> QED BY <3>5, <3>6 DEF SibsRead
  <2>10. climb'.cursor = PositionAt(ClimbStart', climb'.level)
    <3>1. 0 \in 0 .. (D - 1) /\ 0 + 1 = 1 BY Sizes
    <3> QED BY <2>2, <2>4, <2>8, <3>1, PositionZero, PositionHalves
  <2>11. climb'.cursor \in 0 .. (DomainSize[ClimbDepth' - climb'.level] - 1)
    <3>1. pos \div 2 \in Nat /\ pos \div 2 < DomainSize[(D - j) - 1]
      BY <2>7, <2>8, HalfInRange, Halves
    <3>2. DomainSize[(D - j) - 1] \in Nat BY <2>7, Sizes
    <3>3. \A a, b \in Nat : a < b => a \in 0 .. (b - 1) OBVIOUS
    <3> QED BY <2>2, <2>4, <3>1, <3>2, <3>3
  <2>12. climb'.level \in From' .. ClimbDepth' /\ Len(Path') = ClimbDepth' - From'
         /\ climb'.depth = ClimbDepth'
    BY <2>1, <2>2, <2>4, <2>7
  <2>13. j' < L /\ LayersRead' BY <2>1, <2>3, <2>6, LayersFrame
  <2> HIDE DEF acc
  <2>14. Climbing' BY <2>2, <2>9, <2>10, <2>11, <2>12, <2>13 DEF Climbing
  <2>15. Progress' BY <2>1, <2>5, ProgressKept
  <2> QED BY <2>1, <2>14, <2>15 DEF ReadInv, Stage
<1> QED BY <1>1, <1>2

\* What is climbed through, in terms of the tree of the climb.
LEMMA ClimbStands ==
  ASSUME Given, Climbing
  PROVE  IsTree(Tree(Target), ClimbDepth) /\ ClimbDepth \in 1 .. D /\ From \in 0 .. 1
<1>1. D \in 1 .. D BY Sizes
<1>2. CASE climb.of = "trace" BY <1>1, <1>2, TargetBuilt, Focus
<1>3. CASE climb.of = "comp" BY <1>1, <1>3, TargetBuilt, Focus
<1>4. CASE climb.of = "fri"
  <2>1. j < L /\ j \in 0 .. L BY <1>4 DEF Climbing, LayersRead
  <2>2. j \in 0 .. (L - 1) /\ D - j \in 1 .. D BY <2>1, Sizes
  <2> QED BY <1>4, <2>2, TargetBuilt, Focus
<1> QED BY <1>2, <1>3, <1>4 DEF Climbing

\* A step of the climb: the sibling it takes is bound with the digest below it.
LEMMA ClimbStepRead ==
  ASSUME ReadInv, pc = "climb", climb.level < climb.depth, UNCHANGED replayVars,
         ClimbStep(Path[climb.level + 1 - From])
  PROVE  ReadInv'
<1> DEFINE s == Path[climb.level + 1 - From]
           l == climb.level
           c == climb.cursor
           acc == MerkleStep(s, climb.acc, NodeIsRight(c))
           tree == Tree(Target)
           from == From
           start == ClimbStart
           depth == ClimbDepth
<1>1. /\ climb' = [acc |-> acc, level |-> l + 1, cursor |-> c \div 2, depth |-> climb.depth,
                   of |-> climb.of]
      /\ UNCHANGED <<pc, messages, challenges, k, j, pos, replayVars>>
  BY DEF ClimbStep, StartClimb
<1>2. /\ climb'.of = climb.of /\ climb'.acc = acc /\ climb'.level = l + 1
      /\ climb'.cursor = c \div 2 /\ climb'.depth = climb.depth
  BY <1>1
<1>3. Climbing /\ Given /\ pc \in InBundle /\ pc' \in InBundle
  BY <1>1, Reading DEF ReadInv, Stage, InBundle
<1>4. climb.of \in {"trace", "comp", "fri"} BY <1>3 DEF Climbing
<1>5. Current' = Current /\ Query' = Query /\ trace' = trace /\ comp' = comp /\ fri' = fri
      /\ j' = j /\ pos' = pos
  BY <1>1 DEF Current, Query, messages, challenges, replayVars
<1>6. Path' = Path /\ Target' = Target /\ From' = from /\ ClimbDepth' = depth /\ ClimbStart' = start
  BY <1>2, <1>4, <1>5, Focus, FocusAfter
<1>7. /\ l \in from .. depth /\ depth = climb.depth /\ c = PositionAt(start, l)
      /\ c \in 0 .. (DomainSize[depth - l] - 1) /\ Len(Path) = depth - from /\ l < depth
      /\ climb.acc = tree[l][c] => LeafRead /\ SibsRead
  BY <1>3 DEF Climbing
<1>8. depth \in 1 .. D /\ from \in 0 .. 1 /\ IsTree(tree, depth) BY <1>3, ClimbStands
<1>9. start \in Nat
  <2>1. Query \in Nat BY <1>3, Reading, Sizes
  <2>2. climb.of = "fri" => pos \in 0 .. (DomainSize[D - j] - 1) BY <1>3 DEF Climbing, LayersRead
  <2>3. climb.of = "fri" => pos \in Nat BY <2>2
  <2> QED BY <1>4, <2>1, <2>3, Focus
<1> HIDE DEF from, start, depth, tree, c, l
<1>10. /\ l \in 0 .. (depth - 1) /\ l + 1 \in from .. depth /\ depth - l \in 1 .. D
       /\ l \in 0 .. (D - 1) /\ depth - (l + 1) = (depth - l) - 1
  <2>1. D \in Nat BY Sizes
  <2>2. l \in from .. depth /\ l < depth /\ depth \in 1 .. D /\ from \in 0 .. 1 BY <1>7, <1>8
  <2> QED BY <2>1, <2>2
<1>11. DomainSize[depth - l] \in Nat /\ DomainSize[(depth - l) - 1] \in Nat
  BY <1>10, Sizes
<1>12. c \in Nat /\ c < DomainSize[depth - l] BY <1>7, <1>11
<1>13. c \div 2 = PositionAt(start, l + 1) BY <1>7, <1>9, <1>10, PositionHalves
<1>14. c \div 2 \in 0 .. (DomainSize[depth - (l + 1)] - 1)
  <2>1. c \div 2 \in Nat /\ c \div 2 < DomainSize[(depth - l) - 1]
    BY <1>10, <1>12, HalfInRange, Halves
  <2>2. \A a, b \in Nat : a < b => a \in 0 .. (b - 1) OBVIOUS
  <2> QED BY <1>10, <1>11, <2>1, <2>2
<1>15. climb'.acc = Tree(Target')[climb'.level][climb'.cursor] => LeafRead' /\ SibsRead'
  <2> SUFFICES ASSUME acc = tree[l + 1][c \div 2] PROVE LeafRead' /\ SibsRead'
    BY <1>2, <1>6 DEF tree
  <2>1. climb.acc = tree[l][c] /\ s = tree[l][SiblingOf(c)]
    <3> HIDE DEF s
    <3>1. depth \in 0 .. D BY <1>8
    <3>2. MerkleStep(s, climb.acc, NodeIsRight(c)) = tree[l + 1][c \div 2] OBVIOUS
    <3> QED BY <1>8, <1>10, <1>12, <3>1, <3>2, StepBinds
  <2>2. LeafRead /\ SibsRead BY <1>7, <2>1
  <2>3. LeafRead' BY <1>2, <1>5, <2>2 DEF LeafRead
  <2>4. SibsRead'
    <3>1. ASSUME NEW i \in 1 .. (l + 1 - from)
          PROVE  Path[i] = tree[from + i - 1][SiblingOf(PositionAt(start, from + i - 1))]
      <4>1. CASE i = l + 1 - from
        <5>1. from + i - 1 = l BY <4>1, <1>8, <1>10, Sizes
        <5>2. Path[i] = s BY <4>1 DEF l, from
        <5> QED BY <5>1, <5>2, <2>1, <1>7
      <4>2. CASE i # l + 1 - from
        <5>1. i \in 1 .. (l - from) BY <4>2, <1>8, <1>10, Sizes
        <5> QED BY <5>1, <2>2 DEF SibsRead, tree, from, start, l
      <4> QED BY <4>1, <4>2
    <3>2. climb'.level - From' = l + 1 - from
      <4>1. l \in Int /\ from \in Int BY <1>8, <1>10
      <4> QED BY <1>2, <1>6, <4>1
    <3>3. Tree(Target') = tree BY <1>6 DEF tree
    <3> QED BY <1>6, <3>1, <3>2, <3>3 DEF SibsRead
  <2> QED BY <2>3, <2>4
<1>16. climb'.of = "comp" => TraceRead' BY <1>1, <1>2, <1>3, ReadFrame DEF Climbing
<1>17. climb'.of = "fri" => j' < L /\ LayersRead'
  BY <1>1, <1>2, <1>3, <1>5, LayersFrame DEF Climbing
<1> HIDE DEF acc
<1>18. Climbing'
  <2>1. climb'.of \in {"trace", "comp", "fri"} /\ climb'.depth = ClimbDepth'
    BY <1>2, <1>4, <1>6, <1>7
  <2>2. climb'.level \in From' .. ClimbDepth' /\ Len(Path') = ClimbDepth' - From'
    BY <1>2, <1>6, <1>7, <1>10
  <2>3. climb'.cursor = PositionAt(ClimbStart', climb'.level) BY <1>2, <1>6, <1>13
  <2>4. climb'.cursor \in 0 .. (DomainSize[ClimbDepth' - climb'.level] - 1) BY <1>2, <1>6, <1>14
  <2> QED BY <1>15, <1>16, <1>17, <2>1, <2>2, <2>3, <2>4 DEF Climbing
<1>19. Progress' BY <1>1, <1>3, ProgressKept
<1> QED BY <1>1, <1>18, <1>19 DEF ReadInv, Stage

\* A climb that ends at its root has read its leaf and all its siblings.
LEMMA ClimbEnds ==
  ASSUME Given, WellTyped(Current), Climbing, climb.level = climb.depth,
         climb.acc = Root(Tree(Target), ClimbDepth)
  PROVE  LeafRead /\ Path = TreeSibs(Target, ClimbDepth, ClimbStart, From)
<1> DEFINE depth == ClimbDepth
           from == From
           start == ClimbStart
           tree == Tree(Target)
<1>1. depth \in 1 .. D /\ from \in 0 .. 1 BY ClimbStands
<1>2. /\ climb.level = depth /\ climb.cursor \in 0 .. (DomainSize[depth - depth] - 1)
      /\ Len(Path) = depth - from
      /\ climb.acc = tree[climb.level][climb.cursor] => LeafRead /\ SibsRead
  BY DEF Climbing
<1>3. climb.acc = tree[depth][0] BY DEF Root
<1>4. climb.cursor = 0
  <2> HIDE DEF depth
  <2>1. depth - depth = 0 BY <1>1, Sizes
  <2>2. climb.cursor \in 0 .. (DomainSize[0] - 1) BY <1>2, <2>1
  <2> QED BY <2>2, Sizes
<1>5. LeafRead /\ SibsRead BY <1>2, <1>3, <1>4
<1>6. \A i \in 1 .. (depth - from) :
        Path[i] = tree[from + i - 1][SiblingOf(PositionAt(start, from + i - 1))]
  BY <1>2, <1>5 DEF SibsRead
<1>7. \E cap : List(Path, cap)
  <2>1. CASE climb.of = "trace" BY <2>1, Focus DEF WellTyped
  <2>2. CASE climb.of = "comp" BY <2>2, Focus DEF WellTyped
  <2>3. CASE climb.of = "fri"
    <3>1. j \in 0 .. L /\ j < L BY <2>3 DEF Climbing, LayersRead
    <3>2. j + 1 \in 1 .. L BY <3>1, Sizes
    <3>3. List(Current.pairs[j + 1].sibs, D - (j + 1)) BY <3>2 DEF WellTyped
    <3> QED BY <2>3, <3>3, Focus
  <2> QED BY <2>1, <2>2, <2>3 DEF Climbing
<1>8. PICK cap : List(Path, cap) BY <1>7
<1> HIDE DEF depth, from, start, tree
<1>9. Path = TreeSibs(Target, depth, start, from)
  <2>1. Path = [i \in 1 .. (depth - from) |-> Path[i]] BY <1>2, <1>8 DEF List
  <2> QED BY <1>6, <2>1 DEF TreeSibs, tree
<1> QED BY <1>5, <1>9 DEF depth, from, start

\* At the root the digest is the committed one: the leaf and its siblings are read.
LEMMA CheckRootRead ==
  ASSUME ReadInv, CheckRoot, UNCHANGED replayVars PROVE ReadInv'
<1>1. CASE Reject BY <1>1, RejectRead
<1>2. CASE ~Reject
  <2>1. /\ pc = "climb" /\ climb.level = climb.depth
        /\ climb.acc = Root(Tree(Target), IF climb.of = "fri" THEN D - j ELSE D)
        /\ climb.of = "trace" => pc' = "comp-leaf"
        /\ climb.of = "comp" => pc' = "deep"
        /\ climb.of = "fri" => pc' = "fold"
        /\ UNCHANGED <<messages, challenges, k, j, pos, replayVars>>
    BY <1>2 DEF CheckRoot, Require
  <2>2. pc \in InBundle BY <2>1 DEF InBundle
  <2>3. Climbing /\ Given /\ WellTyped(Current) BY <2>1, <2>2, Reading DEF ReadInv, Stage
  <2>4. climb.acc = Root(Tree(Target), ClimbDepth) BY <2>1 DEF ClimbDepth
  <2>5. LeafRead /\ Path = TreeSibs(Target, ClimbDepth, ClimbStart, From)
    BY <2>1, <2>3, <2>4, ClimbEnds
  <2>6. CASE climb.of = "trace"
    <3>1. TraceRead BY <2>5, <2>6, Focus DEF TraceRead, LeafRead
    <3>2. TraceRead' BY <2>1, <3>1, ReadFrame
    <3>3. pc' = "comp-leaf" BY <2>1, <2>6
    <3>4. Progress' BY <2>1, <2>2, <3>3, ProgressKept DEF InBundle
    <3> QED BY <3>2, <3>3, <3>4 DEF ReadInv, Stage
  <2>7. CASE climb.of = "comp"
    <3>1. CompRead BY <2>5, <2>7, Focus DEF CompRead, LeafRead
    <3>2. TraceRead BY <2>3, <2>7 DEF Climbing
    <3>3. TraceRead' /\ CompRead' BY <2>1, <3>1, <3>2, ReadFrame
    <3>4. pc' = "deep" BY <2>1, <2>7
    <3>5. Progress' BY <2>1, <2>2, <3>4, ProgressKept DEF InBundle
    <3> QED BY <3>3, <3>4, <3>5 DEF ReadInv, Stage
  <2>8. CASE climb.of = "fri"
    <3>1. j < L /\ LayersRead BY <2>3, <2>8 DEF Climbing
    <3>2. pos = PositionAt(Query, j) /\ j \in Int /\ D \in Int BY <3>1, Sizes DEF LayersRead
    <3>3. PairRead(j + 1)
      <4> DEFINE i == j + 1
      <4>1. Current.pairs[i].sib = fri[i][SiblingOf(pos)] BY <2>5, <2>8 DEF LeafRead
      <4>2. Current.pairs[i].sibs = TreeSibs(fri[i], D - j, pos, 1) BY <2>5, <2>8, Focus
      <4>3. i - 1 = j /\ D + 1 - i = D - j BY <3>2
      <4> HIDE DEF i
      <4>4. pos = PositionAt(Query, i - 1) BY <3>2, <4>3
      <4>5. PairRead(i) BY <4>1, <4>2, <4>3, <4>4 DEF PairRead
      <4> QED BY <4>5 DEF i
    <3>4. j' < L /\ LayersRead' BY <2>1, <3>1, LayersFrame
    <3>5. PairRead(j + 1)' BY <2>1, <3>3, ReadFrame
    <3>6. pc' = "fold" BY <2>1, <2>8
    <3>7. Progress' BY <2>1, <2>2, <3>6, ProgressKept DEF InBundle
    <3> QED BY <3>4, <3>5, <3>6, <3>7 DEF ReadInv, Stage
  <2> QED BY <2>3, <2>6, <2>7, <2>8 DEF Climbing
<1> QED BY <1>1, <1>2

\* The row starts the chain of layers at the query's own position.
LEMMA ComputeRowRead ==
  ASSUME ReadInv, ComputeRow, UNCHANGED replayVars PROVE ReadInv'
<1>1. CASE Reject BY <1>1, RejectRead
<1>2. CASE ~Reject
  <2>1. /\ pc = "deep" /\ pc' = "pair" /\ j' = 0 /\ pos' = Query
        /\ UNCHANGED <<messages, challenges, k, replayVars>>
    BY <1>2 DEF ComputeRow, Require
  <2>2. pc \in InBundle /\ pc' \in InBundle BY <2>1 DEF InBundle
  <2>3. Query \in 0 .. (DomainSize[D] - 1) /\ Query \in Nat BY <2>2, Reading, Sizes
  <2>4. TraceRead' /\ CompRead' BY <2>1, ReadFrame DEF ReadInv, Stage
  <2>5. Query' = Query BY <2>1 DEF Query, challenges
  <2>6. j' \in 0 .. L /\ j' < L /\ D - j' = D BY <2>1, Sizes
  <2>7. pos' = PositionAt(Query', j') BY <2>1, <2>3, <2>5, PositionZero
  <2>8. pos' \in 0 .. (DomainSize[D - j'] - 1) BY <2>1, <2>3, <2>6
  <2>9. \A i \in 1 .. j' : (PairRead(i) /\ HintRead(i))' BY <2>1
  <2>10. LayersRead' BY <2>4, <2>6, <2>7, <2>8, <2>9 DEF LayersRead
  <2>11. Progress' BY <2>1, <2>2, ProgressKept
  <2> QED BY <2>1, <2>6, <2>10, <2>11 DEF ReadInv, Stage
<1> QED BY <1>1, <1>2

\* A layer is read when its hint is, and the next one is entered at half the position.
LEMMA FoldOneRead ==
  ASSUME ReadInv, pc = "fold", j < Len(Current.hints), FoldOne(Current.hints[j + 1]),
         UNCHANGED replayVars
  PROVE  ReadInv'
<1>1. CASE Reject BY <1>1, RejectRead
<1>2. CASE ~Reject
  <2> DEFINE hint == Current.hints[j + 1]
             half == pos \div 2
  <2>1. /\ HintRequires(Twiddle(j, EvenOf(pos)), hint)
        /\ j' = j + 1 /\ pos' = half /\ pc' = (IF j + 1 = L THEN "last" ELSE "pair")
        /\ UNCHANGED <<messages, challenges, k, replayVars>>
    BY <1>2 DEF FoldOne, Require
  <2>2. pc \in InBundle /\ pc' \in InBundle BY <2>1 DEF InBundle
  <2>3. j < L /\ LayersRead /\ PairRead(j + 1) BY DEF ReadInv, Stage
  <2>4. /\ j \in 0 .. (L - 1) /\ j + 1 \in 0 .. L /\ D - j \in 1 .. D /\ j \in 0 .. (D - 1)
        /\ D - (j + 1) = (D - j) - 1
    BY <2>3, Sizes DEF LayersRead
  <2>5. pos = PositionAt(Query, j) /\ pos \in 0 .. (DomainSize[D - j] - 1) BY <2>3 DEF LayersRead
  <2>6. /\ DomainSize[D - j] \in Nat /\ DomainSize[(D - j) - 1] \in Nat
        /\ pos \in Nat /\ pos < DomainSize[D - j]
    <3>1. D - j \in 0 .. D /\ (D - j) - 1 \in 0 .. D BY <2>4, Sizes
    <3>2. DomainSize[D - j] \in Nat /\ DomainSize[(D - j) - 1] \in Nat BY <3>1, Sizes
    <3> QED BY <2>5, <3>2
  <2>7. Query \in Nat /\ WellTyped(Current) BY <2>2, Reading, Sizes
  <2>8. Len(Current.hints) \in Nat /\ j + 1 \in 1 .. Len(Current.hints)
    <3>1. Len(Current.hints) \in 0 .. L BY <2>7 DEF WellTyped, List
    <3> QED BY <2>4, <3>1, Sizes
  <2>9. hint \in Nat BY <2>7, <2>8 DEF WellTyped
  <2> HIDE DEF hint
  <2>10. hint % P = M31Inv(Twiddle(j, EvenOf(pos))) BY <2>1, <2>4, <2>5, <2>9, HintIsInverse
  <2>11. HintRead(j + 1)
    <3> DEFINE i == j + 1
    <3>1. i <= Len(Current.hints) /\ i - 1 = j BY <2>4, <2>8, Sizes
    <3>2. Current.hints[i] % P = M31Inv(Twiddle(j, EvenOf(pos))) BY <2>10 DEF hint
    <3> HIDE DEF i
    <3>3. Current.hints[i] % P = M31Inv(Twiddle(i - 1, EvenOf(PositionAt(Query, i - 1))))
      BY <2>5, <3>1, <3>2
    <3>4. HintRead(i) BY <3>1, <3>3 DEF HintRead
    <3> QED BY <3>4 DEF i
  <2>12. \A i \in 1 .. (j + 1) : PairRead(i) /\ HintRead(i)
    <3> SUFFICES ASSUME NEW i \in 1 .. (j + 1) PROVE PairRead(i) /\ HintRead(i) OBVIOUS
    <3>1. i \in 1 .. j \/ i = j + 1 BY <2>4
    <3> QED BY <2>3, <2>11, <3>1 DEF LayersRead
  <2>13. \A i \in 1 .. j' : PairRead(i)' /\ HintRead(i)' BY <2>1, <2>12, ReadFrame
  <2>14. TraceRead' /\ CompRead' BY <2>1, <2>3, ReadFrame DEF LayersRead
  <2>15. Query' = Query BY <2>1 DEF Query, challenges
  <2>16. pos' = PositionAt(Query', j') BY <2>1, <2>4, <2>5, <2>7, <2>15, PositionHalves
  <2>17. pos' \in 0 .. (DomainSize[D - j'] - 1)
    <3>1. half \in Nat /\ half < DomainSize[(D - j) - 1] BY <2>4, <2>6, HalfInRange, Halves
    <3>2. \A a, b \in Nat : a < b => a \in 0 .. (b - 1) OBVIOUS
    <3>3. D - j' = (D - j) - 1 BY <2>1, <2>4
    <3> HIDE DEF half
    <3> QED BY <2>1, <2>6, <3>1, <3>2, <3>3
  <2>18. j' \in 0 .. L BY <2>1, <2>4
  <2>19. LayersRead' BY <2>13, <2>14, <2>16, <2>17, <2>18 DEF LayersRead
  <2>20. (pc' = "pair" => j' < L) /\ (pc' = "last" => j' = L) BY <2>1, <2>4, Sizes
  <2>21. Progress' BY <2>1, <2>2, ProgressKept
  <2> QED BY <2>1, <2>19, <2>20, <2>21 DEF ReadInv, Stage
<1> QED BY <1>1, <1>2

\* After the last layer the whole bundle is read.
LEMMA LastLayerRead ==
  ASSUME ReadInv, LastLayer, UNCHANGED replayVars PROVE ReadInv'
<1>1. CASE Reject BY <1>1, RejectRead
<1>2. CASE ~Reject
  <2>1. /\ pc = "last" /\ k' = k + 1 /\ pc' = (IF k + 1 = N THEN "accepted" ELSE "trace-leaf")
        /\ UNCHANGED <<messages, challenges, replayVars>>
    BY <1>2 DEF LastLayer, Require
  <2>2. pc \in InBundle BY <2>1 DEF InBundle
  <2>3. /\ Given /\ AllRead /\ bundles # << >> /\ k \in 0 .. (N - 1) /\ WellTyped(Current)
    BY <2>2, Reading
  <2>4. j = L /\ LayersRead BY <2>1 DEF ReadInv, Stage
  <2>5. Reduced(Current) = BundleAt(Query)
    <3>1. TraceRead /\ CompRead /\ \A i \in 1 .. L : PairRead(i) /\ HintRead(i)
      BY <2>4 DEF LayersRead
    <3> QED BY <2>3, <3>1, WholeRead DEF TraceRead, CompRead, PairRead, HintRead
  <2>6. \A n \in 1 .. (k + 1) : Reduced(bundles[n]) = BundleAt(idx[n])
    <3> SUFFICES ASSUME NEW n \in 1 .. (k + 1) PROVE Reduced(bundles[n]) = BundleAt(idx[n])
      OBVIOUS
    <3>1. n \in 1 .. k \/ n = k + 1 BY <2>3, Sizes
    <3> QED BY <2>3, <2>5, <3>1 DEF AllRead, Current, Query
  <2>7. AllRead' BY <2>1, <2>6 DEF AllRead, BundleAt, TreeSibs, messages, challenges, replayVars
  <2>8. Given' /\ bundles' # << >> BY <2>1, <2>3, GivenFrame DEF replayVars
  <2>9. (pc' = "accepted" => k' = N) /\ (pc' = "trace-leaf" => k' \in 0 .. (N - 1))
        /\ pc' \in {"accepted", "trace-leaf"}
    BY <2>1, <2>3, Sizes
  <2>10. Progress' BY <2>7, <2>8, <2>9 DEF Progress, InBundle
  <2> QED BY <2>9, <2>10 DEF ReadInv, Stage
<1> QED BY <1>1, <1>2

\* The answer is typed, and nothing of it is read yet.
LEMMA AnswerRead ==
  ASSUME ReadInv, NEW n \in 1 .. N, NEW b, Answer(n, b) PROVE ReadInv'
<1>1. /\ pc = "gate" /\ pc' = pc /\ k' = k /\ idx' = idx /\ AllBuilt
      /\ \A m \in 1 .. N : WellTyped(bundles'[m])
      /\ UNCHANGED <<messages, challenges>>
  BY DEF Answer, vars, challenges, bundle
<1>2. k = 0 /\ idx \in [1 .. N -> Indices] BY <1>1 DEF ReadInv, Progress
<1>3. AllBuilt' BY <1>1 DEF AllBuilt, Built, messages
<1>4. Given' BY <1>1, <1>2, <1>3 DEF Given
<1>5. AllRead' BY <1>1, <1>2 DEF AllRead
<1>6. Progress' BY <1>1, <1>2, <1>4, <1>5 DEF Progress, InBundle
<1> QED BY <1>1, <1>6 DEF ReadInv, Stage

\* Before the indices are drawn there are no bundles.
LEMMA SpeakRead ==
  ASSUME ReadInv, UNCHANGED <<bundles, k>>,
         pc \in {"lengths", "trace", "comp", "openings", "fri", "final"},
         pc' \in {"trace", "comp", "openings", "fri", "final", "aborted"}
  PROVE  ReadInv'
BY DEF ReadInv, Progress, Stage, Drawn, InBundle

LEMMA DrawRead ==
  ASSUME ReadInv, NEW ok, NEW ix \in Draws, SendFinal(ok, ix) PROVE ReadInv'
<1>1. CASE Reject BY <1>1, RejectRead DEF SendFinal
<1>2. CASE ~Reject
  <2>1. pc = "final" /\ pc' = "gate" /\ idx' = ix /\ k' = k /\ bundles' = bundles
    BY <1>2 DEF SendFinal, DrawQueries, Require, replayVars, bundle
  <2>2. ix \in [1 .. N -> Indices] BY DrawsAssumption
  <2>3. k = 0 /\ bundles = << >> BY <2>1 DEF ReadInv, Progress
  <2> QED BY <2>1, <2>2, <2>3 DEF ReadInv, Progress, Stage, InBundle
<1> QED BY <1>1, <1>2

\* The gates before the first bundle read nothing.
LEMMA GateRead ==
  ASSUME ReadInv, bundles # << >>, GrindingGate \/ OodClosure, UNCHANGED replayVars
  PROVE  ReadInv'
<1>1. CASE Reject BY <1>1, RejectRead
<1>2. CASE ~Reject
  <2>1. /\ pc \in {"gate", "ood"} /\ pc' \in {"ood", "trace-leaf"}
        /\ UNCHANGED <<messages, challenges, k, replayVars>>
    BY <1>2 DEF GrindingGate, OodClosure, Require, bundle
  <2>2. k = 0 /\ Given /\ AllRead BY <2>1 DEF ReadInv, Progress, Drawn
  <2>3. Given' /\ AllRead' /\ k' = 0 /\ bundles' # << >>
    BY <2>1, <2>2, GivenFrame, AllReadFrame DEF replayVars
  <2>4. 0 \in 0 .. (N - 1) BY Sizes
  <2> QED BY <2>1, <2>3, <2>4 DEF ReadInv, Progress, Stage, InBundle
<1> QED BY <1>1, <1>2

\* Reading the answer, step by step.
LEMMA ReadStep == ASSUME ReadInv, Read PROVE ReadInv'
<1>1. bundles # << >> /\ UNCHANGED replayVars BY DEF Read
<1>2. CASE pc = "trace-leaf" /\ OpenTrace(Current.tX, Len(Current.tSibs))
  BY <1>1, <1>2, OpenTraceRead
<1>3. CASE pc = "comp-leaf" /\ OpenComp(Current.cX, Len(Current.cSibs))
  BY <1>1, <1>3, OpenCompRead
<1>4. CASE pc = "pair" /\ OpenPair(Current.pairs[j + 1].sib, Len(Current.pairs[j + 1].sibs))
  BY <1>1, <1>4, OpenPairRead
<1>5. CASE /\ pc = "climb" /\ climb.level < climb.depth
           /\ ClimbStep(Path[climb.level + 1 - From])
  BY <1>1, <1>5, ClimbStepRead
<1>6. CASE pc = "fold" /\ j < Len(Current.hints) /\ FoldOne(Current.hints[j + 1])
  BY <1>1, <1>6, FoldOneRead
<1>7. CASE Reject BY <1>1, <1>7, RejectRead
<1>8. CASE GrindingGate \/ OodClosure BY <1>1, <1>8, GateRead
<1>9. CASE CheckRoot BY <1>1, <1>9, CheckRootRead
<1>10. CASE ComputeRow BY <1>1, <1>10, ComputeRowRead
<1>11. CASE LastLayer BY <1>1, <1>11, LastLayerRead
<1> QED BY <1>2, <1>3, <1>4, <1>5, <1>6, <1>7, <1>8, <1>9, <1>10, <1>11 DEF Read

LEMMA ReadInvNext == ReadInv /\ [ReplayNext]_<<vars, replayVars>> => ReadInv'
<1> SUFFICES ASSUME ReadInv, [ReplayNext]_<<vars, replayVars>> PROVE ReadInv' OBVIOUS
<1>1. CASE Lengths(L, N) /\ UNCHANGED replayVars
  <2>1. pc = "lengths" /\ pc' \in {"trace", "aborted"} /\ UNCHANGED <<bundles, k>>
    BY <1>1 DEF Lengths, Require, Reject, replayVars, bundle
  <2> QED BY <2>1, SpeakRead
<1>2. ASSUME NEW c, SendTrace(c) PROVE ReadInv'
  <2>1. pc = "trace" /\ pc' = "comp" /\ UNCHANGED <<bundles, k>>
    BY <1>2 DEF SendTrace, CommitTrace, replayVars, bundle
  <2> QED BY <2>1, SpeakRead
<1>3. ASSUME NEW c, SendComp(c) PROVE ReadInv'
  <2>1. pc = "comp" /\ pc' = "openings" /\ UNCHANGED <<bundles, k>>
    BY <1>3 DEF SendComp, CommitComp, replayVars, bundle
  <2> QED BY <2>1, SpeakRead
<1>4. ASSUME NEW c, SendOpenings(c) PROVE ReadInv'
  <2>1. PICK o : AbsorbOpenings(o, c) /\ UNCHANGED bundles BY <1>4 DEF SendOpenings
  <2>2. pc = "openings" /\ pc' \in {"fri", "aborted"} /\ UNCHANGED <<bundles, k>>
    BY <2>1 DEF AbsorbOpenings, Require, Reject, bundle
  <2> QED BY <2>2, SpeakRead
<1>5. ASSUME NEW c, SendLayer(c) PROVE ReadInv'
  <2>1. pc = "fri" /\ pc' \in {"fri", "final"} /\ UNCHANGED <<bundles, k>>
    BY <1>5 DEF SendLayer, FriBetaStep, bundle
  <2> QED BY <2>1, SpeakRead
<1>6. ASSUME NEW ok \in BOOLEAN, NEW ix \in Draws, SendFinal(ok, ix) PROVE ReadInv'
  BY <1>6, DrawRead
<1>7. ASSUME NEW n \in 1 .. N, NEW b, Answer(n, b) PROVE ReadInv' BY <1>7, AnswerRead
<1>8. CASE Read BY <1>8, ReadStep
<1>9. CASE UNCHANGED <<vars, replayVars>>
  <2>1. CASE pc \in {"lengths", "trace", "comp", "openings", "fri", "final"}
    BY <1>9, <2>1 DEF vars, bundle, replayVars, ReadInv, Progress, Stage, Drawn, InBundle
  <2>2. CASE pc \notin {"lengths", "trace", "comp", "openings", "fri", "final"}
    <3>1. UNCHANGED <<pc, messages, challenges, k, j, pos, climb, bundles, replayVars>>
      BY <1>9 DEF vars, bundle, replayVars
    <3>2. Given' <=> Given BY <3>1, GivenFrame
    <3>3. AllRead' <=> AllRead BY <3>1, AllReadFrame
    <3>4. Progress' BY <3>1, <3>2, <3>3 DEF ReadInv, Progress, challenges
    <3>5. Climbing => Climbing'
      BY <3>1, LayersFrame, ReadFrame
      DEF Climbing, ClimbDepth, ClimbStart, LeafRead, SibsRead, Path, From, Target, Current, Query,
          messages, challenges
    <3>6. Stage' BY <3>1, <3>5, LayersFrame, ReadFrame DEF ReadInv, Stage
    <3> QED BY <3>4, <3>6 DEF ReadInv
  <2> QED BY <2>1, <2>2
<1>10. CASE Returned /\ UNCHANGED replayVars BY <1>9, <1>10 DEF Returned
<1> QED BY <1>1, <1>2, <1>3, <1>4, <1>5, <1>6, <1>7, <1>8, <1>9, <1>10 DEF ReplayNext

(***************************************************************************)
(* Given roots, challenges and indices, verify() accepts one answer: the   *)
(* bundles read off the committed columns, hints up to multiples of P.     *)
(***************************************************************************)
THEOREM OneAnswer == ReplaySpec => []OneAnswerPerQuery
<1>1. ReplayInit => ReadInv
  BY DEF ReplayInit, Init, Unsaid, ReadInv, Progress, Stage, Drawn, InBundle
<1>2. ReadInv => OneAnswerPerQuery
  <2> SUFFICES ASSUME ReadInv, pc = "accepted" PROVE OneAnswerPerQuery
    BY DEF OneAnswerPerQuery
  <2>1. AllRead /\ k = N BY DEF ReadInv, Progress, Drawn
  <2> QED BY <2>1 DEF AllRead, OneAnswerPerQuery
<1> QED BY <1>1, <1>2, ReadInvNext, PTL DEF ReplaySpec
=============================================================================
