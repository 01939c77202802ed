---------------------------- MODULE DriverProofs ----------------------------
(***************************************************************************)
(* The verdict of verify() is sound for every number of queries and        *)
(* layers, every field and every prover Driver admits.                     *)
(***************************************************************************)
EXTENDS DriverInvariant, FriProofs

-----------------------------------------------------------------------------
(* Positions *)

\* The size of a tree of each depth, and how it halves.
LEMMA Sizes ==
  /\ D \in Nat /\ N \in Nat /\ L \in Nat /\ N > 0 /\ L > 0 /\ D = L + 1
  /\ DomainSize[0] = 1
  /\ \A d \in 0 .. D : DomainSize[d] \in Nat /\ DomainSize[d] > 0
  /\ \A d \in 0 .. D : d > 0 => DomainSize[d] = 2 * DomainSize[d - 1]
<1>1. D \in Nat /\ D > 0 BY DomainAssumption
<1>2. N \in Nat /\ L \in Nat /\ N > 0 /\ L > 0 /\ D = L + 1 BY StatementAssumption
<1>3. DomainSize[0] = 1 BY DomainAssumption
<1>4. ASSUME NEW d \in 0 .. D PROVE DomainSize[d] \in Nat /\ DomainSize[d] > 0
  <2>1. DomainSize[d] \in Nat \ {0} BY DomainAssumption
  <2> QED BY <2>1
<1>5. ASSUME NEW d \in 0 .. D, d > 0 PROVE DomainSize[d] = 2 * DomainSize[d - 1]
  <2>1. d - 1 \in 0 .. (D - 1) /\ (d - 1) + 1 = d BY <1>1, <1>5
  <2>2. DomainSize[(d - 1) + 1] = 2 * DomainSize[d - 1] BY <2>1, DomainAssumption
  <2> QED BY <2>1, <2>2
<1> QED BY <1>1, <1>2, <1>3, <1>4, <1>5

\* A position is one of the two children of its half.
LEMMA Halves ==
  ASSUME NEW c \in Nat
  PROVE  /\ c \div 2 \in Nat
         /\ NodeIsRight(c) => c = 2 * (c \div 2) + 1 /\ SiblingOf(c) = 2 * (c \div 2)
         /\ ~NodeIsRight(c) => c = 2 * (c \div 2) /\ SiblingOf(c) = 2 * (c \div 2) + 1
         /\ NodeIsRight(c) => EvenOf(c) = SiblingOf(c) /\ EvenOf(c) + 1 = c
         /\ ~NodeIsRight(c) => EvenOf(c) = c /\ EvenOf(c) + 1 = SiblingOf(c)
BY DEF NodeIsRight, SiblingOf, EvenOf

\* Half a position at one level is a position at the next.
LEMMA HalfInRange ==
  ASSUME NEW c \in Nat, NEW d \in 1 .. D, c < DomainSize[d]
  PROVE  c \div 2 < DomainSize[d - 1]
<1>1. d \in 0 .. D /\ d > 0 /\ d - 1 \in 0 .. D BY Sizes
<1>2. DomainSize[d - 1] \in Nat /\ DomainSize[d] = 2 * DomainSize[d - 1] BY <1>1, Sizes
<1> QED BY <1>2

\* Halving once more is dividing by twice as much.
LEMMA DivDiv ==
  ASSUME NEW q \in Nat, NEW a \in Nat, a > 0
  PROVE  (q \div a) \div 2 = q \div (2 * a)
<1> DEFINE m == q \div a
           r == q % a
           h == m \div 2
           e == m % 2
<1>1. m \in Nat /\ r \in 0 .. (a - 1) /\ q = a * m + r OBVIOUS
<1>2. h \in Nat /\ e \in 0 .. 1 /\ m = 2 * h + e BY <1>1
<1> HIDE DEF m, r, h, e
<1>3. q = (2 * a) * h + (a * e + r) BY <1>1, <1>2
<1>4. a * e + r \in 0 .. (2 * a - 1)
  <2>1. CASE e = 0 BY <2>1, <1>1
  <2>2. CASE e = 1 BY <2>2, <1>1
  <2> QED BY <2>1, <2>2, <1>2
<1>5. ASSUME NEW b \in Nat, b > 0, NEW s \in 0 .. (b - 1), q = b * h + s PROVE q \div b = h
  BY <1>2, <1>5
<1>6. 2 * a \in Nat /\ 2 * a > 0 OBVIOUS
<1>7. q \div (2 * a) = h BY <1>3, <1>4, <1>5, <1>6
<1> QED BY <1>7 DEF h, m

\* A query's position at the next layer is half its position at this one.
LEMMA PositionHalves ==
  ASSUME NEW q \in Nat, NEW i \in 0 .. (D - 1)
  PROVE  PositionAt(q, i) \div 2 = PositionAt(q, i + 1)
<1>1. i \in 0 .. D /\ i + 1 \in 0 .. D /\ i + 1 > 0 /\ (i + 1) - 1 = i BY Sizes
<1>2. DomainSize[i] \in Nat /\ DomainSize[i] > 0 /\ DomainSize[i + 1] = 2 * DomainSize[i]
  BY <1>1, Sizes
<1> QED BY <1>2, DivDiv DEF PositionAt

-----------------------------------------------------------------------------
(* Commitments *)

\* Leaves and nodes are as good as what was hashed into them.
LEMMA Injective ==
  /\ \A u, v : Leaf(u) = Leaf(v) => u = v
  /\ \A a, b, c, d : Node(a, b) = Node(c, d) => a = c /\ b = d
<1>1. ASSUME NEW u, NEW v, Leaf(u) = Leaf(v) PROVE u = v
  <2>1. Leaf(u)[2] = u /\ Leaf(v)[2] = v BY DEF Leaf
  <2> QED BY <1>1, <2>1
<1>2. ASSUME NEW a, NEW b, NEW c, NEW d, Node(a, b) = Node(c, d) PROVE a = c /\ b = d
  <2>1. /\ Node(a, b)[2] = a /\ Node(a, b)[3] = b
        /\ Node(c, d)[2] = c /\ Node(c, d)[3] = d
    BY DEF Node
  <2> QED BY <1>2, <2>1
<1> QED BY <1>1, <1>2

(***************************************************************************)
(* A merkle-step that reaches the committed digest of the next level was   *)
(* given the committed digest and the committed sibling.                   *)
(***************************************************************************)
LEMMA StepBinds ==
  ASSUME NEW tree, NEW depth \in 0 .. D, IsTree(tree, depth),
         NEW l \in 0 .. (depth - 1), NEW c \in Nat, c < DomainSize[depth - l],
         NEW acc, NEW s,
         MerkleStep(s, acc, NodeIsRight(c)) = tree[l + 1][c \div 2]
  PROVE  acc = tree[l][c] /\ s = tree[l][SiblingOf(c)]
<1> DEFINE h == c \div 2
<1>1. h \in Nat BY Halves
<1>2. h < DomainSize[depth - (l + 1)]
  <2>1. depth - l \in 1 .. D /\ (depth - l) - 1 = depth - (l + 1) BY Sizes
  <2> QED BY <2>1, HalfInRange
<1>3. /\ l + 1 \in 1 .. depth /\ (l + 1) - 1 = l
      /\ h \in 0 .. (DomainSize[depth - (l + 1)] - 1)
  <2>1. depth - (l + 1) \in 0 .. D BY Sizes
  <2>2. DomainSize[depth - (l + 1)] \in Nat BY <2>1, Sizes
  <2> HIDE DEF h
  <2> QED BY <2>2, <1>1, <1>2, Sizes
<1> HIDE DEF h
<1>4. \/ tree[l + 1][h] = Node(tree[l][2 * h], tree[l][2 * h + 1])
      \/ tree[l + 1][h] \in Opaque
  BY <1>3 DEF IsTree
<1>5. MerkleStep(s, acc, NodeIsRight(c))[1] = "node" BY DEF MerkleStep, Node
<1>6. tree[l + 1][h] = Node(tree[l][2 * h], tree[l][2 * h + 1])
  BY <1>4, <1>5, OpaqueAssumption DEF h
<1>7. CASE NodeIsRight(c)
  <2>1. Node(s, acc) = Node(tree[l][2 * h], tree[l][2 * h + 1])
    BY <1>6, <1>7 DEF MerkleStep, h
  <2>2. s = tree[l][2 * h] /\ acc = tree[l][2 * h + 1] BY <2>1, Injective
  <2>3. c = 2 * h + 1 /\ SiblingOf(c) = 2 * h BY <1>7, Halves DEF h
  <2> QED BY <2>2, <2>3
<1>8. CASE ~NodeIsRight(c)
  <2>1. Node(acc, s) = Node(tree[l][2 * h], tree[l][2 * h + 1])
    BY <1>6, <1>8 DEF MerkleStep, h
  <2>2. acc = tree[l][2 * h] /\ s = tree[l][2 * h + 1] BY <2>1, Injective
  <2>3. c = 2 * h /\ SiblingOf(c) = 2 * h + 1 BY <1>8, Halves DEF h
  <2> QED BY <2>2, <2>3
<1> QED BY <1>7, <1>8

\* What the prover can send is four unsigned limbs; a canonical encoding is an element.
LEMMA Sent ==
  /\ \A v \in Felt : Canonical(v) => v \in QM31
  /\ \A r, p : Sendable(r, p) \subseteq Felt
<1>1. ASSUME NEW v \in Felt, Canonical(v) PROVE v \in QM31
  <2>1. /\ v.c0 \in M31 /\ v.c1 \in M31 /\ v.c2 \in M31 /\ v.c3 \in M31
        /\ v = [c0 |-> v.c0, c1 |-> v.c1, c2 |-> v.c2, c3 |-> v.c3]
    BY <1>1, FieldAssumption DEF Felt, Canonical, M31
  <2> QED BY <2>1 DEF QM31
<1>2. QM31 \subseteq Felt
  <2>1. M31 \subseteq Nat BY M31Bounds
  <2> QED BY <2>1 DEF QM31, Felt
<1>3. ASSUME NEW r, NEW p PROVE Sendable(r, p) \subseteq Felt
  BY <1>2, DriverAssumption DEF Sendable
<1> QED BY <1>1, <1>3

-----------------------------------------------------------------------------
(* What a step that leaves a fact's variables alone does to the fact: nothing. *)

\* What a query must satisfy depends on messages and challenges alone.
LEMMA RelationFrame ==
  ASSUME UNCHANGED <<messages, challenges>>, NEW q, NEW i, NEW w
  PROVE  /\ Reaches(q, i, w)' <=> Reaches(q, i, w)
         /\ Link(q, i)' <=> Link(q, i)
         /\ QueryRelation(q)' <=> QueryRelation(q)
BY DEF messages, challenges, Reaches, RowOf, FoldOf, Link, QueryRelation, Holds

\* The bundles already checked stay checked.
LEMMA CheckedFrame ==
  ASSUME CheckedPrefix, UNCHANGED <<messages, challenges, k>> PROVE CheckedPrefix'
BY DEF messages, challenges, Reaches, RowOf, FoldOf, Link, QueryRelation, Holds, CheckedPrefix

\* What the fold carries keeps its meaning.
LEMMA CarriedFrame ==
  ASSUME UNCHANGED <<messages, challenges, k, j, pos, val>>
  PROVE  Carried' <=> Carried
BY DEF messages, challenges, Reaches, RowOf, FoldOf, Link, QueryRelation, Holds, Carried, Query

\* The opened trace value keeps its meaning.
LEMMA TracedFrame ==
  ASSUME UNCHANGED <<messages, challenges, k, tx>>
  PROVE  Traced' <=> Traced
BY DEF messages, challenges, Traced, Holds, Query

-----------------------------------------------------------------------------
(* Every action preserves the invariant. *)

\* Before the first message nothing is committed or checked.
LEMMA InitInv == Init => Inv
<1> SUFFICES ASSUME Init PROVE Inv OBVIOUS
<1>1. TypeOK
  <2>1. DomainSize[D] \in Nat /\ DomainSize[D] > 0 BY Sizes
  <2>2. 0 \in Indices /\ 0 \in 0 .. N /\ 0 \in 0 .. L BY <2>1, Sizes DEF Indices
  <2>3. \A S : << >> \in Seq(S) /\ Len(<< >>) = 0 OBVIOUS
  <2>4. /\ fri \in Seq(UNION {FriRoots[i] : i \in 0 .. (L - 1)}) /\ betas \in Seq(Challenges)
        /\ Len(fri) = 0 /\ Len(betas) = 0
    BY <2>3 DEF Init, Unsaid
  <2>5. \A i \in 1 .. Len(fri) : fri[i] \in FriRoots[i - 1] BY <2>4
  <2>6. /\ pc = "lengths" /\ idx = << >> /\ powOk = FALSE /\ k = 0 /\ j = 0 /\ pos = 0 /\ hashes = 0
        /\ trace = None /\ comp = None /\ ood = None /\ final = None
        /\ alpha = None /\ z = None /\ gamma = None
        /\ {tx, cx, val, sib} \subseteq QM31 \cup {None}
    BY DEF Init, Unsaid
  <2>7. Len(fri) = Len(betas) /\ Len(fri) <= L BY <2>4, Sizes
  <2>8. k \in 0 .. N /\ j \in 0 .. L /\ pos \in Indices /\ hashes \in Nat BY <2>2, <2>6
  <2> QED BY <2>4, <2>5, <2>6, <2>7, <2>8 DEF TypeOK
<1>2. Transcript BY DEF Init, Unsaid, Transcript, Drawn, InBundle
<1>3. Gated BY DEF Init, Unsaid, Gated, InBundle
<1>4. Bundle BY DEF Init, Unsaid, Bundle
<1>5. CheckedPrefix BY DEF Init, Unsaid, CheckedPrefix
<1> QED BY <1>1, <1>2, <1>3, <1>4, <1>5 DEF Inv

\* An abort changes the verdict only.
LEMMA RejectInv == ASSUME Inv, Reject PROVE Inv'
<1> USE DEF Reject, messages, challenges, bundle
<1>1. TypeOK' BY DEF Inv, TypeOK
<1>2. Transcript' BY DEF Transcript, Drawn, InBundle
<1>3. Gated' BY DEF Gated, InBundle
<1>4. Bundle' BY DEF Bundle
<1>5. CheckedPrefix' BY CheckedFrame DEF Inv
<1> QED BY <1>1, <1>2, <1>3, <1>4, <1>5 DEF Inv

\* The length gate lets well-shaped calls through and nothing else.
LEMMA LengthsInv ==
  ASSUME Inv, NEW r, NEW n, Lengths(r, n) PROVE Inv'
<1>1. CASE Reject BY <1>1, RejectInv
<1>2. CASE pc' = "trace" /\ UNCHANGED <<messages, challenges, bundle>>
  <2> USE <1>2 DEF Lengths, messages, challenges, bundle
  <2>1. TypeOK' BY DEF Inv, TypeOK
  <2>2. Transcript' BY DEF Inv, Transcript, Drawn, InBundle
  <2>3. Gated' BY DEF Gated, InBundle
  <2>4. Bundle' BY DEF Bundle
  <2>5. CheckedPrefix' BY CheckedFrame DEF Inv
  <2> QED BY <2>1, <2>2, <2>3, <2>4, <2>5 DEF Inv
<1> QED BY <1>1, <1>2 DEF Lengths, Require

\* The trace root, and alpha drawn after it.
LEMMA CommitTraceInv ==
  ASSUME Inv, NEW r \in TraceRoots, NEW c \in Challenges, CommitTrace(r, c) PROVE Inv'
<1> USE DEF CommitTrace, bundle
<1>1. TypeOK' BY DEF Inv, TypeOK
<1>2. Transcript' BY DEF Inv, Transcript, Drawn, InBundle
<1>3. Gated' BY DEF Gated, InBundle
<1>4. Bundle' BY DEF Bundle
<1>5. CheckedPrefix' BY DEF Inv, Transcript, CheckedPrefix
<1> QED BY <1>1, <1>2, <1>3, <1>4, <1>5 DEF Inv

\* The composition root, and z drawn after it.
LEMMA CommitCompInv ==
  ASSUME Inv, NEW r \in CompRoots, NEW c \in Challenges, CommitComp(r, c) PROVE Inv'
<1> USE DEF CommitComp, bundle
<1>1. TypeOK' BY DEF Inv, TypeOK
<1>2. Transcript' BY DEF Inv, Transcript, Drawn, InBundle
<1>3. Gated' BY DEF Gated, InBundle
<1>4. Bundle' BY DEF Bundle
<1>5. CheckedPrefix' BY DEF Inv, Transcript, CheckedPrefix
<1> QED BY <1>1, <1>2, <1>3, <1>4, <1>5 DEF Inv

\* The openings are canonical once absorbed; gamma is drawn after them.
LEMMA AbsorbOpeningsInv ==
  ASSUME Inv, NEW o \in OodClaims, NEW c \in Challenges, AbsorbOpenings(o, c) PROVE Inv'
<1>1. CASE Reject BY <1>1, RejectInv
<1>2. CASE ~Reject
  <2>1. /\ pc = "openings" /\ ood' = o /\ gamma' = c /\ pc' = "fri"
        /\ UNCHANGED <<trace, comp, fri, final, alpha, z, betas, powOk, idx, bundle>>
    BY <1>2 DEF AbsorbOpenings, Require
  <2> USE <2>1 DEF bundle
  <2>2. TypeOK' BY DEF Inv, TypeOK
  <2>3. Transcript'
    <3>1. Len(fri) = 0 BY DEF Inv, Transcript
    <3> QED BY <3>1, Sizes DEF Inv, Transcript, Drawn, InBundle
  <2>4. Gated' BY DEF Gated, InBundle
  <2>5. Bundle' BY DEF Bundle
  <2>6. CheckedPrefix' BY DEF Inv, Transcript, CheckedPrefix
  <2> QED BY <2>2, <2>3, <2>4, <2>5, <2>6 DEF Inv
<1> QED BY <1>1, <1>2

\* One more layer root, one more beta.
LEMMA FriBetaStepInv ==
  ASSUME Inv, pc = "fri", NEW r \in FriRoots[Len(fri)], NEW c \in Challenges, FriBetaStep(r, c)
  PROVE  Inv'
<1> USE DEF FriBetaStep, bundle
<1> DEFINE Roots == UNION {FriRoots[i] : i \in 0 .. (L - 1)}
<1>1. /\ fri \in Seq(Roots) /\ betas \in Seq(Challenges) /\ Len(fri) = Len(betas)
      /\ Len(fri) \in Nat /\ Len(fri) < L
      /\ \A i \in 1 .. Len(fri) : fri[i] \in FriRoots[i - 1]
  BY Sizes DEF Inv, TypeOK, Transcript
<1>2. r \in Roots
  <2>1. Len(fri) \in 0 .. (L - 1) BY <1>1, Sizes
  <2> QED BY <2>1
<1> HIDE DEF Roots
<1>3. /\ fri' \in Seq(Roots) /\ betas' \in Seq(Challenges)
      /\ Len(fri') = Len(fri) + 1 /\ Len(betas') = Len(fri) + 1
  BY <1>1, <1>2
<1>4. \A i \in 1 .. Len(fri') : fri'[i] \in FriRoots[i - 1]
  <2> SUFFICES ASSUME NEW i \in 1 .. (Len(fri) + 1) PROVE fri'[i] \in FriRoots[i - 1]
    BY <1>3
  <2>1. CASE i = Len(fri) + 1
    <3>1. fri'[i] = r /\ i - 1 = Len(fri) BY <1>1, <1>2, <2>1
    <3> QED BY <3>1
  <2>2. CASE i # Len(fri) + 1
    <3>1. i \in 1 .. Len(fri) BY <1>1, <2>2
    <3>2. fri'[i] = fri[i] BY <1>1, <1>2, <3>1
    <3> QED BY <1>1, <3>1, <3>2
  <2> QED BY <2>1, <2>2
<1>5. pc' \in {"fri", "final"} /\ (pc' = "fri" => Len(fri') < L) /\ (pc' = "final" => Len(fri') = L)
  BY <1>1, <1>3, Sizes
<1>6. TypeOK'
  <2>1. Len(fri') <= L /\ Len(fri') = Len(betas') BY <1>1, <1>3, Sizes
  <2> QED BY <1>3, <1>4, <1>5, <2>1 DEF Inv, TypeOK, Roots
<1>7. Transcript' BY <1>5 DEF Inv, Transcript, Drawn, InBundle
<1>8. Gated' BY <1>5 DEF Gated, InBundle
<1>9. Bundle' BY <1>5 DEF Bundle
<1>10. CheckedPrefix' BY DEF Inv, Transcript, CheckedPrefix
<1> QED BY <1>6, <1>7, <1>8, <1>9, <1>10 DEF Inv

\* The final constant is canonical once absorbed; the indices are in range.
LEMMA DrawQueriesInv ==
  ASSUME Inv, NEW f \in Finals, NEW ok \in BOOLEAN, NEW ix \in [1 .. N -> Indices],
         DrawQueries(f, ok, ix)
  PROVE  Inv'
<1>1. CASE Reject BY <1>1, RejectInv
<1>2. CASE ~Reject
  <2>1. /\ pc = "final" /\ final' = f /\ powOk' = ok /\ idx' = ix /\ pc' = "gate"
        /\ UNCHANGED <<trace, comp, ood, fri, alpha, z, gamma, betas, bundle>>
        /\ Canonical(f)
    BY <1>2 DEF DrawQueries, Require
  <2>2. f \in QM31 BY <2>1, Sent, StatementAssumption
  <2> USE <2>1, <2>2 DEF bundle
  <2>3. TypeOK' BY DEF Inv, TypeOK
  <2>4. Transcript' BY DEF Inv, Transcript, Drawn, InBundle
  <2>5. Gated' BY DEF Gated, InBundle
  <2>6. Bundle' BY DEF Bundle
  <2>7. CheckedPrefix' BY DEF Inv, Transcript, CheckedPrefix
  <2> QED BY <2>3, <2>4, <2>5, <2>6, <2>7 DEF Inv
<1> QED BY <1>1, <1>2

\* Past the grinding gate the nonce is good.
LEMMA GrindingGateInv == ASSUME Inv, GrindingGate PROVE Inv'
<1>1. CASE Reject BY <1>1, RejectInv
<1>2. CASE ~Reject
  <2>1. pc = "gate" /\ pc' = "ood" /\ powOk /\ UNCHANGED <<messages, challenges, bundle>>
    BY <1>2 DEF GrindingGate, Require
  <2> USE <2>1 DEF messages, challenges, bundle
  <2>2. TypeOK' BY DEF Inv, TypeOK
  <2>3. Transcript' BY DEF Inv, Transcript, Drawn, InBundle
  <2>4. Gated' BY DEF Gated, InBundle
  <2>5. Bundle' BY DEF Bundle
  <2>6. CheckedPrefix' BY DEF Inv, Transcript, CheckedPrefix
  <2> QED BY <2>2, <2>3, <2>4, <2>5, <2>6 DEF Inv
<1> QED BY <1>1, <1>2

\* Past the out-of-domain gate the openings satisfy the constraints.
LEMMA OodClosureInv == ASSUME Inv, OodClosure PROVE Inv'
<1>1. CASE Reject BY <1>1, RejectInv
<1>2. CASE ~Reject
  <2>1. /\ pc = "ood" /\ pc' = "trace-leaf" /\ FeltToPointOk(z) /\ ComposeCheck(ood, z, alpha)
        /\ UNCHANGED <<messages, challenges, bundle>>
    BY <1>2 DEF OodClosure, Require
  <2> USE <2>1 DEF messages, challenges, bundle
  <2>2. TypeOK' BY DEF Inv, TypeOK
  <2>3. Transcript' BY DEF Inv, Transcript, Drawn, InBundle
  <2>4. Gated' BY Sizes DEF Inv, Transcript, Gated, InBundle
  <2>5. Bundle' BY DEF Bundle
  <2>6. CheckedPrefix' BY DEF Inv, Transcript, CheckedPrefix
  <2> QED BY <2>2, <2>3, <2>4, <2>5, <2>6 DEF Inv
<1> QED BY <1>1, <1>2

\* What every point of a bundle may use of the messages and challenges.
LEMMA BundleFacts ==
  ASSUME Inv, pc \in InBundle
  PROVE  /\ k \in 0 .. (N - 1) /\ j \in 0 .. L
         /\ Query \in Indices /\ Query \in Nat /\ Query < DomainSize[D]
         /\ IsTree(Tree(trace), D) /\ IsTree(Tree(comp), D)
         /\ j < L => IsTree(Tree(fri[j + 1]), D - j) /\ betas[j + 1] \in QM31
         /\ ood \in OodClaims /\ z \in Challenges /\ gamma \in Challenges /\ final \in QM31
<1>1. k \in 0 .. N /\ k < N /\ j \in 0 .. L BY DEF Inv, TypeOK, Gated
<1>2. k \in 0 .. (N - 1) /\ k + 1 \in 1 .. N BY <1>1, Sizes
<1>3. /\ trace \in TraceRoots /\ comp \in CompRoots /\ ood \in OodClaims
      /\ z \in Challenges /\ gamma \in Challenges /\ final \in QM31
      /\ idx \in [1 .. N -> Indices] /\ Len(fri) = L
  BY DEF Inv, Transcript, Drawn
<1>4. Query \in Indices BY <1>2, <1>3 DEF Query
<1>5. Query \in Nat /\ Query < DomainSize[D]
  <2>1. DomainSize[D] \in Nat BY Sizes
  <2> QED BY <1>4, <2>1 DEF Indices
<1>6. IsTree(Tree(trace), D) /\ IsTree(Tree(comp), D) BY <1>3, TreeAssumption
<1>7. ASSUME j < L PROVE IsTree(Tree(fri[j + 1]), D - j) /\ betas[j + 1] \in QM31
  <2>1. j + 1 \in 1 .. Len(fri) /\ (j + 1) - 1 = j /\ j \in 0 .. (L - 1)
    BY <1>1, <1>3, <1>7, Sizes
  <2>2. fri[j + 1] \in FriRoots[j] BY <2>1 DEF Inv, TypeOK
  <2>3. betas \in Seq(Challenges) /\ Len(betas) = Len(fri) BY DEF Inv, TypeOK
  <2>4. betas[j + 1] \in Challenges BY <2>1, <2>3
  <2> QED BY <2>1, <2>2, <2>4, TreeAssumption, StatementAssumption
<1> QED BY <1>1, <1>2, <1>3, <1>4, <1>5, <1>6, <1>7

\* Inside a bundle nothing but the bundle's own variables changes.
LEMMA StayInBundle ==
  ASSUME Inv, pc \in InBundle, pc' \in InBundle, UNCHANGED <<messages, challenges, k>>,
         j' \in 0 .. L, pos' \in Indices, hashes' \in Nat,
         {tx', cx', val', sib'} \subseteq QM31 \cup {None}
  PROVE  TypeOK' /\ Transcript' /\ Gated' /\ CheckedPrefix'
<1> USE DEF messages, challenges
<1>1. TypeOK' BY DEF Inv, TypeOK, InBundle
<1>2. Transcript' BY DEF Inv, Transcript, Drawn, InBundle
<1>3. Gated' BY DEF Inv, Gated, InBundle
<1>4. CheckedPrefix' BY CheckedFrame DEF Inv
<1> QED BY <1>1, <1>2, <1>3, <1>4

\* The types of the bundle's variables, for the steps that leave them alone.
LEMMA BundleTypes ==
  ASSUME Inv
  PROVE  /\ j \in 0 .. L /\ pos \in Indices /\ pos \in Nat /\ hashes \in Nat
         /\ {tx, cx, val, sib} \subseteq QM31 \cup {None}
<1>1. DomainSize[D] \in Nat BY Sizes
<1> QED BY <1>1 DEF Inv, TypeOK, Indices

\* The trace climb starts at the value it is to bind.
LEMMA OpenTraceInv ==
  ASSUME Inv, pc = "trace-leaf", NEW v \in Felt, NEW len \in PathLengths, OpenTrace(v, len)
  PROVE  Inv'
<1>1. CASE Reject BY <1>1, RejectInv
<1>2. CASE ~Reject
  <2>1. /\ IsBase(v) /\ len = D /\ v \in QM31
        /\ tx' = v /\ pc' = "climb" /\ hashes' = hashes + 1
        /\ climb' = [acc |-> Leaf(v), level |-> 0, cursor |-> Query, depth |-> D, of |-> "trace"]
        /\ UNCHANGED <<messages, challenges, k, cx, j, pos, val, sib>>
    BY <1>2, Sent DEF OpenTrace, Require, StartClimb
  <2>2. TypeOK' /\ Transcript' /\ Gated' /\ CheckedPrefix'
    BY <2>1, StayInBundle, BundleTypes DEF InBundle
  <2>3. Query \in Nat /\ Query < DomainSize[D] BY BundleFacts DEF InBundle
  <2>4. ClimbShape'
    <3>1. D - 0 = D /\ 0 \in 0 .. D /\ DomainSize[D] \in Nat BY Sizes
    <3>2. Query \in 0 .. (DomainSize[D - 0] - 1) BY <2>3, <3>1
    <3> QED BY <2>1, <3>1, <3>2 DEF ClimbShape
  <2>5. Binding'
    BY <2>1 DEF Binding, Target, Claimed, Holds, Commits, Query, messages, challenges
  <2>6. Bundle' BY <2>1, <2>4, <2>5 DEF Bundle
  <2> QED BY <2>2, <2>6 DEF Inv
<1> QED BY <1>1, <1>2

\* The composition climb starts at the value it is to bind.
LEMMA OpenCompInv ==
  ASSUME Inv, pc = "comp-leaf", NEW v \in Felt, NEW len \in PathLengths, OpenComp(v, len)
  PROVE  Inv'
<1>1. CASE Reject BY <1>1, RejectInv
<1>2. CASE ~Reject
  <2>1. /\ len = D /\ v \in QM31
        /\ cx' = v /\ pc' = "climb" /\ hashes' = hashes + 1
        /\ climb' = [acc |-> Leaf(v), level |-> 0, cursor |-> Query, depth |-> D, of |-> "comp"]
        /\ UNCHANGED <<messages, challenges, k, tx, j, pos, val, sib>>
    BY <1>2, Sent DEF OpenComp, Require, StartClimb
  <2>2. TypeOK' /\ Transcript' /\ Gated' /\ CheckedPrefix'
    BY <2>1, StayInBundle, BundleTypes DEF InBundle
  <2>3. Query \in Nat /\ Query < DomainSize[D] BY BundleFacts DEF InBundle
  <2>4. ClimbShape'
    <3>1. D - 0 = D /\ 0 \in 0 .. D /\ DomainSize[D] \in Nat BY Sizes
    <3>2. Query \in 0 .. (DomainSize[D - 0] - 1) BY <2>3, <3>1
    <3> QED BY <2>1, <3>1, <3>2 DEF ClimbShape
  <2>5. Binding'
    BY <2>1 DEF Binding, Target, Claimed, Holds, Commits, Query, messages, challenges
  <2>6. Traced' BY <2>1, TracedFrame DEF Inv, Bundle
  <2>7. Bundle' BY <2>1, <2>4, <2>5, <2>6 DEF Bundle
  <2> QED BY <2>2, <2>7 DEF Inv
<1> QED BY <1>1, <1>2

\* The pair climb starts at the carried value and the sibling, each on its side.
LEMMA OpenPairInv ==
  ASSUME Inv, pc = "pair", NEW v \in Felt, NEW len \in PathLengths, OpenPair(v, len)
  PROVE  Inv'
<1>1. CASE Reject BY <1>1, RejectInv
<1>2. CASE ~Reject
  <2>1. j < L /\ Carried BY DEF Inv, Bundle
  <2>2. /\ len = D - 1 - j /\ v \in QM31
        /\ sib' = v /\ pc' = "climb" /\ hashes' = hashes + 3
        /\ climb' = [acc |-> MerkleStep(Leaf(v), Leaf(val), NodeIsRight(pos)),
                     level |-> 1, cursor |-> pos \div 2, depth |-> len + 1, of |-> "fri"]
        /\ UNCHANGED <<messages, challenges, k, tx, cx, j, pos, val>>
    BY <1>2, Sent DEF OpenPair, Require, StartClimb
  <2>3. TypeOK' /\ Transcript' /\ Gated' /\ CheckedPrefix'
    BY <2>2, StayInBundle, BundleTypes DEF InBundle
  <2>4. /\ j \in 0 .. (L - 1) /\ pos \in Nat /\ pos < DomainSize[D - j]
        /\ IsTree(Tree(fri[j + 1]), D - j)
    BY <2>1, BundleTypes, BundleFacts, Sizes DEF InBundle, Carried
  <2>5. D - j \in 1 .. D /\ len + 1 = D - j /\ 1 \in 0 .. (D - j) /\ (D - j) - 1 \in 0 .. D
    BY <2>2, <2>4, Sizes
  <2>6. ClimbShape'
    <3>1. pos \div 2 \in Nat /\ pos \div 2 < DomainSize[(D - j) - 1]
      BY <2>4, <2>5, Halves, HalfInRange
    <3>2. DomainSize[(D - j) - 1] \in Nat BY <2>5, Sizes
    <3>3. pos \div 2 \in 0 .. (DomainSize[(D - j) - 1] - 1) BY <3>1, <3>2
    <3> QED BY <2>2, <2>5, <3>3 DEF ClimbShape
  <2>7. Binding'
    <3>1. SUFFICES ASSUME MerkleStep(Leaf(v), Leaf(val), NodeIsRight(pos))
                            = Tree(fri[j + 1])[1][pos \div 2]
                   PROVE  Holds(fri[j + 1], pos, val) /\ Holds(fri[j + 1], SiblingOf(pos), v)
      BY <2>2 DEF Binding, Target, Claimed, Holds, Commits, messages, challenges
    <3>2. D - j \in 0 .. D /\ 0 \in 0 .. ((D - j) - 1) /\ (D - j) - 0 = D - j /\ 0 + 1 = 1
      BY <2>5
    <3>3. /\ Leaf(val) = Tree(fri[j + 1])[0][pos]
          /\ Leaf(v) = Tree(fri[j + 1])[0][SiblingOf(pos)]
      BY <2>4, <3>1, <3>2, StepBinds
    <3> QED BY <3>3 DEF Holds, Commits
  <2>8. Carried' BY <2>1, <2>2, CarriedFrame
  <2>9. Bundle' BY <2>1, <2>2, <2>6, <2>7, <2>8 DEF Bundle, messages, challenges
  <2> QED BY <2>3, <2>9 DEF Inv
<1> QED BY <1>1, <1>2

\* The tree a climb is in, and its depth.
LEMMA ClimbTree ==
  ASSUME Inv, pc = "climb"
  PROVE  /\ climb.depth \in 0 .. D /\ IsTree(Tree(Target), climb.depth)
         /\ climb.level \in 0 .. climb.depth
         /\ climb.cursor \in Nat /\ climb.cursor < DomainSize[climb.depth - climb.level]
<1>1. ClimbShape /\ (climb.of = "fri" => j < L) BY DEF Inv, Bundle
<1>2. j \in 0 .. L BY BundleTypes
<1>3. climb.depth \in 0 .. D BY <1>1, <1>2, Sizes DEF ClimbShape
<1>4. IsTree(Tree(Target), climb.depth)
  BY <1>1, BundleFacts DEF ClimbShape, Target, InBundle
<1>5. climb.depth - climb.level \in 0 .. D BY <1>1, <1>3, Sizes DEF ClimbShape
<1>6. DomainSize[climb.depth - climb.level] \in Nat BY <1>5, Sizes
<1> QED BY <1>1, <1>3, <1>4, <1>6 DEF ClimbShape

\* One level up: the digest climbed so far still covers the values it started from.
LEMMA ClimbStepInv ==
  ASSUME Inv, NEW s, ClimbStep(s) PROVE Inv'
<1> DEFINE depth == climb.depth
           l == climb.level
           c == climb.cursor
<1>1. /\ pc = "climb" /\ l < depth
      /\ climb' = [acc |-> MerkleStep(s, climb.acc, NodeIsRight(c)), level |-> l + 1,
                   cursor |-> c \div 2, depth |-> depth, of |-> climb.of]
      /\ hashes' = hashes + 1
      /\ UNCHANGED <<pc, messages, challenges, k, tx, cx, j, pos, val, sib>>
  BY DEF ClimbStep, StartClimb
<1>2. TypeOK' /\ Transcript' /\ Gated' /\ CheckedPrefix'
  BY <1>1, StayInBundle, BundleTypes DEF InBundle
<1>3. /\ depth \in 0 .. D /\ IsTree(Tree(Target), depth) /\ l \in 0 .. (depth - 1)
      /\ c \in Nat /\ c < DomainSize[depth - l]
  BY <1>1, ClimbTree, Sizes
<1>4. ClimbShape /\ Binding BY <1>1 DEF Inv, Bundle
<1>5. ClimbShape'
  <2>1. /\ depth - l \in 1 .. D /\ (depth - l) - 1 = depth - (l + 1)
        /\ depth - (l + 1) \in 0 .. D /\ l + 1 \in 0 .. depth
    BY <1>3, Sizes
  <2>2. c \div 2 \in Nat /\ c \div 2 < DomainSize[depth - (l + 1)]
    BY <1>3, <2>1, Halves, HalfInRange
  <2>3. DomainSize[depth - (l + 1)] \in Nat BY <2>1, Sizes
  <2>4. c \div 2 \in 0 .. (DomainSize[depth - (l + 1)] - 1) BY <2>2, <2>3
  <2> QED BY <1>1, <1>4, <2>1, <2>4 DEF ClimbShape
<1>6. Target' = Target BY <1>1, <1>4 DEF Target, ClimbShape, messages
<1>7. Claimed' <=> Claimed
  BY <1>1, <1>4 DEF Claimed, ClimbShape, Holds, Query, messages, challenges
<1>8. Binding'
  <2>1. SUFFICES ASSUME MerkleStep(s, climb.acc, NodeIsRight(c)) = Tree(Target)[l + 1][c \div 2]
                 PROVE  Claimed
    BY <1>1, <1>6, <1>7 DEF Binding
  <2>2. climb.acc = Tree(Target)[l][c] BY <1>3, <2>1, StepBinds
  <2> QED BY <1>4, <2>2 DEF Binding
<1>9. (Traced' <=> Traced) /\ (Carried' <=> Carried) BY <1>1, TracedFrame, CarriedFrame
<1>10. Bundle' BY <1>1, <1>5, <1>8, <1>9 DEF Inv, Bundle
<1> QED BY <1>2, <1>10 DEF Inv

\* A climb that ends at the committed root binds its values to their position.
LEMMA CheckRootInv == ASSUME Inv, CheckRoot PROVE Inv'
<1>1. CASE Reject BY <1>1, RejectInv
<1>2. CASE ~Reject
  <2>1. /\ pc = "climb" /\ climb.level = climb.depth
        /\ climb.acc = Root(Tree(Target), IF climb.of = "fri" THEN D - j ELSE D)
        /\ pc' = CASE climb.of = "trace" -> "comp-leaf"
                   [] climb.of = "comp"  -> "deep"
                   [] climb.of = "fri"   -> "fold"
        /\ UNCHANGED <<messages, challenges, k, tx, cx, j, pos, val, sib, hashes>>
    BY <1>2 DEF CheckRoot, Require
  <2>2. ClimbShape /\ Binding BY <2>1 DEF Inv, Bundle
  <2>3. Claimed
    <3>1. climb.depth - climb.level = 0 BY <2>1, <2>2, ClimbTree
    <3>2. climb.cursor = 0
      <4>1. climb.cursor \in Nat /\ climb.cursor < DomainSize[climb.depth - climb.level]
        BY <2>1, ClimbTree
      <4>2. climb.cursor < 1 BY <3>1, <4>1, Sizes
      <4> QED BY <4>1, <4>2
    <3>3. climb.acc = Tree(Target)[climb.level][climb.cursor]
      BY <2>1, <2>2, <3>2 DEF Root, ClimbShape
    <3> QED BY <2>2, <3>3 DEF Binding
  <2>4. (Traced' <=> Traced) /\ (Carried' <=> Carried) BY <2>1, TracedFrame, CarriedFrame
  <2>5. CASE climb.of = "trace"
    <3>1. pc' = "comp-leaf" BY <2>1, <2>5
    <3>2. TypeOK' /\ Transcript' /\ Gated' /\ CheckedPrefix'
      BY <2>1, <3>1, StayInBundle, BundleTypes DEF InBundle
    <3>3. Traced BY <2>1, <2>3, <2>5 DEF Inv, Bundle, Claimed, Traced
    <3>4. Bundle' BY <2>4, <3>1, <3>3 DEF Bundle
    <3> QED BY <3>2, <3>4 DEF Inv
  <2>6. CASE climb.of = "comp"
    <3>1. pc' = "deep" BY <2>1, <2>6
    <3>2. TypeOK' /\ Transcript' /\ Gated' /\ CheckedPrefix'
      BY <2>1, <3>1, StayInBundle, BundleTypes DEF InBundle
    <3>3. Traced /\ Composed BY <2>1, <2>3, <2>6 DEF Inv, Bundle, Claimed, Composed
    <3>4. Composed' BY <2>1, <3>3 DEF Composed, Holds, Query, messages, challenges
    <3>5. Bundle' BY <2>4, <3>1, <3>3, <3>4 DEF Bundle
    <3> QED BY <3>2, <3>5 DEF Inv
  <2>7. CASE climb.of = "fri"
    <3>1. pc' = "fold" BY <2>1, <2>7
    <3>2. TypeOK' /\ Transcript' /\ Gated' /\ CheckedPrefix'
      BY <2>1, <3>1, StayInBundle, BundleTypes DEF InBundle
    <3>3. j < L /\ Carried /\ Paired BY <2>1, <2>3, <2>7 DEF Inv, Bundle, Claimed, Paired
    <3>4. Paired' BY <2>1, <3>3 DEF Paired, Holds, messages
    <3>5. Bundle' BY <2>1, <2>4, <3>1, <3>3, <3>4 DEF Bundle
    <3> QED BY <3>2, <3>5 DEF Inv
  <2> QED BY <2>2, <2>5, <2>6, <2>7 DEF ClimbShape
<1> QED BY <1>1, <1>2

\* The row value computed is the one the openings and the point determine.
LEMMA ComputeRowInv == ASSUME Inv, ComputeRow PROVE Inv'
<1> DEFINE row == DeepRow(tx, cx, Query, ood, z, gamma)
<1>1. CASE Reject BY <1>1, RejectInv
<1>2. CASE ~Reject
  <2>1. /\ pc = "deep" /\ row # None
        /\ val' = row /\ j' = 0 /\ pos' = Query /\ pc' = "pair"
        /\ UNCHANGED <<messages, challenges, k, tx, cx, sib, climb, hashes>>
    BY <1>2 DEF ComputeRow, Require
  <2>2. Traced /\ Composed BY <2>1 DEF Inv, Bundle
  <2>3. /\ Query \in Indices /\ Query \in Nat /\ Query < DomainSize[D]
        /\ ood \in OodClaims /\ z \in Challenges /\ gamma \in Challenges
    BY <2>1, BundleFacts DEF InBundle
  <2>4. row \in QM31 BY <2>1, <2>2, <2>3, AlgebraAssumption DEF Traced, Composed
  <2>5. TypeOK' /\ Transcript' /\ Gated' /\ CheckedPrefix'
    BY <2>1, <2>3, <2>4, Sizes, StayInBundle, BundleTypes DEF InBundle
  <2>6. Carried'
    <3>1. RowOf(Query, row) BY <2>2 DEF RowOf, Traced, Composed
    <3>2. Reaches(Query, 0, row) BY <3>1 DEF Reaches
    <3>3. Reaches(Query, j, val)' BY <2>1, <3>2 DEF messages, challenges, Reaches, RowOf, Holds, Query
    <3>4. Query' = Query BY <2>1 DEF Query, challenges
    <3>5. Query = PositionAt(Query, 0)
      <4>1. DomainSize[0] = 1 BY Sizes
      <4> QED BY <2>3, <4>1 DEF PositionAt
    <3>6. D - 0 = D BY Sizes
    <3>7. pos' < DomainSize[D - j'] BY <2>1, <2>3, <3>6
    <3>8. \A i \in 0 .. (j' - 1) : Link(Query, i)' BY <2>1
    <3> QED BY <2>1, <2>4, <3>3, <3>4, <3>5, <3>7, <3>8 DEF Carried
  <2>7. Bundle' BY <2>1, <2>6, Sizes DEF Bundle
  <2> QED BY <2>5, <2>7 DEF Inv
<1> QED BY <1>1, <1>2

(***************************************************************************)
(* The heart of the argument: a fold the verifier accepts is the fold of   *)
(* the committed pair, whichever member of the pair was carried and        *)
(* whatever hint the prover sent.                                          *)
(***************************************************************************)
LEMMA FoldOneInv ==
  ASSUME Inv, NEW hint \in Hints, FoldOne(hint) PROVE Inv'
<1> DEFINE even == EvenOf(pos)
           x == Twiddle(j, even)
           beta == betas[j + 1]
           w == FoldLayerStepHint(val, sib, hint, beta, NodeIsRight(pos))
<1>1. CASE Reject BY <1>1, RejectInv
<1>2. CASE ~Reject
  <2>1. /\ pc = "fold" /\ HintRequires(x, hint)
        /\ val' = w /\ j' = j + 1 /\ pos' = pos \div 2 /\ sib' = None
        /\ pc' = IF j + 1 = L THEN "last" ELSE "pair"
        /\ UNCHANGED <<messages, challenges, k, tx, cx, climb, hashes>>
    BY <1>2 DEF FoldOne, Require
  <2>2. j < L /\ Carried /\ Paired BY <2>1 DEF Inv, Bundle
  <2>3. /\ j \in 0 .. (L - 1) /\ pos \in Nat /\ pos \in Indices /\ pos < DomainSize[D - j]
        /\ beta \in QM31 /\ Query \in Nat /\ hint \in Nat
        /\ pos = PositionAt(Query, j)
    BY <2>1, <2>2, BundleTypes, BundleFacts, Sizes, DriverAssumption DEF InBundle, Carried
  <2>4. x \in M31
    <3>1. DomainSize[D - j] \in Nat BY <2>3, Sizes
    <3>2. pos \in 0 .. (DomainSize[D - j] - 1) BY <2>3, <3>1
    <3> QED BY <2>3, <3>2, AlgebraAssumption
  <2>5. w \in QM31 /\ FoldOf(Query, j, w)
    <3>1. PICK a \in QM31, b \in QM31 :
            /\ Holds(fri[j + 1], even, a) /\ Holds(fri[j + 1], even + 1, b)
            /\ w = FriFoldStepHint(a, b, hint, beta)
      <4>1. CASE NodeIsRight(pos)
        <5>1. even = SiblingOf(pos) /\ even + 1 = pos BY <2>3, <4>1, Halves
        <5>2. w = FriFoldStepHint(sib, val, hint, beta) BY <4>1 DEF FoldLayerStepHint
        <5> QED BY <2>2, <5>1, <5>2 DEF Paired, Carried
      <4>2. CASE ~NodeIsRight(pos)
        <5>1. even = pos /\ even + 1 = SiblingOf(pos) BY <2>3, <4>2, Halves
        <5>2. w = FriFoldStepHint(val, sib, hint, beta) BY <4>2 DEF FoldLayerStepHint
        <5> QED BY <2>2, <5>1, <5>2 DEF Paired, Carried
      <4> QED BY <4>1, <4>2
    <3> HIDE DEF x, w, beta, even
    <3>2. x # 0 /\ w = FriFoldStep(a, b, x, beta)
      BY <2>1, <2>3, <2>4, <3>1, HintedFoldIsFold DEF FriFoldStepRequires
    <3>3. w \in QM31 BY <2>3, <3>1, HintedFoldClosed
    <3>4. FoldOf(Query, j, w) BY <2>3, <3>1, <3>2 DEF FoldOf, x, even, beta
    <3> QED BY <3>3, <3>4
  <2> HIDE DEF x, w, beta, even
  <2>6. j + 1 \in 0 .. L /\ j + 1 # 0 /\ (j + 1) - 1 = j /\ D - j \in 1 .. D /\ j \in 0 .. (D - 1)
        /\ (D - j) - 1 = D - (j + 1)
    BY <2>3, Sizes
  <2>7. pos \div 2 \in Nat /\ pos \div 2 < DomainSize[D - (j + 1)] /\ pos \div 2 \in Indices
    <3>1. pos \div 2 \in Nat /\ pos \div 2 <= pos BY <2>3
    <3>2. pos \div 2 < DomainSize[D - (j + 1)] BY <2>3, <2>6, HalfInRange
    <3>3. DomainSize[D] \in Nat BY Sizes
    <3> QED BY <2>3, <3>1, <3>2, <3>3 DEF Indices
  <2>8. pc' \in {"last", "pair"} /\ (pc' = "last" => j' = L) /\ (pc' = "pair" => j' < L)
    BY <2>1, <2>3, Sizes
  <2>9. TypeOK' /\ Transcript' /\ Gated' /\ CheckedPrefix'
    BY <2>1, <2>5, <2>6, <2>7, <2>8, StayInBundle, BundleTypes DEF InBundle
  <2>10. Carried'
    <3>1. Query' = Query BY <2>1 DEF Query, challenges
    <3>2. pos' = PositionAt(Query, j + 1) BY <2>1, <2>3, <2>6, PositionHalves
    <3>3. Reaches(Query, j + 1, w) BY <2>5, <2>6 DEF Reaches
    <3>4. Link(Query, j) BY <2>2, <2>3 DEF Link, Carried, Paired
    <3>5. \A i \in 0 .. j : Link(Query, i) BY <2>2, <2>3, <3>4 DEF Carried
    <3>6. Reaches(Query, j, val)'
      BY <2>1, <3>3 DEF messages, challenges, Query, Reaches, RowOf, FoldOf, Holds
    <3>7. \A i \in 0 .. j : Link(Query, i)'
      BY <2>1, <3>5 DEF messages, challenges, Query, Link, Reaches, RowOf, FoldOf, Holds
    <3>8. \A i \in 0 .. (j' - 1) : Link(Query, i)' BY <2>1, <2>6, <3>7
    <3> QED BY <2>1, <2>5, <2>7, <3>1, <3>2, <3>6, <3>8 DEF Carried
  <2>11. Bundle' BY <2>8, <2>10 DEF Bundle
  <2> QED BY <2>9, <2>11 DEF Inv
<1> QED BY <1>1, <1>2

\* A bundle whose last fold meets the final constant is checked in full.
LEMMA LastLayerInv == ASSUME Inv, LastLayer PROVE Inv'
<1>1. CASE Reject BY <1>1, RejectInv
<1>2. CASE ~Reject
  <2>1. /\ pc = "last" /\ val = final
        /\ k' = k + 1 /\ pc' = IF k + 1 = N THEN "accepted" ELSE "trace-leaf"
        /\ tx' = None /\ cx' = None /\ j' = 0 /\ pos' = 0 /\ val' = None
        /\ UNCHANGED <<messages, challenges, sib, climb, hashes>>
    BY <1>2 DEF LastLayer, Require
  <2>2. j = L /\ Carried BY <2>1 DEF Inv, Bundle
  <2>3. QueryRelation(idx[k + 1])
    BY <2>1, <2>2 DEF QueryRelation, Carried, Query
  <2>4. k \in 0 .. (N - 1) /\ k + 1 \in 0 .. N /\ 0 \in 0 .. L BY <2>1, BundleFacts, Sizes DEF InBundle
  <2>5. /\ pc' \in {"accepted", "trace-leaf"}
        /\ (pc' = "accepted" => k' = N) /\ (pc' = "trace-leaf" => k' < N)
    BY <2>1, <2>4, Sizes
  <2>6. 0 \in Indices
    <3>1. DomainSize[D] \in Nat /\ DomainSize[D] > 0 BY Sizes
    <3> QED BY <3>1 DEF Indices
  <2>7. TypeOK' BY <2>1, <2>4, <2>5, <2>6 DEF Inv, TypeOK, messages, challenges
  <2>8. Transcript' BY <2>1, <2>5 DEF Inv, Transcript, Drawn, InBundle, messages, challenges
  <2>9. Gated' BY <2>1, <2>5 DEF Inv, Gated, InBundle, messages, challenges
  <2>10. Bundle' BY <2>5 DEF Bundle
  <2>11. CheckedPrefix'
    <3>1. \A n \in 1 .. (k + 1) : QueryRelation(idx[n])
      <4> SUFFICES ASSUME NEW n \in 1 .. (k + 1) PROVE QueryRelation(idx[n]) OBVIOUS
      <4>1. n = k + 1 \/ n \in 1 .. k BY <2>4
      <4> QED BY <2>3, <4>1 DEF Inv, CheckedPrefix
    <3> QED
      BY <2>1, <3>1 DEF CheckedPrefix, QueryRelation, Link, Reaches, RowOf, FoldOf, Holds,
                        messages, challenges
  <2> QED BY <2>7, <2>8, <2>9, <2>10, <2>11 DEF Inv
<1> QED BY <1>1, <1>2

\* Nothing changes after the verdict, or in a stuttering step.
LEMMA StutterInv == ASSUME Inv, UNCHANGED vars PROVE Inv'
<1> USE DEF vars, messages, challenges, bundle
<1>1. TypeOK' /\ Transcript' /\ Gated' /\ CheckedPrefix'
  BY CheckedFrame DEF Inv, TypeOK, Transcript, Drawn, Gated, InBundle
<1>2. (Traced' <=> Traced) /\ (Carried' <=> Carried) BY TracedFrame, CarriedFrame
<1>3. (Composed' <=> Composed) /\ (Paired' <=> Paired) BY DEF Composed, Paired, Holds, Query
<1>4. ClimbShape' <=> ClimbShape BY DEF ClimbShape
<1>5. Binding' <=> Binding BY DEF Binding, Target, Claimed, Holds, Query
<1>6. Bundle' BY <1>2, <1>3, <1>4, <1>5 DEF Inv, Bundle
<1> QED BY <1>1, <1>6 DEF Inv

\* Every step of verify() keeps the invariant.
LEMMA NextInv == Inv /\ [Next]_vars => Inv'
<1> SUFFICES ASSUME Inv, [Next]_vars PROVE Inv' OBVIOUS
<1>1. CASE \E r \in 0 .. L, n \in 0 .. N : Lengths(r, n) BY <1>1, LengthsInv
<1>2. CASE DeriveChallenges
  BY <1>2, CommitTraceInv, CommitCompInv, AbsorbOpeningsInv, FriBetaStepInv, DrawQueriesInv
     DEF DeriveChallenges
<1>3. CASE GrindingGate BY <1>3, GrindingGateInv
<1>4. CASE OodClosure BY <1>4, OodClosureInv
<1>5. CASE CheckBundle
  <2>1. CASE pc = "trace-leaf" /\ \E v \in Sendable(trace, Query), n \in PathLengths : OpenTrace(v, n)
    BY <2>1, Sent, OpenTraceInv
  <2>2. CASE pc = "comp-leaf" /\ \E v \in Sendable(comp, Query), n \in PathLengths : OpenComp(v, n)
    BY <2>2, Sent, OpenCompInv
  <2>3. CASE pc = "pair"
             /\ \E v \in Sendable(fri[j + 1], SiblingOf(pos)), n \in PathLengths : OpenPair(v, n)
    BY <2>3, Sent, OpenPairInv
  <2>4. CASE \E s \in SendableSiblings : ClimbStep(s) BY <2>4, ClimbStepInv
  <2>5. CASE CheckRoot BY <2>5, CheckRootInv
  <2>6. CASE ComputeRow BY <2>6, ComputeRowInv
  <2>7. CASE \E h \in Hints : FoldOne(h) BY <2>7, FoldOneInv
  <2>8. CASE LastLayer BY <2>8, LastLayerInv
  <2> QED BY <1>5, <2>1, <2>2, <2>3, <2>4, <2>5, <2>6, <2>7, <2>8 DEF CheckBundle
<1>6. CASE Returned \/ UNCHANGED vars BY <1>6, StutterInv DEF Returned
<1> QED BY <1>1, <1>2, <1>3, <1>4, <1>5, <1>6 DEF Next

\* The invariant holds in every reachable state.
THEOREM Invariance == Spec => []Inv
BY InitInv, NextInv, PTL DEF Spec

-----------------------------------------------------------------------------
(***************************************************************************)
(* Every variable of verify() keeps its type: in particular no value that  *)
(* is not a canonical field element is ever carried into the algebra.      *)
(***************************************************************************)
THEOREM TypeCorrect == Spec => []TypeOK
<1>1. Inv => TypeOK BY DEF Inv
<1> QED BY Invariance, <1>1, PTL

(***************************************************************************)
(* verify() accepts only proofs whose committed columns satisfy the whole  *)
(* query relation at every drawn position, for every prover, field, number *)
(* of queries and number of layers.                                        *)
(***************************************************************************)
THEOREM VerdictSound == Spec => []Soundness
<1>1. Inv => Soundness
  <2> SUFFICES ASSUME Inv, pc = "accepted" PROVE Valid BY DEF Soundness
  <2>1. powOk /\ FeltToPointOk(z) /\ ComposeCheck(ood, z, alpha) /\ k = N
    BY DEF Inv, Gated
  <2>2. \A n \in 1 .. N : QueryRelation(idx[n]) BY <2>1 DEF Inv, CheckedPrefix
  <2>3. idx \in [1 .. N -> Indices] BY DEF Inv, Transcript, Drawn
  <2>4. Len(idx) = N BY <2>3, Sizes
  <2> QED BY <2>1, <2>2, <2>4 DEF Valid
<1> QED BY Invariance, <1>1, PTL

(***************************************************************************)
(* No bundle is counted as checked before its query relation holds.        *)
(***************************************************************************)
THEOREM PrefixChecked == Spec => []CheckedPrefix
<1>1. Inv => CheckedPrefix BY DEF Inv
<1> QED BY Invariance, <1>1, PTL

(***************************************************************************)
(* A Merkle climb that meets a committed digest started from the value     *)
(* committed at the drawn position, whatever siblings were sent.           *)
(***************************************************************************)
THEOREM PositionsBound == Spec => []PositionBinding
<1>1. Inv => PositionBinding BY DEF Inv, Bundle, Binding, PositionBinding
<1> QED BY Invariance, <1>1, PTL

(***************************************************************************)
(* What verify() carries through a bundle is what the committed columns    *)
(* say at the drawn position: the leaves bound, the DEEP row, every fold   *)
(* up to the current layer, in the middle of a climb as well as after it.  *)
(***************************************************************************)
THEOREM BundlesHold == Spec => []Bundle
<1>1. Inv => Bundle BY DEF Inv
<1> QED BY Invariance, <1>1, PTL

-----------------------------------------------------------------------------
-----------------------------------------------------------------------------
(***************************************************************************)
(* verify() is a run of the oracle proof.                                  *)
(***************************************************************************)
\* The oracle proof folds as verify() does.
LEMMA SameFold == \A a, b, x, beta : Oracle!FriFoldStep(a, b, x, beta) = FriFoldStep(a, b, x, beta)
<1>1. /\ \A a, b : Oracle!M31Mul(a, b) = M31Mul(a, b)
      /\ \A a, b : Oracle!M31Add(a, b) = M31Add(a, b)
      /\ \A a, b : Oracle!M31Sub(a, b) = M31Sub(a, b)
  BY DEF M31Mul, Oracle!M31Mul, M31Add, Oracle!M31Add, M31Sub, Oracle!M31Sub
<1>2. \A a : Oracle!M31Inv(a) = M31Inv(a)
  BY DEF M31Mul, Oracle!M31Mul, M31Inv, Oracle!M31Inv, M31Pow, Oracle!M31Pow, PowStep, Oracle!PowStep
<1>3. /\ \A a, b : Oracle!CmMul(a, b) = CmMul(a, b)
      /\ \A a, b : Oracle!CmAdd(a, b) = CmAdd(a, b)
      /\ \A a : Oracle!CmMulR(a) = CmMulR(a)
  BY <1>1 DEF Cm, Oracle!Cm, CmMul, Oracle!CmMul, CmAdd, Oracle!CmAdd, CmMulR, Oracle!CmMulR
<1>4. /\ \A a : Oracle!Low(a) = Low(a)
      /\ \A a : Oracle!High(a) = High(a)
      /\ \A a, b : Oracle!FromHalves(a, b) = FromHalves(a, b)
  BY DEF Low, Oracle!Low, High, Oracle!High, FromHalves, Oracle!FromHalves, Cm, Oracle!Cm
<1>5. \A a, b : Oracle!Qm31Mul(a, b) = Qm31Mul(a, b)
  BY <1>3, <1>4, Zenon DEF Qm31Mul, Oracle!Qm31Mul
<1>6. /\ \A a, b : Oracle!Qm31Add(a, b) = Qm31Add(a, b)
      /\ \A a, b : Oracle!Qm31Sub(a, b) = Qm31Sub(a, b)
      /\ \A a, b : Oracle!Qm31MulM31(a, b) = Qm31MulM31(a, b)
  BY <1>1, Zenon DEF Qm31Add, Oracle!Qm31Add, Qm31Sub, Oracle!Qm31Sub, Qm31MulM31, Oracle!Qm31MulM31
<1> QED BY <1>2, <1>5, <1>6, Zenon DEF FriFoldStep, Oracle!FriFoldStep

(***************************************************************************)
(* The statement that the oracle proof decides is the statement of Driver: *)
(* the two are one module, instantiated with the same parameters.          *)
(***************************************************************************)
LEMMA SameStatement == Oracle!Valid <=> Valid
<1>1. QM31 = Oracle!QM31 BY DEF QM31, Oracle!QM31, M31, Oracle!M31
<1>2. \A r, p, v : Oracle!Holds(r, p, v) <=> Holds(r, p, v)
  BY DEF Holds, Oracle!Holds, Commits, Oracle!Commits, Leaf, Oracle!Leaf
<1>3. \A q, i : Oracle!PositionAt(q, i) = PositionAt(q, i) BY DEF PositionAt, Oracle!PositionAt
<1>4. /\ \A p : Oracle!EvenOf(p) = EvenOf(p)
      /\ \A t : Oracle!IsBase(t) <=> IsBase(t)
  BY DEF EvenOf, Oracle!EvenOf, IsBase, Oracle!IsBase
<1>5. \A q, w : Oracle!RowOf(q, w) <=> RowOf(q, w)
  BY <1>1, <1>2, <1>4, Zenon DEF RowOf, Oracle!RowOf
<1>6. ASSUME NEW q, NEW i, NEW w PROVE Oracle!FoldOf(q, i, w) <=> FoldOf(q, i, w)
  <2> DEFINE even == EvenOf(PositionAt(q, i))
  <2>1. even = Oracle!EvenOf(Oracle!PositionAt(q, i)) BY <1>3, <1>4
  <2> HIDE DEF even
  <2>2. /\ \A a : Oracle!Holds(fri[i + 1], even, a) <=> Holds(fri[i + 1], even, a)
        /\ \A a : Oracle!Holds(fri[i + 1], even + 1, a) <=> Holds(fri[i + 1], even + 1, a)
    BY <1>2
  <2>3. FoldOf(q, i, w) <=>
          /\ Twiddle(i, even) # 0
          /\ \E a \in QM31 : /\ Holds(fri[i + 1], even, a)
                            /\ \E b \in QM31 : /\ Holds(fri[i + 1], even + 1, b)
                                              /\ w = FriFoldStep(a, b, Twiddle(i, even), betas[i + 1])
    BY DEF FoldOf, even
  <2>4. Oracle!FoldOf(q, i, w) <=>
          /\ Twiddle(i, even) # 0
          /\ \E a \in QM31 : /\ Oracle!Holds(fri[i + 1], even, a)
                            /\ \E b \in QM31 :
                                 /\ Oracle!Holds(fri[i + 1], even + 1, b)
                                 /\ w = Oracle!FriFoldStep(a, b, Twiddle(i, even), betas[i + 1])
    BY <1>1, <2>1 DEF Oracle!FoldOf
  <2> QED BY <2>2, <2>3, <2>4, SameFold, Zenon
<1>7. \A q, i, w : Oracle!Reaches(q, i, w) <=> Reaches(q, i, w)
  BY <1>5, <1>6 DEF Reaches, Oracle!Reaches
<1>8. \A q, i : Oracle!Link(q, i) <=> Link(q, i)
  BY <1>1, <1>2, <1>3, <1>7, Zenon DEF Link, Oracle!Link
<1>9. \A q : Oracle!QueryRelation(q) <=> QueryRelation(q)
  BY <1>7, <1>8, Zenon DEF QueryRelation, Oracle!QueryRelation
<1> QED BY <1>9 DEF Valid, Oracle!Valid
-----------------------------------------------------------------------------
\* A message not yet absorbed is None.
Unheard ==
  /\ pc \in {"lengths", "trace"} => trace = None
  /\ pc \in {"lengths", "trace", "comp"} => comp = None
  /\ pc \in {"lengths", "trace", "comp", "openings"} => ood = None
  /\ pc \in {"lengths", "trace", "comp", "openings", "fri", "final"} => final = None

\* A step of a bundle leaves the conversation alone, and only the last can accept.
LEMMA BundleQuiet ==
  ASSUME Inv, CheckBundle
  PROVE  /\ pc \in InBundle
         /\ \/ Reject
            \/ UNCHANGED <<messages, challenges>> /\ pc' \in InBundle
            \/ LastLayer /\ UNCHANGED <<messages, challenges>> /\ pc' = "accepted"
<1> USE DEF InBundle, Require
<1>1. CASE CheckRoot
  <2>1. ClimbShape BY <1>1 DEF CheckRoot, Inv, Bundle
  <2>2. CASE climb.of = "trace" BY <1>1, <2>2 DEF CheckRoot
  <2>3. CASE climb.of = "comp" BY <1>1, <2>3 DEF CheckRoot
  <2>4. CASE climb.of = "fri" BY <1>1, <2>4 DEF CheckRoot
  <2> QED BY <2>1, <2>2, <2>3, <2>4 DEF ClimbShape
<1>2. CASE LastLayer BY <1>2 DEF LastLayer
<1>3. CASE CheckBundle /\ ~CheckRoot /\ ~LastLayer
  BY <1>3 DEF CheckBundle, OpenTrace, OpenComp, OpenPair, ClimbStep, ComputeRow, FoldOne
<1> QED BY <1>1, <1>2, <1>3

\* No round is forgotten: a message is None until the step that absorbs it.
LEMMA UnheardNext == ASSUME Inv, Unheard, [Next]_vars PROVE Unheard'
<1> USE DEF Unheard, messages, challenges, bundle, Reject, Require
<1>1. CASE \E r \in 0 .. L, n \in 0 .. N : Lengths(r, n) BY <1>1 DEF Lengths
<1>2. CASE DeriveChallenges
  BY <1>2 DEF DeriveChallenges, CommitTrace, CommitComp, AbsorbOpenings, FriBetaStep, DrawQueries
<1>3. CASE GrindingGate \/ OodClosure BY <1>3 DEF GrindingGate, OodClosure
<1>4. CASE CheckBundle BY <1>4, BundleQuiet DEF InBundle
<1>5. CASE Returned \/ UNCHANGED vars BY <1>5 DEF Returned, vars
<1> QED BY <1>1, <1>2, <1>3, <1>4, <1>5 DEF Next

-----------------------------------------------------------------------------
\* the verdict that a caller sees
Verdict == IF pc = "accepted" THEN "accepted" ELSE IF pc = "aborted" THEN "rejected" ELSE "open"

\* A gate that passes changes no part of the conversation and gives no verdict.
LEMMA QuietStutters ==
  ASSUME UNCHANGED <<messages, challenges>>,
         pc \notin {"accepted", "aborted"}, pc' \notin {"accepted", "aborted"}
  PROVE  UNCHANGED <<Oracle!conversation, Verdict>>
BY DEF Oracle!conversation, Oracle!messages, Oracle!challenges, messages, challenges, Verdict

\* A failed check is the oracle proof's rejection.
LEMMA RejectRejects ==
  ASSUME Reject, pc \notin {"accepted", "aborted"} PROVE Oracle!Reject
BY DEF Reject, Oracle!Reject, Oracle!conversation, Oracle!messages, Oracle!challenges,
       messages, challenges

\* Each absorption with its challenge is a round.
LEMMA DerivationIsRound ==
  ASSUME Inv, Unheard, DeriveChallenges PROVE Oracle!Round \/ Oracle!Reject
<1> USE DEF Require
<1>1. ASSUME NEW r \in TraceRoots, NEW c \in Challenges, CommitTrace(r, c) PROVE Oracle!Round
  BY <1>1 DEF CommitTrace, Unheard, Oracle!Round, Oracle!Trace
<1>2. ASSUME NEW r \in CompRoots, NEW c \in Challenges, CommitComp(r, c) PROVE Oracle!Round
  <2>1. trace # None BY <1>2, StatementAssumption DEF CommitComp, Inv, Transcript
  <2> QED BY <1>2, <2>1 DEF CommitComp, Unheard, Oracle!Round, Oracle!Composition
<1>3. ASSUME NEW o \in OodClaims, NEW c \in Challenges, AbsorbOpenings(o, c), ~Reject
      PROVE  Oracle!Round
  <2>1. comp # None BY <1>3, StatementAssumption DEF AbsorbOpenings, Inv, Transcript
  <2> QED BY <1>3, <2>1 DEF AbsorbOpenings, Unheard, Oracle!Round, Oracle!Openings
<1>4. ASSUME NEW r \in FriRoots[Len(fri)], NEW c \in Challenges, pc = "fri", FriBetaStep(r, c)
      PROVE  Oracle!Round
  <2>1. Len(fri) < L BY <1>4 DEF Inv, Transcript
  <2>2. ood # None BY <1>4, StatementAssumption DEF Inv, Transcript
  <2> QED BY <1>4, <2>1, <2>2 DEF FriBetaStep, Oracle!Round, Oracle!Layer
<1>5. ASSUME NEW f \in Finals, NEW ok \in BOOLEAN, NEW ix \in [1 .. N -> Indices],
             DrawQueries(f, ok, ix), ~Reject
      PROVE  Oracle!Round
  <2>1. Len(fri) = L BY <1>5 DEF DrawQueries, Inv, Transcript
  <2> QED BY <1>5, <2>1 DEF DrawQueries, Unheard, Oracle!Round, Oracle!Constant, Oracle!Indices, Indices
<1>6. pc \notin {"accepted", "aborted"}
  BY DEF DeriveChallenges, CommitTrace, CommitComp, AbsorbOpenings, FriBetaStep, DrawQueries
<1>7. CASE Reject BY <1>6, <1>7, RejectRejects
<1> QED BY <1>1, <1>2, <1>3, <1>4, <1>5, <1>7 DEF DeriveChallenges

\* The last bundle's last comparison is acceptance, and what is accepted holds.
LEMMA LastIsAcceptance ==
  ASSUME Inv, LastLayer, pc' = "accepted" PROVE Oracle!Accept
<1>1. Inv' BY LastLayerInv
<1>2. UNCHANGED <<messages, challenges>> /\ pc = "last" BY DEF LastLayer, Require, Reject
<1>3. powOk /\ FeltToPointOk(z) /\ ComposeCheck(ood, z, alpha) BY <1>2 DEF Inv, Gated, InBundle
<1>4. idx \in [1 .. N -> Indices] /\ final \in QM31 BY <1>2 DEF Inv, Transcript, Drawn, InBundle
<1>5. Len(idx) = N BY <1>4, Sizes
<1>6. k' = N BY <1>1 DEF Inv, Gated
<1>7. ASSUME NEW n \in 1 .. N PROVE QueryRelation(idx[n])
  <2>1. QueryRelation(idx[n])' BY <1>1, <1>6 DEF Inv, CheckedPrefix
  <2> QED BY <1>2, <2>1 DEF messages, challenges, Reaches, RowOf, FoldOf, Link, QueryRelation, Holds
<1>8. Valid BY <1>3, <1>5, <1>7 DEF Valid
<1>9. Oracle!Valid BY <1>8, SameStatement
<1>10. final # None BY <1>4, StatementAssumption
<1> QED BY <1>2, <1>9, <1>10 DEF Oracle!Accept, Oracle!conversation, Oracle!messages, Oracle!challenges,
                           messages, challenges

\* Every step of a call is a step of the oracle proof, or none.
LEMMA StepIsOracleStep ==
  ASSUME Inv, Unheard, [Next]_vars
  PROVE  Oracle!Next \/ UNCHANGED <<Oracle!conversation, Verdict>>
<1>1. CASE DeriveChallenges BY <1>1, DerivationIsRound DEF Oracle!Next
<1>2. CASE CheckBundle
  <2>1. pc \notin {"accepted", "aborted"} BY <1>2, BundleQuiet DEF InBundle
  <2>2. CASE Reject BY <2>1, <2>2, RejectRejects DEF Oracle!Next
  <2>3. CASE LastLayer /\ pc' = "accepted" BY <2>3, LastIsAcceptance DEF Oracle!Next
  <2>4. CASE UNCHANGED <<messages, challenges>> /\ pc' \in InBundle
    BY <2>1, <2>4, QuietStutters DEF InBundle
  <2> QED BY <1>2, <2>2, <2>3, <2>4, BundleQuiet
<1>3. CASE Returned \/ UNCHANGED vars
  BY <1>3 DEF Returned, vars, Oracle!conversation, Oracle!messages, Oracle!challenges,
              messages, challenges, Verdict
<1>4. CASE (\E r \in 0 .. L, n \in 0 .. N : Lengths(r, n)) \/ GrindingGate \/ OodClosure
  <2>1. pc \notin {"accepted", "aborted"} BY <1>4 DEF Lengths, GrindingGate, OodClosure
  <2>2. Reject \/ (UNCHANGED <<messages, challenges>> /\ pc' \notin {"accepted", "aborted"})
    BY <1>4 DEF Lengths, GrindingGate, OodClosure, Require
  <2> QED BY <2>1, <2>2, RejectRejects, QuietStutters DEF Oracle!Next
<1> QED BY <1>1, <1>2, <1>3, <1>4 DEF Next

(***************************************************************************)
(* verify() implements the oracle proof: whatever the prover sends and     *)
(* whenever it decides on it, the messages are fixed before the challenges *)
(* they are answered by, the verdict is given once, and `true' means that  *)
(* the conversation satisfies the statement.                               *)
(***************************************************************************)
THEOREM VerdictRefined == Spec => VerdictImplemented
<1>1. Init => Oracle!Init
  BY DEF Init, Unsaid, Oracle!Init, Oracle!Unsaid
<1>2. Inv /\ Unheard /\ [Next]_vars => [Oracle!Next]_<<Oracle!conversation, Verdict>>
  BY StepIsOracleStep
<1>3. Init => Unheard BY DEF Init, Unsaid, Unheard
<1>4. Inv /\ Unheard /\ [Next]_vars => Unheard' BY UnheardNext
<1>5. Spec => []Inv BY Invariance
<1> QED BY <1>1, <1>2, <1>3, <1>4, <1>5, PTL DEF Spec, VerdictImplemented, Oracle!Spec, Verdict

-----------------------------------------------------------------------------
(***************************************************************************)
(* The hashing that a call can be made to do: a proof that fails at its    *)
(* last comparison costs what an accepted one costs, and one without the   *)
(* work costs nothing.                                                     *)
(***************************************************************************)
\* hashes of the first i layers of a bundle, twice and once
Twice(i) == i * (2 * D - i + 5)
LayerCost(i) == Twice(i) \div 2

\* hashes of the current bundle so far
Spent ==
  IF pc = "trace-leaf" THEN 0
  ELSE IF pc = "comp-leaf" THEN D + 1
  ELSE IF pc = "deep" THEN 2 * (D + 1)
  ELSE IF pc \in {"pair", "last"} THEN 2 * (D + 1) + LayerCost(j)
  ELSE IF pc = "fold" THEN 2 * (D + 1) + LayerCost(j + 1)
  ELSE IF climb.of = "trace" THEN 1 + climb.level
  ELSE IF climb.of = "comp" THEN (D + 1) + 1 + climb.level
  ELSE 2 * (D + 1) + LayerCost(j) + 2 + climb.level

\* The meter is exact at every point of the call.
Metered ==
  /\ pc \notin InBundle \cup {"accepted", "aborted"} => hashes = 0
  /\ pc \in InBundle => hashes = k * QueryCost + Spent
  /\ pc = "accepted" => hashes = N * QueryCost
  /\ pc = "aborted" =>
       /\ hashes <= N * QueryCost
       /\ hashes > 0 => powOk /\ FeltToPointOk(z) /\ ComposeCheck(ood, z, alpha)

-----------------------------------------------------------------------------
(* Arithmetic *)

\* Half of an even number.
LEMMA Half == ASSUME NEW a \in Int, NEW h \in Int, a = 2 * h PROVE a \div 2 = h
OBVIOUS

\* The layers' hashes are a whole number, growing by a pair and its climb.
LEMMA Layers ==
  /\ \A i \in 0 .. L : LayerCost(i) \in Nat
  /\ \A i \in 0 .. (L - 1) : LayerCost(i + 1) = LayerCost(i) + (D - i) + 2
  /\ \A i \in 0 .. L : LayerCost(i) <= LayerCost(L)
  /\ LayerCost(0) = 0
<1>0. L \in Nat /\ L > 0 /\ D = L + 1 BY Sizes
<1>1. ASSUME NEW i \in 0 .. L PROVE \E h \in Nat : Twice(i) = 2 * h
  <2>1. PICK m \in Nat : i = 2 * m \/ i = 2 * m + 1
    <3>1. i \div 2 \in Nat /\ (i = 2 * (i \div 2) \/ i = 2 * (i \div 2) + 1) OBVIOUS
    <3> QED BY <3>1
  <2>2. CASE i = 2 * m
    <3> DEFINE h == m * (2 * D - i + 5)
    <3>1. 2 * D - i + 5 \in Nat BY <1>0
    <3>2. h \in Nat BY <3>1
    <3>3. (2 * m) * (2 * D - i + 5) = 2 * (m * (2 * D - i + 5)) BY <3>1
    <3> QED BY <2>2, <3>2, <3>3 DEF Twice
  <2>3. CASE i = 2 * m + 1
    <3> DEFINE e == D + 2 - m
               h == i * e
    <3>1. e \in Nat /\ 2 * D - i + 5 = 2 * e BY <1>0, <2>3
    <3>2. h \in Nat BY <3>1
    <3> HIDE DEF e
    <3>3. i * (2 * e) = 2 * (i * e) BY <3>1
    <3> QED BY <3>1, <3>2, <3>3 DEF Twice
  <2> QED BY <2>1, <2>2, <2>3
<1>2. ASSUME NEW i \in 0 .. L PROVE LayerCost(i) \in Nat /\ Twice(i) = 2 * LayerCost(i)
  <2>1. PICK h \in Nat : Twice(i) = 2 * h BY <1>1
  <2>2. Twice(i) \in Int BY <2>1
  <2> HIDE DEF Twice
  <2>3. LayerCost(i) = h BY <2>1, <2>2, Half DEF LayerCost
  <2> QED BY <2>1, <2>3
<1>3. ASSUME NEW i \in 0 .. (L - 1) PROVE LayerCost(i + 1) = LayerCost(i) + (D - i) + 2
  <2>1. i \in 0 .. L /\ i + 1 \in 0 .. L BY <1>0
  <2>2. Twice(i + 1) = Twice(i) + 2 * (D - i + 2)
    <3>1. (i + 1) * (2 * D - (i + 1) + 5) = i * (2 * D - i + 5) + 2 * (D - i + 2) BY <1>0
    <3> QED BY <3>1 DEF Twice
  <2>3. D - i \in Int BY <1>0
  <2> QED BY <1>2, <2>1, <2>2, <2>3
<1>4. ASSUME NEW i \in 0 .. L PROVE LayerCost(i) <= LayerCost(L)
  <2> DEFINE s == L - i
  <2>1. s \in Nat /\ i = L - s BY <1>0
  <2>2. s * s \in Nat BY <2>1
  <2> HIDE DEF s
  <2>3. Twice(L) = Twice(i) + s * s + 7 * s
    <3>1. L * (2 * (L + 1) - L + 5) = (L - s) * (2 * (L + 1) - (L - s) + 5) + s * s + 7 * s
      BY <1>0, <2>1
    <3> QED BY <1>0, <2>1, <3>1 DEF Twice
  <2>4. L \in 0 .. L BY <1>0
  <2>5. /\ LayerCost(i) \in Nat /\ Twice(i) = 2 * LayerCost(i)
        /\ LayerCost(L) \in Nat /\ Twice(L) = 2 * LayerCost(L)
    BY <1>2, <2>4
  <2> QED BY <2>1, <2>2, <2>3, <2>5
<1>5. LayerCost(0) = 0 BY <1>0 DEF LayerCost, Twice
<1> QED BY <1>2, <1>3, <1>4, <1>5

\* A bundle's cost is that of its two openings and of all its layers.
LEMMA Cost == QueryCost = 2 * (D + 1) + LayerCost(L) /\ QueryCost \in Nat
<1>1. D \in Nat /\ L \in 0 .. L BY Sizes
<1>2. QueryCost = 2 * (D + 1) + LayerCost(L) BY DEF QueryCost, LayerCost, Twice
<1>3. LayerCost(L) \in Nat BY <1>1, Layers
<1> QED BY <1>1, <1>2, <1>3

\* Bundles cost alike: one more is one QueryCost more, and N are the most.
LEMMA Bundles ==
  ASSUME NEW n \in 0 .. (N - 1), NEW s \in Nat, s <= QueryCost
  PROVE  /\ n * QueryCost \in Nat /\ (n + 1) * QueryCost = n * QueryCost + QueryCost
         /\ n * QueryCost + s <= N * QueryCost
<1> DEFINE q == QueryCost
           m == N - 1 - n
<1>1. q \in Nat /\ m \in Nat /\ N = n + 1 + m BY Cost, Sizes
<1> HIDE DEF q, m
<1>2. m * q \in Nat /\ n * q \in Nat BY <1>1
<1>3. (n + 1 + m) * q = n * q + q + m * q BY <1>1
<1>4. (n + 1) * q = n * q + q BY <1>1
<1>5. s <= q BY DEF q
<1>6. n * q + s <= N * q BY <1>1, <1>2, <1>3, <1>5
<1> QED BY <1>2, <1>4, <1>6 DEF q

-----------------------------------------------------------------------------
(* Every action keeps the meter. *)

\* No point of a bundle lies beyond the bundle's cost.
LEMMA SpentBound ==
  ASSUME Inv, pc \in InBundle PROVE Spent \in Nat /\ Spent <= QueryCost
<1>1. D \in Nat /\ L \in Nat /\ L > 0 /\ D = L + 1 /\ j \in 0 .. L BY BundleFacts, Sizes
<1>2. /\ QueryCost = 2 * (D + 1) + LayerCost(L)
      /\ LayerCost(L) \in Nat /\ LayerCost(j) \in Nat /\ LayerCost(j) <= LayerCost(L)
  BY <1>1, Cost, Layers
<1>3. ASSUME j < L
      PROVE  /\ LayerCost(j + 1) \in Nat /\ LayerCost(j + 1) <= LayerCost(L)
             /\ LayerCost(j + 1) = LayerCost(j) + (D - j) + 2
  <2>1. j \in 0 .. (L - 1) /\ j + 1 \in 0 .. L BY <1>1, <1>3
  <2> QED BY <2>1, Layers
<1>4. CASE pc \in {"trace-leaf", "comp-leaf", "deep", "pair", "last"}
  BY <1>1, <1>2, <1>4 DEF Spent
<1>5. CASE pc = "fold"
  <2>1. j < L BY <1>5 DEF Inv, Bundle
  <2> QED BY <1>1, <1>2, <1>3, <1>5, <2>1 DEF Spent
<1>6. CASE pc = "climb"
  <2>1. ClimbShape /\ (climb.of = "fri" => j < L) BY <1>6 DEF Inv, Bundle
  <2>2. CASE climb.of = "trace"
    <3>1. climb.level \in 0 .. D BY <2>1, <2>2 DEF ClimbShape
    <3> QED BY <1>1, <1>2, <1>6, <2>2, <3>1 DEF Spent
  <2>3. CASE climb.of = "comp"
    <3>1. climb.level \in 0 .. D BY <2>1, <2>3 DEF ClimbShape
    <3> QED BY <1>1, <1>2, <1>6, <2>3, <3>1 DEF Spent
  <2>4. CASE climb.of = "fri"
    <3>1. climb.level \in 0 .. (D - j) BY <2>1, <2>4 DEF ClimbShape
    <3> QED BY <1>1, <1>2, <1>3, <1>6, <2>1, <2>4, <3>1 DEF Spent
  <2> QED BY <2>1, <2>2, <2>3, <2>4 DEF ClimbShape
<1> QED BY <1>4, <1>5, <1>6 DEF InBundle

\* The budget holds wherever the meter is exact.
LEMMA MeterIsBudget == ASSUME Inv, Metered PROVE HashBudget
<1>1. QueryCost \in Nat /\ N \in Nat BY Cost, Sizes
<1>2. N * QueryCost \in Nat BY <1>1
<1>3. CASE pc \in InBundle
  <2>1. k \in 0 .. (N - 1) BY <1>3, BundleFacts
  <2>2. Spent \in Nat /\ Spent <= QueryCost BY <1>3, SpentBound
  <2>3. hashes <= N * QueryCost
    <3>1. k * QueryCost + Spent <= N * QueryCost BY <2>1, <2>2, Bundles
    <3> QED BY <1>3, <3>1 DEF Metered
  <2>4. powOk /\ FeltToPointOk(z) /\ ComposeCheck(ood, z, alpha) BY <1>3 DEF Inv, Gated
  <2> QED BY <1>3, <2>3, <2>4 DEF HashBudget, InBundle
<1>4. CASE pc \notin InBundle
  <2>1. pc = "accepted" => powOk /\ FeltToPointOk(z) /\ ComposeCheck(ood, z, alpha)
    BY DEF Inv, Gated
  <2> QED BY <1>2, <1>4, <2>1 DEF HashBudget, Metered
<1> QED BY <1>3, <1>4

\* An abort keeps the bill of what was hashed.
LEMMA RejectMeter == ASSUME Inv, Metered, Reject PROVE Metered'
<1>1. HashBudget BY MeterIsBudget
<1> QED BY <1>1 DEF Reject, Metered, HashBudget, messages, challenges, bundle, InBundle, QueryCost

\* Each hash of a bundle moves the meter by one, in whichever climb.
LEMMA BundleMeter == ASSUME Inv, Metered, CheckBundle PROVE Metered'
<1>1. CASE Reject BY <1>1, RejectMeter
<1>2. CASE ~Reject
  <2>0. pc \in InBundle BY DEF CheckBundle, OpenTrace, OpenComp, OpenPair, ClimbStep, CheckRoot,
                               ComputeRow, FoldOne, LastLayer, InBundle
  <2>1. /\ k \in 0 .. (N - 1) /\ j \in 0 .. L /\ D \in Nat /\ L \in Nat /\ D = L + 1
        /\ hashes = k * QueryCost + Spent /\ hashes \in Nat
    BY <2>0, BundleFacts, Sizes DEF Metered, Inv, TypeOK
  <2>2. LayerCost(0) = 0 /\ LayerCost(j) \in Nat BY <2>1, Layers
  <2>3. ASSUME j < L PROVE LayerCost(j + 1) = LayerCost(j) + (D - j) + 2 /\ LayerCost(j + 1) \in Nat
    <3>1. j \in 0 .. (L - 1) /\ j + 1 \in 0 .. L BY <2>1, <2>3
    <3> QED BY <3>1, Layers
  <2>4. k * QueryCost \in Nat /\ (k + 1) * QueryCost = k * QueryCost + QueryCost
    <3>1. 0 \in Nat /\ 0 <= QueryCost BY Cost
    <3> QED BY <2>1, <3>1, Bundles
  <2> DEFINE kq == k * QueryCost
  <2>5. CASE \E v, n : OpenTrace(v, n)
    <3>1. /\ pc = "trace-leaf" /\ pc' = "climb" /\ climb'.of = "trace" /\ climb'.level = 0
          /\ hashes' = hashes + 1 /\ k' = k
      BY <1>2, <2>5 DEF OpenTrace, Require, StartClimb
    <3>2. Spent = 0 /\ Spent' = 1 BY <3>1 DEF Spent
    <3>3. hashes' = k' * QueryCost + Spent' BY <2>1, <2>4, <3>1, <3>2
    <3> QED BY <3>1, <3>3 DEF Metered, InBundle, QueryCost
  <2>6. CASE \E v, n : OpenComp(v, n)
    <3>1. /\ pc = "comp-leaf" /\ pc' = "climb" /\ climb'.of = "comp" /\ climb'.level = 0
          /\ hashes' = hashes + 1 /\ k' = k
      BY <1>2, <2>6 DEF OpenComp, Require, StartClimb
    <3>2. Spent = D + 1 /\ Spent' = D + 2 BY <2>1, <3>1 DEF Spent
    <3>3. hashes' = k' * QueryCost + Spent' BY <2>1, <2>4, <3>1, <3>2
    <3> QED BY <3>1, <3>3 DEF Metered, InBundle, QueryCost
  <2>7. CASE \E v, n : OpenPair(v, n)
    <3>1. /\ pc = "pair" /\ pc' = "climb" /\ climb'.of = "fri" /\ climb'.level = 1
          /\ hashes' = hashes + 3 /\ k' = k /\ j' = j
      BY <1>2, <2>7 DEF OpenPair, Require, StartClimb
    <3>2. Spent = 2 * (D + 1) + LayerCost(j) /\ Spent' = 2 * (D + 1) + LayerCost(j) + 3
      BY <2>1, <2>2, <3>1 DEF Spent, LayerCost, Twice
    <3>3. hashes' = k' * QueryCost + Spent' BY <2>1, <2>2, <2>4, <3>1, <3>2
    <3> QED BY <3>1, <3>3 DEF Metered, InBundle, QueryCost
  <2>8. CASE \E s : ClimbStep(s)
    <3>1. /\ pc = "climb" /\ pc' = "climb" /\ climb'.of = climb.of
          /\ climb'.level = climb.level + 1
          /\ hashes' = hashes + 1 /\ k' = k /\ j' = j
      BY <2>8 DEF ClimbStep, StartClimb
    <3>2. climb.level \in Nat
      <4>1. ClimbShape BY <3>1 DEF Inv, Bundle
      <4> QED BY <4>1, <2>1 DEF ClimbShape
    <3>3. Spent' = Spent + 1
      BY <2>1, <2>2, <3>1, <3>2 DEF Spent, LayerCost, Twice
    <3>4. Spent \in Nat BY <2>0, SpentBound
    <3>5. hashes' = k' * QueryCost + Spent' BY <2>1, <2>4, <3>1, <3>3, <3>4
    <3> QED BY <3>1, <3>5 DEF Metered, InBundle, QueryCost
  <2>9. CASE CheckRoot
    <3>1. /\ pc = "climb" /\ climb.level = climb.depth /\ hashes' = hashes /\ k' = k /\ j' = j
      BY <1>2, <2>9 DEF CheckRoot, Require
    <3>2. ClimbShape /\ (climb.of = "fri" => j < L) BY <3>1 DEF Inv, Bundle
    <3>3. CASE climb.of = "trace"
      <4>1. pc' = "comp-leaf" BY <1>2, <2>9, <3>3 DEF CheckRoot, Require
      <4>2. Spent = D + 1 /\ Spent' = D + 1 BY <2>1, <3>1, <3>2, <3>3, <4>1 DEF Spent, ClimbShape
      <4> QED BY <2>1, <3>1, <4>1, <4>2 DEF Metered, InBundle, QueryCost
    <3>4. CASE climb.of = "comp"
      <4>1. pc' = "deep" BY <1>2, <2>9, <3>4 DEF CheckRoot, Require
      <4>2. Spent = 2 * (D + 1) /\ Spent' = 2 * (D + 1)
        BY <2>1, <3>1, <3>2, <3>4, <4>1 DEF Spent, ClimbShape
      <4> QED BY <2>1, <3>1, <4>1, <4>2 DEF Metered, InBundle, QueryCost
    <3>5. CASE climb.of = "fri"
      <4>1. pc' = "fold" BY <1>2, <2>9, <3>5 DEF CheckRoot, Require
      <4>2. Spent = 2 * (D + 1) + LayerCost(j) + 2 + (D - j)
        BY <3>1, <3>2, <3>5 DEF Spent, ClimbShape
      <4>3. Spent' = 2 * (D + 1) + LayerCost(j + 1)
        BY <3>1, <4>1 DEF Spent, LayerCost, Twice
      <4>4. Spent' = Spent BY <2>1, <2>2, <2>3, <3>2, <3>5, <4>2, <4>3
      <4> QED BY <2>1, <3>1, <4>1, <4>4 DEF Metered, InBundle, QueryCost
    <3> QED BY <3>2, <3>3, <3>4, <3>5 DEF ClimbShape
  <2>10. CASE ComputeRow
    <3>1. pc = "deep" /\ pc' = "pair" /\ j' = 0 /\ hashes' = hashes /\ k' = k
      BY <1>2, <2>10 DEF ComputeRow, Require
    <3>2. Spent = 2 * (D + 1) /\ Spent' = 2 * (D + 1) + LayerCost(0)
      BY <3>1 DEF Spent, LayerCost, Twice
    <3> QED BY <2>1, <2>2, <3>1, <3>2 DEF Metered, InBundle, QueryCost
  <2>11. CASE \E h : FoldOne(h)
    <3>1. /\ pc = "fold" /\ pc' \in {"pair", "last"} /\ j' = j + 1
          /\ hashes' = hashes /\ k' = k
      BY <1>2, <2>11 DEF FoldOne, Require
    <3>2. Spent = 2 * (D + 1) + LayerCost(j + 1) /\ Spent' = 2 * (D + 1) + LayerCost(j + 1)
      BY <3>1 DEF Spent, LayerCost, Twice
    <3> QED BY <2>1, <3>1, <3>2 DEF Metered, InBundle, QueryCost
  <2>12. CASE LastLayer
    <3>1. /\ pc = "last" /\ k' = k + 1 /\ hashes' = hashes
          /\ pc' = IF k + 1 = N THEN "accepted" ELSE "trace-leaf"
      BY <1>2, <2>12 DEF LastLayer, Require
    <3>2. j = L BY <3>1 DEF Inv, Bundle
    <3>3. Spent = QueryCost BY <3>1, <3>2, Cost DEF Spent
    <3>4. hashes' = (k + 1) * QueryCost BY <2>1, <2>4, <3>1, <3>3
    <3>5. CASE k + 1 = N BY <3>1, <3>4, <3>5 DEF Metered, InBundle, QueryCost
    <3>6. CASE k + 1 # N
      <4>1. Spent' = 0 /\ pc' = "trace-leaf" BY <3>1, <3>6 DEF Spent
      <4>2. (k + 1) * QueryCost \in Nat BY <2>4, Cost
      <4> QED BY <3>1, <3>4, <4>1, <4>2 DEF Metered, InBundle, QueryCost
    <3> QED BY <3>5, <3>6
  <2> QED BY <2>5, <2>6, <2>7, <2>8, <2>9, <2>10, <2>11, <2>12 DEF CheckBundle
<1> QED BY <1>1, <1>2

\* Before the first bundle nothing is hashed; after the verdict nothing more.
LEMMA MeterNext == ASSUME Inv, Metered, [Next]_vars PROVE Metered'
<1>1. CASE Reject BY <1>1, RejectMeter
<1>2. CASE CheckBundle BY <1>2, BundleMeter
<1>3. CASE DeriveChallenges /\ ~Reject
  <2>1. /\ pc \notin InBundle \cup {"accepted", "aborted"} /\ hashes' = hashes
        /\ pc' \notin InBundle \cup {"accepted", "aborted"}
    BY <1>3 DEF DeriveChallenges, CommitTrace, CommitComp, AbsorbOpenings, FriBetaStep, DrawQueries,
                Require, InBundle, bundle
  <2> QED BY <2>1 DEF Metered
<1>4. CASE ((\E r \in 0 .. L, n \in 0 .. N : Lengths(r, n)) \/ GrindingGate) /\ ~Reject
  <2>1. /\ pc \notin InBundle \cup {"accepted", "aborted"} /\ hashes' = hashes
        /\ pc' \notin InBundle \cup {"accepted", "aborted"}
    BY <1>4 DEF Lengths, GrindingGate, Require, InBundle, bundle
  <2> QED BY <2>1 DEF Metered
<1>5. CASE OodClosure /\ ~Reject
  <2>1. pc = "ood" /\ pc' = "trace-leaf" /\ hashes' = hashes /\ k' = k
    BY <1>5 DEF OodClosure, Require, bundle
  <2>2. k = 0 /\ hashes = 0 BY <2>1 DEF Inv, Transcript, Metered, InBundle
  <2>3. Spent' = 0 BY <2>1 DEF Spent
  <2>4. 0 * QueryCost = 0 BY Cost
  <2> QED BY <2>1, <2>2, <2>3, <2>4 DEF Metered, InBundle, QueryCost
<1>6. CASE Returned \/ UNCHANGED vars
  <2>1. UNCHANGED <<pc, ood, alpha, z, powOk, k, j, climb, hashes>>
    BY <1>6 DEF Returned, vars, messages, challenges, bundle
  <2> QED BY <2>1 DEF Metered, InBundle, QueryCost, Spent, LayerCost, Twice
<1> QED BY <1>1, <1>2, <1>3, <1>4, <1>5, <1>6 DEF Next

(***************************************************************************)
(* verify() never hashes more for a proof it rejects than for one it       *)
(* accepts, hashes exactly N bundles for that one, and nothing for a proof *)
(* without the work or whose openings do not close: the order of the gates *)
(* bounds the caller's bill whatever the prover sends.                     *)
(***************************************************************************)
THEOREM WorkBounded == Spec => []HashBudget
<1>1. Init => Metered BY DEF Init, Metered, InBundle
<1>2. Inv /\ Metered /\ [Next]_vars => Metered' BY MeterNext
<1>3. Inv /\ Metered => HashBudget BY MeterIsBudget
<1>4. Spec => []Inv BY Invariance
<1> QED BY <1>1, <1>2, <1>3, <1>4, PTL DEF Spec
=============================================================================
