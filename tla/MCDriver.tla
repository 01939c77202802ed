------------------------------ MODULE MCDriver ------------------------------
(***************************************************************************)
(* Instances of Driver for TLC: provers that commit to honest columns, to  *)
(* columns with one leaf changed or unopenable, and to a leaf digest in    *)
(* place of a root.                                                        *)
(***************************************************************************)
EXTENDS ToyAlgebra, DriverInvariant

CompWord == Word(E(0, 1, 2, 0), E(1, 1, 0, 2), E(2, 0, 0, 1))

RowWord(g) == [p \in DOMAIN TraceWord |-> Qm31Add(TraceWord[p], Qm31Mul(g, CompWord[p]))]
FoldWord(i, w, b) ==
  [p \in 0 .. (2 ^ (D - 1 - i) - 1) |->
     FriFoldStep(w[2 * p], w[2 * p + 1], MCTwiddle(i, 2 * p), b)]

Garbage == <<"garbage">>

\* the root is the digest of a leaf: what an empty path would open at every position
Shallow(v, depth) ==
  [l \in 0 .. depth |->
     [i \in 0 .. (2 ^ (depth - l) - 1) |-> IF l = depth THEN Leaf(v) ELSE Garbage]]
MCOpaque == {Garbage, Leaf(E(1, 0, 0, 0))}

HonestOod == [i \in 1 .. 7 |-> E(i % 3, 0, 1, 0)]
MCOodClaims == {HonestOod, [HonestOod EXCEPT ![7] = E(0, 0, 0, 0)],
                [HonestOod EXCEPT ![3] = E(0, 3, 0, 0)]}
MCComposeCheck(o, zz, a) == o[7] = E(1, 0, 1, 0)

\* one base-field value, one outside the base field, one not canonical
MCClaims == {E(1, 0, 0, 0), E(0, 0, 1, 0), E(3, 0, 0, 0)}
MCJunk == {}
MCPathLengths == 0 .. D
MCHints == {0, 1, 2, 4, 5}

FinalOf(g, b) ==
  LET w0 == FoldWord(0, RowWord(g), b) IN IF L = 1 THEN w0[0] ELSE FoldWord(1, w0, b)[0]

\* L = 2, one query.  Names of the roots: honest columns by the challenges they
\* answer, and columns that are not.
ChainTraceRoots == {"t", "t-shallow"}
ChainCompRoots == {"c", "c-altered"}
ChainFriRoots == [i \in 0 .. 1 |-> IF i = 0 THEN {"row-1", "row-2"} ELSE {"fold-1", "fold-2"}]
ChainFinals == {FinalOf(G1, G1), FinalOf(G2, G2), E(3, 0, 0, 0)}

\* L = 1, two queries
PairTraceRoots == {"t", "t-altered"}
PairCompRoots == {"c", "c-altered"}
PairFinals == {FinalOf(G1, G1), FinalOf(G1, G2)}
PairFriRoots == [i \in {0} |-> {"row-1", "row-altered"}]

Trees ==
  [r \in UNION {TraceRoots, CompRoots} \cup UNION {FriRoots[i] : i \in 0 .. (L - 1)} |->
     CASE r = "t"           -> Honest(TraceWord, D)
       [] r = "t-shallow"   -> Shallow(E(1, 0, 0, 0), D)
       [] r = "t-altered"   -> TreeOf([Leaves(TraceWord) EXCEPT ![2] = Leaf(E(0, 1, 0, 0))], D)
       [] r = "c"           -> Honest(CompWord, D)
       [] r = "c-altered"   -> TreeOf([Leaves(CompWord) EXCEPT ![1] = Garbage,
                                                               ![2] = Leaf(E(1, 0, 0, 0))], D)
       [] r = "row-1"       -> Honest(RowWord(G1), D)
       [] r = "row-2"       -> Honest(RowWord(G2), D)
       [] r = "row-altered" -> Honest([RowWord(G1) EXCEPT ![0] = E(0, 0, 1, 0)], D)
       [] r = "fold-1"      -> Honest(FoldWord(0, RowWord(G1), G1), D - 1)
       [] r = "fold-2"      -> Honest(FoldWord(0, RowWord(G2), G2), D - 1)]

MCTree(r) == Trees[r]
=============================================================================
