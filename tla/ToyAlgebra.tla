----------------------------- MODULE ToyAlgebra -----------------------------
(***************************************************************************)
(* What Driver's instances share: QM31 over the field of three elements    *)
(* (81 values), codewords A + B*y + C*x that fold to a constant for every  *)
(* beta, and a quotient row that takes t + gamma*c to such a codeword.     *)
(***************************************************************************)
EXTENDS Driver

E(a, b, c, d) == [c0 |-> a, c1 |-> b, c2 |-> c, c3 |-> d]
Zero == E(0, 0, 0, 0)

G1 == E(1, 0, 1, 0)
G2 == E(0, 1, 0, 2)
MCChallenges == {G1, G2}

MCDomainSize == [d \in 0 .. D |-> 2 ^ d]

\* twiddles 1 and 2 at each layer; a position holds the twiddle of its pair or its negation
MCTwiddle(i, even) == IF (even \div 2) % 2 = i % 2 THEN 1 ELSE 2
Point(i, p) == IF NodeIsRight(p) THEN M31Sub(0, MCTwiddle(i, EvenOf(p)))
                                 ELSE MCTwiddle(i, EvenOf(p))

Word(A, B, C) ==
  [p \in 0 .. (2 ^ D - 1) |->
     Qm31Add(A, Qm31Add(Qm31MulM31(B, Point(0, p)),
                        IF L > 1 THEN Qm31MulM31(C, Point(1, p \div 2)) ELSE Zero))]

TraceWord == Word(E(1, 0, 0, 0), E(2, 0, 0, 0), E(1, 0, 0, 0))

MCFeltToPointOk(zz) == zz # G2

\* no row at the last position when gamma = G1: a zero denominator
MCDeepRow(t, c, q, o, zz, g) ==
  IF q = 2 ^ D - 1 /\ g = G1 THEN None ELSE Qm31Add(t, Qm31Mul(g, c))

TreeOf(leaves, depth) ==
  LET level[l \in 0 .. depth] ==
        IF l = 0 THEN leaves
        ELSE [i \in 0 .. (2 ^ (depth - l) - 1) |->
                Node(level[l - 1][2 * i], level[l - 1][2 * i + 1])]
  IN  level
Leaves(w) == [p \in DOMAIN w |-> Leaf(w[p])]
Honest(w, depth) == TreeOf(Leaves(w), depth)
=============================================================================
