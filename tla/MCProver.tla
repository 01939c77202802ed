------------------------------ MODULE MCProver ------------------------------
(***************************************************************************)
(* Instance of Prover for TLC: the composition column and the openings     *)
(* vary with alpha and z, and every position is drawable at every query.   *)
(***************************************************************************)
EXTENDS Prover, ToyAlgebra

MCCompCol(a) == Word(a, E(1, 1, 0, 2), E(2, 0, 0, 1))
MCOpeningsOf(a, zz) == <<Zero, Zero, Zero, a, Zero, Zero, Qm31Mul(a, zz)>>
MCComposeCheck(o, zz, a) == o[4] = a /\ o[7] = Qm31Mul(a, zz)

\* every column the prover can commit to
MCTraceRoots == {TraceWord}
MCCompRoots == {MCCompCol(a) : a \in {G1, G2}}
Rows ==
  {r \in {RowColumn(w, << >>, G1, g) : w \in MCCompRoots, g \in {G1, G2}} :
     \A p \in DOMAIN r : r[p] # None}
MCFriRoots ==
  [i \in 0 .. (L - 1) |->
     IF i = 0 THEN Rows ELSE {Fold(0, w, b) : w \in Rows, b \in {G1, G2}}]

Trees ==
  [w \in UNION {MCTraceRoots, MCCompRoots, MCFriRoots[0], MCFriRoots[1]} |->
     Honest(w, CHOOSE d \in 0 .. D : DOMAIN w = 0 .. (2 ^ d - 1))]
MCTree(w) == Trees[w]

NoLies == {}
=============================================================================
