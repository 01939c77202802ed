------------------------------ MODULE MCColumns ------------------------------
(***************************************************************************)
(* The toy point's geometry over P = 127, whose circle group has 128       *)
(* elements: 8 rows, 16 positions, generator G = (2, 39).                  *)
(***************************************************************************)
EXTENDS Columns

MCOff == Cm(97, 25)    \* G^4, order 32
MCH == Cm(119, 119)    \* G^16, order 8

E(a, b, c, d) == [c0 |-> a, c1 |-> b, c2 |-> c, c3 |-> d]

\* the honest trace; one row wrong; the recurrence from other seeds
MCTraces ==
  {FibColumn, [n \in Rows |-> 0], [n \in Rows |-> M31Mul(3, FibColumn[n])]}
    \cup {[FibColumn EXCEPT ![n] = M31Add(@, 5)] : n \in {0, 4, 7}}

MCAlphas == {E(3, 1, 4, 1), E(0, 1, 0, 0)}
\* a generic z, one with 1 + z^2 = 0, one on the base field's own circle
MCZs == {E(2, 7, 1, 8), E(0, 1, 0, 0), E(5, 0, 0, 0)}
MCGammas == {E(1, 61, 80, 33), E(9, 0, 0, 0)}
MCBetas == {<<E(14, 1, 42, 1), E(3, 5, 6, 2), E(37, 30, 9, 50)>>}
MCLies == {E(1, 0, 0, 0)}
=============================================================================
