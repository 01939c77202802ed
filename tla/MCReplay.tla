------------------------------ MODULE MCReplay ------------------------------
(***************************************************************************)
(* Replay at the toy point's geometry over P = 127, two queries.           *)
(***************************************************************************)
EXTENDS Replay

MCG == Cm(2, 39)
MCOff == Cm(97, 25)
MCH == Cm(119, 119)
MCDomainSize == [d \in 0 .. D |-> 2 ^ d]
MCNoRoots == [i \in 0 .. (L - 1) |-> {}]

E(a, b, c, d) == [c0 |-> a, c1 |-> b, c2 |-> c, c3 |-> d]
MCSqueezed ==
  [ alpha |-> {E(2, 7, 1, 8)}, z |-> {E(28, 18, 28, 45)}, gamma |-> {E(90, 45, 23, 53)},
    betas |-> <<{E(60, 28, 74, 71)}, {E(35, 26, 62, 49)}, {E(77, 57, 24, 70)}>> ]
MCChallenges == MCSqueezed.alpha \cup MCSqueezed.z \cup MCSqueezed.gamma
  \cup UNION {MCSqueezed.betas[i] : i \in 1 .. L}

MCKinds == {"honest", "garbage", "oodlie", "recomb", "transviolation", "wrongseed"}
MCSymTrace == [q \in Positions |-> Qm31FromM31((17 * (q \div 2) * (q \div 2) + 5) % P)]
MCSymComp ==
  [q \in Positions |-> LET n == q \div 2 IN
     E((11 * n * n + 3) % P, (29 * n + 1) % P, (7 * n * n * n) % P, (53 * n + 90) % P)]
MCSamples == <<E(3, 14, 15, 92), E(65, 35, 89, 79), E(32, 38, 46, 26)>>
MCTraceLie == 1
MCOpeningLie == E(13, 0, 0, 0)

\* each position at each query, twice or with one in the other half
MCDraws == {<<q, q>> : q \in Positions} \cup {<<q, 15 - q>> : q \in Positions}

Junk1 == Leaf(E(1, 0, 0, 0))
Off1(v) == [v EXCEPT !.c0 = (@ + 1) % P]
\* shorter only: the types of the arguments cap a list at the length required
Shorter(s) == {SubSeq(s, 1, Len(s) - 1)}
Swapped(s) == {[s EXCEPT ![i] = Junk1] : i \in DOMAIN s}
MCAltered(b) ==
  IF kind # "honest" \/ ~powOk THEN {} ELSE
     {[b EXCEPT !.tX = Off1(@)], [b EXCEPT !.tX.c1 = 1], [b EXCEPT !.cX = Off1(@)],
      [b EXCEPT !.cX.c0 = @ + P]}
  \cup {[b EXCEPT !.tSibs = s] : s \in Shorter(b.tSibs) \cup Swapped(b.tSibs)}
  \cup {[b EXCEPT !.cSibs = s] : s \in Shorter(b.cSibs) \cup Swapped(b.cSibs)}
  \cup UNION {
      {[b EXCEPT !.pairs[i].sib = Off1(@)], [b EXCEPT !.hints[i] = @ + P],
       [b EXCEPT !.hints[i] = @ + 1]}
        \cup {[b EXCEPT !.pairs[i].sibs = s] : s \in Shorter(b.pairs[i].sibs) \cup Swapped(b.pairs[i].sibs)}
      : i \in 1 .. L}
  \cup {[b EXCEPT !.hints = s] : s \in Shorter(b.hints)}
  \cup ({BundleAt(q) : q \in UNION {{idx[n], SiblingOf(idx[n])} : n \in 1 .. N}} \ {b})
=============================================================================
