------------------------------- MODULE MCGears -------------------------------
(***************************************************************************)
(* The honest prover against the verifier on the toy point's geometry over *)
(* P = 127, with the algebra of the contracts on both sides.               *)
(***************************************************************************)
EXTENDS Prover, GearDriver

MCOff == Cm(97, 25)
MCH == Cm(119, 119)

E(a, b, c, d) == [c0 |-> a, c1 |-> b, c2 |-> c, c3 |-> d]

\* a generic challenge, one that has no point, one whose point is not out of the base field
MCChallenges == {E(2, 7, 1, 8), E(0, 1, 0, 0), E(5, 0, 0, 0)}
MCDomainSize == [d \in 0 .. D |-> 2 ^ d]

MCTCol == TraceColumn(FibColumn, 0)
CompColumns == [a \in MCChallenges |-> CompColumn(FibColumn, a)]
MCCompCol(a) == CompColumns[a]
Sampled == {t \in MCChallenges : FeltToPointRequires(t)}
OpeningsTable ==
  [a \in MCChallenges |-> [t \in Sampled |-> Openings(FibColumn, CompColumns[a], FeltToPoint(t))]]
MCOpeningsOf(a, t) == OpeningsTable[a][t]

\* every column the prover can commit to
MCTraceRoots == {MCTCol}
MCCompRoots == {CompColumns[a] : a \in MCChallenges}
Committable(ws) == {w \in ws : \A p \in DOMAIN w : w[p] # None}
Layers ==
  LET layer[i \in 0 .. (L - 1)] ==
        IF i = 0
        THEN Committable({RowColumn(CompColumns[a], OpeningsTable[a][t], t, g) :
                            a \in MCChallenges, t \in Sampled, g \in MCChallenges})
        ELSE {Fold(i - 1, w, b) : w \in layer[i - 1], b \in MCChallenges}
  IN  layer

NoLies == {}
=============================================================================
