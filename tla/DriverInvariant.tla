-------------------------- MODULE DriverInvariant ---------------------------
(***************************************************************************)
(* The inductive invariant behind the properties of Driver: what each      *)
(* point of verify() may rely on.                                          *)
(***************************************************************************)
EXTENDS Driver

\* The algebra stays in the field.
ASSUME AlgebraAssumption ==
  /\ \A i \in 0 .. (L - 1) : \A p \in 0 .. (DomainSize[D - i] - 1) : Twiddle(i, EvenOf(p)) \in M31
  /\ \A t \in {b \in QM31 : IsBase(b)}, c \in QM31, q \in Indices, o \in OodClaims :
       \A zz, g \in Challenges : DeepRow(t, c, q, o, zz, g) \in QM31 \cup {None}

InBundle == {"trace-leaf", "comp-leaf", "deep", "pair", "climb", "fold", "last"}
Drawn == {"gate", "ood", "accepted"} \cup InBundle

\* The transcript: which messages have been absorbed and which challenges drawn.
Transcript ==
  /\ pc \in {"lengths", "trace", "comp", "openings"} => fri = << >>
  /\ pc = "fri" => Len(fri) < L
  /\ pc \in {"final"} \cup Drawn => Len(fri) = L
  /\ pc \in {"comp", "openings", "fri", "final"} \cup Drawn => trace \in TraceRoots
  /\ pc \in {"openings", "fri", "final"} \cup Drawn => comp \in CompRoots /\ z \in Challenges
  /\ pc \in {"fri", "final"} \cup Drawn => ood \in OodClaims /\ gamma \in Challenges
  /\ pc \in Drawn => final \in QM31 /\ idx \in [1 .. N -> Indices]
  /\ pc \in {"lengths", "trace", "comp", "openings", "fri", "final", "gate", "ood"} => k = 0

\* The gates passed before the first bundle.
Gated ==
  /\ pc \in {"ood", "accepted"} \cup InBundle => powOk
  /\ pc \in {"accepted"} \cup InBundle => FeltToPointOk(z) /\ ComposeCheck(ood, z, alpha)
  /\ pc \in InBundle => k < N
  /\ pc = "accepted" => k = N

-----------------------------------------------------------------------------
\* What has been established of the current query, piece by piece.
Traced   == tx \in QM31 /\ IsBase(tx) /\ Holds(trace, Query, tx)
Composed == cx \in QM31 /\ Holds(comp, Query, cx)

Carried ==
  /\ val \in QM31
  /\ pos = PositionAt(Query, j) /\ pos < DomainSize[D - j]
  /\ \A i \in 0 .. (j - 1) : Link(Query, i)
  /\ Reaches(Query, j, val)

Paired == sib \in QM31 /\ Holds(fri[j + 1], pos, val) /\ Holds(fri[j + 1], SiblingOf(pos), sib)

\* Where the current climb stands in its tree, and what its digest proves.
ClimbShape ==
  /\ climb.of \in {"trace", "comp", "fri"}
  /\ climb.depth = IF climb.of = "fri" THEN D - j ELSE D
  /\ climb.level \in 0 .. climb.depth
  /\ climb.cursor \in 0 .. (DomainSize[climb.depth - climb.level] - 1)

Binding == climb.acc = Tree(Target)[climb.level][climb.cursor] => Claimed

Bundle ==
  /\ pc = "comp-leaf" => Traced
  /\ pc = "deep" => Traced /\ Composed
  /\ pc = "pair" => j < L /\ Carried
  /\ pc = "climb" =>
       /\ ClimbShape /\ Binding
       /\ climb.of = "trace" => tx \in QM31 /\ IsBase(tx)
       /\ climb.of = "comp" => Traced /\ cx \in QM31
       /\ climb.of = "fri" => j < L /\ Carried /\ sib \in QM31
  /\ pc = "fold" => j < L /\ Carried /\ Paired
  /\ pc = "last" => j = L /\ Carried

Inv == TypeOK /\ Transcript /\ Gated /\ Bundle /\ CheckedPrefix
=============================================================================
