------------------------------- MODULE Driver -------------------------------
(***************************************************************************)
(* verify() of contracts/full/driver.clar, the verifier's only sound entry *)
(* point, with derive-challenges of contracts/full/schedule.clar.  The     *)
(* toy contracts/driver.clar is the same function at N = 4 and L = 3.      *)
(*                                                                         *)
(* Each action is one gate or one hash step of the call, in code order,    *)
(* with one way out for every rejection: pc = "aborted".  The proof is     *)
(* written by an arbitrary prover: it picks each message when the          *)
(* transcript absorbs it, knowing the challenges drawn so far, and each    *)
(* piece of a query bundle when the verifier reads it, knowing them all.   *)
(* The transcript is a random oracle: a challenge is any member of         *)
(* Challenges, the grinding verdict any Boolean and a query index any      *)
(* position of the domain.                                                 *)
(*                                                                         *)
(* What a proof consists of and what must be true of it is in Statement;   *)
(* that no other is accepted, whatever is sent, is OracleProof.            *)
(***************************************************************************)
EXTENDS Statement

CONSTANTS
  Claims,          \* leaf values the prover can send besides committed ones
  Junk,            \* sibling digests the prover can send besides committed ones
  PathLengths,     \* lengths of the sibling lists the prover can send
  Hints            \* twiddle inverses the prover can send

ASSUME DriverAssumption == PathLengths \subseteq Nat /\ Hints \subseteq Nat /\ Claims \subseteq Felt

VARIABLES
  pc,
  k,                                   \* bundles checked so far
  tx, cx,                              \* the current bundle's trace and composition leaf
  j, pos, val, sib,                    \* FRI layer, its position, carried value, sibling
  climb,                               \* the Merkle climb in progress
  hashes                               \* history: hashes computed for openings

bundle == <<k, tx, cx, j, pos, val, sib, climb, hashes>>
vars   == <<pc, messages, challenges, bundle>>

Init ==
  /\ pc = "lengths"
  /\ Unsaid
  /\ k = 0 /\ tx = None /\ cx = None
  /\ j = 0 /\ pos = 0 /\ val = None /\ sib = None
  /\ climb = None /\ hashes = 0

-----------------------------------------------------------------------------
\* require!: a failed check aborts the whole call.
Reject == pc' = "aborted" /\ UNCHANGED <<messages, challenges, bundle>>

Require(cond, Pass) == (cond /\ Pass) \/ (~cond /\ Reject)

\* Faulty variant: every bundle checked at the first drawn index.
QueryStuck == idx[1]

\* the k-th bundle is checked at the k-th drawn index.
Query == idx[k + 1]

\* list lengths against get-params; Clarity's list types cap them from above.
Lengths(numRoots, numQueries) ==
  /\ pc = "lengths"
  /\ Require(numRoots = L /\ numQueries = N,
             pc' = "trace" /\ UNCHANGED <<messages, challenges, bundle>>)

CommitTrace(r, c) ==
  /\ pc = "trace"
  /\ trace' = r /\ alpha' = c /\ pc' = "comp"
  /\ UNCHANGED <<comp, ood, fri, final, z, gamma, betas, powOk, idx, bundle>>

CommitComp(r, c) ==
  /\ pc = "comp"
  /\ comp' = r /\ z' = c /\ pc' = "openings"
  /\ UNCHANGED <<trace, ood, fri, final, alpha, gamma, betas, powOk, idx, bundle>>

\* the seven openings are absorbed one by one; gamma is squeezed after the last.
AbsorbOpenings(o, c) ==
  /\ pc = "openings"
  /\ Require(\A i \in DOMAIN o : Canonical(o[i]),
             /\ ood' = o /\ gamma' = c /\ pc' = "fri"
             /\ UNCHANGED <<trace, comp, fri, final, alpha, z, betas, powOk, idx, bundle>>)

\* fri-beta-step: absorb one layer's root, squeeze its beta.
FriBetaStep(r, c) ==
  /\ pc = "fri"
  /\ fri' = Append(fri, r) /\ betas' = Append(betas, c)
  /\ pc' = IF Len(fri) + 1 = L THEN "final" ELSE "fri"
  /\ UNCHANGED <<trace, comp, ood, final, alpha, z, gamma, powOk, idx, bundle>>

\* absorb the final constant, evaluate the grinding check, absorb the nonce,
\* draw the N indices modulo the domain size (repetitions allowed).
DrawQueries(f, ok, ix) ==
  /\ pc = "final"
  /\ Require(Canonical(f),
             /\ final' = f /\ powOk' = ok /\ idx' = ix /\ pc' = "gate"
             /\ UNCHANGED <<trace, comp, ood, fri, alpha, z, gamma, betas, bundle>>)

\* Faulty variant: after a grinding miss, another final constant and nonce are asked for.
GrindingRetried ==
  /\ pc = "gate" /\ Len(betas) = L /\ Len(idx) = N
  /\ pc' = IF powOk THEN "ood" ELSE "final"
  /\ UNCHANGED <<messages, challenges, bundle>>

GrindingGate ==
  /\ pc = "gate"
  /\ Require(powOk /\ Len(betas) = L /\ Len(idx) = N,
             pc' = "ood" /\ UNCHANGED <<messages, challenges, bundle>>)

\* Faulty variant: the openings not tied to the AIR.
OodClosureDropped ==
  /\ pc = "ood"
  /\ Require(FeltToPointOk(z), pc' = "trace-leaf" /\ UNCHANGED <<messages, challenges, bundle>>)

OodClosure ==
  /\ pc = "ood"
  /\ Require(FeltToPointOk(z) /\ ComposeCheck(ood, z, alpha),
             pc' = "trace-leaf" /\ UNCHANGED <<messages, challenges, bundle>>)

-----------------------------------------------------------------------------
StartClimb(acc, level, cursor, depth, of) ==
  climb' = [acc |-> acc, level |-> level, cursor |-> cursor, depth |-> depth, of |-> of]

\* the root a climb is checked against
Target == CASE climb.of = "trace" -> trace
            [] climb.of = "comp"  -> comp
            [] climb.of = "fri"   -> fri[j + 1]

\* bound-at-pos of the trace leaf, after the base-field check on it.
OpenTrace(v, len) ==
  /\ pc = "trace-leaf"
  /\ Require(IsBase(v) /\ len = D /\ Canonical(v),
             /\ tx' = v /\ StartClimb(Leaf(v), 0, Query, len, "trace")
             /\ hashes' = hashes + 1 /\ pc' = "climb"
             /\ UNCHANGED <<messages, challenges, k, cx, j, pos, val, sib>>)

OpenComp(v, len) ==
  /\ pc = "comp-leaf"
  /\ Require(len = D /\ Canonical(v),
             /\ cx' = v /\ StartClimb(Leaf(v), 0, Query, len, "comp")
             /\ hashes' = hashes + 1 /\ pc' = "climb"
             /\ UNCHANGED <<messages, challenges, k, tx, j, pos, val, sib>>)

\* pair-bound: hash the carried value and its sibling into their parent, then climb.
OpenPair(v, len) ==
  /\ pc = "pair"
  /\ Require(len = D - 1 - j /\ Canonical(v),
             /\ sib' = v
             /\ StartClimb(MerkleStep(Leaf(v), Leaf(val), NodeIsRight(pos)),
                           1, pos \div 2, len + 1, "fri")
             /\ hashes' = hashes + 3 /\ pc' = "climb"
             /\ UNCHANGED <<messages, challenges, k, tx, cx, j, pos, val>>)

\* one merkle-step, with the direction path-step derives from the position.
ClimbStep(sibling) ==
  /\ pc = "climb" /\ climb.level < climb.depth
  /\ StartClimb(MerkleStep(sibling, climb.acc, NodeIsRight(climb.cursor)),
                climb.level + 1, climb.cursor \div 2, climb.depth, climb.of)
  /\ hashes' = hashes + 1
  /\ UNCHANGED <<pc, messages, challenges, k, tx, cx, j, pos, val, sib>>

\* Faulty variant: what pair-bound returns is not required.
CheckRootOfLeaves ==
  /\ pc = "climb" /\ climb.level = climb.depth
  /\ Require(climb.of # "fri" => climb.acc = Root(Tree(Target), D),
             /\ pc' = CASE climb.of = "trace" -> "comp-leaf"
                        [] climb.of = "comp"  -> "deep"
                        [] climb.of = "fri"   -> "fold"
             /\ climb' = None
             /\ UNCHANGED <<messages, challenges, k, tx, cx, j, pos, val, sib, hashes>>)

\* merkle-verify's comparison with the root.
CheckRoot ==
  /\ pc = "climb" /\ climb.level = climb.depth
  /\ Require(climb.acc = Root(Tree(Target), IF climb.of = "fri" THEN D - j ELSE D),
             /\ pc' = CASE climb.of = "trace" -> "comp-leaf"
                        [] climb.of = "comp"  -> "deep"
                        [] climb.of = "fri"   -> "fold"
             /\ climb' = None
             /\ UNCHANGED <<messages, challenges, k, tx, cx, j, pos, val, sib, hashes>>)

\* the verifier computes the layer-0 value itself.
ComputeRow ==
  /\ pc = "deep"
  /\ LET row == DeepRow(tx, cx, Query, ood, z, gamma)
     IN  Require(row # None,
                 /\ val' = row /\ j' = 0 /\ pos' = Query /\ pc' = "pair"
                 /\ UNCHANGED <<messages, challenges, k, tx, cx, sib, climb, hashes>>)

\* fold-one-hint; a hint missing from a short list aborts like a wrong one.
FoldOne(hint) ==
  /\ pc = "fold"
  /\ Require(HintRequires(Twiddle(j, EvenOf(pos)), hint),
             /\ val' = FoldLayerStepHint(val, sib, hint, betas[j + 1], NodeIsRight(pos))
             /\ j' = j + 1 /\ pos' = pos \div 2 /\ sib' = None
             /\ pc' = IF j + 1 = L THEN "last" ELSE "pair"
             /\ UNCHANGED <<messages, challenges, k, tx, cx, climb, hashes>>)

\* Faulty variants: the fold not compared with the constant; one bundle too few.
LastLayerOpen ==
  /\ pc = "last"
  /\ k' = k + 1
  /\ pc' = IF k + 1 = N THEN "accepted" ELSE "trace-leaf"
  /\ tx' = None /\ cx' = None /\ j' = 0 /\ pos' = 0 /\ val' = None
  /\ UNCHANGED <<messages, challenges, sib, climb, hashes>>

LastLayerShort ==
  /\ pc = "last"
  /\ Require(val = final,
             /\ k' = k + 1
             /\ pc' = IF k + 2 >= N THEN "accepted" ELSE "trace-leaf"
             /\ tx' = None /\ cx' = None /\ j' = 0 /\ pos' = 0 /\ val' = None
             /\ UNCHANGED <<messages, challenges, sib, climb, hashes>>)

\* the size-2 last layer is never committed: the fold must be the final constant.
LastLayer ==
  /\ pc = "last"
  /\ Require(val = final,
             /\ k' = k + 1
             /\ pc' = IF k + 1 = N THEN "accepted" ELSE "trace-leaf"
             /\ tx' = None /\ cx' = None /\ j' = 0 /\ pos' = 0 /\ val' = None
             /\ UNCHANGED <<messages, challenges, sib, climb, hashes>>)

Returned == pc \in {"accepted", "aborted"} /\ UNCHANGED vars

-----------------------------------------------------------------------------
\* What the prover can send for a leaf: a made-up value, the committed one or its neighbour.
Sendable(r, p) == Claims \cup {v \in QM31 : Holds(r, p, v) \/ Holds(r, SiblingOf(p), v)}

\* ... and as a sibling digest: made up, or a member of the pair the climb stands in.
SendableSiblings ==
  Junk \cup {Tree(Target)[climb.level][i] : i \in {climb.cursor, SiblingOf(climb.cursor)}}

DeriveChallenges ==
  \/ \E r \in TraceRoots, c \in Challenges : CommitTrace(r, c)
  \/ \E r \in CompRoots, c \in Challenges : CommitComp(r, c)
  \/ \E o \in OodClaims, c \in Challenges : AbsorbOpenings(o, c)
  \/ pc = "fri" /\ \E r \in FriRoots[Len(fri)], c \in Challenges : FriBetaStep(r, c)
  \/ \E f \in Finals, ok \in BOOLEAN, ix \in [1 .. N -> Indices] : DrawQueries(f, ok, ix)

CheckBundle ==
  \/ pc = "trace-leaf" /\ \E v \in Sendable(trace, Query), n \in PathLengths : OpenTrace(v, n)
  \/ pc = "comp-leaf" /\ \E v \in Sendable(comp, Query), n \in PathLengths : OpenComp(v, n)
  \/ pc = "pair" /\ \E v \in Sendable(fri[j + 1], SiblingOf(pos)), n \in PathLengths : OpenPair(v, n)
  \/ /\ pc = "climb" /\ climb.level < climb.depth
     /\ \E s \in SendableSiblings : ClimbStep(s)
  \/ CheckRoot
  \/ ComputeRow
  \/ \E h \in Hints : FoldOne(h)
  \/ LastLayer

Next ==
  \/ \E r \in 0 .. L, n \in 0 .. N : Lengths(r, n)
  \/ DeriveChallenges
  \/ GrindingGate
  \/ OodClosure
  \/ CheckBundle
  \/ Returned

Spec == Init /\ [][Next]_vars

-----------------------------------------------------------------------------
\* Hashes of one fully checked bundle: two leaf openings of depth D and, per
\* layer, a pair of leaves and a climb from their parent.
QueryCost == 2 * (D + 1) + (L * (2 * D - L + 5)) \div 2

-----------------------------------------------------------------------------
TypeOK ==
  /\ pc \in {"lengths", "trace", "comp", "openings", "fri", "final", "gate", "ood",
             "trace-leaf", "comp-leaf", "deep", "pair", "climb", "fold", "last",
             "accepted", "aborted"}
  /\ trace \in TraceRoots \cup {None} /\ comp \in CompRoots \cup {None}
  /\ ood \in OodClaims \cup {None} /\ final \in QM31 \cup {None}
  /\ alpha \in Challenges \cup {None} /\ z \in Challenges \cup {None}
  /\ gamma \in Challenges \cup {None}
  /\ betas \in Seq(Challenges) /\ powOk \in BOOLEAN
  /\ fri \in Seq(UNION {FriRoots[i] : i \in 0 .. (L - 1)})
  /\ Len(fri) = Len(betas) /\ Len(fri) <= L
  /\ \A i \in 1 .. Len(fri) : fri[i] \in FriRoots[i - 1]
  /\ idx = << >> \/ idx \in [1 .. N -> Indices]
  /\ k \in 0 .. N /\ j \in 0 .. L /\ pos \in Indices /\ hashes \in Nat
  /\ {tx, cx, val, sib} \subseteq QM31 \cup {None}

(***************************************************************************)
(* A climb that has reached the committed digest of its own height and     *)
(* offset can only have started from the value committed at the position   *)
(* the verifier drew, whatever siblings the prover sent: the position      *)
(* binding of bound-at-pos and pair-bound (driver.clar "bind BOTH members  *)
(* of an adjacent sibling pair AND their position with one climb").        *)
(***************************************************************************)
Claimed ==
  CASE climb.of = "trace" -> Holds(trace, Query, tx)
    [] climb.of = "comp"  -> Holds(comp, Query, cx)
    [] climb.of = "fri"   -> /\ Holds(fri[j + 1], pos, val)
                             /\ Holds(fri[j + 1], SiblingOf(pos), sib)

PositionBinding ==
  pc = "climb" /\ climb.acc = Tree(Target)[climb.level][climb.cursor] => Claimed

(***************************************************************************)
(* verify() returns true only for a proof whose committed columns satisfy, *)
(* at every one of the N drawn positions, the whole chain from the trace   *)
(* leaf to the final constant, with the grinding check and the             *)
(* out-of-domain closure passed.                                           *)
(***************************************************************************)
Soundness == pc = "accepted" => Valid

(***************************************************************************)
(* Every bundle already behind the verifier was checked in full: a later   *)
(* bundle never starts on the strength of an earlier partial one.          *)
(***************************************************************************)
CheckedPrefix == \A n \in 1 .. k : QueryRelation(idx[n])

(***************************************************************************)
(* Opening work is bounded by the parameters alone and a rejected proof    *)
(* never costs more than an accepted one, which costs exactly N bundles;   *)
(* nothing is hashed for a proof that misses the grinding check ("REJECT a *)
(* grinding miss FIRST, before any Merkle/algebra work") or whose openings *)
(* do not close at the out-of-domain point.                                *)
(***************************************************************************)
HashBudget ==
  /\ hashes <= N * QueryCost
  /\ pc = "accepted" => hashes = N * QueryCost
  /\ hashes > 0 => powOk /\ FeltToPointOk(z) /\ ComposeCheck(ood, z, alpha)

(***************************************************************************)
(* A call of verify() is one run of the oracle proof: messages and         *)
(* challenges in their order, each given once, one verdict, and `true'     *)
(* only for a proof that holds.  What the verifier reads after the last    *)
(* challenge (leaves, siblings, hints) changes none of it.                 *)
(***************************************************************************)
Oracle == INSTANCE OracleProof WITH
  verdict <- IF pc = "accepted" THEN "accepted" ELSE IF pc = "aborted" THEN "rejected" ELSE "open"

VerdictImplemented == Oracle!Spec
=============================================================================
