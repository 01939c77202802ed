----------------------------- MODULE Statement -----------------------------
(***************************************************************************)
(* What a proof for verify() of contracts/full/driver.clar consists of,    *)
(* the five kinds of message and what the transcript answers to each, and  *)
(* what has to be true of them.                                            *)
(*                                                                         *)
(* The algebra of cair.clar, cdeep.clar and query.clar enters through the  *)
(* constant operators below.                                               *)
(***************************************************************************)
EXTENDS Fri, Merkle, Sequences

CONSTANTS
  N, L,            \* queries per proof, FRI commitments per proof
  None,            \* the value of a binding that is not in scope
  DeepRow(_, _, _, _, _, _),  \* deep-row(t, c, q, openings, z, gamma), or None: abort
  FeltToPointOk(_),           \* felt-to-point(z) does not abort
  ComposeCheck(_, _, _),      \* cair-compose-check(openings, z, alpha)
  Twiddle(_, _),              \* y-twiddle (layer 0) or line-x of a layer's even position
  Challenges,      \* values the transcript can squeeze
  Tree(_),         \* Tree(r) is what stands under root r, top-down (see Merkle)
  TraceRoots, CompRoots, FriRoots,  \* roots the prover can send; FriRoots[j] for layer j
  OodClaims,       \* tuples of seven openings the prover can send
  Finals           \* final constants the prover can send

Indices == 0 .. (DomainSize[D] - 1)

\* four unsigned limbs: what the wire can carry for an element
Felt == [c0 : Nat, c1 : Nat, c2 : Nat, c3 : Nat]

ASSUME StatementAssumption ==
  /\ N \in Nat \ {0} /\ L \in Nat \ {0} /\ D = L + 1
  /\ Challenges \subseteq QM31 /\ None \notin QM31
  /\ Finals \subseteq Felt
  /\ None \notin TraceRoots \cup CompRoots
  /\ None \notin OodClaims /\ None \notin Finals

ASSUME TreeAssumption ==
  /\ \A r \in TraceRoots \cup CompRoots : IsTree(Tree(r), D)
  /\ \A i \in 0 .. (L - 1) : \A r \in FriRoots[i] : IsTree(Tree(r), D - i)

VARIABLES
  trace, comp, ood, fri, final,        \* the prover's messages (fri: a sequence)
  alpha, z, gamma, betas, powOk, idx   \* the transcript's answers

messages   == <<trace, comp, ood, fri, final>>
challenges == <<alpha, z, gamma, betas, powOk, idx>>

Unsaid ==
  /\ trace = None /\ comp = None /\ ood = None /\ fri = << >> /\ final = None
  /\ alpha = None /\ z = None /\ gamma = None /\ betas = << >>
  /\ powOk = FALSE /\ idx = << >>

\* the value committed under root r at position p
Holds(r, p, v) == Commits(Tree(r), p, v)

-----------------------------------------------------------------------------
(***************************************************************************)
(* What a proof must satisfy, said of the columns behind the roots and of  *)
(* nothing the verifier computed on the way: positions by division by the  *)
(* domain size rather than by repeated halving, pairs by their even and    *)
(* odd members rather than by which one was carried, the fold by the true  *)
(* inverse of the twiddle rather than by a hint.                           *)
(***************************************************************************)
PositionAt(q, i) == q \div DomainSize[i]

\* w is the quotient row of the base-field trace leaf and the composition leaf at q.
RowOf(q, w) ==
  \E t \in QM31 :
    /\ Holds(trace, q, t) /\ IsBase(t)
    /\ \E c \in QM31 : Holds(comp, q, c) /\ w = DeepRow(t, c, q, ood, z, gamma)

\* w is the fold of the pair of layer i that q falls in.
FoldOf(q, i, w) ==
  LET even == EvenOf(PositionAt(q, i)) IN
  /\ Twiddle(i, even) # 0
  /\ \E a \in QM31 :
       /\ Holds(fri[i + 1], even, a)
       /\ \E b \in QM31 :
            /\ Holds(fri[i + 1], even + 1, b)
            /\ w = FriFoldStep(a, b, Twiddle(i, even), betas[i + 1])

\* w is the value that reaches layer i.
Reaches(q, i, w) == IF i = 0 THEN RowOf(q, w) ELSE FoldOf(q, i - 1, w)

\* the column of layer i holds, at q's position there, the value that reaches it.
Link(q, i) == \E w \in QM31 : Holds(fri[i + 1], PositionAt(q, i), w) /\ Reaches(q, i, w)

QueryRelation(q) == (\A i \in 0 .. (L - 1) : Link(q, i)) /\ Reaches(q, L, final)

\* The proof holds: grinding, out-of-domain closure, and the whole chain at each
\* of the N drawn positions.
Valid ==
  /\ powOk /\ FeltToPointOk(z) /\ ComposeCheck(ood, z, alpha)
  /\ Len(idx) = N
  /\ \A n \in 1 .. N : QueryRelation(idx[n])
=============================================================================
