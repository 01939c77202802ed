------------------------------- MODULE Prover -------------------------------
(***************************************************************************)
(* The honest prover of interop/src/bin/prove.rs in step with verify() of  *)
(* Driver: one prover action per message or opening the verifier consumes, *)
(* each computed from the columns, the challenges drawn so far and the     *)
(* query position.  A root is named by the column under it.                *)
(*                                                                         *)
(* The prover panics where its own code does: inverting a zero for an      *)
(* exceptional challenge, or a terminal layer that is not constant.        *)
(***************************************************************************)
EXTENDS Driver

CONSTANTS
  TCol,              \* the trace column over the evaluation domain
  CompCol(_),        \* the composition column for alpha
  OpeningsOf(_, _)   \* the seven out-of-domain openings for alpha and z

VARIABLES
  cur,       \* the column about to be committed or, at the end, the terminal layer
  panicked

proverVars == <<cur, panicked>>

ProverInit == Init /\ cur = None /\ panicked = FALSE

-----------------------------------------------------------------------------
\* accumulate_row_quotients over the whole domain; None where a denominator is zero
RowColumn(c, openings, zz, g) ==
  [q \in Indices |-> DeepRow(TCol[q], c[q], q, openings, zz, g)]

\* fold_circle_into_line (layer 0) and fold_line
Fold(i, w, beta) ==
  [p \in 0 .. (DomainSize[D - 1 - i] - 1) |->
     FriFoldStep(w[2 * p], w[2 * p + 1], Twiddle(i, 2 * p), beta)]

\* Tree(w) is the tree over the column w, hash by hash.
Grown(w, depth) ==
  LET t == Tree(w) IN
  /\ \A p \in 0 .. (DomainSize[depth] - 1) : w[p] \in QM31 /\ t[0][p] = Leaf(w[p])
  /\ \A l \in 1 .. depth : \A i \in 0 .. (DomainSize[depth - l] - 1) :
       t[l][i] = Node(t[l - 1][2 * i], t[l - 1][2 * i + 1])

\* The columns the prover commits: FriRoots[i] is a code for layer i.
ASSUME ColumnsAssumption ==
  /\ TCol \in TraceRoots /\ \A q \in Indices : IsBase(TCol[q])
  /\ \A a \in Challenges : CompCol(a) \in CompRoots
  /\ \A r \in TraceRoots \cup CompRoots : Grown(r, D)
  /\ \A i \in 0 .. (L - 1) : \A r \in FriRoots[i] : Grown(r, D - i)
  /\ \A i \in 0 .. (L - 1) : \A p \in 0 .. (DomainSize[D - i] - 1) :
       Twiddle(i, EvenOf(p)) \in M31 \ {0}

\* What makes the trace a witness: its openings close the AIR, its rows are codewords,
\* folding takes codewords to codewords and those of the last layer to constants.
ASSUME WitnessAssumption ==
  /\ LET rows == FriRoots[0] IN
     \A a, zz \in Challenges : FeltToPointOk(zz) =>
       LET o == OpeningsOf(a, zz) IN
       /\ (\A i \in DOMAIN o : Canonical(o[i])) /\ ComposeCheck(o, zz, a)
       /\ \A g \in Challenges : LET row == RowColumn(CompCol(a), o, zz, g) IN
            (\A q \in Indices : row[q] # None) => row \in rows
  /\ \A i \in 0 .. (L - 2) : LET next == FriRoots[i + 1] IN
       \A w \in FriRoots[i] : \A b \in Challenges : Fold(i, w, b) \in next
  /\ \A w \in FriRoots[L - 1] : \A b \in Challenges :
       LET last == Fold(L - 1, w, b) IN last[0] = last[1]

ExceptionalZ == pc = "openings" /\ ~FeltToPointOk(z)
ExceptionalRow == pc = "fri" /\ fri = << >> /\ \E q \in DOMAIN cur : cur[q] = None
TerminalNotConstant == pc = "final" /\ cur[0] # cur[1]

Panic ==
  /\ ~panicked /\ (ExceptionalZ \/ ExceptionalRow \/ TerminalNotConstant)
  /\ panicked' = TRUE
  /\ UNCHANGED <<vars, cur>>

ProveTrace(c) == CommitTrace(TCol, c) /\ UNCHANGED cur

ProveComp(c) == CommitComp(CompCol(alpha), c) /\ UNCHANGED cur

ProveOpenings(c) ==
  /\ ~ExceptionalZ
  /\ AbsorbOpenings(OpeningsOf(alpha, z), c)
  /\ cur' = RowColumn(comp, OpeningsOf(alpha, z), z, c)

\* Faulty variant: the twiddle of the pair's index rather than of its even position.
ProveLayerByIndex(c) ==
  /\ ~ExceptionalRow
  /\ FriBetaStep(cur, c)
  /\ cur' = [p \in 0 .. (DomainSize[D - 1 - Len(fri)] - 1) |->
               FriFoldStep(cur[2 * p], cur[2 * p + 1], Twiddle(Len(fri), p), c)]

ProveLayer(c) ==
  /\ ~ExceptionalRow
  /\ FriBetaStep(cur, c)
  /\ cur' = Fold(Len(fri), cur, c)

\* grind until the nonce passes, then the verifier draws the queries
ProveFinal(ix) ==
  /\ ~TerminalNotConstant
  /\ DrawQueries(cur[0], TRUE, ix) /\ UNCHANGED cur

\* Faulty variant: the digest on the path instead of its neighbour.
SibDigestOnPath == Tree(Target)[climb.level][climb.cursor]

\* the sibling digest Tree::sibs returns for the level the climb is at
SibDigest == Tree(Target)[climb.level][SiblingOf(climb.cursor)]

AnswerQuery ==
  \/ pc = "trace-leaf" /\ OpenTrace(trace[Query], D)
  \/ pc = "comp-leaf" /\ OpenComp(comp[Query], D)
  \/ pc = "pair" /\ OpenPair(fri[j + 1][SiblingOf(pos)], D - 1 - j)
  \/ pc = "climb" /\ climb.level < climb.depth /\ ClimbStep(SibDigest)
  \/ pc = "fold" /\ \E h \in {M31Inv(Twiddle(j, EvenOf(pos)))} : FoldOne(h)

\* the steps in which the verifier consumes nothing from the prover
VerifierStep == GrindingGate \/ OodClosure \/ CheckRoot \/ ComputeRow \/ LastLayer

Prove ==
  /\ ~panicked
  /\ \/ Lengths(L, N) /\ UNCHANGED cur
     \/ \E c \in Challenges : ProveTrace(c) \/ ProveComp(c) \/ ProveOpenings(c) \/ ProveLayer(c)
     \/ \E ix \in [1 .. N -> Indices] : ProveFinal(ix)
     \/ (AnswerQuery \/ VerifierStep) /\ UNCHANGED cur
  /\ UNCHANGED panicked

Stopped == panicked /\ UNCHANGED <<vars, proverVars>>

ProverNext == Prove \/ Panic \/ Stopped \/ (Returned /\ UNCHANGED proverVars)

ProverSafety == ProverInit /\ [][ProverNext]_<<vars, proverVars>>

\* One sequential program runs after the other: nothing can hold either back.
ProverSpec ==
  /\ ProverSafety
  /\ WF_<<vars, proverVars>>(Prove \/ Panic)

-----------------------------------------------------------------------------
(***************************************************************************)
(* The assertion "honest terminal must be constant" of prove.rs never      *)
(* fires: the prover panics only for a z or a gamma at which the verifier  *)
(* could abort as well.                                                    *)
(***************************************************************************)
PanicsOnlyOnExceptionalChallenge == panicked => ExceptionalZ \/ ExceptionalRow

(***************************************************************************)
(* Completeness: whatever the challenges, the positions drawn and their    *)
(* repetitions, no gate of verify() rejects what prove.rs produces and     *)
(* every run ends with an accepted proof, or with a panic of the prover on *)
(* an exceptional challenge.                                               *)
(***************************************************************************)
HonestProofAccepted == <>(pc = "accepted" \/ (panicked /\ PanicsOnlyOnExceptionalChallenge))

\* Its safety part: no gate rejects what prove.rs produces.
HonestNeverRejected == pc # "aborted"
=============================================================================
