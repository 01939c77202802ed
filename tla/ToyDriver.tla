----------------------------- MODULE ToyDriver -----------------------------
(***************************************************************************)
(* contracts/driver.clar: verify() at the toy point, with the first wire   *)
(* format, as a function of the whole proof and of the challenges that     *)
(* derive-challenges returns for it.  Three layers are written out; the    *)
(* verifier inverts each twiddle itself.  An abort is FALSE.               *)
(*                                                                         *)
(* proof: trace, comp, fri (roots), openings, final and queries, one       *)
(* bundle per query: tX, tSibs, cX, cSibs and pairs, one per layer, of sib *)
(* and sibs.  ch: alpha, z, gamma, betas, powOk, idx.                      *)
(***************************************************************************)
EXTENDS QueryPoints, Cair, Cdeep, Merkle, SequencesExt

CONSTANTS N, L  \* get-params

PathFromPos(sibs, pos) ==
  [i \in DOMAIN sibs |-> [sibling |-> sibs[i], nodeIsRight |-> NodeIsRight(pos \div 2 ^ (i - 1))]]

MerkleRoot(leaf, path) ==
  FoldLeft(LAMBDA acc, step : MerkleStep(step.sibling, acc, step.nodeIsRight), leaf, path)

BoundAtPos(v, sibs, pos, depth, root) ==
  /\ Len(sibs) = depth /\ Canonical(v)
  /\ MerkleRoot(Leaf(v), PathFromPos(sibs, pos)) = root

\* Faulty variant: the pair hashed in the order it was carried.
PairBoundUnordered(self, sib, pos, parentSibs, parentDepth, root) ==
  /\ Len(parentSibs) = parentDepth /\ Canonical(sib)
  /\ MerkleRoot(Node(Leaf(self), Leaf(sib)), PathFromPos(parentSibs, pos \div 2)) = root

PairBound(self, sib, pos, parentSibs, parentDepth, root) ==
  /\ Len(parentSibs) = parentDepth /\ Canonical(sib)
  /\ MerkleRoot(MerkleStep(Leaf(sib), Leaf(self), NodeIsRight(pos)),
                PathFromPos(parentSibs, pos \div 2)) = root

FoldOne(v, sib, t, beta, pos) ==
  IF NodeIsRight(pos) THEN FriFoldStep(sib, v, t, beta) ELSE FriFoldStep(v, sib, t, beta)

YTwiddle(q) == QueryPoint(EvenOf(q)).im
LineX1(q) == QueryX(2 * EvenOf(q \div 2))
LineX2(q) == PiX(QueryX(4 * EvenOf(q \div 4)))

VerifyQuery(q, prf, env) ==
  /\ IsBase(prf.tX)
  /\ BoundAtPos(prf.tX, prf.tSibs, q, 4, env.troot)
  /\ BoundAtPos(prf.cX, prf.cSibs, q, 4, env.croot)
  /\ RowRequires(env.pt, QueryPoint(q))
  /\ LET k1 == q \div 2
         k2 == q \div 4
         p0 == RowValue(prf.tX, prf.cX, QueryPoint(q), env.openings, env.pt, env.gamma)
         v1 == FoldOne(p0, prf.pairs[1].sib, YTwiddle(q), env.betas[1], q)
         v2 == FoldOne(v1, prf.pairs[2].sib, LineX1(q), env.betas[2], k1)
         v3 == FoldOne(v2, prf.pairs[3].sib, LineX2(q), env.betas[3], k2)
     IN  /\ PairBound(p0, prf.pairs[1].sib, q, prf.pairs[1].sibs, 3, env.fri[1])
         /\ FriFoldStepRequires(YTwiddle(q))
         /\ PairBound(v1, prf.pairs[2].sib, k1, prf.pairs[2].sibs, 2, env.fri[2])
         /\ FriFoldStepRequires(LineX1(q))
         /\ PairBound(v2, prf.pairs[3].sib, k2, prf.pairs[3].sibs, 1, env.fri[3])
         /\ FriFoldStepRequires(LineX2(q))
         /\ v3 = env.final

Verify(proof, ch) ==
  /\ Len(proof.fri) = L /\ Len(proof.queries) = N
  /\ (\A i \in 1 .. 7 : Canonical(proof.openings[i])) /\ Canonical(proof.final)
  /\ ch.powOk /\ Len(ch.betas) = L /\ Len(ch.idx) = N
  /\ FeltToPointRequires(ch.z)
  /\ LET pt == FeltToPoint(ch.z) IN
       /\ CairComposeCheck(proof.openings, pt, ch.alpha)
       /\ \A n \in 1 .. N :
            VerifyQuery(ch.idx[n], proof.queries[n],
              [ openings |-> proof.openings, pt |-> pt, gamma |-> ch.gamma, betas |-> ch.betas,
                troot |-> proof.trace, croot |-> proof.comp, fri |-> proof.fri,
                final |-> proof.final ])
=============================================================================
