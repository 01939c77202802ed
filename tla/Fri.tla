-------------------------------- MODULE Fri --------------------------------
(***************************************************************************)
(* The fold of contracts/fri.clar, one layer at a time.  FriFoldStep is    *)
(* the first wire format (the verifier inverts the twiddle itself);        *)
(* FriFoldStepHint is the second, in which the prover supplies the inverse *)
(* and the verifier checks it with one multiplication.                     *)
(***************************************************************************)
EXTENDS Qm31

\* The circle map to the next layer's source point.
PiX(x) == M31Sub(M31Mul(2, M31Mul(x, x)), 1)

FriFoldStepRequires(x) == x # 0

FriFoldStep(a, b, x, beta) ==
  Qm31Add(Qm31Add(a, b), Qm31Mul(beta, Qm31MulM31(Qm31Sub(a, b), M31Inv(x))))

HintRequires(x, hint) == M31Mul(x, hint) = 1

FriFoldStepHint(a, b, hint, beta) ==
  Qm31Add(Qm31Add(a, b), Qm31Mul(beta, Qm31MulM31(Qm31Sub(a, b), hint)))

\* Faulty variant: the carried value always taken for the left member.
FoldLayerStepHintUnrouted(v, sibling, hint, beta, vIsRight) ==
  FriFoldStepHint(v, sibling, hint, beta)

\* The carried value v is the right member f(-x) of its pair or the left f(x).
FoldLayerStepHint(v, sibling, hint, beta, vIsRight) ==
  IF vIsRight THEN FriFoldStepHint(sibling, v, hint, beta)
              ELSE FriFoldStepHint(v, sibling, hint, beta)
=============================================================================
