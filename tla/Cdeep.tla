------------------------------- MODULE Cdeep -------------------------------
(***************************************************************************)
(* contracts/cdeep.clar: the quotient row the verifier computes from the   *)
(* two opened leaves at a query point and the seven out-of-domain values.  *)
(* The three batches are the point z and its two rotations by the step.    *)
(***************************************************************************)
EXTENDS Qm31

CONSTANT DEEP_STEP  \* the contract's own copy of the trace step

\* conjugation over CM31
ConjU(a) == FromHalves(Low(a), CmSub(Cm(0, 0), High(a)))

\* Stwo's assert_ne: a sample point in the CM31 plane has no conjugate line
LineCoeffsRequires(zy) == High(zy) # Cm(0, 0)

LineCoeffs(zy, v, w) ==
  LET araw == Qm31Sub(ConjU(v), v)
      craw == Qm31Sub(ConjU(zy), zy)
  IN  [ a |-> Qm31Mul(w, araw),
        b |-> Qm31Mul(w, Qm31Sub(Qm31Mul(v, craw), Qm31Mul(araw, zy))),
        c |-> Qm31Mul(w, craw) ]

\* zero where the query point p lies on the line of the sample point and its conjugate
Denom(pt, p) ==
  LET t1 == CmMul(CmSub(Low(pt.x), Cm(p.re, 0)), High(pt.y))
      t2 == CmMul(CmSub(Low(pt.y), Cm(p.im, 0)), High(pt.x))
  IN  FromHalves(CmSub(t1, t2), Cm(0, 0))

QuotTerm(f, py, lc) ==
  Qm31Sub(Qm31Mul(lc.c, f), Qm31Add(Qm31MulM31(lc.a, py), lc.b))

RotS(pt) ==
  [ x |-> Qm31Sub(Qm31MulM31(pt.x, DEEP_STEP.re), Qm31MulM31(pt.y, DEEP_STEP.im)),
    y |-> Qm31Add(Qm31MulM31(pt.x, DEEP_STEP.im), Qm31MulM31(pt.y, DEEP_STEP.re)) ]

\* Faulty variant: the third batch at the second batch's point.
SamplePointsTwice(pt) == <<pt, RotS(pt), RotS(pt)>>

\* z, z + S, z + 2S
SamplePoints(pt) == <<pt, RotS(pt), RotS(RotS(pt))>>

RowRequires(pt, p) ==
  \A i \in 1 .. 3 : LET zi == SamplePoints(pt)[i] IN
    LineCoeffsRequires(zi.y) /\ Qm31InvRequires(Denom(zi, p))

Powers(g) ==
  LET pw[n \in 0 .. 6] == IF n = 0 THEN Qm31FromM31(1) ELSE Qm31Mul(pw[n - 1], g) IN pw

\* Faulty variant: every coordinate column batched with the same power.
RowValueOnePower(t, c, p, o, pt, g) ==
  LET zs == SamplePoints(pt)
      pw == Powers(g)
      term(f, i, v, n) == QuotTerm(f, p.im, LineCoeffs(zs[i].y, v, pw[n]))
      limb(v, i, n) == term(Qm31FromM31(v), 1, o[i], n)
      num0 == Qm31Add(term(t, 1, o[1], 0),
                Qm31Add(Qm31Add(limb(c.c0, 4, 3), limb(c.c1, 5, 3)),
                        Qm31Add(limb(c.c2, 6, 3), limb(c.c3, 7, 3))))
      batch(num, i) == Qm31Mul(num, Qm31Inv(Denom(zs[i], p)))
  IN  Qm31Add(Qm31Add(batch(num0, 1), batch(term(t, 2, o[2], 1), 2)),
              batch(term(t, 3, o[3], 2), 3))

\* One running sequence of powers: the trace at the three points, then the four
\* coordinate columns (the limbs of the opened composition leaf) at the first.
RowValue(t, c, p, o, pt, g) ==
  LET zs == SamplePoints(pt)
      pw == Powers(g)
      term(f, i, v, n) == QuotTerm(f, p.im, LineCoeffs(zs[i].y, v, pw[n]))
      limb(v, i, n) == term(Qm31FromM31(v), 1, o[i], n)
      num0 == Qm31Add(term(t, 1, o[1], 0),
                Qm31Add(Qm31Add(limb(c.c0, 4, 3), limb(c.c1, 5, 4)),
                        Qm31Add(limb(c.c2, 6, 5), limb(c.c3, 7, 6))))
      batch(num, i) == Qm31Mul(num, Qm31Inv(Denom(zs[i], p)))
  IN  Qm31Add(Qm31Add(batch(num0, 1), batch(term(t, 2, o[2], 1), 2)),
              batch(term(t, 3, o[3], 2), 3))
=============================================================================
