-------------------------------- MODULE Cair --------------------------------
(***************************************************************************)
(* contracts/cair.clar: the Fibonacci AIR at one out-of-domain point.  The *)
(* transition t[k+2] = t[k+1] + t[k] holds on every row but the last two;  *)
(* the boundary is that the first two rows are one.                        *)
(***************************************************************************)
EXTENDS Qm31

CONSTANTS
  LOG_TRACE,  \* the trace has 2^LOG_TRACE rows
  STEP,       \* from one row's point to the next (SX, SY)
  SEL, B01    \* [A, B, C]: the lines through the last two and the first two rows

ASSUME CairAssumption == LOG_TRACE \in Nat \ {0}

ONE == Qm31FromM31(1)

\* stereographic: x = (1 - t^2)/(1 + t^2), y = 2t/(1 + t^2)
FeltToPointRequires(t) == Qm31InvRequires(Qm31Add(ONE, Qm31Mul(t, t)))

FeltToPoint(t) ==
  LET tsq  == Qm31Mul(t, t)
      dinv == Qm31Inv(Qm31Add(ONE, tsq))
  IN  [x |-> Qm31Mul(Qm31Sub(ONE, tsq), dinv), y |-> Qm31Mul(Qm31Add(t, t), dinv)]

\* the circle's group law, with a base-field point b
PointAddBase(pt, b) ==
  [ x |-> Qm31Sub(Qm31MulM31(pt.x, b.re), Qm31MulM31(pt.y, b.im)),
    y |-> Qm31Add(Qm31MulM31(pt.x, b.im), Qm31MulM31(pt.y, b.re)) ]

Qpi(v) == LET vv == Qm31Mul(v, v) IN Qm31Sub(Qm31Add(vv, vv), ONE)

\* zero on the trace coset: the doubling map once less than there are halvings
CosetVanish(x) ==
  LET v[n \in 0 .. (LOG_TRACE - 1)] == IF n = 0 THEN x ELSE Qpi(v[n - 1])
  IN  v[LOG_TRACE - 1]

LineAt(line, pt) ==
  Qm31Add(Qm31Add(Qm31MulM31(pt.x, line.A), Qm31MulM31(pt.y, line.B)), Qm31FromM31(line.C))

EvalTransition(tz, tgz, tg2z) == Qm31Sub(Qm31Sub(tg2z, tgz), tz)

\* neither constraint's denominator vanishes
CairQuotientsRequires(pt) ==
  Qm31InvRequires(CosetVanish(pt.x)) /\ Qm31InvRequires(LineAt(B01, pt))

CairQuotients(tz, tgz, tg2z, pt) ==
  [ qTrans |-> Qm31Mul(Qm31Mul(EvalTransition(tz, tgz, tg2z), LineAt(SEL, pt)),
                       Qm31Inv(CosetVanish(pt.x))),
    qB     |-> Qm31Mul(Qm31Sub(tz, ONE), Qm31Inv(LineAt(B01, pt))) ]

CairCompose(tz, tgz, tg2z, pt, a) ==
  LET q == CairQuotients(tz, tgz, tg2z, pt) IN Qm31Add(q.qTrans, Qm31Mul(a, q.qB))

\* the four coordinate openings back into one value
Recomb(c0, c1, c2, c3) ==
  LET basis(i, u, iu) == [c0 |-> 0, c1 |-> i, c2 |-> u, c3 |-> iu]
  IN  Qm31Add(Qm31Add(c0, Qm31Mul(basis(1, 0, 0), c1)),
              Qm31Add(Qm31Mul(basis(0, 1, 0), c2), Qm31Mul(basis(0, 0, 1), c3)))

\* Faulty variant: the boundary quotient outside the composition.
CairComposeCheckNoBoundary(o, pt, a) ==
  /\ CairQuotientsRequires(pt)
  /\ CairQuotients(o[1], o[2], o[3], pt).qTrans = Recomb(o[4], o[5], o[6], o[7])

\* the openings T(z), T(z+S), T(z+2S) and the coordinates of C(z) close the AIR
CairComposeCheck(o, pt, a) ==
  /\ CairQuotientsRequires(pt)
  /\ CairCompose(o[1], o[2], o[3], pt, a) = Recomb(o[4], o[5], o[6], o[7])
=============================================================================
