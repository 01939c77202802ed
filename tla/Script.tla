------------------------------- MODULE Script -------------------------------
(***************************************************************************)
(* The mathematics of tools/gear6e_replay.py at the toy point, which takes *)
(* nothing from the contracts nor from Stwo: the domain from the generator *)
(* of the circle and a table of positions, columns by solving for their    *)
(* coefficients over a basis, constraints by lines through two rows, and   *)
(* the quotients batch by batch.                                           *)
(***************************************************************************)
EXTENDS Gears, SequencesExt

CONSTANTS
  G,         \* generator of the circle group
  LOG_ORDER  \* the group has 2^LOG_ORDER elements (31)

ZERO == Qm31FromM31(0)
Sum(vs) == FoldLeft(Qm31Add, ZERO, vs)

\* gp: the generator's power
Gp(e) ==
  LET st[i \in 0 .. LOG_ORDER] ==
        IF i = 0 THEN [r |-> Cm(1, 0), b |-> G, e |-> e] ELSE CmPowStep(st[i - 1])
  IN  st[LOG_ORDER].r

\* the points of the trace's rows, as points of the secure field
RowPoints ==
  [k \in Rows |-> IntoEf(Gp(2 ^ (LOG_ORDER - 1 - LOG_TRACE) + k * 2 ^ (LOG_ORDER - LOG_TRACE)))]

\* where the committed columns are evaluated
BITREV4 == <<0, 8, 4, 12, 2, 10, 6, 14, 1, 9, 5, 13, 3, 11, 7, 15>>
DrawnPoints ==
  LET off == Gp(2 ^ (LOG_ORDER - 1 - LOG_DOMAIN))
      step == 2 ^ (LOG_ORDER + 1 - LOG_DOMAIN)
      at(i) == IF i < HALF THEN CmMul(off, Gp(i * step)) ELSE Conj(CmMul(off, Gp((i - HALF) * step)))
  IN  [q \in Positions |-> at(BITREV4[q + 1])]

-----------------------------------------------------------------------------
\* 1, x, pi(x), x pi(x), ... and the same times y
BasisAt(pt) ==
  LET x[i \in 1 .. LOG_TRACE] == IF i = 1 THEN pt.x ELSE Qpi(x[i - 1])
      Times(v, bs) == [n \in DOMAIN bs |-> Qm31Mul(v, bs[n])]
      b[i \in 1 .. LOG_TRACE] ==
        IF i = 1 THEN <<ONE>> ELSE b[i - 1] \o Times(x[i - 1], b[i - 1])
  IN  b[LOG_TRACE] \o Times(pt.y, b[LOG_TRACE])

\* One column cleared: the first row with an entry there takes the place of row c,
\* has its entry made one, and is taken from the others.
Clear(m, c) ==
  LET pivot == CHOOSE r \in c .. Len(m) : m[r][c] # ZERO /\ \A s \in c .. (r - 1) : m[s][c] = ZERO
      swapped == [m EXCEPT ![c] = m[pivot], ![pivot] = m[c]]
      inverse == Qm31Inv(swapped[c][c])
      scaled == [swapped EXCEPT ![c] = [n \in DOMAIN @ |-> Qm31Mul(@[n], inverse)]]
      Less(row) == [n \in DOMAIN row |-> Qm31Sub(row[n], Qm31Mul(row[c], scaled[c][n]))]
  IN  [r \in DOMAIN m |-> IF r = c THEN scaled[c] ELSE Less(scaled[r])]

\* Gauss-Jordan: what is left is the last column
Solve(rows, rhs) ==
  LET n == Len(rows)
      m == FoldLeft(Clear, [r \in 1 .. n |-> Append(rows[r], rhs[r])], [c \in 1 .. n |-> c])
  IN  FoldLeft(LAMBDA xs, row : Append(xs, row[n + 1]), << >>, m)

\* the coefficients of a column of 2^LOG_TRACE values at as many points
Fit(points, values) == Solve([n \in DOMAIN points |-> BasisAt(points[n])], values)
Combined(coefficients, basis) ==
  Sum([n \in DOMAIN basis |-> Qm31Mul(coefficients[n], basis[n])])
ValueAt(coefficients, pt) == Combined(coefficients, BasisAt(pt))

\* the trace as it is in its rows, and as it is committed
FitTrace(t) ==
  Fit([n \in 1 .. 2 ^ LOG_TRACE |-> RowPoints[n - 1]],
      [n \in 1 .. 2 ^ LOG_TRACE |-> Qm31FromM31(t[n - 1])])
Committed(t) ==
  LET tc == FitTrace(t) IN [q \in Positions |-> ValueAt(tc, IntoEf(DrawnPoints[q]))]

-----------------------------------------------------------------------------
\* zero on the line through e0 and e1
PairVan(e0, e1, pt) ==
  Qm31Add(Qm31Add(Qm31Mul(Qm31Sub(e0.y, e1.y), pt.x), Qm31Mul(Qm31Sub(e1.x, e0.x), pt.y)),
          Qm31Sub(Qm31Mul(e0.x, e1.y), Qm31Mul(e0.y, e1.x)))

QTrans(t0, t1, t2, pt) ==
  LET selected == PairVan(RowPoints[2 ^ LOG_TRACE - 2], RowPoints[2 ^ LOG_TRACE - 1], pt)
  IN  Qm31Mul(Qm31Mul(Qm31Sub(Qm31Sub(t2, t1), t0), selected), Qm31Inv(Qpi(Qpi(pt.x))))

QBound(t0, pt) == Qm31Mul(Qm31Sub(t0, ONE), Qm31Inv(PairVan(RowPoints[0], RowPoints[1], pt)))

Compose(t0, t1, t2, pt, a) == Qm31Add(QTrans(t0, t1, t2, pt), Qm31Mul(a, QBound(t0, pt)))

Step(pt) == PointAddBase(pt, Gp(2 ^ (LOG_ORDER - LOG_TRACE)))

\* the trace at a point and its two rotations, from its coefficients
Open3(tc, pt) == <<ValueAt(tc, pt), ValueAt(tc, Step(pt)), ValueAt(tc, Step(Step(pt)))>>

ComposedColumn(t, a) ==
  LET tc == FitTrace(t)
      at(pt) == LET o == Open3(tc, pt) IN Compose(o[1], o[2], o[3], pt, a)
  IN  [q \in Positions |-> at(IntoEf(DrawnPoints[q]))]

\* the coordinates of the composition at a point: of each coefficient, limb by limb
Limbs(v) == <<v.c0, v.c1, v.c2, v.c3>>
LimbsCombined(coefficients, basis) ==
  [i \in 1 .. 4 |->
     Sum([n \in DOMAIN basis |-> Qm31MulM31(basis[n], Limbs(coefficients[n])[i])])]
CoordAt(ccol, pt) ==
  LET first == 1 .. 2 ^ LOG_TRACE
  IN  LimbsCombined(Fit([n \in first |-> IntoEf(DrawnPoints[n - 1])], [n \in first |-> ccol[n - 1]]),
                    BasisAt(pt))

\* the openings of one point: each column's value, what is claimed, its power of gamma
Batch(pt, cols, p) ==
  LET Term(c) == QuotTerm(c.f, p.im, LineCoeffs(pt.y, c.claim, c.power))
  IN  Qm31Mul(Sum([n \in DOMAIN cols |-> Term(cols[n])]), Qm31Inv(Denom(pt, p)))

DeepColumn(tcol, ccol, o, pt, gamma) ==
  LET g == Powers(gamma)
      Col(f, i, n) == [f |-> f, claim |-> o[i], power |-> g[n]]
      at(q) ==
        LET p == DrawnPoints[q]
            limbs == Limbs(ccol[q])
        IN  Sum(<< Batch(pt, <<Col(tcol[q], 1, 0)>>
                               \o [n \in 1 .. 4 |-> Col(Qm31FromM31(limbs[n]), 3 + n, 2 + n)], p),
                   Batch(Step(pt), <<Col(tcol[q], 2, 1)>>, p),
                   Batch(Step(Step(pt)), <<Col(tcol[q], 3, 2)>>, p) >>)
  IN  [q \in Positions |-> at(q)]

\* y, then x, then x doubled once more at each layer, at the pair's first position
FoldBy(i, n) ==
  LET p == DrawnPoints[2 ^ (i + 1) * n]
      x[k \in 1 .. i] == IF k = 1 THEN p.re ELSE PiX(x[k - 1])
  IN  IF i = 0 THEN p.im ELSE x[i]
=============================================================================
