-------------------------------- MODULE Gears --------------------------------
(***************************************************************************)
(* The columns of interop/src/bin/prove.rs on the circle domain of         *)
(* query.clar.  Interpolation and evaluation are Stwo's (external): a      *)
(* column of 2^n values is one element of the span of the products of y,   *)
(* x, pi(x), ... and a pair of values splits into its even and odd part.   *)
(***************************************************************************)
EXTENDS QueryPoints, Cair, Cdeep

LOG_BLOWUP == LOG_DOMAIN - LOG_TRACE
Rows == 0 .. (2 ^ LOG_TRACE - 1)

Doubled(pt, n) ==
  LET d[i \in 0 .. n] == IF i = 0 THEN pt ELSE CmMul(d[i - 1], d[i - 1]) IN d[n]

\* CanonicCoset::new(log_trace): its circle domain, and its points row by row
TraceOff == Doubled(OFF, LOG_BLOWUP)
TraceH   == Doubled(H, LOG_BLOWUP)
TraceDomain ==
  INSTANCE QueryPoints WITH LOG_DOMAIN <- LOG_TRACE, OFF <- TraceOff, H <- TraceH

TraceStep == CmMul(TraceOff, TraceOff)
TraceCosetAt(n) ==
  LET at[i \in 0 .. n] == IF i = 0 THEN TraceOff ELSE CmMul(at[i - 1], TraceStep) IN at[n]

\* the line through two points; SEL and B01 are these
LineThrough(e0, e1) ==
  [ A |-> M31Sub(e0.im, e1.im), B |-> M31Sub(e1.re, e0.re),
    C |-> M31Sub(M31Mul(e0.re, e1.im), M31Mul(e1.re, e0.im)) ]

LastRowsLine == LineThrough(TraceCosetAt(2 ^ LOG_TRACE - 2), TraceCosetAt(2 ^ LOG_TRACE - 1))
FirstRowsLine == LineThrough(TraceCosetAt(0), TraceCosetAt(1))

FibColumn ==
  LET t[n \in Rows] == IF n < 2 THEN 1 ELSE M31Add(t[n - 1], t[n - 2]) IN t

\* Faulty variant: rows laid out in the order of the domain.
RowIndexInOrder(n) == n

\* coset_index_to_domain_index: even rows in the half-coset, odd ones among the conjugates
RowIndex(n) == IF n % 2 = 0 THEN n \div 2 ELSE 2 ^ LOG_TRACE - (n + 1) \div 2

-----------------------------------------------------------------------------
\* The domains' points and twiddles, in the order columns are stored in.
Points == [q \in Positions |-> QueryPoint(q)]
TracePoints == [q \in Rows |-> TraceDomain!QueryPoint(q)]

Twiddles ==
  [i \in 0 .. (LOG_DOMAIN - 1) |->
     [n \in 0 .. (2 ^ (LOG_DOMAIN - 1 - i) - 1) |-> PairTwiddle(i, 2 * n)]]
TraceTwiddles ==
  [i \in 0 .. (LOG_TRACE - 1) |->
     [n \in 0 .. (2 ^ (LOG_TRACE - 1 - i) - 1) |-> TraceDomain!PairTwiddle(i, 2 * n)]]

\* interpolate, then eval_at_point
EvalAt(col, log, twiddles, pt) ==
  LET at[i \in 0 .. log] == IF i = 0 THEN pt.y ELSE IF i = 1 THEN pt.x ELSE Qpi(at[i - 1])
      layer[i \in 0 .. log] ==
        IF i = 0 THEN col
        ELSE [n \in 0 .. (2 ^ (log - i) - 1) |->
                LET a == layer[i - 1][2 * n]
                    b == layer[i - 1][2 * n + 1]
                    odd == Qm31MulM31(Qm31Sub(a, b), M31Inv(twiddles[i - 1][n]))
                IN  Qm31MulM31(Qm31Add(Qm31Add(a, b), Qm31Mul(at[i - 1], odd)), M31Inv(2))]
  IN  layer[log][0]

\* a base-field point among those of the secure field
IntoEf(p) == [x |-> Qm31FromM31(p.re), y |-> Qm31FromM31(p.im)]

\* interp_rot: the trace rotated by r rows, in the trace domain's order
Interpolated(t, r) ==
  [p \in Rows |->
     LET n == CHOOSE n \in Rows : TraceDomain!BitRev(RowIndex(n)) = p
     IN  Qm31FromM31(t[(n + r) % 2 ^ LOG_TRACE])]

EvalTrace(t, r, pt) == EvalAt(Interpolated(t, r), LOG_TRACE, TraceTwiddles, pt)

\* evaluate(lde), for the trace rotated by r rows
TraceColumn(t, r) == [q \in Positions |-> EvalTrace(t, r, IntoEf(Points[q]))]

\* line_m and vanish, at a point of the domain
LineM(line, p) == M31Add(M31Add(M31Mul(p.re, line.A), M31Mul(p.im, line.B)), line.C)
Vanish(x) ==
  LET v[n \in 0 .. (LOG_TRACE - 1)] == IF n = 0 THEN x ELSE PiX(v[n - 1]) IN v[LOG_TRACE - 1]

\* Faulty variant: the transition required of the last rows as well.
CompColumnNoSelector(t, a) ==
  LET t0 == TraceColumn(t, 0)
      t1 == TraceColumn(t, 1)
      t2 == TraceColumn(t, 2)
      at(q) ==
        LET p == Points[q]
            qt == Qm31MulM31(EvalTransition(t0[q], t1[q], t2[q]), M31Inv(Vanish(p.re)))
            qb == Qm31MulM31(Qm31Sub(t0[q], ONE), M31Inv(LineM(B01, p)))
        IN  Qm31Add(qt, Qm31Mul(a, qb))
  IN  [q \in Positions |-> at(q)]

\* the composition column
CompColumn(t, a) ==
  LET t0 == TraceColumn(t, 0)
      t1 == TraceColumn(t, 1)
      t2 == TraceColumn(t, 2)
      at(q) ==
        LET p == Points[q]
            qt == Qm31MulM31(EvalTransition(t0[q], t1[q], t2[q]),
                             M31Mul(LineM(SEL, p), M31Inv(Vanish(p.re))))
            qb == Qm31MulM31(Qm31Sub(t0[q], ONE), M31Inv(LineM(B01, p)))
        IN  Qm31Add(qt, Qm31Mul(a, qb))
  IN  [q \in Positions |-> at(q)]

\* the seven out-of-domain openings; each coordinate column is interpolated on its own
Openings(t, ccol, pt) ==
  LET z1 == PointAddBase(pt, TraceStep)
      coords(v) == <<v.c0, v.c1, v.c2, v.c3>>
      limb(i) ==
        EvalAt([q \in Positions |-> Qm31FromM31(coords(ccol[q])[i])], LOG_DOMAIN, Twiddles, pt)
  IN  << EvalTrace(t, 0, pt), EvalTrace(t, 0, z1), EvalTrace(t, 0, PointAddBase(z1, TraceStep)),
         limb(1), limb(2), limb(3), limb(4) >>

\* accumulate_row_quotients over the domain
QuotientColumn(tcol, ccol, o, pt, g) ==
  [q \in Positions |-> RowValue(tcol[q], ccol[q], Points[q], o, pt, g)]

\* fold_circle_into_line and fold_line down to the layer of size 2
Terminal(row, bs) ==
  LET layer[i \in 0 .. (LOG_DOMAIN - 1)] ==
        IF i = 0 THEN row
        ELSE [n \in 0 .. (2 ^ (LOG_DOMAIN - i) - 1) |->
                FriFoldStep(layer[i - 1][2 * n], layer[i - 1][2 * n + 1],
                            Twiddles[i - 1][n], bs[i])]
  IN  layer[LOG_DOMAIN - 1]
=============================================================================
