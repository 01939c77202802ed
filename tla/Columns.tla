------------------------------- MODULE Columns -------------------------------
(***************************************************************************)
(* The algebra of one proof, column by column, for a trace that may or may *)
(* not satisfy the AIR and a prover that may misreport an out-of-domain    *)
(* value: commit a composition for alpha, open at the point of z, quotient *)
(* with gamma, fold to the terminal layer.  What the verifier computes at  *)
(* one position is computed at all of them, so that it can be compared     *)
(* with what the columns are.                                              *)
(***************************************************************************)
EXTENDS Gears, Sequences

CONSTANTS
  Traces,       \* trace columns, row by row
  Alphas, Zs, Gammas, Betas,
  Lies          \* what a misreported opening is off by

ASSUME InputsAssumption ==
  /\ STEP \in [re : M31, im : M31]
  /\ DEEP_STEP = STEP  \* the two contracts' copies of SX, SY
  /\ {SEL, B01} \subseteq [A : M31, B : M31, C : M31]
  /\ Traces \subseteq [Rows -> M31]
  /\ Alphas \cup Zs \cup Gammas \cup Lies \subseteq QM31

\* The sizes double: of exponentials TLAPS's provers know only what is said here.
ASSUME DoublingAssumption ==
  /\ 2 ^ 0 = 1
  /\ \A k \in 0 .. LOG_DOMAIN : 2 ^ k \in Nat \ {0} /\ 2 ^ (k + 1) = 2 * 2 ^ k

\* OFF and H are norm-one elements of order 2^(LOG_DOMAIN + 1) and 2^(LOG_DOMAIN - 1).
ASSUME CosetAssumption ==
  /\ LOG_TRACE < LOG_DOMAIN
  /\ {OFF, H} \subseteq [re : M31, im : M31]
  /\ \A g \in {OFF, H} : M31Add(M31Mul(g.re, g.re), M31Mul(g.im, g.im)) = 1
  /\ Doubled(OFF, LOG_DOMAIN) = Cm(P - 1, 0)
  /\ Doubled(H, LOG_DOMAIN - 2) = Cm(P - 1, 0)

VARIABLES
  stage,
  rows,         \* the trace
  alpha, ccol,  \* its composition column
  zpt,          \* the out-of-domain point
  openings,     \* the values reported there
  lied,         \* which opening is misreported, 0 for none
  gamma, row,   \* the quotient column
  last          \* the terminal layer

vars == <<stage, rows, alpha, ccol, zpt, openings, lied, gamma, row, last>>

Init ==
  /\ stage = "trace" /\ rows \in Traces
  /\ alpha = << >> /\ ccol = << >> /\ zpt = << >> /\ openings = << >> /\ lied = 0
  /\ gamma = << >> /\ row = << >> /\ last = << >>

Compose(a) ==
  /\ stage = "trace" /\ stage' = "composed"
  /\ alpha' = a /\ ccol' = CompColumn(rows, a)
  /\ UNCHANGED <<rows, zpt, openings, lied, gamma, row, last>>

\* felt-to-point, or a panic where it has no point
Sample(t) ==
  /\ stage = "composed"
  /\ IF FeltToPointRequires(t)
     THEN /\ stage' = "opened"
          /\ zpt' = FeltToPoint(t)
          /\ openings' = Openings(rows, ccol, FeltToPoint(t))
     ELSE stage' = "panicked" /\ UNCHANGED <<zpt, openings>>
  /\ UNCHANGED <<rows, alpha, ccol, lied, gamma, row, last>>

Misreport(i, d) ==
  /\ stage = "opened" /\ lied = 0
  /\ lied' = i /\ openings' = [openings EXCEPT ![i] = Qm31Add(@, d)]
  /\ UNCHANGED <<stage, rows, alpha, ccol, zpt, gamma, row, last>>

\* the quotients at every position, or a panic where one has no denominator
Quotient(g) ==
  /\ stage = "opened"
  /\ IF \A q \in Positions : RowRequires(zpt, Points[q])
     THEN /\ stage' = "row" /\ gamma' = g
          /\ row' = QuotientColumn(TraceColumn(rows, 0), ccol, openings, zpt, g)
     ELSE stage' = "panicked" /\ UNCHANGED <<gamma, row>>
  /\ UNCHANGED <<rows, alpha, ccol, zpt, openings, lied, last>>

FoldDown(bs) ==
  /\ stage = "row" /\ stage' = "folded"
  /\ last' = Terminal(row, bs)
  /\ UNCHANGED <<rows, alpha, ccol, zpt, openings, lied, gamma, row>>

Next ==
  \/ \E a \in Alphas : Compose(a)
  \/ \E t \in Zs : Sample(t)
  \/ \E i \in 1 .. 7, d \in Lies : Misreport(i, d)
  \/ \E g \in Gammas : Quotient(g)
  \/ \E bs \in Betas : FoldDown(bs)

Spec == Init /\ [][Next]_vars

-----------------------------------------------------------------------------
\* The AIR, said of the rows.
SatisfiesAir ==
  /\ rows[0] = 1 /\ rows[1] = 1
  /\ \A n \in Rows : n + 2 \in Rows => rows[n + 2] = M31Add(rows[n + 1], rows[n])

\* A column over the domain that is the extension of its own values on the trace's points.
LowDegree(col) ==
  LET onRows == [p \in Rows |-> EvalAt(col, LOG_DOMAIN, Twiddles, IntoEf(TracePoints[p]))]
  IN  \A q \in Positions :
        col[q] = EvalAt(onRows, LOG_TRACE, TraceTwiddles, IntoEf(Points[q]))

(***************************************************************************)
(* What is folded can be halved: the two members of a pair stand           *)
(* at opposite points of their layer, none of them zero ("no pi-iterated   *)
(* fold-SOURCE layer contains 0", query.clar), and each pair's point maps  *)
(* to the one below it.                                                    *)
(***************************************************************************)
Source(i, p) ==
  LET x[n \in 0 .. i] == IF n < 2 THEN QueryX(p * 2 ^ i) ELSE PiX(x[n - 1])
  IN  IF i = 0 THEN QueryPoint(p).im ELSE x[i]

FoldSourcesPair ==
  stage = "row" =>
    \A i \in 0 .. (LOG_DOMAIN - 2) : \A p \in 0 .. (2 ^ (LOG_DOMAIN - 1 - i) - 1) :
      /\ Twiddles[i][p] # 0
      /\ Source(i, 2 * p) = Twiddles[i][p]
      /\ Source(i, 2 * p + 1) = M31Sub(0, Twiddles[i][p])
      /\ i > 0 => PiX(Twiddles[i][p]) = Source(i + 1, p)
      /\ i = 0 => QueryX(2 * p) = Source(1, p)

(***************************************************************************)
(* The column interpolated from the rows takes the rows' values at the     *)
(* points of the trace coset, in the coset's order, and its rotation by r  *)
(* rows is its translation by r steps (the sanity assertions of prove.rs,  *)
(* there at six rows and one probe).                                       *)
(***************************************************************************)
RotationIdentity ==
  /\ \A n \in Rows : EvalTrace(rows, 0, IntoEf(TraceCosetAt(n))) = Qm31FromM31(rows[n])
  /\ \A q \in Positions :
       LET p == IntoEf(Points[q])
           p1 == PointAddBase(p, STEP)
       IN  /\ EvalTrace(rows, 1, p) = EvalTrace(rows, 0, p1)
           /\ EvalTrace(rows, 2, p) = EvalTrace(rows, 0, PointAddBase(p1, STEP))

(***************************************************************************)
(* The composition column is of low degree for exactly the traces that     *)
(* satisfy the AIR: the wrapped rows are excused, no others.               *)
(***************************************************************************)
CompositionWitnessesTrace == stage = "composed" => (LowDegree(ccol) <=> SatisfiesAir)

(***************************************************************************)
(* The closure passes for exactly the true openings of a trace that        *)
(* satisfies the AIR, at any point that is out of the domain: one in the   *)
(* base field has no conjugate line, and the row aborts for it.            *)
(***************************************************************************)
ClosureBindsOpenings ==
  stage = "opened" /\ LineCoeffsRequires(zpt.y) =>
    (CairComposeCheck(openings, zpt, alpha) <=> SatisfiesAir /\ lied = 0)

(***************************************************************************)
(* The quotient column is of low degree for exactly the true openings of a *)
(* low-degree composition, so a misreported value survives no fold.        *)
(***************************************************************************)
RowBindsOpenings == stage = "row" => (LowDegree(row) <=> SatisfiesAir /\ lied = 0)

\* the line through a point of the secure field and its conjugate, at p
PairVanishing(pt, p) ==
  LET pc == [x |-> ConjU(pt.x), y |-> ConjU(pt.y)]
      ef == IntoEf(p)
  IN  Qm31Add(Qm31Add(Qm31Mul(Qm31Sub(pt.y, pc.y), ef.x), Qm31Mul(Qm31Sub(pc.x, pt.x), ef.y)),
              Qm31Sub(Qm31Mul(pt.x, pc.y), Qm31Mul(pt.y, pc.x)))

\* w * (f - line through the value and its conjugate) / pair_vanishing, scaled by 4R
\* times the high half of the point's y
ClassicTerm(f, pt, p, v, w) ==
  LET ef == IntoEf(p)
      pc == [x |-> ConjU(pt.x), y |-> ConjU(pt.y)]
      slope == Qm31Mul(Qm31Sub(pc.y, pt.y), ONE)
      interp == Qm31Add(v, Qm31Mul(Qm31Mul(Qm31Sub(ConjU(v), v), Qm31Sub(ef.y, pt.y)),
                                   Qm31Inv(slope)))
      scale == Qm31Mul(Qm31FromM31(4 % P), FromHalves(CmMulR(High(pt.y)), Cm(0, 0)))
  IN  Qm31Mul(scale, Qm31Mul(w, Qm31Mul(Qm31Sub(f, interp), Qm31Inv(PairVanishing(pt, p)))))

\* the sum of seven such terms, one per opening
ClassicRow(t, c, p) ==
  LET z1 == PointAddBase(zpt, STEP)
      z2 == PointAddBase(z1, STEP)
      pw[n \in 0 .. 6] == IF n = 0 THEN ONE ELSE Qm31Mul(gamma, pw[n - 1])
      term(f, pt, i) == ClassicTerm(f, pt, p, openings[i], pw[i - 1])
  IN  Qm31Add(Qm31Add(Qm31Add(term(t, zpt, 1), term(t, z1, 2)),
                      Qm31Add(term(t, z2, 3), term(Qm31FromM31(c.c0), zpt, 4))),
              Qm31Add(Qm31Add(term(Qm31FromM31(c.c1), zpt, 5), term(Qm31FromM31(c.c2), zpt, 6)),
                      term(Qm31FromM31(c.c3), zpt, 7)))

(***************************************************************************)
(* The row the contract computes is, up to a factor per sample point, the  *)
(* textbook quotient by the line through the point and its conjugate (the  *)
(* identity cdeep.test.ts pins at one position).                           *)
(***************************************************************************)
RowIsClassicQuotient ==
  stage = "row" =>
    LET t == TraceColumn(rows, 0)
    IN  \A q \in Positions : row[q] = ClassicRow(t[q], ccol[q], Points[q])

(***************************************************************************)
(* The two terminal values agree for exactly the true openings of a trace  *)
(* that satisfies the AIR: what LastLayer compares tells them apart.       *)
(***************************************************************************)
TerminalTellsTraces == stage = "folded" => (last[0] = last[1] <=> SatisfiesAir /\ lied = 0)
=============================================================================
