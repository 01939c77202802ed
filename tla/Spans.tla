------------------------------- MODULE Spans --------------------------------
(***************************************************************************)
(* tools/params.py: the parameter points and what follows from one; and    *)
(* tools/spans.py with the gates of tools/flatten.py that go with it: the  *)
(* definitions of the gears that depend on the parameter point.  Sources   *)
(* are a record of gears, a gear a record of those definitions, and a      *)
(* definition is the numbers in it: a constant its value, a list its       *)
(* length, an unrolled cascade its layers.  A gear without such a          *)
(* definition is left out, as is the text around them.                     *)
(***************************************************************************)
EXTENDS Qm31, Sequences, FiniteSetsExt, TLC

CONSTANTS
  G,          \* generator of the circle group
  LOG_ORDER,  \* ... whose order is 2^LOG_ORDER
  HASH_BITS,  \* bits of the hash the grinding gate compares
  TOY_POINT,  \* the point the gears are written at
  CheckedIn,  \* the gears, as they were reviewed
  CAP_FLOOR   \* the smallest cap of a list (32)

ASSUME PointsAssumption ==
  /\ G.re \in M31 /\ G.im \in M31
  /\ LOG_ORDER \in Nat \ {0, 1} /\ HASH_BITS \in Nat

\* The one law of powers that the proofs use, which the provers know nothing of.
ASSUME PowersAssumption ==
  \A m \in 0 .. HASH_BITS : \A n \in 0 .. (HASH_BITS - m) :
    2 ^ m \in Nat \ {0} /\ 2 ^ (m + n) = 2 ^ m * 2 ^ n

-----------------------------------------------------------------------------
(***************************************************************************)
(* The generator's order is a constant, so that the circle group of a      *)
(* small Mersenne prime has the shape of the production one.               *)
(***************************************************************************)
Point == [log_trace : Nat, log_blowup : Nat, n_queries : Nat, pow_bits : Nat, air_id : Nat]

LogDomain(p) == p.log_trace + p.log_blowup

\* one square-and-multiply step on the circle
SquareStep(st) ==
  [ r |-> IF st.e % 2 = 1 THEN CmMul(st.r, st.b) ELSE st.r,
    b |-> CmMul(st.b, st.b),
    e |-> st.e \div 2 ]

\* base^exp, as far as so many steps reach
PowIn(steps, base, exp) ==
  LET st[i \in 0 .. steps] ==
        IF i = 0 THEN [r |-> Cm(1, 0), b |-> base, e |-> exp] ELSE SquareStep(st[i - 1])
  IN  st[steps].r

CPow(base, exp) == PowIn(LOG_ORDER + 1, base, exp)

\* pt has order n, a power of two
OrderIs(pt, n) == CPow(pt, n) = Cm(1, 0) /\ CPow(pt, n \div 2) # Cm(1, 0)

\* coefficients of the line through two points
LineConsts(e0, e1) ==
  [ A |-> M31Sub(e0.im, e1.im),
    B |-> M31Sub(e1.re, e0.re),
    C |-> M31Sub(M31Mul(e0.re, e1.im), M31Mul(e0.im, e1.re)) ]

Off(p) == CPow(G, 2 ^ (LOG_ORDER - 1 - LogDomain(p)))
HalfStep(p) == CPow(G, 2 ^ (LOG_ORDER + 1 - LogDomain(p)))
TraceStep(p) == CPow(G, 2 ^ (LOG_ORDER - p.log_trace))
TraceRow(p, k) == CmMul(CPow(G, 2 ^ (LOG_ORDER - 1 - p.log_trace)), CPow(TraceStep(p), k))

\* the assertions of derived()
Derivable(p) ==
  /\ OrderIs(Off(p), 2 ^ (LogDomain(p) + 1))
  /\ OrderIs(HalfStep(p), 2 ^ (LogDomain(p) - 1))
  /\ OrderIs(TraceStep(p), 2 ^ p.log_trace)
  /\ p.log_blowup = 1 => HalfStep(p) = TraceStep(p)

Derived(p) ==
  LET rows == 2 ^ p.log_trace IN
  [ LOG_DOMAIN |-> LogDomain(p), DOMAIN_SIZE |-> 2 ^ LogDomain(p),
    N_LAYERS |-> LogDomain(p) - 1, BLOWUP |-> 2 ^ p.log_blowup, TRACE_ROWS |-> rows,
    OFF |-> Off(p), H |-> HalfStep(p), SX |-> TraceStep(p).re, SY |-> TraceStep(p).im,
    SEL |-> LineConsts(TraceRow(p, rows - 2), TraceRow(p, rows - 1)),
    B01 |-> LineConsts(TraceRow(p, 0), TraceRow(p, 1)),
    POW_THRESHOLD |-> 2 ^ (HASH_BITS - p.pow_bits),
    PARAMS |-> <<p.n_queries, LogDomain(p) - 1, 2 ^ p.log_blowup, p.pow_bits, p.air_id>> ]

-----------------------------------------------------------------------------
ASSUME SpansAssumption == TOY_POINT \in Point /\ CAP_FLOOR \in Nat

GearNames == DOMAIN CheckedIn
POwners == {g \in GearNames : "P" \in DOMAIN CheckedIn[g]}

\* Faulty variant: the cap that is enough for the toy point.
ListCapToy(d) == CAP_FLOOR

\* one cap for the lists of challenges and indices
ListCap(d) == Max({CAP_FLOOR, d.N_LAYERS, d.PARAMS[1]})

\* the i-th entry is i with its bits reversed
BitRevTable(bits) ==
  [i \in 1 .. 2 ^ bits |->
     LET st[n \in 0 .. bits] ==
           IF n = 0 THEN [q |-> i - 1, r |-> 0]
           ELSE [q |-> st[n - 1].q \div 2, r |-> st[n - 1].r * 2 + (st[n - 1].q % 2)]
     IN  st[bits].r]

\* Faulty variant: the multiplier of the layer before.
LineXBefore(k) == [div |-> 2 ^ k, scale |-> 2 ^ (k - 1), pis |-> k - 1]

\* line-x_k: what the index is divided by, the multiplier of the even position, and
\* the doublings of the x there
LineX(k) == [div |-> 2 ^ k, scale |-> 2 ^ k, pis |-> k - 1]

\* Layer k of verify-query: what the position is divided by, the length of the
\* pair's path, and the hint, beta and root it reads; the twiddle helpers come with it.
Cascade(d) ==
  [ depth |-> d.LOG_DOMAIN,
    layers |-> [k \in 0 .. (d.N_LAYERS - 1) |->
                  [div |-> 2 ^ k, parents |-> d.LOG_DOMAIN - 1 - k, at |-> k]],
    lines |-> [k \in 3 .. (d.N_LAYERS - 1) |-> LineX(k)] ]

\* Definitions whose checked-in text is what is rendered: everywhere, or at the toy point.
Pinned == {<<"cair", "mask_point">>, <<"cdeep", "deep_row">>}
ToyPinned == {<<"driver", "verify_query">>, <<"driver", "query_step">>, <<"driver", "verify">>}

PinsHold(src, p) ==
  \A s \in Pinned \cup (IF p = TOY_POINT THEN ToyPinned ELSE {}) :
    src[s[1]][s[2]] = CheckedIn[s[1]][s[2]]

\* Faulty variant: the doublings counted from the domain, which is the same at the toy point.
CosetVanishDomain(p) == LogDomain(p) - 2

\* coset-vanish: how often the x coordinate is doubled
CosetVanish(p) == p.log_trace - 1

DriverSpans(p, d) ==
  LET toy == p = TOY_POINT
      Of(n, made) == IF toy THEN CheckedIn.driver[n] ELSE made
  IN  [ VERSION |-> IF toy THEN 1 ELSE 2, PARAMS |-> d.PARAMS,
        verify_query |-> Of("verify_query", Cascade(d)),
        query_step |-> Of("query_step", ListCap(d)),
        verify |->
          Of("verify", [roots |-> d.N_LAYERS, queries |-> p.n_queries, env |-> d.N_LAYERS]) ]

\* render_span for every span, the pinned slices being those checked in
Render(p) ==
  LET d == Derived(p) IN
  [ query |->
      [ DOMAIN_SIZE |-> d.DOMAIN_SIZE, HALF |-> d.DOMAIN_SIZE \div 2,
        CM_POW_BOUND |-> d.DOMAIN_SIZE \div 2, CM_STEPS |-> d.LOG_DOMAIN - 1,
        OFF |-> d.OFF, H |-> d.H,
        bitrev |-> IF p = TOY_POINT THEN [table |-> BitRevTable(d.LOG_DOMAIN), bits |-> 0]
                   ELSE [table |-> << >>, bits |-> d.LOG_DOMAIN] ],
    schedule |->
      [ N |-> p.n_queries, L |-> d.N_LAYERS, DOMAIN_SIZE |-> d.DOMAIN_SIZE,
        POW_THRESHOLD |-> d.POW_THRESHOLD, QUERY_COUNTER |-> p.n_queries,
        fri_beta_step |-> ListCap(d), query_idx_step |-> ListCap(d) ],
    cair |->
      [ SX |-> d.SX, SY |-> d.SY, SEL |-> d.SEL, B01 |-> d.B01,
        coset_vanish |-> CosetVanish(p), mask_point |-> CheckedIn.cair.mask_point ],
    cdeep |-> [SX |-> d.SX, SY |-> d.SY, deep_row |-> CheckedIn.cdeep.deep_row],
    driver |-> DriverSpans(p, d) ]

\* The sources with every span rendered again, the other definitions as they are.
Templated(src, rendered) ==
  LET Spanned(g) == IF g \in DOMAIN rendered THEN DOMAIN rendered[g] ELSE {}
  IN  [g \in GearNames |->
         [n \in Spanned(g) \cup DOMAIN src[g] |->
            IF n \in Spanned(g) THEN rendered[g][n] ELSE src[g][n]]]

-----------------------------------------------------------------------------
(***************************************************************************)
(* The gates of build() at a point; src is what came out of templating.    *)
(***************************************************************************)
CheckCoupledConstants(src, p) ==
  LET params == src.driver.PARAMS
      sched == src.schedule
  IN  /\ \A g \in POwners : src[g].P = P
      /\ src.cair.SX = src.cdeep.SX /\ src.cair.SY = src.cdeep.SY
      /\ src.query.DOMAIN_SIZE = sched.DOMAIN_SIZE
      /\ params[1] = sched.N /\ params[2] = sched.L
      /\ sched.DOMAIN_SIZE = 2 ^ p.log_trace * params[3]
      /\ sched.POW_THRESHOLD = 2 ^ (HASH_BITS - params[4])
      /\ sched.QUERY_COUNTER = sched.N
      /\ sched.get_params = [n |-> "N", l |-> "L", domain_size |-> "DOMAIN_SIZE"]

CheckMathAnchor(src, d) ==
  /\ src.query.OFF = d.OFF /\ src.query.H = d.H
  /\ \A g \in {"cair", "cdeep"} : src[g].SX = d.SX /\ src[g].SY = d.SY
  /\ src.schedule.DOMAIN_SIZE = d.DOMAIN_SIZE
  /\ src.schedule.POW_THRESHOLD = d.POW_THRESHOLD
  /\ src.driver.PARAMS = d.PARAMS

\* a declared list is not longer than the callee's parameter
CheckListCovariance(src) == src.driver.verify.roots <= src.schedule.derive_challenges

\* What the oracle and the templates say at a point.
Oracle(p) == [holds |-> Derivable(p), derived |-> Derived(p), spans |-> Render(p)]

\* Faulty variant: the checked-in bytes not compared with what the templates say.
BuildsUnlessDrifted(src, p, oracle) ==
  /\ PinsHold(src, p) /\ oracle.holds
  /\ LET t == IF p = TOY_POINT THEN src ELSE Templated(src, oracle.spans)
     IN  CheckCoupledConstants(t, p) /\ CheckMathAnchor(t, oracle.derived) /\ CheckListCovariance(t)

\* The toy gears must be what their templates say, byte for byte.
Builds(src, p, oracle) ==
  /\ PinsHold(src, p) /\ oracle.holds
  /\ LET t == Templated(src, oracle.spans)
     IN  /\ p = TOY_POINT => t = src
         /\ CheckCoupledConstants(t, p) /\ CheckMathAnchor(t, oracle.derived)
         /\ CheckListCovariance(t)

-----------------------------------------------------------------------------
(***************************************************************************)
(* What contracts with such sources compute: query.clar, the twiddles of   *)
(* driver.clar and the lines of cair.clar, read off their constants.       *)
(***************************************************************************)
BitRev(src, q) ==
  IF src.query.bitrev.table # << >> THEN src.query.bitrev.table[q + 1]
  ELSE LET st[n \in 0 .. src.query.bitrev.bits] ==
             IF n = 0 THEN [q |-> q, r |-> 0]
             ELSE [q |-> st[n - 1].q \div 2, r |-> st[n - 1].r * 2 + (st[n - 1].q % 2)]
       IN  st[src.query.bitrev.bits].r

\* i modulo the half-coset
Exponent(src, i) == IF i < src.query.HALF THEN i ELSE i - src.query.HALF

\* query-point aborts otherwise
QueryPointRequires(src, q) ==
  /\ q < IF src.query.bitrev.table # << >> THEN Len(src.query.bitrev.table) ELSE src.query.DOMAIN_SIZE
  /\ BitRev(src, q) < src.query.DOMAIN_SIZE
  /\ Exponent(src, BitRev(src, q)) < src.query.CM_POW_BOUND

QueryPoint(src, q) ==
  LET i == BitRev(src, q)
      base == CmMul(src.query.OFF, PowIn(src.query.CM_STEPS, src.query.H, Exponent(src, i)))
  IN  IF i < src.query.HALF THEN base ELSE Cm(base.re, M31Sub(0, base.im))

Even(m) == m - (m % 2)
Double(x) == M31Sub(M31Mul(2, M31Mul(x, x)), 1)

Doubled(x, times) == LET d[n \in 0 .. times] == IF n = 0 THEN x ELSE Double(d[n - 1]) IN d[times]

\* Layer k's helper: the gear's own for the first two line layers.
LineOf(src, k) == IF k <= 2 THEN src.driver.line_x[k] ELSE src.driver.verify_query.lines[k]

\* the index whose point gives the twiddle of layer k for index q
TwiddleIndex(src, k, q) ==
  IF k = 0 THEN Even(q) ELSE LET l == LineOf(src, k) IN l.scale * Even(q \div l.div)

\* the twiddle: y-twiddle, then line-x_k; at is query-point
Twiddle(src, at, k, q) ==
  LET pt == at[TwiddleIndex(src, k, q)]
  IN  IF k = 0 THEN pt.im ELSE Doubled(pt.re, LineOf(src, k).pis)

LineAt(line, pt) == M31Add(M31Add(M31Mul(line.A, pt.re), M31Mul(line.B, pt.im)), line.C)
=============================================================================
