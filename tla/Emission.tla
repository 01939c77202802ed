------------------------------ MODULE Emission ------------------------------
(***************************************************************************)
(* The files that depend on the parameter point, and the programs that     *)
(* write them: flatten.py at both points, the export of params.py, the     *)
(* prover with its own copy of the point.  The programs that compare them  *)
(* change nothing: their verdicts are predicates on the files as they are. *)
(* A contract is its sources: what flattening does to them is Artifacts'.  *)
(***************************************************************************)
EXTENDS SpecDoc

CONSTANTS
  Registered,     \* POINTS, those a full emission may be made at
  Transcriptions, \* what people may write into params.rs
  Slips(_, _),    \* what people may write for a definition of a gear
  GearOrder,      \* the gears in the order they are written to disk
  None,
  MaxEdits        \* bound of the instance

ASSUME EmissionAssumption ==
  /\ Registered \subseteq Point /\ Transcriptions \subseteq Point
  /\ TOY_POINT \notin Registered
  /\ \A p \in Registered \cup Transcriptions :
       LogDomain(p) \in 1 .. HASH_BITS /\ p.pow_bits <= HASH_BITS
  /\ {"query", "schedule", "cair", "cdeep", "driver"} \subseteq GearNames

\* CAND_A, CAND_B, CAND_C and FALLBACK_POINT are told apart by what the drift gate reads.
ASSUME PointsToldApart ==
  \A p, q \in Registered :
    p.n_queries = q.n_queries /\ LogDomain(p) = LogDomain(q) => p = q

VARIABLES
  gears,      \* contracts/*.clar
  point,      \* params.PRODUCTION_POINT
  rust,       \* params::FULL
  export,     \* interop/params-full.json
  flat,       \* verifold-flat.clar
  full,       \* contracts/full/*.clar
  flatFull, prodFull,   \* verifold-flat-full.clar, and the one to deploy
  fixtures,   \* the point the committed production proofs were made at
  kats,       \* the point of tools/kats-full.json
  spec,       \* the generated blocks of docs/protocol-spec.md
  emitting,   \* a full run: the sources it built and the files left to write
  edits

sources == <<gears, point, rust>>
contracts == <<flat, full, flatFull, prodFull>>
written == <<contracts, export, fixtures, kats, spec>>
vars == <<sources, written, emitting, edits>>

\* every point looked up once
Oracles == [p \in Registered \cup {TOY_POINT} |-> Oracle(p)]
DerivedAt == [p \in Registered \cup Transcriptions \cup {TOY_POINT} |-> Derived(p)]
KatsAt == [p \in DOMAIN DerivedAt |-> KatsOf(p, DerivedAt[p])]
Idle == [build |-> None, left |-> << >>]

\* What gen_spec_tables.py reads off the files, and what it asserts first.
SpecBlocks ==
  LET d == DerivedAt[point] IN
  [ parameter_point |-> ParameterPoint(point, d),
    transcript_schedule |-> TranscriptSchedule(prodFull),
    air_constants |-> AirConstants(d),
    fri_layer_table |-> FriLayerTable(d),
    verify_signature |-> VerifySignature(prodFull),
    soundness_accounting |-> Bits(point),
    deviations_register |-> DeviationsRegister,
    vector_ctx |-> VectorCtx(KatsAt[kats]),
    vector_challenges |-> VectorChallenges(KatsAt[kats]),
    vector_query_bundle |->
      VectorQueryBundle(DerivedAt[fixtures].LOG_DOMAIN, DerivedAt[fixtures].N_LAYERS),
    vector_final |-> VectorFinal(KatsAt[kats]),
    wire_v1_appendix |-> WireV1(DerivedAt[TOY_POINT]) ]

\* Faulty variant: nothing compared with the contract.
SpecHoldsUnread ==
  /\ VectorCtxHolds(KatsAt[kats], DerivedAt[point])
  /\ VectorFinalHolds(KatsAt[kats], KatsAt[fixtures])
  /\ WireV1Holds(flat, DerivedAt[TOY_POINT])

SpecHolds ==
  LET d == DerivedAt[point] IN
  /\ TranscriptScheduleHolds(prodFull, KatsAt[kats])
  /\ AirConstantsHold(prodFull, d) /\ DeepOpeningsHold(prodFull)
  /\ FriLayerTableHolds(prodFull, d)
  /\ VectorCtxHolds(KatsAt[kats], d) /\ VectorFinalHolds(KatsAt[kats], KatsAt[fixtures])
  /\ WireV1Holds(flat, DerivedAt[TOY_POINT])

\* as committed: everything emitted at one point
Init ==
  /\ gears = CheckedIn /\ point \in Registered /\ rust = point
  /\ flat = CheckedIn /\ full = Templated(CheckedIn, Oracles[point].spans)
  /\ flatFull = full /\ prodFull = full
  /\ export = DerivedAt[point] /\ fixtures = point /\ kats = point /\ spec = SpecBlocks
  /\ emitting = Idle /\ edits = 0

-----------------------------------------------------------------------------
\* People edit gears, choose another point, transcribe it; no run is under way then.
Touch ==
  /\ emitting = Idle /\ edits < MaxEdits /\ edits' = edits + 1
  /\ UNCHANGED <<written, emitting>>

Edit(g, n, v) ==
  /\ Touch /\ v # gears[g][n]
  /\ gears' = [gears EXCEPT ![g][n] = v] /\ UNCHANGED <<point, rust>>

Choose(p) == Touch /\ p # point /\ point' = p /\ UNCHANGED <<gears, rust>>

Transcribe(p) == Touch /\ p # rust /\ rust' = p /\ UNCHANGED <<gears, point>>

\* ... or write between the fences of the specification.
EditSpec(b) ==
  /\ emitting = Idle /\ edits < MaxEdits /\ edits' = edits + 1
  /\ spec[b] # None /\ spec' = [spec EXCEPT ![b] = None]
  /\ UNCHANGED <<sources, contracts, export, fixtures, kats, emitting>>

-----------------------------------------------------------------------------
\* A run that is refused changes nothing.
Run == emitting = Idle /\ UNCHANGED <<sources, edits>>

RunToy ==
  /\ Run /\ Builds(gears, TOY_POINT, Oracles[TOY_POINT])
  /\ flat' = gears
  /\ UNCHANGED <<full, flatFull, prodFull, export, fixtures, kats, spec, emitting>>

\* --point full: the gears in memory, then file by file
RunFull ==
  /\ Run /\ Builds(gears, point, Oracles[point])
  /\ emitting' = [build |-> Templated(gears, Oracles[point].spans), left |-> GearOrder \o <<"flat">>]
  /\ UNCHANGED written

WriteGear ==
  /\ Len(emitting.left) > 1
  /\ LET g == Head(emitting.left) IN full' = [full EXCEPT ![g] = emitting.build[g]]
  /\ emitting' = [emitting EXCEPT !.left = Tail(@)]
  /\ UNCHANGED <<sources, flat, flatFull, prodFull, export, fixtures, kats, spec, edits>>

WriteFlatFull ==
  /\ Len(emitting.left) = 1
  /\ flatFull' = emitting.build /\ emitting' = Idle
  /\ UNCHANGED <<sources, flat, full, prodFull, export, fixtures, kats, spec, edits>>

\* the run is killed between two writes
Kill == emitting # Idle /\ emitting' = Idle /\ UNCHANGED <<sources, written, edits>>

\* --point full --production: one file only
RunFullProduction ==
  /\ Run /\ Builds(gears, point, Oracles[point])
  /\ prodFull' = Templated(gears, Oracles[point].spans)
  /\ UNCHANGED <<flat, full, flatFull, export, fixtures, kats, spec, emitting>>

\* params.py --json PRODUCTION_POINT > interop/params-full.json
ExportParams ==
  /\ Run /\ export' = DerivedAt[point]
  /\ UNCHANGED <<contracts, fixtures, kats, spec, emitting>>

\* prove --point full, which reads no export
Prove ==
  /\ Run /\ fixtures' = rust
  /\ UNCHANGED <<contracts, export, kats, spec, emitting>>

\* gear6e_replay.py --point full: it replays the proofs at the chosen point, then
\* exports the values it computed
ExportKats ==
  /\ Run /\ fixtures = point /\ kats' = point
  /\ UNCHANGED <<contracts, export, fixtures, spec, emitting>>

\* gen_spec_tables.py
GenerateSpec ==
  /\ Run /\ SpecHolds /\ spec' = SpecBlocks
  /\ UNCHANGED <<contracts, export, fixtures, kats, emitting>>

Next ==
  \/ \E g \in GearNames : \E n \in DOMAIN CheckedIn[g] : \E v \in Slips(g, n) : Edit(g, n, v)
  \/ \E p \in Registered : Choose(p)
  \/ \E p \in Transcriptions : Transcribe(p)
  \/ RunToy \/ RunFull \/ WriteGear \/ WriteFlatFull \/ Kill \/ RunFullProduction
  \/ \E b \in DOMAIN spec : EditSpec(b)
  \/ ExportParams \/ Prove \/ ExportKats \/ GenerateSpec

Spec == Init /\ [][Next]_vars

-----------------------------------------------------------------------------
\* Faulty variant: the gears with constants compared, not the verifier itself.
SameSectionsButDriver(a, b) == \A g \in GearNames \ {"driver"} : a[g] = b[g]

\* flatten_check.py passes, gear by gear
SameSections(a, b) == \A g \in GearNames : a[g] = b[g]

\* Faulty variant: the PARAMS bytes not compared (R1).
ExportMatchesButParams(p, e) ==
  /\ e.DOMAIN_SIZE = 2 ^ LogDomain(p)
  /\ e.SX = TraceStep(p).re /\ e.SY = TraceStep(p).im
  /\ e.H = HalfStep(p) /\ e.OFF = Off(p)

\* the harness passes: R1 to R5
ExportMatches(p, e) ==
  /\ e.PARAMS = <<p.n_queries, LogDomain(p) - 1, 2 ^ p.log_blowup, p.pow_bits, p.air_id>>
  /\ e.DOMAIN_SIZE = 2 ^ LogDomain(p)
  /\ e.SX = TraceStep(p).re /\ e.SY = TraceStep(p).im
  /\ e.H = HalfStep(p) /\ e.OFF = Off(p)

\* The wire format of the prover at its point.
WireVersion(p) == IF p.log_trace = 3 /\ p.log_blowup = 1 THEN 1 ELSE 2

ProofShape(p) ==
  [ depth |-> LogDomain(p), queries |-> p.n_queries, roots |-> LogDomain(p) - 1,
    parents |-> [k \in 0 .. (LogDomain(p) - 2) |-> LogDomain(p) - 1 - k] ]

\* ... and the one a contract takes: lengths it demands, lists that hold them.
ShapeOf(src) ==
  [ depth |-> src.driver.verify_query.depth, queries |-> src.schedule.N,
    roots |-> src.schedule.L,
    parents |-> [k \in DOMAIN src.driver.verify_query.layers |->
                   src.driver.verify_query.layers[k].parents] ]

CapsHold(src) ==
  /\ src.schedule.N <= src.driver.verify.queries /\ src.schedule.L <= src.driver.verify.roots
  /\ src.schedule.L <= src.schedule.derive_challenges
  /\ src.schedule.L <= src.schedule.fri_beta_step
  /\ src.schedule.QUERY_COUNTER <= src.schedule.query_idx_step
  /\ src.schedule.query_idx_step <= src.driver.query_step
  /\ src.driver.verify.env <= src.schedule.L

\* The context of the transcript, the lengths and the caps: what a proof made at p needs.
Takes(src, p) ==
  /\ src.driver.VERSION = WireVersion(p) /\ src.driver.PARAMS = DerivedAt[p].PARAMS
  /\ ShapeOf(src) = ProofShape(p) /\ CapsHold(src)

\* Faulty variant: the contract to deploy neither compared nor tested nor read.
CiGreenButProduction ==
  LET built == Templated(gears, Oracles[point].spans) IN
  /\ export = DerivedAt[point]
  /\ Builds(gears, TOY_POINT, Oracles[TOY_POINT]) /\ flat = gears
  /\ Builds(gears, point, Oracles[point])
  /\ full = built /\ flatFull = built
  /\ SameSections(flatFull, full) /\ Takes(flatFull, fixtures)

\* CI passes: the jobs full-flatten (export compared, artifacts made again and compared,
\* Layer 0) and full-test (both contracts take the committed proofs).
CiGreen ==
  LET built == Templated(gears, Oracles[point].spans) IN
  /\ export = DerivedAt[point]
  /\ Builds(gears, TOY_POINT, Oracles[TOY_POINT]) /\ flat = gears
  /\ Builds(gears, point, Oracles[point])
  /\ full = built /\ flatFull = built /\ prodFull = built
  /\ SpecHolds /\ spec = SpecBlocks /\ kats = fixtures
  /\ SameSections(flatFull, full) /\ \A c \in {flatFull, prodFull} : Takes(c, fixtures)

-----------------------------------------------------------------------------
(***************************************************************************)
(* What a contract has to compute, from the group alone.                   *)
(***************************************************************************)
\* The exponent of G at index i of the canonic coset, and of its conjugate half.
CanonicExponent(p, i) ==
  LET half == 2 ^ (LogDomain(p) - 1)
      at(n) == 2 ^ (LOG_ORDER - 1 - LogDomain(p)) + n * 2 ^ (LOG_ORDER + 1 - LogDomain(p))
  IN  IF i < half THEN at(i) ELSE 2 ^ LOG_ORDER - at(i - half)

Reversed(bits, q) ==
  CHOOSE i \in 0 .. (2 ^ bits - 1) :
    \A b \in 0 .. (bits - 1) : (i \div 2 ^ b) % 2 = (q \div 2 ^ (bits - 1 - b)) % 2

Positions(p) == 0 .. (2 ^ LogDomain(p) - 1)

Domain ==
  [p \in Registered \cup {TOY_POINT} |->
     [q \in Positions(p) |-> CPow(G, CanonicExponent(p, Reversed(LogDomain(p), q)))]]

TraceRows ==
  [p \in Registered \cup {TOY_POINT} |-> [k \in 0 .. (2 ^ p.log_trace - 1) |-> TraceRow(p, k)]]

\* The domain of a line layer k: the points at multiples of 2^k, doubled k - 1 times.
LayerX ==
  [p \in Registered \cup {TOY_POINT} |->
     [k \in 1 .. (LogDomain(p) - 2) |->
        [pos \in 0 .. (2 ^ (LogDomain(p) - k) - 1) |-> CPow(Domain[p][pos * 2 ^ k], 2 ^ (k - 1)).re]]]

\* All indices the schedule draws have a point, the right one; the folds of each pair
\* are about the coordinate its members share up to sign, never zero.
Covers(src, p) ==
  /\ src.schedule.DOMAIN_SIZE = 2 ^ LogDomain(p)
  /\ \A q \in Positions(p) : QueryPointRequires(src, q)
  /\ LET at == [q \in Positions(p) |-> QueryPoint(src, q)]
     IN  /\ at = Domain[p]
         /\ \A q \in Positions(p) : \A k \in DOMAIN src.driver.verify_query.layers :
              TwiddleIndex(src, k, q) \in Positions(p) /\
              LET t == Twiddle(src, at, k, q)
                  even == Even(q \div src.driver.verify_query.layers[k].div)
              IN  /\ t # 0
                  /\ IF k = 0
                     THEN /\ t = at[even].im /\ M31Sub(0, t) = at[even + 1].im
                          /\ at[even].re = at[even + 1].re
                     ELSE t = LayerX[p][k][even] /\ M31Sub(0, t) = LayerX[p][k][even + 1]

\* The lines and the vanishing polynomial single out rows of the trace, never a
\* position; one step leads from a row to the next.
SelectsRows(src, p) ==
  LET rows == TraceRows[p]
      last == DOMAIN rows \ 0 .. (2 ^ p.log_trace - 3)
      zeros(Value(_)) == {k \in DOMAIN rows : Value(rows[k]) = 0}
      vanish(pt) == Doubled(pt.re, src.cair.coset_vanish)
  IN  /\ zeros(vanish) = DOMAIN rows
      /\ zeros(LAMBDA pt : LineAt(src.cair.SEL, pt)) = last
      /\ zeros(LAMBDA pt : LineAt(src.cair.B01, pt)) = {0, 1}
      /\ \A q \in Positions(p) :
           vanish(Domain[p][q]) # 0 /\ LineAt(src.cair.B01, Domain[p][q]) # 0
      /\ \A g \in {"cair", "cdeep"} : \A k \in DOMAIN rows :
           CmMul(rows[k], Cm(src[g].SX, src[g].SY)) = rows[(k + 1) % Cardinality(DOMAIN rows)]

\* The point a contract says it is for: its PARAMS, which it puts into every transcript.
Says(src, p) == src.driver.PARAMS = Oracles[p].spans.driver.PARAMS

Contracts == Registered \cup {TOY_POINT}

\* Something is true of each contract that a step writes, at the point it says; what
\* the reviewed gears give is judged once.
Reviewed == [p \in Contracts |-> Templated(CheckedIn, Oracles[p].spans)]
Covering == {p \in Contracts : Covers(Reviewed[p], p)}
Taking == {p \in Contracts : Takes(Reviewed[p], p)}
Selecting == {p \in Contracts : SelectsRows(Reviewed[p], p)}

\* The toy driver as reviewed takes the proofs of its point, which tells it by its trace
\* and blow-up; every registered point has the second wire format.
ASSUME ReviewedAssumption ==
  /\ Takes(Reviewed[TOY_POINT], TOY_POINT) /\ CheckedIn.driver.verify.roots = LogDomain(TOY_POINT) - 1
  /\ \A p \in Registered : WireVersion(p) = 2

EachWritten(True(_, _), judged) ==
  LET Holds(c) == \E p \in Contracts :
        Says(c, p) /\ IF c = Reviewed[p] THEN p \in judged ELSE True(c, p)
  IN  /\ flat' # flat => Holds(flat')
      /\ flatFull' # flatFull => Holds(flatFull')
      /\ prodFull' # prodFull => Holds(prodFull')


\* The test of driver.clar's own line-x helpers passes: all indices of the toy domain.
LineHelpersTested(src) ==
  \A q \in Positions(TOY_POINT) : \A k \in DOMAIN src.driver.line_x :
    /\ TwiddleIndex(src, k, q) \in Positions(TOY_POINT)
    /\ Twiddle(src, Domain[TOY_POINT], k, q) = LayerX[TOY_POINT][k][Even(q \div 2 ^ k)]

CoversIfTested(src, p) == LineHelpersTested(src) => Covers(src, p)


(***************************************************************************)
(* ... it takes the proofs that are made at that point: same PARAMS and    *)
(* wire version, path by path the same lengths, no list too short.         *)
(***************************************************************************)
WrittenTakesProofs == [][EachWritten(Takes, Taking)]_vars

(***************************************************************************)
(* ... and its selectors, vanishing polynomial and trace step are those of *)
(* that point's trace, although at the toy point other constants of the    *)
(* domain have the same values.                                            *)
(***************************************************************************)
WrittenSelectsRows == SelectsRows(flat, TOY_POINT) /\ [][EachWritten(SelectsRows, Selecting)]_vars

(***************************************************************************)
(* When flatten_check --point full passes, the gears in contracts/full are *)
(* all of one point, also after runs that were killed between two files.   *)
(***************************************************************************)
CheckedFullIsOneEmission ==
  SameSections(flatFull, full) =>
    \E p \in Registered : \A g \in DOMAIN Oracles[p].spans :
      \A n \in DOMAIN Oracles[p].spans[g] : full[g][n] = Oracles[p].spans[g][n]

(***************************************************************************)
(* When CI is green, everything committed is at the chosen point: the      *)
(* export, both full contracts, and the proofs, which CI cannot make again.*)
(***************************************************************************)
GreenIsOnePoint ==
  CiGreen =>
    /\ fixtures = point /\ kats = point /\ export = DerivedAt[point]
    /\ \A c \in {flatFull, prodFull} : Takes(c, point) /\ c = full

(***************************************************************************)
(* When CI is green and the harness passes, the Rust copy of the point is  *)
(* the pinned one in all five fields ("the Rust constants can never drift  *)
(* silently from the pinned PRODUCTION_POINT").                            *)
(***************************************************************************)
HarnessPinsPoint == CiGreen /\ ExportMatches(rust, export) => rust = point

(***************************************************************************)
(* The generator refuses exactly the documents whose fences are not pairs  *)
(* of one known id each, none twice; of the others it keeps every line     *)
(* outside the fences, in order, makes every block anew, and a second run  *)
(* changes nothing.  No later state adds to what the engine does with a    *)
(* document: it is tried before the first edit.                            *)
(***************************************************************************)
FencesRespected ==
  edits = 0 /\ emitting = Idle =>
    \A text \in Texts :
      Respects(text, [b \in EMITTERS |-> [kind |-> "prose", id |-> b]])

Publishes(c) ==
  LET parents == ShapeOf(c).parents
      logTrace == c.cair.coset_vanish + 1
  IN  /\ spec.transcript_schedule = TranscriptSchedule(c)
      /\ spec.verify_signature.code
           = [roots |-> c.driver.verify.roots, queries |-> c.driver.verify.queries]
      /\ spec.vector_ctx = [VERSION |-> c.driver.VERSION, PARAMS |-> c.driver.PARAMS]
      /\ spec.vector_challenges = [betas |-> c.schedule.L, queryIndices |-> c.schedule.N]
      /\ spec.vector_query_bundle.tSibs = ShapeOf(c).depth
      /\ spec.vector_query_bundle.parents = parents
      /\ spec.vector_query_bundle.hints = c.schedule.L
      /\ \A k \in DOMAIN parents : spec.fri_layer_table[k] = 2 ^ (parents[k] + 1)
      /\ spec.fri_layer_table[c.schedule.L] = 2
      /\ spec.soundness_accounting.query_term = c.schedule.N * (ShapeOf(c).depth - logTrace)
      /\ 2 ^ spec.soundness_accounting.grinding_term * c.schedule.POW_THRESHOLD = 2 ^ HASH_BITS

\* The counts in the generator's wording are those of the point.
CountsRepeat(p) ==
  INLINED = [ roots |-> LogDomain(p) - 1, queries |-> p.n_queries,
              indices |-> p.n_queries, lastHint |-> LogDomain(p) - 2 ]

\* The table beside the quoted signature, the deviations and the sentence on the hints.
PublishesCounts(c) ==
  /\ spec.verify_signature.table = spec.verify_signature.code
  /\ spec.deviations_register.indices = c.schedule.N
  /\ spec.vector_query_bundle.lastHint = c.schedule.L - 1

(***************************************************************************)
(* What the drift gate passes, the specification made again and found      *)
(* unchanged, tells of the contract to deploy, whatever else is stale, in  *)
(* what its blocks read off the files: the rounds, layers and context, the *)
(* lists of the quoted signature, the path lengths, layers and hints of    *)
(* the proofs it takes, and as many bits of soundness as its own constants *)
(* give.  The counts that the generator's wording repeats as literals are  *)
(* compared with nothing: they are those of the contract too at a point    *)
(* that has these counts, and wrong at any other.                          *)
(***************************************************************************)
PublishedIsDeployed ==
  SpecHolds /\ spec = SpecBlocks =>
    Publishes(prodFull) /\ (CountsRepeat(point) => PublishesCounts(prodFull))
=============================================================================
