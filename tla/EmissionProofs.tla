--------------------------- MODULE EmissionProofs ---------------------------
(***************************************************************************)
(* What a passing comparison says of the files, whatever points are        *)
(* registered, transcribed and chosen and whatever people write into a     *)
(* gear: of the sections, of CI, of the Rust harness.                      *)
(***************************************************************************)
EXTENDS Emission, TLAPS

\* Every definition of c that depends on the point is rendered at p.
RenderedAt(c, p) ==
  \A g \in DOMAIN Oracles[p].spans :
    g \in GearNames /\ \A n \in DOMAIN Oracles[p].spans[g] : c[g][n] = Oracles[p].spans[g][n]

OfOnePoint(c) == \E p \in Registered : RenderedAt(c, p)

(***************************************************************************)
(* The flat contract is written by one step, from gears that were rendered *)
(* at one point before the first file was: that a killed run leaves        *)
(* contracts/full mixed does not touch it.  A run in memory keeps its      *)
(* point, whatever is chosen later.                                        *)
(***************************************************************************)
EmissionInv ==
  /\ point \in Registered
  /\ OfOnePoint(flatFull)
  /\ emitting # Idle => OfOnePoint(emitting.build) /\ CheckListCovariance(emitting.build)

\* Rendering every span at a point, over whatever sources, leaves none of another point.
LEMMA TemplatedAt ==
  ASSUME NEW src, NEW p \in Contracts
  PROVE  RenderedAt(Templated(src, Oracles[p].spans), p)
<1> DEFINE spans == Oracles[p].spans
<1>1. spans = Render(p)  BY DEF Oracles, Oracle, Contracts
<1>2. DOMAIN spans \subseteq GearNames  BY <1>1, EmissionAssumption DEF Render
<1> HIDE DEF spans
<1>3. ASSUME NEW g \in DOMAIN spans, NEW n \in DOMAIN spans[g]
      PROVE  Templated(src, spans)[g][n] = spans[g][n]
  <2>1. g \in GearNames  BY <1>2
  <2>2. QED  BY <2>1 DEF Templated
<1>4. QED  BY <1>2, <1>3 DEF RenderedAt, spans

LEMMA TemplatedIsRendered ==
  ASSUME NEW src, NEW p \in Registered
  PROVE  OfOnePoint(Templated(src, Oracles[p].spans))
BY TemplatedAt DEF OfOnePoint, Contracts

LEMMA EmissionInit == Init => EmissionInv
<1> SUFFICES ASSUME Init PROVE EmissionInv  OBVIOUS
<1>1. point \in Registered /\ emitting = Idle
      /\ flatFull = Templated(CheckedIn, Oracles[point].spans)
  BY EmissionAssumption DEF Init
<1>2. OfOnePoint(flatFull)  BY <1>1, TemplatedIsRendered
<1>3. QED  BY <1>1, <1>2 DEF EmissionInv

\* Only the last write of a run changes the flat contract.
LEMMA EmissionNext == EmissionInv /\ [Next]_vars => EmissionInv'
<1> SUFFICES ASSUME EmissionInv, [Next]_vars PROVE EmissionInv'  OBVIOUS
<1>1. point \in Registered /\ OfOnePoint(flatFull)
      /\ (emitting # Idle =>
            OfOnePoint(emitting.build) /\ CheckListCovariance(emitting.build))
  BY DEF EmissionInv
<1>2. ASSUME UNCHANGED <<point, flatFull, emitting>>  PROVE EmissionInv'
  BY <1>1, <1>2 DEF EmissionInv, OfOnePoint, RenderedAt, CheckListCovariance
<1>3. ASSUME NEW g \in GearNames, NEW n, NEW v, Edit(g, n, v)  PROVE EmissionInv'
  BY <1>2, <1>3 DEF Edit, Touch, written, contracts
<1>4. ASSUME NEW p \in Registered, Choose(p)  PROVE EmissionInv'
  <2>1. point' \in Registered /\ UNCHANGED <<flatFull, emitting>>
    BY <1>4 DEF Choose, Touch, written, contracts
  <2>2. QED  BY <1>1, <2>1 DEF EmissionInv, OfOnePoint, RenderedAt, CheckListCovariance
<1>5. ASSUME NEW p \in Transcriptions, Transcribe(p)  PROVE EmissionInv'
  BY <1>2, <1>5 DEF Transcribe, Touch, written, contracts
<1>6. CASE RunToy  BY <1>2, <1>6 DEF RunToy, Run, sources
<1>7. CASE RunFull
  <2>1. UNCHANGED <<point, flatFull>>
        /\ emitting'.build = Templated(gears, Oracles[point].spans)
    BY <1>7 DEF RunFull, Run, sources, written, contracts
  <2>2. OfOnePoint(emitting'.build)  BY <1>1, <2>1, TemplatedIsRendered
  <2>3. CheckListCovariance(emitting'.build)  BY <1>7, <2>1 DEF RunFull, Builds
  <2>4. QED
    BY <1>1, <2>1, <2>2, <2>3 DEF EmissionInv, OfOnePoint, RenderedAt, CheckListCovariance
<1>8. CASE WriteGear
  <2>1. Len(emitting.left) > 1 /\ UNCHANGED <<point, flatFull>>
        /\ emitting' = [emitting EXCEPT !.left = Tail(@)]
    BY <1>8 DEF WriteGear, sources
  <2>2. emitting # Idle  BY <2>1 DEF Idle
  <2>3. QED  BY <1>1, <2>1, <2>2 DEF EmissionInv, OfOnePoint, RenderedAt, CheckListCovariance
<1>9. CASE WriteFlatFull
  <2>1. emitting # Idle  BY <1>9 DEF WriteFlatFull, Idle
  <2>2. point' = point /\ flatFull' = emitting.build /\ emitting' = Idle
    BY <1>9 DEF WriteFlatFull, sources
  <2>3. QED  BY <1>1, <2>1, <2>2 DEF EmissionInv, OfOnePoint, RenderedAt, CheckListCovariance
<1>10. CASE Kill
  <2>1. emitting' = Idle /\ UNCHANGED <<point, flatFull>>
    BY <1>10 DEF Kill, sources, written, contracts
  <2>2. QED  BY <1>1, <2>1 DEF EmissionInv, OfOnePoint, RenderedAt, CheckListCovariance
<1>11. CASE RunFullProduction  BY <1>2, <1>11 DEF RunFullProduction, Run, sources
<1>12. ASSUME NEW b, EditSpec(b)  PROVE EmissionInv'
  BY <1>2, <1>12 DEF EditSpec, sources, contracts
<1>13. CASE ExportParams \/ Prove \/ ExportKats \/ GenerateSpec
  BY <1>2, <1>13 DEF ExportParams, Prove, ExportKats, GenerateSpec, Run, sources, contracts
<1>14. CASE UNCHANGED vars  BY <1>2, <1>14 DEF vars, sources, written, contracts
<1>15. QED
  BY <1>3, <1>4, <1>5, <1>6, <1>7, <1>8, <1>9, <1>10, <1>11, <1>12, <1>13, <1>14 DEF Next

(***************************************************************************)
(* When flatten_check --point full finds contracts/full and the flat       *)
(* contract the same, every definition that depends on the point is of one *)
(* point, after any edits, changes of the point and killed runs.           *)
(***************************************************************************)
THEOREM OneEmission == Spec => []CheckedFullIsOneEmission
<1>1. EmissionInv => CheckedFullIsOneEmission
  <2> SUFFICES ASSUME EmissionInv, SameSections(flatFull, full)
               PROVE  \E p \in Registered : \A g \in DOMAIN Oracles[p].spans :
                        \A n \in DOMAIN Oracles[p].spans[g] :
                          full[g][n] = Oracles[p].spans[g][n]
    BY DEF CheckedFullIsOneEmission
  <2>1. PICK p \in Registered : RenderedAt(flatFull, p)  BY DEF EmissionInv, OfOnePoint
  <2>2. QED  BY <2>1 DEF RenderedAt, SameSections
<1>2. QED  BY EmissionInit, EmissionNext, <1>1, PTL DEF Spec

-----------------------------------------------------------------------------
(* One point *)

Known == Registered \cup Transcriptions

\* Each file that names a point names one that somebody registered or wrote down.
PointsKnown == point \in Registered /\ rust \in Known /\ fixtures \in Known /\ kats \in Registered

\* A power of two tells its exponent.
LEMMA PowerTells ==
  ASSUME NEW a \in 0 .. HASH_BITS, NEW b \in 0 .. HASH_BITS, 2 ^ a = 2 ^ b PROVE a = b
<1>0. HASH_BITS \in Nat BY PointsAssumption
<1>1. ASSUME NEW m \in 0 .. HASH_BITS, NEW n \in 0 .. HASH_BITS, m < n PROVE 2 ^ m < 2 ^ n
  <2> DEFINE e == n - m - 1
  <2>1. 1 \in 0 .. HASH_BITS /\ e \in 0 .. (HASH_BITS - 1) /\ 1 + e \in 0 .. (HASH_BITS - m)
        /\ e \in 0 .. HASH_BITS /\ m + (1 + e) = n
        /\ 0 \in 0 .. (HASH_BITS - e) /\ 0 \in 0 .. (HASH_BITS - m)
    BY <1>0, <1>1
  <2> HIDE DEF e
  <2>2. 2 ^ (1 + e) = 2 ^ 1 * 2 ^ e /\ 2 ^ (m + (1 + e)) = 2 ^ m * 2 ^ (1 + e)
    BY <2>1, PowersAssumption
  <2>3. 2 ^ 1 = 2 OBVIOUS
  <2>4. 2 ^ e \in Nat \ {0} /\ 2 ^ m \in Nat \ {0} BY <2>1, PowersAssumption
  <2>5. ASSUME NEW u \in Nat \ {0}, NEW v \in Nat \ {0} PROVE u < u * (2 * v)
    <3>1. u * v >= u OBVIOUS
    <3> QED BY <3>1
  <2> QED BY <2>1, <2>2, <2>3, <2>4, <2>5
<1>2. 2 ^ a \in Nat /\ 2 ^ b \in Nat
  <2>1. 0 \in 0 .. (HASH_BITS - a) /\ 0 \in 0 .. (HASH_BITS - b) BY <1>0
  <2> QED BY <2>1, PowersAssumption
<1>3. ~(a < b) /\ ~(b < a) BY <1>1, <1>2
<1> QED BY <1>0, <1>3

\* What a known point is bounded by.
LEMMA KnownFits ==
  ASSUME NEW p \in Known
  PROVE  /\ p \in Point /\ HASH_BITS \in Nat
         /\ p.log_trace \in Nat /\ p.log_blowup \in 0 .. HASH_BITS
         /\ LogDomain(p) \in 1 .. HASH_BITS /\ LogDomain(p) = p.log_trace + p.log_blowup
         /\ p.pow_bits \in 0 .. HASH_BITS /\ p.n_queries \in Nat
<1>1. p \in Point /\ LogDomain(p) \in 1 .. HASH_BITS /\ p.pow_bits <= HASH_BITS /\ HASH_BITS \in Nat
  BY EmissionAssumption, PointsAssumption DEF Known
<1>2. p.log_trace \in Nat /\ p.log_blowup \in Nat /\ p.pow_bits \in Nat /\ p.n_queries \in Nat
  BY <1>1 DEF Point
<1> QED BY <1>1, <1>2 DEF LogDomain

\* The PARAMS bytes tell the point.
LEMMA ParamsTell ==
  ASSUME NEW p \in Known, NEW q \in Known,
         <<p.n_queries, LogDomain(p) - 1, 2 ^ p.log_blowup, p.pow_bits, p.air_id>>
           = <<q.n_queries, LogDomain(q) - 1, 2 ^ q.log_blowup, q.pow_bits, q.air_id>>
  PROVE  p = q
<1>1. p \in Point /\ q \in Point /\ p.log_blowup \in 0 .. HASH_BITS /\ q.log_blowup \in 0 .. HASH_BITS
  BY KnownFits
<1>2. /\ p.n_queries = q.n_queries /\ LogDomain(p) - 1 = LogDomain(q) - 1
      /\ 2 ^ p.log_blowup = 2 ^ q.log_blowup /\ p.pow_bits = q.pow_bits /\ p.air_id = q.air_id
  OBVIOUS
<1>3. p.log_blowup = q.log_blowup BY <1>1, <1>2, PowerTells
<1>4. p.log_trace = q.log_trace BY <1>1, <1>2, <1>3 DEF LogDomain, Point
<1> QED BY <1>1, <1>2, <1>3, <1>4 DEF Point

\* What is derived of a known point carries its PARAMS.
LEMMA DerivedParams ==
  ASSUME NEW p \in Known
  PROVE  /\ DerivedAt[p] = Derived(p)
         /\ DerivedAt[p].PARAMS
              = <<p.n_queries, LogDomain(p) - 1, 2 ^ p.log_blowup, p.pow_bits, p.air_id>>
<1>1. DerivedAt[p] = Derived(p) BY DEF DerivedAt, Known
<1> QED BY <1>1 DEF Derived

LEMMA PointsKnownInit == Init => PointsKnown
BY EmissionAssumption DEF Init, PointsKnown, Known

\* Points are chosen among the registered and copied from file to file.
LEMMA PointsKnownNext == PointsKnown /\ [Next]_vars => PointsKnown'
<1> SUFFICES ASSUME PointsKnown, [Next]_vars PROVE PointsKnown' OBVIOUS
<1> USE DEF PointsKnown, Known
<1>1. ASSUME UNCHANGED <<point, rust, fixtures, kats>> PROVE PointsKnown' BY <1>1
<1>2. ASSUME NEW g, NEW n, NEW v, Edit(g, n, v) PROVE PointsKnown'
  BY <1>2 DEF Edit, Touch, written
<1>3. ASSUME NEW p \in Registered, Choose(p) PROVE PointsKnown' BY <1>3 DEF Choose, Touch, written
<1>4. ASSUME NEW p \in Transcriptions, Transcribe(p) PROVE PointsKnown'
  BY <1>4 DEF Transcribe, Touch, written
<1>5. ASSUME NEW b, EditSpec(b) PROVE PointsKnown' BY <1>5 DEF EditSpec, sources
<1>6. CASE RunToy \/ RunFull \/ RunFullProduction \/ ExportParams \/ GenerateSpec
  BY <1>6 DEF RunToy, RunFull, RunFullProduction, ExportParams, GenerateSpec, Run, sources, written
<1>7. CASE WriteGear \/ WriteFlatFull \/ Kill BY <1>7 DEF WriteGear, WriteFlatFull, Kill, sources, written
<1>8. CASE Prove BY <1>8 DEF Prove, Run, sources
<1>9. CASE ExportKats BY <1>9 DEF ExportKats, Run, sources
<1>10. CASE UNCHANGED vars BY <1>10 DEF vars, sources, written
<1> QED BY <1>2, <1>3, <1>4, <1>5, <1>6, <1>7, <1>8, <1>9, <1>10 DEF Next

\* A full contract that was built at the chosen point has that point's PARAMS.
LEMMA BuiltParams ==
  ASSUME PointsKnown, Builds(gears, point, Oracles[point])
  PROVE  Templated(gears, Oracles[point].spans).driver.PARAMS = DerivedAt[point].PARAMS
<1>1. point \in Registered /\ point \in Known BY DEF PointsKnown, Known
<1>2. Oracles[point].derived = Derived(point) BY <1>1 DEF Oracles, Oracle
<1>3. CheckMathAnchor(Templated(gears, Oracles[point].spans), Oracles[point].derived)
  BY DEF Builds
<1> QED BY <1>1, <1>2, <1>3, DerivedParams DEF CheckMathAnchor

\* CI takes the committed proofs with a contract of the chosen point only.
LEMMA GreenFixtures == ASSUME PointsKnown, CiGreen PROVE fixtures = point
<1>1. point \in Known /\ fixtures \in Known BY DEF PointsKnown, Known
<1>2. flatFull.driver.PARAMS = DerivedAt[point].PARAMS BY BuiltParams DEF CiGreen
<1>3. flatFull.driver.PARAMS = DerivedAt[fixtures].PARAMS BY DEF CiGreen, Takes
<1>4. <<point.n_queries, LogDomain(point) - 1, 2 ^ point.log_blowup, point.pow_bits, point.air_id>>
        = <<fixtures.n_queries, LogDomain(fixtures) - 1, 2 ^ fixtures.log_blowup,
            fixtures.pow_bits, fixtures.air_id>>
  BY <1>1, <1>2, <1>3, DerivedParams
<1> QED BY <1>1, <1>4, ParamsTell

(***************************************************************************)
(* When CI is green the export, both full contracts, the vectors and the   *)
(* committed proofs, which CI cannot make again, are of the chosen point.  *)
(***************************************************************************)
THEOREM GreenOnePoint == Spec => []GreenIsOnePoint
<1>1. PointsKnown => GreenIsOnePoint
  <2> SUFFICES ASSUME PointsKnown, CiGreen
               PROVE  /\ fixtures = point /\ kats = point /\ export = DerivedAt[point]
                      /\ \A c \in {flatFull, prodFull} : Takes(c, point) /\ c = full
    BY DEF GreenIsOnePoint
  <2>1. fixtures = point BY GreenFixtures
  <2>2. /\ kats = fixtures /\ export = DerivedAt[point] /\ flatFull = full /\ prodFull = full
        /\ \A c \in {flatFull, prodFull} : Takes(c, fixtures)
    BY DEF CiGreen
  <2> QED BY <2>1, <2>2
<1> QED BY PointsKnownInit, PointsKnownNext, <1>1, PTL DEF Spec

(***************************************************************************)
(* When CI is green and the harness passes, params::FULL is the pinned     *)
(* point, whoever transcribed it and whatever was edited before.           *)
(***************************************************************************)
THEOREM HarnessPins == Spec => []HarnessPinsPoint
<1>1. PointsKnown => HarnessPinsPoint
  <2> SUFFICES ASSUME PointsKnown, CiGreen, ExportMatches(rust, export) PROVE rust = point
    BY DEF HarnessPinsPoint
  <2>1. rust \in Known /\ point \in Known BY DEF PointsKnown, Known
  <2>2. export = DerivedAt[point] BY DEF CiGreen
  <2>3. export.PARAMS
          = <<rust.n_queries, LogDomain(rust) - 1, 2 ^ rust.log_blowup, rust.pow_bits, rust.air_id>>
    BY DEF ExportMatches
  <2> QED BY <2>1, <2>2, <2>3, DerivedParams, ParamsTell
<1> QED BY PointsKnownInit, PointsKnownNext, <1>1, PTL DEF Spec

-----------------------------------------------------------------------------
(* What the specification publishes *)

\* The contract to deploy was rendered at one point, whatever it is now.
ProdOfOnePoint == point \in Registered /\ OfOnePoint(prodFull)

LEMMA ProdInit == Init => ProdOfOnePoint
<1> SUFFICES ASSUME Init PROVE ProdOfOnePoint OBVIOUS
<1>1. point \in Registered /\ full = Templated(CheckedIn, Oracles[point].spans) /\ prodFull = full
  BY EmissionAssumption DEF Init
<1>2. OfOnePoint(prodFull) BY <1>1, TemplatedIsRendered
<1> QED BY <1>1, <1>2 DEF ProdOfOnePoint

\* Only --production writes it, in one piece.
LEMMA ProdNext == ProdOfOnePoint /\ [Next]_vars => ProdOfOnePoint'
<1> SUFFICES ASSUME ProdOfOnePoint, [Next]_vars PROVE ProdOfOnePoint' OBVIOUS
<1>1. point \in Registered /\ OfOnePoint(prodFull) BY DEF ProdOfOnePoint
<1>2. ASSUME UNCHANGED <<point, prodFull>> PROVE ProdOfOnePoint'
  BY <1>1, <1>2 DEF ProdOfOnePoint, OfOnePoint, RenderedAt
<1>3. ASSUME NEW g, NEW n, NEW v, Edit(g, n, v) PROVE ProdOfOnePoint'
  BY <1>2, <1>3 DEF Edit, Touch, written, contracts
<1>4. ASSUME NEW p \in Registered, Choose(p) PROVE ProdOfOnePoint'
  <2>1. point' \in Registered /\ prodFull' = prodFull BY <1>4 DEF Choose, Touch, written, contracts
  <2> QED BY <1>1, <2>1 DEF ProdOfOnePoint, OfOnePoint, RenderedAt
<1>5. ASSUME NEW p, Transcribe(p) PROVE ProdOfOnePoint'
  BY <1>2, <1>5 DEF Transcribe, Touch, written, contracts
<1>6. ASSUME NEW b, EditSpec(b) PROVE ProdOfOnePoint' BY <1>2, <1>6 DEF EditSpec, sources, contracts
<1>7. CASE RunFullProduction
  <2>1. point' = point /\ prodFull' = Templated(gears, Oracles[point].spans)
    BY <1>7 DEF RunFullProduction, Run, sources
  <2>2. OfOnePoint(prodFull') BY <1>1, <2>1, TemplatedIsRendered
  <2> QED BY <1>1, <2>1, <2>2 DEF ProdOfOnePoint, OfOnePoint, RenderedAt
<1>8. CASE RunToy \/ RunFull \/ ExportParams \/ Prove \/ ExportKats \/ GenerateSpec
  BY <1>2, <1>8
     DEF RunToy, RunFull, ExportParams, Prove, ExportKats, GenerateSpec, Run, sources, written, contracts
<1>9. CASE WriteGear \/ WriteFlatFull \/ Kill
  BY <1>2, <1>9 DEF WriteGear, WriteFlatFull, Kill, sources, written, contracts
<1>10. CASE UNCHANGED vars BY <1>2, <1>10 DEF vars, sources, written, contracts
<1> QED BY <1>3, <1>4, <1>5, <1>6, <1>7, <1>8, <1>9, <1>10 DEF Next

\* The numbers that are derived of a point.
LEMMA DerivedFields ==
  ASSUME NEW p
  PROVE  /\ Derived(p).LOG_DOMAIN = LogDomain(p) /\ Derived(p).N_LAYERS = LogDomain(p) - 1
         /\ Derived(p).DOMAIN_SIZE = 2 ^ LogDomain(p)
         /\ Derived(p).POW_THRESHOLD = 2 ^ (HASH_BITS - p.pow_bits)
BY DEF Derived

\* ... and what of them stands in a contract rendered at it.
LEMMA RenderedFields ==
  ASSUME NEW p \in Registered, NEW c, RenderedAt(c, p)
  PROVE  /\ c.schedule.N = p.n_queries /\ c.schedule.L = LogDomain(p) - 1
         /\ c.schedule.POW_THRESHOLD = 2 ^ (HASH_BITS - p.pow_bits)
         /\ c.cair.coset_vanish = p.log_trace - 1
         /\ c.driver.VERSION = 2 /\ c.driver.PARAMS = Derived(p).PARAMS
         /\ c.driver.verify_query = Cascade(Derived(p))
         /\ c.driver.verify.roots = LogDomain(p) - 1 /\ c.driver.verify.queries = p.n_queries
<1> DEFINE spans == Oracles[p].spans
<1>1. spans = Render(p) /\ p # TOY_POINT BY EmissionAssumption DEF Oracles, Oracle
<1>2. \A g \in DOMAIN spans : \A n \in DOMAIN spans[g] : c[g][n] = spans[g][n] BY DEF RenderedAt
<1> HIDE DEF spans
<1>3. {"schedule", "cair", "driver"} \subseteq DOMAIN spans BY <1>1 DEF Render
<1>4. /\ {"N", "L", "POW_THRESHOLD"} \subseteq DOMAIN spans.schedule
      /\ spans.schedule.N = p.n_queries /\ spans.schedule.L = Derived(p).N_LAYERS
      /\ spans.schedule.POW_THRESHOLD = Derived(p).POW_THRESHOLD
  BY <1>1 DEF Render
<1>5. "coset_vanish" \in DOMAIN spans.cair /\ spans.cair.coset_vanish = p.log_trace - 1
  BY <1>1 DEF Render, CosetVanish
<1>6. spans.driver = DriverSpans(p, Derived(p)) BY <1>1 DEF Render
<1>7. /\ {"VERSION", "PARAMS", "verify_query", "verify"} \subseteq DOMAIN spans.driver
      /\ spans.driver.VERSION = 2 /\ spans.driver.PARAMS = Derived(p).PARAMS
      /\ spans.driver.verify_query = Cascade(Derived(p))
      /\ spans.driver.verify.roots = Derived(p).N_LAYERS
      /\ spans.driver.verify.queries = p.n_queries
  BY <1>1, <1>6 DEF DriverSpans
<1> QED BY <1>2, <1>3, <1>4, <1>5, <1>7, DerivedFields

\* A layer of the fold is a power of two: the domain's divided by so many halvings.
LEMMA LayerSize ==
  ASSUME NEW a \in 0 .. HASH_BITS, NEW b \in 0 .. a PROVE 2 ^ a \div 2 ^ b = 2 ^ (a - b)
<1>1. HASH_BITS \in Nat BY PointsAssumption
<1>2. b \in 0 .. HASH_BITS /\ a - b \in 0 .. (HASH_BITS - b) /\ a - b \in 0 .. HASH_BITS
      /\ b + (a - b) = a /\ 0 \in 0 .. (HASH_BITS - (a - b))
  BY <1>1
<1>3. 2 ^ b \in Nat \ {0} /\ 2 ^ (b + (a - b)) = 2 ^ b * 2 ^ (a - b) BY <1>2, PowersAssumption
<1>4. 2 ^ (a - b) \in Nat BY <1>2, PowersAssumption
<1>5. ASSUME NEW u \in Nat \ {0}, NEW v \in Nat PROVE (u * v) \div u = v
  <2>1. u * v = u * v + 0 /\ u > 0 OBVIOUS
  <2> QED BY <2>1
<1> QED BY <1>2, <1>3, <1>4, <1>5

\* What the drift gate passes is of the chosen point: vectors, proofs and contract.
LEMMA PublishedPoint ==
  ASSUME PointsKnown, ProdOfOnePoint, SpecHolds
  PROVE  point \in Registered /\ kats = point /\ fixtures = point /\ RenderedAt(prodFull, point)
<1>1. /\ point \in Registered /\ kats \in Registered
      /\ point \in Known /\ kats \in Known /\ fixtures \in Known
  BY DEF PointsKnown, Known
<1>2. KatsAt[kats] = KatsOf(kats, Derived(kats)) /\ KatsAt[fixtures] = KatsOf(fixtures, Derived(fixtures))
  BY <1>1, DerivedParams DEF KatsAt, DerivedAt, Known
<1>3. kats = point
  <2>1. KatsAt[kats].PARAMS = DerivedAt[point].PARAMS BY DEF SpecHolds, VectorCtxHolds
  <2>2. KatsAt[kats].PARAMS = DerivedAt[kats].PARAMS BY <1>1, <1>2, DerivedParams DEF KatsOf
  <2>3. <<point.n_queries, LogDomain(point) - 1, 2 ^ point.log_blowup, point.pow_bits, point.air_id>>
          = <<kats.n_queries, LogDomain(kats) - 1, 2 ^ kats.log_blowup, kats.pow_bits, kats.air_id>>
    BY <1>1, <2>1, <2>2, DerivedParams
  <2> QED BY <1>1, <2>3, ParamsTell
<1>4. fixtures = kats BY <1>2 DEF SpecHolds, VectorFinalHolds, KatsOf
<1>5. PICK p \in Registered : RenderedAt(prodFull, p) BY DEF ProdOfOnePoint, OfOnePoint
<1>6. p = point
  <2>1. p.n_queries = point.n_queries
    <3>1. KatsAt[kats].queryIndices = kats.n_queries BY <1>2 DEF KatsOf
    <3>2. KatsAt[kats].queryIndices = prodFull.schedule.N BY DEF SpecHolds, TranscriptScheduleHolds
    <3> QED BY <1>3, <1>5, <3>1, <3>2, RenderedFields
  <2>2. LogDomain(p) = LogDomain(point)
    <3>1. KatsAt[kats].friRoots = LogDomain(kats) - 1 BY <1>2, DerivedFields DEF KatsOf
    <3>2. KatsAt[kats].friRoots = prodFull.schedule.L BY DEF SpecHolds, TranscriptScheduleHolds
    <3>3. LogDomain(p) - 1 = LogDomain(point) - 1 BY <1>3, <1>5, <3>1, <3>2, RenderedFields
    <3>4. p \in Known BY DEF Known
    <3>5. LogDomain(p) \in 1 .. HASH_BITS BY <3>4, KnownFits
    <3>6. LogDomain(point) \in 1 .. HASH_BITS BY <1>1, KnownFits
    <3> QED BY <3>3, <3>5, <3>6
  <2> QED BY <1>1, <2>1, <2>2, PointsToldApart
<1> QED BY <1>1, <1>3, <1>4, <1>5, <1>6

(***************************************************************************)
(* What the drift gate passes tells, in what its blocks read off the       *)
(* files, of the contract to deploy what that contract does, whatever else *)
(* is stale: the specification, the vectors and the proofs never come from *)
(* the contract they are published with.  The counts that the generator's  *)
(* wording repeats are the contract's where they are the point's.          *)
(***************************************************************************)
THEOREM PublishedDeployed == Spec => []PublishedIsDeployed
<1> DEFINE c == prodFull
           p == point
           d == Derived(point)
           n == LogDomain(point)
<1>1. PointsKnown /\ ProdOfOnePoint => PublishedIsDeployed
  <2> SUFFICES ASSUME PointsKnown, ProdOfOnePoint, SpecHolds, spec = SpecBlocks
               PROVE  Publishes(prodFull) /\ (CountsRepeat(point) => PublishesCounts(prodFull))
    BY DEF PublishedIsDeployed
  <2>1. p \in Registered /\ kats = p /\ fixtures = p /\ RenderedAt(c, p) BY PublishedPoint
  <2>2. p \in Known BY <2>1 DEF Known
  <2>3. DerivedAt[p] = d /\ KatsAt[p] = KatsOf(p, d)
    BY <2>1, <2>2, DerivedParams DEF KatsAt, DerivedAt, Known
  <2>4. /\ c.schedule.N = p.n_queries /\ c.schedule.L = n - 1
        /\ c.schedule.POW_THRESHOLD = 2 ^ (HASH_BITS - p.pow_bits)
        /\ c.cair.coset_vanish = p.log_trace - 1
        /\ c.driver.VERSION = 2 /\ c.driver.PARAMS = d.PARAMS
        /\ c.driver.verify_query = Cascade(d)
        /\ c.driver.verify.roots = n - 1 /\ c.driver.verify.queries = p.n_queries
    BY <2>1, RenderedFields
  <2>5. d.LOG_DOMAIN = n /\ d.N_LAYERS = n - 1 /\ d.DOMAIN_SIZE = 2 ^ n BY DerivedFields
  <2>6. /\ n \in 1 .. HASH_BITS /\ n = p.log_trace + p.log_blowup /\ HASH_BITS \in Nat
        /\ p.log_trace \in Nat /\ p.log_blowup \in Nat /\ p.n_queries \in Nat
        /\ p.pow_bits \in 0 .. HASH_BITS
    BY <2>2, KnownFits
  <2>7. /\ spec.transcript_schedule = TranscriptSchedule(c)
        /\ spec.verify_signature = VerifySignature(c)
        /\ spec.vector_ctx = VectorCtx(KatsAt[kats])
        /\ spec.vector_challenges = VectorChallenges(KatsAt[kats])
        /\ spec.vector_query_bundle
             = VectorQueryBundle(DerivedAt[fixtures].LOG_DOMAIN, DerivedAt[fixtures].N_LAYERS)
        /\ spec.fri_layer_table = FriLayerTable(DerivedAt[p])
        /\ spec.soundness_accounting = Bits(p)
        /\ spec.deviations_register = DeviationsRegister
    BY DEF SpecBlocks
  <2> HIDE DEF d, n
  <2>8. /\ ShapeOf(c).depth = n
        /\ ShapeOf(c).parents = [k \in 0 .. (n - 2) |-> n - 1 - k]
    <3>1. (n - 1) - 1 = n - 2 BY <2>6
    <3> QED BY <2>4, <2>5, <3>1 DEF ShapeOf, Cascade
  <2>9. spec.vector_ctx = [VERSION |-> c.driver.VERSION, PARAMS |-> c.driver.PARAMS]
    BY <2>1, <2>3, <2>4, <2>7 DEF VectorCtx, KatsOf
  <2>10. spec.vector_challenges = [betas |-> c.schedule.L, queryIndices |-> c.schedule.N]
    BY <2>1, <2>3, <2>4, <2>5, <2>7 DEF VectorChallenges, KatsOf
  <2>11. /\ spec.vector_query_bundle.tSibs = ShapeOf(c).depth
         /\ spec.vector_query_bundle.parents = ShapeOf(c).parents
         /\ spec.vector_query_bundle.hints = c.schedule.L
    <3>1. (n - 1) - 1 = n - 2 BY <2>6
    <3> QED BY <2>1, <2>3, <2>4, <2>5, <2>7, <2>8, <3>1 DEF VectorQueryBundle
  <2>12. \A k \in DOMAIN ShapeOf(c).parents :
           spec.fri_layer_table[k] = 2 ^ (ShapeOf(c).parents[k] + 1)
    <3> SUFFICES ASSUME NEW k \in 0 .. (n - 2)
                 PROVE  spec.fri_layer_table[k] = 2 ^ ((n - 1 - k) + 1)
      BY <2>8
    <3>1. k \in 0 .. (n - 1) /\ k \in 0 .. n /\ (n - 1 - k) + 1 = n - k BY <2>6
    <3>2. spec.fri_layer_table[k] = 2 ^ n \div 2 ^ k BY <2>3, <2>5, <2>7, <3>1 DEF FriLayerTable
    <3> QED BY <2>6, <3>1, <3>2, LayerSize
  <2>13. spec.fri_layer_table[c.schedule.L] = 2
    <3>1. n - 1 \in 0 .. n /\ n - 1 \in 0 .. (n - 1) /\ n - (n - 1) = 1 BY <2>6
    <3>2. spec.fri_layer_table[n - 1] = 2 ^ n \div 2 ^ (n - 1)
      BY <2>3, <2>5, <2>7, <3>1 DEF FriLayerTable
    <3>3. 2 ^ n \div 2 ^ (n - 1) = 2 ^ (n - (n - 1))
      <4>1. n \in 0 .. HASH_BITS BY <2>6
      <4> QED BY <3>1, <4>1, LayerSize
    <3>4. 2 ^ (n - (n - 1)) = 2 ^ 1 BY <3>1, Zenon
    <3>5. 2 ^ 1 = 2 OBVIOUS
    <3> QED BY <2>4, <3>2, <3>3, <3>4, <3>5
  <2>14. spec.soundness_accounting.query_term
           = c.schedule.N * (ShapeOf(c).depth - (c.cair.coset_vanish + 1))
    <3>1. n - ((p.log_trace - 1) + 1) = p.log_blowup BY <2>6
    <3> QED BY <2>4, <2>7, <2>8, <3>1 DEF Bits
  <2>15. 2 ^ spec.soundness_accounting.grinding_term * c.schedule.POW_THRESHOLD = 2 ^ HASH_BITS
    <3>1. HASH_BITS - p.pow_bits \in 0 .. (HASH_BITS - p.pow_bits)
          /\ p.pow_bits + (HASH_BITS - p.pow_bits) = HASH_BITS
      BY <2>6
    <3>2. 2 ^ (p.pow_bits + (HASH_BITS - p.pow_bits)) = 2 ^ p.pow_bits * 2 ^ (HASH_BITS - p.pow_bits)
      BY <2>6, <3>1, PowersAssumption
    <3>3. spec.soundness_accounting.grinding_term = p.pow_bits BY <2>7 DEF Bits
    <3> QED BY <2>4, <3>1, <3>2, <3>3
  <2>16. spec.verify_signature.code = [roots |-> c.driver.verify.roots, queries |-> c.driver.verify.queries]
    BY <2>7 DEF VerifySignature
  <2>17. ASSUME CountsRepeat(p) PROVE PublishesCounts(c)
    <3>1. /\ INLINED.roots = n - 1 /\ INLINED.queries = p.n_queries
          /\ INLINED.indices = p.n_queries /\ INLINED.lastHint = n - 2
      BY <2>17 DEF CountsRepeat, n
    <3>2. spec.verify_signature.table = spec.verify_signature.code
      BY <2>4, <2>7, <3>1 DEF VerifySignature
    <3>3. spec.deviations_register.indices = c.schedule.N
      BY <2>4, <2>7, <3>1 DEF DeviationsRegister
    <3>4. (n - 1) - 1 = n - 2 BY <2>6
    <3>5. spec.vector_query_bundle.lastHint = c.schedule.L - 1
      BY <2>4, <2>7, <3>1, <3>4 DEF VectorQueryBundle
    <3> QED BY <3>2, <3>3, <3>5 DEF PublishesCounts
  <2> HIDE DEF c
  <2>18. Publishes(c)
    BY <2>7, <2>9, <2>10, <2>11, <2>12, <2>13, <2>14, <2>15, <2>16 DEF Publishes
  <2> QED BY <2>17, <2>18 DEF c
<1> QED BY PointsKnownInit, PointsKnownNext, ProdInit, ProdNext, <1>1, PTL DEF Spec

-----------------------------------------------------------------------------
(* What is written takes the proofs of its point *)

\* No list is shorter than the layers and the queries.
LEMMA CapHolds ==
  ASSUME NEW d, d.N_LAYERS \in Nat, d.PARAMS[1] \in Nat
  PROVE  ListCap(d) \in Nat /\ d.N_LAYERS <= ListCap(d) /\ d.PARAMS[1] <= ListCap(d)
<1> DEFINE caps == {CAP_FLOOR, d.N_LAYERS, d.PARAMS[1]}
<1>1. CAP_FLOOR \in Nat BY SpansAssumption
<1>2. \E x \in caps : \A y \in caps : x >= y BY <1>1
<1>3. Max(caps) \in caps /\ \A y \in caps : Max(caps) >= y
  <2> HIDE DEF caps
  <2> QED BY <1>2 DEF Max
<1> QED BY <1>1, <1>3 DEF ListCap

\* What a contract rendered at a point has of it in its lengths and lists.
LEMMA RenderedLists ==
  ASSUME NEW p \in Contracts, NEW c, RenderedAt(c, p)
  PROVE  /\ c.schedule.N = p.n_queries /\ c.schedule.QUERY_COUNTER = p.n_queries
         /\ c.schedule.L = LogDomain(p) - 1
         /\ c.schedule.fri_beta_step = ListCap(Derived(p))
         /\ c.schedule.query_idx_step = ListCap(Derived(p))
         /\ c.driver.VERSION = DriverSpans(p, Derived(p)).VERSION
         /\ c.driver.PARAMS = Derived(p).PARAMS
         /\ c.driver.verify_query = DriverSpans(p, Derived(p)).verify_query
         /\ c.driver.query_step = DriverSpans(p, Derived(p)).query_step
         /\ c.driver.verify = DriverSpans(p, Derived(p)).verify
         /\ Says(c, p)
<1> DEFINE spans == Oracles[p].spans
<1>1. spans = Render(p) BY DEF Oracles, Oracle, Contracts
<1>2. \A g \in DOMAIN spans : \A n \in DOMAIN spans[g] : c[g][n] = spans[g][n] BY DEF RenderedAt
<1>3. Says(c, p) <=> c.driver.PARAMS = spans.driver.PARAMS BY DEF Says
<1> HIDE DEF spans
<1>4. {"schedule", "driver"} \subseteq DOMAIN spans BY <1>1 DEF Render
<1>5. /\ {"N", "QUERY_COUNTER", "L", "fri_beta_step", "query_idx_step"} \subseteq DOMAIN spans.schedule
      /\ spans.schedule.N = p.n_queries /\ spans.schedule.QUERY_COUNTER = p.n_queries
      /\ spans.schedule.L = Derived(p).N_LAYERS
      /\ spans.schedule.fri_beta_step = ListCap(Derived(p))
      /\ spans.schedule.query_idx_step = ListCap(Derived(p))
  BY <1>1 DEF Render
<1>6. spans.driver = DriverSpans(p, Derived(p)) BY <1>1 DEF Render
<1>7. /\ {"VERSION", "PARAMS", "verify_query", "query_step", "verify"} \subseteq DOMAIN spans.driver
      /\ spans.driver.PARAMS = Derived(p).PARAMS
  BY <1>6 DEF DriverSpans
<1> QED BY <1>2, <1>3, <1>4, <1>5, <1>6, <1>7, DerivedFields

\* The toy contract: of its lists only that of derive-challenges is rendered nowhere.
LEMMA ToyTakes ==
  ASSUME NEW c, RenderedAt(c, TOY_POINT), CheckListCovariance(c)
  PROVE  Takes(c, TOY_POINT)
<1> DEFINE r == Reviewed[TOY_POINT]
           d == Derived(TOY_POINT)
           s == DriverSpans(TOY_POINT, d)
<1>1. TOY_POINT \in Contracts BY DEF Contracts
<1>2. Takes(r, TOY_POINT) BY ReviewedAssumption
<1>3. RenderedAt(r, TOY_POINT) BY <1>1, TemplatedAt DEF Reviewed
<1>4. /\ c.driver.VERSION = r.driver.VERSION /\ c.driver.PARAMS = r.driver.PARAMS
      /\ c.driver.verify_query = r.driver.verify_query /\ c.driver.query_step = r.driver.query_step
      /\ c.driver.verify = r.driver.verify
      /\ c.schedule.N = r.schedule.N /\ c.schedule.QUERY_COUNTER = r.schedule.QUERY_COUNTER
      /\ c.schedule.L = r.schedule.L /\ c.schedule.fri_beta_step = r.schedule.fri_beta_step
      /\ c.schedule.query_idx_step = r.schedule.query_idx_step
  BY <1>1, <1>3, RenderedLists
<1>5. c.schedule.L <= c.schedule.derive_challenges
  <2>1. c.schedule.L = LogDomain(TOY_POINT) - 1 BY <1>1, RenderedLists
  <2>2. c.driver.verify = s.verify BY <1>1, RenderedLists
  <2>3. s.verify = CheckedIn.driver.verify BY DEF DriverSpans
  <2> HIDE DEF s
  <2> QED BY <2>1, <2>2, <2>3, ReviewedAssumption DEF CheckListCovariance
<1> HIDE DEF r, d, s
<1>6. ShapeOf(c) = ShapeOf(r) BY <1>4 DEF ShapeOf
<1>7. CapsHold(c) BY <1>2, <1>4, <1>5 DEF Takes, CapsHold
<1> QED BY <1>2, <1>4, <1>6, <1>7 DEF Takes

\* A contract of a registered point: its layers are unrolled, its lists made as long as needed.
LEMMA FullTakes ==
  ASSUME NEW p \in Registered, NEW c, RenderedAt(c, p), CheckListCovariance(c)
  PROVE  Takes(c, p)
<1> DEFINE d == Derived(p)
           n == LogDomain(p)
<1>1. p \in Contracts /\ p \in Known /\ p # TOY_POINT BY EmissionAssumption DEF Contracts, Known
<1>2. n \in Nat \ {0} /\ p.n_queries \in Nat
  <2>1. n \in 1 .. HASH_BITS /\ HASH_BITS \in Nat BY <1>1, KnownFits
  <2>2. p.n_queries \in Nat BY <1>1, KnownFits
  <2> QED BY <2>1, <2>2
<1>3. d.LOG_DOMAIN = n /\ d.N_LAYERS = n - 1 BY DerivedFields
<1>4. d.PARAMS[1] = p.n_queries /\ DerivedAt[p] = d BY <1>1, DerivedParams
<1>5. /\ c.schedule.N = p.n_queries /\ c.schedule.QUERY_COUNTER = p.n_queries /\ c.schedule.L = n - 1
      /\ c.schedule.fri_beta_step = ListCap(d) /\ c.schedule.query_idx_step = ListCap(d)
      /\ c.driver.PARAMS = d.PARAMS
  BY <1>1, RenderedLists
<1>6. /\ c.driver.VERSION = 2 /\ c.driver.verify_query = Cascade(d)
      /\ c.driver.query_step = ListCap(d)
      /\ c.driver.verify = [roots |-> d.N_LAYERS, queries |-> p.n_queries, env |-> d.N_LAYERS]
  BY <1>1, RenderedLists DEF DriverSpans
<1> HIDE DEF d, n
<1>7. n - 1 \in Nat /\ (n - 1) - 1 = n - 2 BY <1>2
<1>8. ListCap(d) \in Nat /\ n - 1 <= ListCap(d) /\ p.n_queries <= ListCap(d)
  BY <1>2, <1>3, <1>4, <1>7, CapHolds
<1>9. CapsHold(c)
  BY <1>2, <1>3, <1>5, <1>6, <1>7, <1>8 DEF CapsHold, CheckListCovariance
<1>10. ShapeOf(c) = ProofShape(p)
  <2>1. /\ ShapeOf(c).depth = n
        /\ ShapeOf(c).parents = [k \in 0 .. (n - 2) |-> n - 1 - k]
    BY <1>3, <1>6, <1>7 DEF ShapeOf, Cascade
  <2>2. ShapeOf(c) = [ depth |-> n, queries |-> p.n_queries, roots |-> n - 1,
                       parents |-> [k \in 0 .. (n - 2) |-> n - 1 - k] ]
    BY <1>5, <2>1 DEF ShapeOf
  <2> QED BY <2>2 DEF ProofShape, n
<1>11. WireVersion(p) = 2 BY ReviewedAssumption
<1> QED BY <1>4, <1>5, <1>6, <1>9, <1>10, <1>11 DEF Takes

\* Of a contract that passed the gate on lists, whatever else was edited in it.
LEMMA WrittenTakes ==
  ASSUME NEW p \in Contracts, NEW c, RenderedAt(c, p), CheckListCovariance(c)
  PROVE  \E q \in Contracts : Says(c, q) /\ IF c = Reviewed[q] THEN q \in Taking ELSE Takes(c, q)
<1>1. Says(c, p) BY RenderedLists
<1>2. Takes(c, p) BY ToyTakes, FullTakes DEF Contracts
<1>3. c = Reviewed[p] => p \in Taking BY <1>2 DEF Taking
<1> QED BY <1>1, <1>2, <1>3

\* The three steps that write a contract, and what each writes.
LEMMA WritesTake ==
  ASSUME EmissionInv, [Next]_vars
  PROVE  EachWritten(Takes, Taking)
<1> DEFINE Holds(c) ==
      \E p \in Contracts : Says(c, p) /\ IF c = Reviewed[p] THEN p \in Taking ELSE Takes(c, p)
<1>1. EachWritten(Takes, Taking)
        <=> /\ flat' # flat => Holds(flat')
            /\ flatFull' # flatFull => Holds(flatFull')
            /\ prodFull' # prodFull => Holds(prodFull')
  BY DEF EachWritten
<1> HIDE DEF Holds
<1>2. ASSUME UNCHANGED contracts PROVE EachWritten(Takes, Taking) BY <1>1, <1>2 DEF contracts
<1>3. ASSUME NEW p \in Contracts, NEW c, RenderedAt(c, p), CheckListCovariance(c) PROVE Holds(c)
  BY <1>3, WrittenTakes DEF Holds
<1>4. ASSUME NEW g, NEW n, NEW v, Edit(g, n, v) PROVE EachWritten(Takes, Taking)
  BY <1>2, <1>4 DEF Edit, Touch, written
<1>5. ASSUME NEW p, Choose(p) PROVE EachWritten(Takes, Taking)
  BY <1>2, <1>5 DEF Choose, Touch, written
<1>6. ASSUME NEW p, Transcribe(p) PROVE EachWritten(Takes, Taking)
  BY <1>2, <1>6 DEF Transcribe, Touch, written
<1>7. ASSUME NEW b, EditSpec(b) PROVE EachWritten(Takes, Taking) BY <1>2, <1>7 DEF EditSpec
<1>8. CASE RunToy
  <2>1. /\ Builds(gears, TOY_POINT, Oracles[TOY_POINT])
        /\ flat' = gears /\ flatFull' = flatFull /\ prodFull' = prodFull
    BY <1>8 DEF RunToy
  <2>2. /\ gears = Templated(gears, Oracles[TOY_POINT].spans)
        /\ CheckListCovariance(Templated(gears, Oracles[TOY_POINT].spans))
    BY <2>1 DEF Builds
  <2>3. TOY_POINT \in Contracts BY DEF Contracts
  <2>4. RenderedAt(Templated(gears, Oracles[TOY_POINT].spans), TOY_POINT) BY <2>3, TemplatedAt
  <2>5. RenderedAt(gears, TOY_POINT) BY <2>2, <2>4
  <2>6. CheckListCovariance(gears) BY <2>2
  <2>7. Holds(gears) BY <1>3, <2>3, <2>5, <2>6
  <2> QED BY <1>1, <2>1, <2>7
<1>9. CASE WriteFlatFull
  <2>1. emitting # Idle BY <1>9 DEF WriteFlatFull, Idle
  <2>2. flatFull' = emitting.build /\ flat' = flat /\ prodFull' = prodFull
    BY <1>9 DEF WriteFlatFull
  <2>3. OfOnePoint(emitting.build) /\ CheckListCovariance(emitting.build) BY <2>1 DEF EmissionInv
  <2>4. PICK p \in Registered : RenderedAt(emitting.build, p) BY <2>3 DEF OfOnePoint
  <2>5. Holds(emitting.build) BY <1>3, <2>3, <2>4 DEF Contracts
  <2> QED BY <1>1, <2>2, <2>5
<1>10. CASE RunFullProduction
  <2>1. /\ Builds(gears, point, Oracles[point])
        /\ prodFull' = Templated(gears, Oracles[point].spans)
        /\ flat' = flat /\ flatFull' = flatFull
    BY <1>10 DEF RunFullProduction
  <2>2. CheckListCovariance(Templated(gears, Oracles[point].spans)) BY <2>1 DEF Builds
  <2>3. point \in Contracts BY DEF EmissionInv, Contracts
  <2>4. RenderedAt(Templated(gears, Oracles[point].spans), point) BY <2>3, TemplatedAt
  <2>5. Holds(Templated(gears, Oracles[point].spans)) BY <1>3, <2>2, <2>3, <2>4
  <2> QED BY <1>1, <2>1, <2>5
<1>11. CASE WriteGear BY <1>1, <1>11 DEF WriteGear
<1>12. CASE RunFull \/ Kill \/ ExportParams \/ Prove \/ ExportKats \/ GenerateSpec
  BY <1>2, <1>12 DEF RunFull, Kill, ExportParams, Prove, ExportKats, GenerateSpec, written
<1>13. CASE UNCHANGED vars BY <1>2, <1>13 DEF vars, written
<1> QED
  BY <1>4, <1>5, <1>6, <1>7, <1>8, <1>9, <1>10, <1>11, <1>12, <1>13 DEF Next

(***************************************************************************)
(* Every contract that flatten.py writes takes the proofs made at the      *)
(* point in its PARAMS: same context, path by path the same lengths, no    *)
(* list too short, whatever was edited and whichever point was chosen.     *)
(***************************************************************************)
THEOREM ContractsTake == Spec => WrittenTakesProofs
<1>1. EmissionInv /\ [Next]_vars => [EachWritten(Takes, Taking)]_vars BY WritesTake
<1> QED BY EmissionInit, EmissionNext, <1>1, PTL DEF Spec, WrittenTakesProofs
=============================================================================
