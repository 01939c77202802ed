------------------------------ MODULE SpecDoc ------------------------------
(***************************************************************************)
(* tools/gen_spec_tables.py and tools/soundness.py: what stands between    *)
(* the fences of docs/protocol-spec.md.  A block is the numbers in it; a   *)
(* block that only quotes code, without a number of the point, is left     *)
(* out, as is the wording; not the counts that the wording repeats.        *)
(***************************************************************************)
EXTENDS Spans, SequencesExt

CONSTANTS
  EMITTERS,   \* the ids of the generated blocks
  INLINED,    \* the counts the generator's own wording repeats
  Texts       \* bound of the instance: the documents the fence engine is tried on

-----------------------------------------------------------------------------
(***************************************************************************)
(* The fence engine.  A line is prose, a fence with its id, or looks like  *)
(* a fence and is none.                                                    *)
(***************************************************************************)
Nowhere == [id |-> "", at |-> 0]   \* no block is open
Unread == [at |-> 0, open |-> Nowhere, seen |-> {}, fences |-> << >>, ok |-> TRUE]

\* Faulty variant: any END closes the block that is open.
ScanAnyEnd(st, line) ==
  LET i == st.at + 1
      read == [st EXCEPT !.at = i]
  IN  CASE line.kind = "prose" -> read
        [] line.kind = "malformed" -> [read EXCEPT !.ok = FALSE]
        [] line.kind = "BEGIN" ->
             [read EXCEPT !.open = [id |-> line.id, at |-> i], !.seen = @ \cup {line.id},
                          !.ok = @ /\ st.open = Nowhere /\ line.id \in EMITTERS \ st.seen]
        [] line.kind = "END" ->
             [read EXCEPT !.open = Nowhere, !.ok = @ /\ st.open # Nowhere,
                          !.fences = Append(@, [id |-> line.id, begin |-> st.open.at, end |-> i])]

\* one line of parse_fences
Scan(st, line) ==
  LET i == st.at + 1
      read == [st EXCEPT !.at = i]
      closes == st.open # Nowhere /\ line.id = st.open.id
  IN  CASE line.kind = "prose" -> read
        [] line.kind = "malformed" -> [read EXCEPT !.ok = FALSE]
        [] line.kind = "BEGIN" ->
             [read EXCEPT !.open = [id |-> line.id, at |-> i], !.seen = @ \cup {line.id},
                          !.ok = @ /\ st.open = Nowhere /\ line.id \in EMITTERS \ st.seen]
        [] line.kind = "END" /\ closes ->
             [read EXCEPT !.open = Nowhere,
                          !.fences = Append(@, [id |-> line.id, begin |-> st.open.at, end |-> i])]
        [] OTHER -> [read EXCEPT !.open = Nowhere, !.ok = FALSE]

ParseFences(text) ==
  LET st == FoldLeft(Scan, Unread, text)
  IN  [ok |-> st.ok /\ st.open = Nowhere, fences |-> st.fences]

\* The lines up to a BEGIN are kept, the block's content is written, and its END
\* opens the next stretch that is kept.
Splice(text, content) ==
  LET Block(done, f) ==
        [out |-> done.out \o SubSeq(text, done.from, f.begin) \o <<content[f.id]>>, from |-> f.end]
      done == FoldLeft(Block, [out |-> << >>, from |-> 1], ParseFences(text).fences)
  IN  done.out \o SubSeq(text, done.from, Len(text))

\* What is between a BEGIN and the next END is not people's.
Within(text, i) ==
  /\ text[i].kind # "END"
  /\ \E b \in 1 .. (i - 1) :
       text[b].kind = "BEGIN" /\ \A n \in b .. i : text[n].kind # "END"

WellFenced(text) ==
  LET At(kind) == {i \in DOMAIN text : text[i].kind = kind}
      Matches(b, e) == /\ b < e /\ text[b].id = text[e].id
                       /\ \A i \in (b + 1) .. (e - 1) : text[i].kind = "prose"
  IN  /\ At("malformed") = {}
      /\ \A b \in At("BEGIN") : text[b].id \in EMITTERS /\ \E e \in At("END") : Matches(b, e)
      /\ \A e \in At("END") : \E b \in At("BEGIN") : Matches(b, e)
      /\ \A b, c \in At("BEGIN") : text[b].id = text[c].id => b = c

Kept(text) == [i \in {j \in DOMAIN text : ~Within(text, j)} |-> text[i]]
InOrder(lines) == [n \in 1 .. Cardinality(DOMAIN lines) |->
                     lines[CHOOSE i \in DOMAIN lines : Cardinality({j \in DOMAIN lines : j <= i}) = n]]

\* What a generator that respects the fences does with a document.
Respects(text, content) ==
  /\ ParseFences(text).ok <=> WellFenced(text)
  /\ WellFenced(text) =>
       LET made == Splice(text, content) IN
       /\ InOrder(Kept(made)) = InOrder(Kept(text))
       /\ \A i \in DOMAIN made : made[i].kind = "BEGIN" =>
            made[i + 1] = content[made[i].id] /\ made[i + 2].kind = "END"
       /\ Splice(made, content) = made

-----------------------------------------------------------------------------
(***************************************************************************)
(* soundness.py: terms in bits; the proven sums are doubled, the halving   *)
(* of the query term being exact there.  A sum of bits is below the        *)
(* ceiling of the challenge space when so many bits are fewer than P^4.    *)
(***************************************************************************)
Bits(p) ==
  LET query == p.n_queries * p.log_blowup
      raw == query + p.pow_bits
      \* 2^n <= P^4, without computing powers that do not fit
      fits == \E b \in 0 .. HASH_BITS : raw = b /\ 2 ^ b <= P * P * P * P
  IN  [ query_term |-> query, proven_twice |-> query + 2 * p.pow_bits,
        grinding_term |-> p.pow_bits, conjectured |-> raw, capped |-> ~fits ]

-----------------------------------------------------------------------------
(***************************************************************************)
(* The emitters with numbers of the point, and what they assert.  c is the *)
(* contract to deploy, d the derived point, kats the exported vectors.     *)
(***************************************************************************)
KatsOf(p, d) ==
  [ PARAMS |-> d.PARAMS, VERSION |-> 2, friRoots |-> d.N_LAYERS, betas |-> d.N_LAYERS,
    queryIndices |-> p.n_queries, final |-> p ]

ParameterPoint(p, d) == [free |-> p, derived |-> d]

TranscriptSchedule(c) ==
  [roots |-> c.schedule.L, squeezes |-> c.schedule.N, modulus |-> c.schedule.DOMAIN_SIZE]
TranscriptScheduleHolds(c, kats) ==
  kats.friRoots = c.schedule.L /\ kats.betas = c.schedule.L /\ kats.queryIndices = c.schedule.N

AirConstants(d) == [SX |-> d.SX, SY |-> d.SY, SEL |-> d.SEL, B01 |-> d.B01]
AirConstantsHold(c, d) ==
  c.cair.SX = d.SX /\ c.cair.SY = d.SY /\ c.cair.SEL = d.SEL /\ c.cair.B01 = d.B01

DeepOpeningsHold(c) == c.cdeep.deep_row = CheckedIn.cdeep.deep_row

FriLayerTable(d) == [k \in 0 .. d.N_LAYERS |-> d.DOMAIN_SIZE \div 2 ^ k]
FriLayerTableHolds(c, d) ==
  /\ c.schedule.L = d.N_LAYERS
  /\ DOMAIN c.driver.line_x \cup DOMAIN c.driver.verify_query.lines = 1 .. (d.N_LAYERS - 1)

\* the table of the parameters, worded by the generator, and the quoted signature
VerifySignature(c) ==
  [ table |-> [roots |-> INLINED.roots, queries |-> INLINED.queries],
    code |-> [roots |-> c.driver.verify.roots, queries |-> c.driver.verify.queries] ]

DeviationsRegister == [indices |-> INLINED.indices]

VectorCtx(kats) == [VERSION |-> kats.VERSION, PARAMS |-> kats.PARAMS]
VectorCtxHolds(kats, d) == kats.PARAMS = d.PARAMS /\ kats.VERSION = 2

VectorChallenges(kats) == [betas |-> kats.betas, queryIndices |-> kats.queryIndices]

\* path lengths of a bundle of a proof of so many layers, the circle layer first, its
\* hints, and the sentence on their order
VectorQueryBundle(depth, layers) ==
  [ tSibs |-> depth, cSibs |-> depth, parents |-> [k \in 0 .. (layers - 1) |-> depth - 1 - k],
    hints |-> layers, lastHint |-> INLINED.lastHint ]

VectorFinal(kats) == kats.final
VectorFinalHolds(kats, fixture) == kats.final = fixture.final

WireV1(d) == [PARAMS |-> d.PARAMS, DOMAIN_SIZE |-> d.DOMAIN_SIZE, N_LAYERS |-> d.N_LAYERS]
WireV1Holds(toy, d) == toy.driver.PARAMS = d.PARAMS /\ toy.driver.VERSION = 1
=============================================================================
