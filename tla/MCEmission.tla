----------------------------- MODULE MCEmission -----------------------------
(***************************************************************************)
(* Points with the proportions of the real ones over P = 127, and the toy  *)
(* gears as they would be checked in over that field.                      *)
(***************************************************************************)
EXTENDS Emission

At(lt, lb, n, pow, air) ==
  [log_trace |-> lt, log_blowup |-> lb, n_queries |-> n, pow_bits |-> pow, air_id |-> air]

MCToy == At(3, 1, 4, 8, 10)
CAND_A == At(3, 3, 23, 8, 11)
CAND_C == At(4, 2, 46, 8, 11)      \* more queries than the floor of the caps
FALLBACK_POINT == At(2, 3, 23, 8, 11)
MCRegistered == {CAND_A, CAND_C}

\* 16, 23, 23 and 15 of the generator, at a point with fewer layers than CAND_A's sixteen
MCInlined == [roots |-> 5, queries |-> 23, indices |-> 23, lastHint |-> 4]

\* the points, and each field wrong on its own or two that cancel in the domain
MCTranscriptions ==
  MCRegistered \cup
    {FALLBACK_POINT, [CAND_A EXCEPT !.n_queries = 32], [CAND_A EXCEPT !.pow_bits = 9],
     [CAND_A EXCEPT !.air_id = 10], [CAND_A EXCEPT !.log_trace = 2, !.log_blowup = 4]}

MCG == Cm(2, 39)

MCCheckedIn ==
  [ qm31 |-> [P |-> 127],
    cair |-> [ SX |-> 119, SY |-> 119, SEL |-> [A |-> 3, B |-> 124, C |-> 119],
               B01 |-> [A |-> 3, B |-> 3, C |-> 119], coset_vanish |-> 2, mask_point |-> "reviewed" ],
    cdeep |-> [P |-> 127, SX |-> 119, SY |-> 119, deep_row |-> "reviewed"],
    query |-> [ P |-> 127, DOMAIN_SIZE |-> 16, HALF |-> 8, CM_POW_BOUND |-> 8, CM_STEPS |-> 3,
                OFF |-> Cm(97, 25), H |-> Cm(119, 119),
                bitrev |-> [ table |-> <<0, 8, 4, 12, 2, 10, 6, 14, 1, 9, 5, 13, 3, 11, 7, 15>>,
                             bits |-> 0 ] ],
    schedule |-> [ N |-> 4, L |-> 3, DOMAIN_SIZE |-> 16, POW_THRESHOLD |-> 256, QUERY_COUNTER |-> 4,
                   fri_beta_step |-> 32, query_idx_step |-> 32, derive_challenges |-> 32,
                   get_params |-> [n |-> "N", l |-> "L", domain_size |-> "DOMAIN_SIZE"] ],
    driver |-> [ VERSION |-> 1, PARAMS |-> <<4, 3, 2, 8, 10>>,
                 line_x |-> <<[div |-> 2, scale |-> 2, pis |-> 0], [div |-> 4, scale |-> 4, pis |-> 1]>>,
                 verify_query |->
                   [ depth |-> 4, lines |-> << >>,
                     layers |-> [k \in 0 .. 2 |-> [div |-> 2 ^ k, parents |-> 3 - k, at |-> k]] ],
                 query_step |-> 32, verify |-> [roots |-> 3, queries |-> 4, env |-> 3] ] ]

MCGearOrder == <<"qm31", "cair", "cdeep", "query", "schedule", "driver">>

\* For each definition the values a partial edit, or one for another point, would leave.
Slip(g, n) ==
  CASE n = "P" -> {126}
    [] n = "SX" -> {97}
    [] n = "SY" -> {25}
    [] n \in {"SEL", "B01"} -> {MCCheckedIn.cair.SEL, MCCheckedIn.cair.B01}
    [] n = "coset_vanish" -> {3}
    [] n \in {"mask_point", "deep_row"} -> {"edited"}
    [] n = "DOMAIN_SIZE" -> {32}
    [] n = "HALF" -> {16}
    [] n = "CM_POW_BOUND" -> {4, 16}
    [] n = "CM_STEPS" -> {2}
    [] n = "OFF" -> {Cm(2, 39)}
    [] n = "H" -> {Cm(97, 25)}
    [] n = "bitrev" -> {[table |-> [i \in 1 .. 16 |-> i - 1], bits |-> 0]}
    [] n \in {"N", "L", "QUERY_COUNTER"} -> {5}
    [] n = "POW_THRESHOLD" -> {512}
    [] n \in {"fri_beta_step", "query_idx_step"} -> {2}
    [] n = "derive_challenges" -> {2, 3}
    [] n = "get_params" -> {[n |-> "u4", l |-> "L", domain_size |-> "DOMAIN_SIZE"]}
    [] n = "VERSION" -> {2}
    [] n = "PARAMS" -> {<<4, 3, 2, 9, 10>>, <<5, 3, 2, 8, 10>>}
    [] n = "line_x" ->     \* u4 in line-x2, u2 in line-x1
         LET lines == MCCheckedIn.driver.line_x
         IN  {[lines EXCEPT ![2].scale = 2], [lines EXCEPT ![1].scale = 4]}
    [] n = "verify_query" -> {[MCCheckedIn.driver.verify_query EXCEPT !.layers[2].parents = 2]}
    [] n = "query_step" -> {2}
    [] n = "verify" -> {[roots |-> 3, queries |-> 3, env |-> 3]}
    [] OTHER -> {}

Line(kind, id) == [kind |-> kind, id |-> id]
MCEmitters == {"parameter-point", "vector-ctx"}
MCLines ==
  {Line(kind, id) : kind \in {"BEGIN", "END"}, id \in MCEmitters} \cup
    {Line("BEGIN", "no-such-block"), Line("malformed", ""), Line("prose", "1"), Line("prose", "2")}
\* The two ids, and the two lines of prose, are alike: one of each comes first.
MCTexts ==
  LET First(one, other, text) ==
        \A i \in DOMAIN text : text[i].id = other => \E b \in 1 .. (i - 1) : text[b].id = one
  IN  {text \in UNION {[1 .. n -> MCLines] : n \in 0 .. 6} :
         First("parameter-point", "vector-ctx", text) /\ First("1", "2", text)}

MCSlips(g, n) == Slip(g, n) \ {MCCheckedIn[g][n]}
=============================================================================
