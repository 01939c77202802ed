------------------------------ MODULE Schedule ------------------------------
(***************************************************************************)
(* derive-challenges of contracts/full/schedule.clar on the hash chain of  *)
(* contracts/transcript.clar.  Two proofs, each with its own context and   *)
(* messages, go through it side by side, so that properties can compare    *)
(* what each challenge depends on.                                         *)
(*                                                                         *)
(* A digest is the term of its preimage: SHA-256 is collision free.  The   *)
(* fields of a preimage have fixed widths, and preimages with different    *)
(* fields have different lengths or different tags, so terms are equal     *)
(* exactly when the bytes hashed are.  A QM31 challenge is the four blocks *)
(* its limbs are read from, an index the block it is read from: reduction  *)
(* mod p and mod DOMAIN_SIZE is left to Driver.                            *)
(***************************************************************************)
EXTENDS Naturals, Sequences

CONSTANTS
  N, L,   \* query indices drawn, FRI roots absorbed
  Contexts(_), Roots(_), Felts(_), Nonces(_)   \* what each of the proofs can bring

ASSUME ScheduleAssumption == N \in Nat \ {0} /\ L \in Nat \ {0}

Proofs == {1, 2}

\* One message from each proof.
Each(Bring(_)) == {m \in [Proofs -> Bring(1) \cup Bring(2)] : \A p \in Proofs : m[p] \in Bring(p)}

VARIABLES
  step,    \* the next absorption or draw
  digest,  \* digest[p] is proof p's transcript state
  heard,   \* heard[p] is the messages absorbed so far
  drawn    \* drawn[p] is the challenges squeezed so far

vars == <<step, digest, heard, drawn>>

-----------------------------------------------------------------------------
TranscriptInit(ctx) == <<"init", ctx>>
Absorb(state, tag, msg) == <<"absorb", state, tag, msg>>

\* one squeezed block, which is the next state too
SqueezeM31(state) == <<"squeeze", state>>

SqueezeQm31(state) ==
  LET b0 == SqueezeM31(state)
      b1 == SqueezeM31(b0)
      b2 == SqueezeM31(b1)
  IN  <<b0, b1, b2, SqueezeM31(b2)>>

Pow(state, nonce) == <<"pow", state, nonce>>

-----------------------------------------------------------------------------
\* Each proof's message m[p] is absorbed under one tag.
Hear(tag, m) ==
  /\ digest' = [p \in Proofs |-> Absorb(digest[p], tag, m[p])]
  /\ heard' = [p \in Proofs |-> Append(heard[p], m[p])]

\* ... and a QM31 challenge squeezed right after it.
HearAndDraw(tag, m) ==
  LET c == [p \in Proofs |-> SqueezeQm31(Absorb(digest[p], tag, m[p]))] IN
  /\ digest' = [p \in Proofs |-> c[p][4]]
  /\ heard' = [p \in Proofs |-> Append(heard[p], m[p])]
  /\ drawn' = [p \in Proofs |-> Append(drawn[p], c[p])]

Init ==
  /\ step = <<"trace", 1>>
  /\ drawn = [p \in Proofs |-> << >>]
  /\ \E ctx \in Each(Contexts) :
       /\ digest = [p \in Proofs |-> TranscriptInit(ctx[p])]
       /\ heard = [p \in Proofs |-> <<ctx[p]>>]

AbsorbTraceRoot(m) ==
  /\ step = <<"trace", 1>> /\ step' = <<"comp", 1>>
  /\ HearAndDraw("root", m)

AbsorbCompRoot(m) ==
  /\ step = <<"comp", 1>> /\ step' = <<"opening", 1>>
  /\ HearAndDraw("root", m)

\* The seven openings one by one; gamma after the last.
AbsorbOpening(m) ==
  /\ step[1] = "opening"
  /\ IF step[2] = 7
     THEN step' = <<"fri", 1>> /\ HearAndDraw("qm31", m)
     ELSE step' = <<"opening", step[2] + 1>> /\ Hear("qm31", m) /\ UNCHANGED drawn

\* Faulty variant: each beta squeezed before its layer's root.
FriBetaStepEarly(m) ==
  /\ step[1] = "fri"
  /\ step' = IF step[2] = L THEN <<"final", 1>> ELSE <<"fri", step[2] + 1>>
  /\ digest' = [p \in Proofs |-> Absorb(SqueezeQm31(digest[p])[4], "root", m[p])]
  /\ heard' = [p \in Proofs |-> Append(heard[p], m[p])]
  /\ drawn' = [p \in Proofs |-> Append(drawn[p], SqueezeQm31(digest[p]))]

\* fri-beta-step, layer by layer
FriBetaStep(m) ==
  /\ step[1] = "fri"
  /\ step' = IF step[2] = L THEN <<"final", 1>> ELSE <<"fri", step[2] + 1>>
  /\ HearAndDraw("root", m)

AbsorbFinal(m) ==
  /\ step = <<"final", 1>> /\ step' = <<"nonce", 1>>
  /\ Hear("qm31", m) /\ UNCHANGED drawn

\* the grinding hash, then the nonce into the transcript
AbsorbNonce(m) ==
  /\ step = <<"nonce", 1>> /\ step' = <<"index", 1>>
  /\ Hear("nonce", m)
  /\ drawn' = [p \in Proofs |-> Append(drawn[p], Pow(digest[p], m[p]))]

\* Faulty variant: every index read from the state the nonce left.
QueryIdxStuck ==
  /\ step[1] = "index"
  /\ step' = IF step[2] = N THEN <<"done", 1>> ELSE <<"index", step[2] + 1>>
  /\ drawn' = [p \in Proofs |-> Append(drawn[p], SqueezeM31(digest[p]))]
  /\ UNCHANGED <<digest, heard>>

\* the squeezed state is carried to the next index
QueryIdxStep ==
  /\ step[1] = "index"
  /\ step' = IF step[2] = N THEN <<"done", 1>> ELSE <<"index", step[2] + 1>>
  /\ digest' = [p \in Proofs |-> SqueezeM31(digest[p])]
  /\ drawn' = [p \in Proofs |-> Append(drawn[p], digest'[p])]
  /\ UNCHANGED heard

Next ==
  \/ \E m \in Each(Roots) : AbsorbTraceRoot(m) \/ AbsorbCompRoot(m) \/ FriBetaStep(m)
  \/ \E m \in Each(Felts) : AbsorbOpening(m) \/ AbsorbFinal(m)
  \/ \E m \in Each(Nonces) : AbsorbNonce(m)
  \/ QueryIdxStep

Spec == Init /\ [][Next]_vars

-----------------------------------------------------------------------------
\* How many messages, the context included, the i-th challenge comes after:
\* alpha and z; gamma and the betas; the grinding hash and the indices.
MessagesBefore(i) ==
  IF i <= 2 THEN i + 1 ELSE IF i <= L + 3 THEN i + 7 ELSE L + 12

\* How far both proofs are at step s.
Progress(s, h, d) ==
  \/ s = <<"trace", 1>> /\ h = 1 /\ d = 0
  \/ s = <<"comp", 1>> /\ h = 2 /\ d = 1
  \/ \E n \in 1 .. 7 : s = <<"opening", n>> /\ h = n + 2 /\ d = 2
  \/ \E n \in 1 .. L : s = <<"fri", n>> /\ h = n + 9 /\ d = n + 2
  \/ s = <<"final", 1>> /\ h = L + 10 /\ d = L + 3
  \/ s = <<"nonce", 1>> /\ h = L + 11 /\ d = L + 3
  \/ \E n \in 1 .. N : s = <<"index", n>> /\ h = L + 12 /\ d = n + L + 3
  \/ s = <<"done", 1>> /\ h = L + 12 /\ d = N + L + 4

(***************************************************************************)
(* Two proofs that draw the same challenge brought the same context and    *)
(* the same messages up to the point the protocol draws it at: no message  *)
(* can be chosen after the challenge that answers it.                      *)
(***************************************************************************)
ChallengesBind ==
  \A i \in 1 .. Len(drawn[1]) :
    drawn[1][i] = drawn[2][i] =>
      \A n \in 1 .. MessagesBefore(i) : heard[1][n] = heard[2][n]

(***************************************************************************)
(* A challenge is never repeated within a proof: no two draws, of one kind *)
(* or of different kinds, read the same block.                             *)
(***************************************************************************)
ChallengesFresh ==
  \A p \in Proofs : \A i, n \in 1 .. Len(drawn[p]) : drawn[p][i] = drawn[p][n] => i = n
=============================================================================
