--------------------------- MODULE ScheduleProofs ---------------------------
(***************************************************************************)
(* Why equal challenges mean equal messages.  The transcript state is a    *)
(* term that contains every message absorbed, so equal states mean equal   *)
(* histories; a challenge contains the state it was squeezed from, and at  *)
(* each step of the schedule the number of messages absorbed is the one    *)
(* the protocol demands.                                                   *)
(***************************************************************************)
EXTENDS Schedule, SequenceTheorems, TLAPS

IsSequence(s) == \E S : s \in Seq(S)

\* a and b agree on their first n elements
AgreeOn(a, b, n) == \A i \in 1 .. n : a[i] = b[i]

Shape ==
  /\ digest = [p \in Proofs |-> digest[p]]
  /\ heard = [p \in Proofs |-> heard[p]] /\ drawn = [p \in Proofs |-> drawn[p]]
  /\ \A p \in Proofs : IsSequence(heard[p]) /\ IsSequence(drawn[p])
  /\ \A p \in Proofs : Progress(step, Len(heard[p]), Len(drawn[p]))

Histories == digest[1] = digest[2] => AgreeOn(heard[1], heard[2], Len(heard[1]))

Inv == Shape /\ Histories /\ ChallengesBind

-----------------------------------------------------------------------------
(* Appending to a sequence lengthens it by one and changes nothing before. *)
LEMMA Appending ==
  ASSUME NEW s, IsSequence(s), NEW e
  PROVE  /\ IsSequence(Append(s, e)) /\ Len(Append(s, e)) = Len(s) + 1 /\ Len(s) \in Nat
         /\ Append(s, e)[Len(s) + 1] = e
         /\ \A i \in 1 .. Len(s) : Append(s, e)[i] = s[i]
<1>1. PICK S : s \in Seq(S)  BY DEF IsSequence
<1>2. s \in Seq(S \cup {e})  BY <1>1, SeqDef
<1>3. e \in S \cup {e}  OBVIOUS
<1>4. Append(s, e) \in Seq(S \cup {e})  BY <1>2, <1>3
<1>5. IsSequence(Append(s, e))  BY <1>4 DEF IsSequence
<1>6. QED  BY <1>2, <1>3, <1>5

(* Agreement survives appending, and grows when the new elements agree.    *)
LEMMA AgreeAppend ==
  ASSUME NEW a, NEW b, IsSequence(a), IsSequence(b), Len(a) = Len(b), NEW x, NEW y
  PROVE  /\ \A n \in 0 .. Len(a) : AgreeOn(a, b, n) => AgreeOn(Append(a, x), Append(b, y), n)
         /\ AgreeOn(a, b, Len(a)) /\ x = y
              => AgreeOn(Append(a, x), Append(b, y), Len(a) + 1)
<1>1. /\ Len(a) \in Nat /\ Append(a, x)[Len(a) + 1] = x
      /\ \A i \in 1 .. Len(a) : Append(a, x)[i] = a[i]
  BY Appending
<1>2. /\ Append(b, y)[Len(a) + 1] = y
      /\ \A i \in 1 .. Len(a) : Append(b, y)[i] = b[i]
  BY Appending
<1>3. QED  BY <1>1, <1>2 DEF AgreeOn

(* Equal challenges were squeezed from equal states.                       *)
LEMMA SqueezeBinds ==
  ASSUME NEW s, NEW t  PROVE  SqueezeQm31(s) = SqueezeQm31(t) => s = t
  BY DEF SqueezeQm31, SqueezeM31

(* Equal states after a squeeze mean equal states before it.               *)
LEMMA StateBinds ==
  ASSUME NEW s, NEW t  PROVE  SqueezeQm31(s)[4] = SqueezeQm31(t)[4] => s = t
  BY DEF SqueezeQm31, SqueezeM31

(* Equal states after an absorption mean equal states and messages.        *)
LEMMA AbsorbBinds ==
  ASSUME NEW s, NEW t, NEW tag, NEW x, NEW y
  PROVE  Absorb(s, tag, x) = Absorb(t, tag, y) => s = t /\ x = y
  BY DEF Absorb

-----------------------------------------------------------------------------
(* Both proofs are equally far, and no challenge drawn so far comes after  *)
(* more messages than were heard.                                          *)
LEMMA InStep ==
  ASSUME Shape
  PROVE  /\ Len(heard[1]) = Len(heard[2]) /\ Len(drawn[1]) = Len(drawn[2])
         /\ \A p \in Proofs : Len(heard[p]) \in Nat /\ Len(drawn[p]) \in Nat
         /\ \A i \in 1 .. Len(drawn[1]) : MessagesBefore(i) \in 0 .. Len(heard[1])
<1>1. Progress(step, Len(heard[1]), Len(drawn[1])) /\ Progress(step, Len(heard[2]), Len(drawn[2]))
  BY DEF Shape, Proofs
<1>2. Len(heard[1]) = Len(heard[2]) /\ Len(drawn[1]) = Len(drawn[2])
  BY <1>1, ScheduleAssumption DEF Progress
<1>3. Len(heard[1]) \in Nat /\ Len(drawn[1]) \in Nat
  BY <1>1, ScheduleAssumption DEF Progress
<1>4. \A i \in 1 .. Len(drawn[1]) : MessagesBefore(i) \in 0 .. Len(heard[1])
  <2> DEFINE h == Len(heard[1])  d == Len(drawn[1])
  <2>1. \/ d <= 2 /\ d < h
        \/ 2 < d /\ d <= L + 3 /\ d + 7 <= h
        \/ L + 3 < d /\ L + 12 <= h
    <3>1. Progress(step, h, d) /\ L \in Nat \ {0} /\ N \in Nat \ {0}  BY <1>1, ScheduleAssumption
    <3> HIDE DEF h, d
    <3>2. QED  BY <3>1 DEF Progress
  <2>2. h \in Nat /\ d \in Nat /\ L \in Nat \ {0}  BY <1>3, ScheduleAssumption
  <2> HIDE DEF h, d
  <2>3. \A i \in 1 .. d : MessagesBefore(i) \in 0 .. h  BY <2>1, <2>2 DEF MessagesBefore
  <2>4. QED  BY <2>3 DEF h, d
<1>5. QED  BY <1>2, <1>3, <1>4 DEF Proofs

(* A message heard by both: old agreement stays, and grows with the message. *)
LEMMA HearGrows ==
  ASSUME Shape, NEW m, heard' = [p \in Proofs |-> Append(heard[p], m[p])]
  PROVE  /\ \A p \in Proofs : IsSequence(heard'[p]) /\ Len(heard'[p]) = Len(heard[p]) + 1
         /\ \A n \in 0 .. Len(heard[1]) :
              AgreeOn(heard[1], heard[2], n) => AgreeOn(heard'[1], heard'[2], n)
         /\ AgreeOn(heard[1], heard[2], Len(heard[1])) /\ m[1] = m[2]
              => AgreeOn(heard'[1], heard'[2], Len(heard[1]) + 1)
<1>1. \A p \in Proofs : heard'[p] = Append(heard[p], m[p])  OBVIOUS
<1>2. 1 \in Proofs /\ 2 \in Proofs  BY DEF Proofs
<1>3. \A p \in Proofs : IsSequence(heard[p])  BY DEF Shape
<1>4. \A p \in Proofs : IsSequence(heard'[p]) /\ Len(heard'[p]) = Len(heard[p]) + 1
  <2>1. SUFFICES ASSUME NEW p \in Proofs
                 PROVE  IsSequence(heard'[p]) /\ Len(heard'[p]) = Len(heard[p]) + 1
    OBVIOUS
  <2>2. IsSequence(heard[p])  BY <1>3
  <2>3. IsSequence(Append(heard[p], m[p])) /\ Len(Append(heard[p], m[p])) = Len(heard[p]) + 1
    BY <2>2, Appending
  <2>4. QED  BY <1>1, <2>3
<1>5. /\ \A n \in 0 .. Len(heard[1]) :
            AgreeOn(heard[1], heard[2], n) => AgreeOn(heard'[1], heard'[2], n)
      /\ AgreeOn(heard[1], heard[2], Len(heard[1])) /\ m[1] = m[2]
            => AgreeOn(heard'[1], heard'[2], Len(heard[1]) + 1)
  <2>1. IsSequence(heard[1]) /\ IsSequence(heard[2])  BY <1>2, <1>3
  <2>2. /\ \A n \in 0 .. Len(heard[1]) :
              AgreeOn(heard[1], heard[2], n)
                => AgreeOn(Append(heard[1], m[1]), Append(heard[2], m[2]), n)
        /\ AgreeOn(heard[1], heard[2], Len(heard[1])) /\ m[1] = m[2]
              => AgreeOn(Append(heard[1], m[1]), Append(heard[2], m[2]), Len(heard[1]) + 1)
    BY <2>1, InStep, AgreeAppend
  <2>3. QED  BY <1>1, <1>2, <2>2
<1>6. QED  BY <1>4, <1>5

(* Challenges drawn already stay bound while agreement stays.              *)
LEMMA OldDrawsBind ==
  ASSUME Shape, ChallengesBind, NEW i \in 1 .. Len(drawn[1]), drawn[1][i] = drawn[2][i],
         \A n \in 0 .. Len(heard[1]) :
           AgreeOn(heard[1], heard[2], n) => AgreeOn(heard'[1], heard'[2], n)
  PROVE  AgreeOn(heard'[1], heard'[2], MessagesBefore(i))
<1>1. AgreeOn(heard[1], heard[2], MessagesBefore(i))  BY DEF ChallengesBind, AgreeOn
<1>2. QED  BY <1>1, InStep

(* A challenge drawn by both: it must bind what was heard by now.          *)
LEMMA DrawBinds ==
  ASSUME Shape, ChallengesBind, NEW c, drawn' = [p \in Proofs |-> Append(drawn[p], c[p])],
         \A n \in 0 .. Len(heard[1]) :
           AgreeOn(heard[1], heard[2], n) => AgreeOn(heard'[1], heard'[2], n),
         c[1] = c[2] => AgreeOn(heard'[1], heard'[2], MessagesBefore(Len(drawn[1]) + 1))
  PROVE  /\ ChallengesBind'
         /\ \A p \in Proofs : IsSequence(drawn'[p]) /\ Len(drawn'[p]) = Len(drawn[p]) + 1
<1>1. 1 \in Proofs /\ 2 \in Proofs  BY DEF Proofs
<1>2. ASSUME NEW p \in Proofs
      PROVE  /\ IsSequence(drawn'[p]) /\ Len(drawn'[p]) = Len(drawn[p]) + 1
             /\ Len(drawn[p]) \in Nat /\ drawn'[p][Len(drawn[p]) + 1] = c[p]
             /\ \A i \in 1 .. Len(drawn[p]) : drawn'[p][i] = drawn[p][i]
  <2>1. IsSequence(drawn[p])  BY DEF Shape
  <2>2. drawn'[p] = Append(drawn[p], c[p])  OBVIOUS
  <2>3. /\ IsSequence(Append(drawn[p], c[p])) /\ Len(Append(drawn[p], c[p])) = Len(drawn[p]) + 1
        /\ Len(drawn[p]) \in Nat /\ Append(drawn[p], c[p])[Len(drawn[p]) + 1] = c[p]
        /\ \A i \in 1 .. Len(drawn[p]) : Append(drawn[p], c[p])[i] = drawn[p][i]
    BY <2>1, Appending
  <2>4. QED  BY <2>2, <2>3
<1>3. ASSUME NEW i \in 1 .. Len(drawn'[1]), drawn'[1][i] = drawn'[2][i]
      PROVE  AgreeOn(heard'[1], heard'[2], MessagesBefore(i))
  <2>1. Len(drawn[1]) \in Nat /\ Len(drawn[2]) = Len(drawn[1])  BY <1>1, InStep
  <2>2. i \in 1 .. Len(drawn[1]) \/ i = Len(drawn[1]) + 1  BY <1>1, <1>2, <1>3, <2>1
  <2>3. CASE i \in 1 .. Len(drawn[1])
    <3>1. drawn'[1][i] = drawn[1][i] /\ drawn'[2][i] = drawn[2][i]
      BY <1>1, <1>2, <2>1, <2>3
    <3>2. QED  BY <1>3, <2>3, <3>1, OldDrawsBind
  <2>4. CASE i = Len(drawn[1]) + 1
    <3>1. drawn'[1][i] = c[1] /\ drawn'[2][i] = c[2]  BY <1>1, <1>2, <2>1, <2>4
    <3>2. QED  BY <1>3, <2>4, <3>1
  <2>5. QED  BY <2>2, <2>3, <2>4
<1>4. ChallengesBind'  BY <1>3 DEF ChallengesBind, AgreeOn, MessagesBefore
<1>5. QED  BY <1>2, <1>4

-----------------------------------------------------------------------------
(* The schedule advances by one message, one draw, or both, and draws at   *)
(* the point MessagesBefore names.                                         *)
LEMMA Advances ==
  ASSUME NEW h, NEW d, Progress(step, h, d), NEW m
  PROVE  /\ AbsorbTraceRoot(m) \/ AbsorbCompRoot(m) \/ FriBetaStep(m)
              => Progress(step', h + 1, d + 1) /\ MessagesBefore(d + 1) = h + 1
         /\ AbsorbOpening(m) /\ step[2] = 7
              => Progress(step', h + 1, d + 1) /\ MessagesBefore(d + 1) = h + 1
         /\ AbsorbOpening(m) /\ step[2] # 7 => Progress(step', h + 1, d)
         /\ AbsorbFinal(m) => Progress(step', h + 1, d)
         /\ AbsorbNonce(m) => Progress(step', h + 1, d + 1) /\ MessagesBefore(d + 1) = h + 1
         /\ QueryIdxStep => Progress(step', h, d + 1) /\ MessagesBefore(d + 1) = h
<1>1. N \in Nat \ {0} /\ L \in Nat \ {0}  BY ScheduleAssumption
<1>2. ASSUME AbsorbTraceRoot(m)
      PROVE  Progress(step', h + 1, d + 1) /\ MessagesBefore(d + 1) = h + 1
  <2>1. step = <<"trace", 1>> /\ step' = <<"comp", 1>>  BY <1>2 DEF AbsorbTraceRoot
  <2>2. h = 1 /\ d = 0  BY <2>1, <1>1 DEF Progress
  <2>3. QED  BY <2>1, <2>2, <1>1 DEF Progress, MessagesBefore
<1>3. ASSUME AbsorbCompRoot(m)
      PROVE  Progress(step', h + 1, d + 1) /\ MessagesBefore(d + 1) = h + 1
  <2>1. step = <<"comp", 1>> /\ step' = <<"opening", 1>>  BY <1>3 DEF AbsorbCompRoot
  <2>2. h = 2 /\ d = 1  BY <2>1, <1>1 DEF Progress
  <2>3. QED  BY <2>1, <2>2, <1>1 DEF Progress, MessagesBefore
<1>4. ASSUME FriBetaStep(m)
      PROVE  Progress(step', h + 1, d + 1) /\ MessagesBefore(d + 1) = h + 1
  <2>1. step[1] = "fri" /\ step' = IF step[2] = L THEN <<"final", 1>> ELSE <<"fri", step[2] + 1>>
    BY <1>4 DEF FriBetaStep
  <2>2. PICK n \in 1 .. L : step = <<"fri", n>> /\ h = n + 9 /\ d = n + 2
    BY <2>1, <1>1 DEF Progress
  <2>3. CASE n = L
    <3>1. step' = <<"final", 1>>  BY <2>1, <2>2, <2>3
    <3>2. QED  BY <2>2, <2>3, <3>1, <1>1 DEF Progress, MessagesBefore
  <2>4. CASE n # L
    <3>1. step' = <<"fri", n + 1>> /\ n + 1 \in 1 .. L  BY <2>1, <2>2, <2>4, <1>1
    <3>2. QED  BY <2>2, <2>4, <3>1, <1>1 DEF Progress, MessagesBefore
  <2>5. QED  BY <2>3, <2>4
<1>5. ASSUME AbsorbOpening(m)
      PROVE  /\ step[2] = 7 => Progress(step', h + 1, d + 1) /\ MessagesBefore(d + 1) = h + 1
             /\ step[2] # 7 => Progress(step', h + 1, d)
  <2>1. /\ step[1] = "opening"
        /\ step' = IF step[2] = 7 THEN <<"fri", 1>> ELSE <<"opening", step[2] + 1>>
    BY <1>5 DEF AbsorbOpening
  <2>2. PICK n \in 1 .. 7 : step = <<"opening", n>> /\ h = n + 2 /\ d = 2
    BY <2>1, <1>1 DEF Progress
  <2>3. CASE n = 7
    <3>1. step' = <<"fri", 1>>  BY <2>1, <2>2, <2>3
    <3>2. 1 \in 1 .. L  BY <1>1
    <3>3. QED  BY <2>2, <2>3, <3>1, <3>2, <1>1 DEF Progress, MessagesBefore
  <2>4. CASE n # 7
    <3>1. step' = <<"opening", n + 1>> /\ n + 1 \in 1 .. 7  BY <2>1, <2>2, <2>4
    <3>2. QED  BY <2>2, <2>4, <3>1 DEF Progress
  <2>5. QED  BY <2>3, <2>4
<1>6. ASSUME AbsorbFinal(m)  PROVE  Progress(step', h + 1, d)
  <2>1. step = <<"final", 1>> /\ step' = <<"nonce", 1>>  BY <1>6 DEF AbsorbFinal
  <2>2. h = L + 10 /\ d = L + 3  BY <2>1, <1>1 DEF Progress
  <2>3. QED  BY <2>1, <2>2, <1>1 DEF Progress
<1>7. ASSUME AbsorbNonce(m)
      PROVE  Progress(step', h + 1, d + 1) /\ MessagesBefore(d + 1) = h + 1
  <2>1. step = <<"nonce", 1>> /\ step' = <<"index", 1>>  BY <1>7 DEF AbsorbNonce
  <2>2. h = L + 11 /\ d = L + 3 /\ 1 \in 1 .. N  BY <2>1, <1>1 DEF Progress
  <2>3. QED  BY <2>1, <2>2, <1>1 DEF Progress, MessagesBefore
<1>8. ASSUME QueryIdxStep  PROVE  Progress(step', h, d + 1) /\ MessagesBefore(d + 1) = h
  <2>1. /\ step[1] = "index"
        /\ step' = IF step[2] = N THEN <<"done", 1>> ELSE <<"index", step[2] + 1>>
    BY <1>8 DEF QueryIdxStep
  <2>2. PICK n \in 1 .. N : step = <<"index", n>> /\ h = L + 12 /\ d = n + L + 3
    BY <2>1, <1>1 DEF Progress
  <2>3. CASE n = N
    <3>1. step' = <<"done", 1>>  BY <2>1, <2>2, <2>3
    <3>2. QED  BY <2>2, <2>3, <3>1, <1>1 DEF Progress, MessagesBefore
  <2>4. CASE n # N
    <3>1. step' = <<"index", n + 1>> /\ n + 1 \in 1 .. N  BY <2>1, <2>2, <2>4, <1>1
    <3>2. QED  BY <2>2, <2>4, <3>1, <1>1 DEF Progress, MessagesBefore
  <2>5. QED  BY <2>3, <2>4
<1>9. QED  BY <1>2, <1>3, <1>4, <1>5, <1>6, <1>7, <1>8

(* A message without a challenge keeps the invariant.                      *)
LEMMA HearStep ==
  ASSUME Inv, NEW tag, NEW m, Hear(tag, m), UNCHANGED drawn,
         \A h, d : Progress(step, h, d) => Progress(step', h + 1, d)
  PROVE  Inv'
<1>1. Shape /\ Histories /\ ChallengesBind  BY DEF Inv
<1>2. /\ heard' = [p \in Proofs |-> Append(heard[p], m[p])]
      /\ digest' = [p \in Proofs |-> Absorb(digest[p], tag, m[p])]
  BY DEF Hear
<1>3. 1 \in Proofs /\ 2 \in Proofs  BY DEF Proofs
<1>4. /\ \A p \in Proofs : IsSequence(heard'[p]) /\ Len(heard'[p]) = Len(heard[p]) + 1
      /\ \A n \in 0 .. Len(heard[1]) :
           AgreeOn(heard[1], heard[2], n) => AgreeOn(heard'[1], heard'[2], n)
      /\ AgreeOn(heard[1], heard[2], Len(heard[1])) /\ m[1] = m[2]
           => AgreeOn(heard'[1], heard'[2], Len(heard[1]) + 1)
  BY <1>1, <1>2, HearGrows
<1>5. Shape'
  <2>1. \A p \in Proofs : Progress(step, Len(heard[p]), Len(drawn[p]))  BY <1>1 DEF Shape
  <2>2. \A p \in Proofs : Progress(step', Len(heard[p]) + 1, Len(drawn[p]))  BY <2>1
  <2>3. \A p \in Proofs : Progress(step', Len(heard'[p]), Len(drawn'[p]))  BY <1>4, <2>2
  <2>4. \A p \in Proofs : IsSequence(heard'[p]) /\ IsSequence(drawn'[p])
    BY <1>1, <1>4 DEF Shape
  <2>5. QED  BY <1>1, <1>2, <2>3, <2>4 DEF Shape
<1>6. Histories'
  <2>1. SUFFICES ASSUME digest'[1] = digest'[2]
                 PROVE  AgreeOn(heard'[1], heard'[2], Len(heard[1]) + 1)
    BY <1>3, <1>4 DEF Histories
  <2>2. Absorb(digest[1], tag, m[1]) = Absorb(digest[2], tag, m[2])  BY <1>2, <1>3, <2>1
  <2>3. digest[1] = digest[2] /\ m[1] = m[2]  BY <2>2, AbsorbBinds
  <2>4. QED  BY <1>1, <1>4, <2>3 DEF Histories
<1>7. ChallengesBind'
  <2>1. SUFFICES ASSUME NEW i \in 1 .. Len(drawn[1]), drawn[1][i] = drawn[2][i]
                 PROVE  AgreeOn(heard'[1], heard'[2], MessagesBefore(i))
    BY DEF ChallengesBind, AgreeOn, MessagesBefore
  <2>2. QED  BY <1>1, <1>4, <2>1, OldDrawsBind
<1>8. QED  BY <1>5, <1>6, <1>7 DEF Inv

(* A message followed by a challenge that contains state and message does, *)
(* whatever the state after it, if equal states come from equal ones.      *)
LEMMA HearDrawStep ==
  ASSUME Inv, NEW m, NEW c,
         heard' = [p \in Proofs |-> Append(heard[p], m[p])],
         drawn' = [p \in Proofs |-> Append(drawn[p], c[p])],
         digest' = [p \in Proofs |-> digest'[p]],
         c[1] = c[2] => digest[1] = digest[2] /\ m[1] = m[2],
         digest'[1] = digest'[2] => digest[1] = digest[2] /\ m[1] = m[2],
         \A h, d : Progress(step, h, d)
                     => Progress(step', h + 1, d + 1) /\ MessagesBefore(d + 1) = h + 1
  PROVE  Inv'
<1>1. Shape /\ Histories /\ ChallengesBind  BY DEF Inv
<1>2. 1 \in Proofs /\ 2 \in Proofs  BY DEF Proofs
<1>3. /\ \A p \in Proofs : IsSequence(heard'[p]) /\ Len(heard'[p]) = Len(heard[p]) + 1
      /\ \A n \in 0 .. Len(heard[1]) :
           AgreeOn(heard[1], heard[2], n) => AgreeOn(heard'[1], heard'[2], n)
      /\ AgreeOn(heard[1], heard[2], Len(heard[1])) /\ m[1] = m[2]
           => AgreeOn(heard'[1], heard'[2], Len(heard[1]) + 1)
  BY <1>1, HearGrows
<1>4. MessagesBefore(Len(drawn[1]) + 1) = Len(heard[1]) + 1
  <2>1. Progress(step, Len(heard[1]), Len(drawn[1]))  BY <1>1, <1>2 DEF Shape
  <2>2. QED  BY <2>1
<1>5. digest[1] = digest[2] /\ m[1] = m[2]
        => AgreeOn(heard'[1], heard'[2], Len(heard[1]) + 1)
  BY <1>1, <1>3 DEF Histories
<1>6. /\ ChallengesBind'
      /\ \A p \in Proofs : IsSequence(drawn'[p]) /\ Len(drawn'[p]) = Len(drawn[p]) + 1
  <2>1. c[1] = c[2] => AgreeOn(heard'[1], heard'[2], MessagesBefore(Len(drawn[1]) + 1))
    BY <1>4, <1>5
  <2>2. QED  BY <1>1, <1>3, <2>1, DrawBinds
<1>7. Shape'
  <2>1. \A p \in Proofs : Progress(step, Len(heard[p]), Len(drawn[p]))  BY <1>1 DEF Shape
  <2>2. \A p \in Proofs : Progress(step', Len(heard[p]) + 1, Len(drawn[p]) + 1)  BY <2>1
  <2>3. \A p \in Proofs : Progress(step', Len(heard'[p]), Len(drawn'[p]))  BY <1>3, <1>6, <2>2
  <2>4. QED  BY <1>3, <1>6, <2>3 DEF Shape
<1>8. Histories'  BY <1>2, <1>3, <1>5 DEF Histories
<1>9. QED  BY <1>6, <1>7, <1>8 DEF Inv

(* An index drawn from the state alone.                                    *)
LEMMA QueryStep == Inv /\ QueryIdxStep => Inv'
<1> SUFFICES ASSUME Inv, QueryIdxStep  PROVE Inv'  OBVIOUS
<1>1. Shape /\ Histories /\ ChallengesBind  BY DEF Inv
<1>2. 1 \in Proofs /\ 2 \in Proofs  BY DEF Proofs
<1> DEFINE c == [p \in Proofs |-> SqueezeM31(digest[p])]
<1>3. /\ heard' = heard /\ digest' = c
      /\ drawn' = [p \in Proofs |-> Append(drawn[p], c[p])]
  BY DEF QueryIdxStep
<1>4. c[1] = c[2] => AgreeOn(heard[1], heard[2], Len(heard[1]))
  BY <1>1, <1>2 DEF SqueezeM31, Histories
<1> HIDE DEF c
<1>5. \A p \in Proofs : /\ Progress(step', Len(heard[p]), Len(drawn[p]) + 1)
                        /\ MessagesBefore(Len(drawn[p]) + 1) = Len(heard[p])
  <2>1. \A p \in Proofs : Progress(step, Len(heard[p]), Len(drawn[p]))  BY <1>1 DEF Shape
  <2>2. QED  BY <2>1, Advances
<1>6. /\ ChallengesBind'
      /\ \A p \in Proofs : IsSequence(drawn'[p]) /\ Len(drawn'[p]) = Len(drawn[p]) + 1
  <2>1. c[1] = c[2] => AgreeOn(heard'[1], heard'[2], MessagesBefore(Len(drawn[1]) + 1))
    BY <1>2, <1>3, <1>4, <1>5
  <2>2. \A n \in 0 .. Len(heard[1]) :
          AgreeOn(heard[1], heard[2], n) => AgreeOn(heard'[1], heard'[2], n)
    BY <1>3
  <2>3. QED  BY <1>1, <1>3, <2>1, <2>2, DrawBinds
<1>7. Shape'
  <2>1. \A p \in Proofs : Progress(step', Len(heard'[p]), Len(drawn'[p]))
    BY <1>3, <1>5, <1>6
  <2>2. \A p \in Proofs : IsSequence(heard'[p])  BY <1>1, <1>3 DEF Shape
  <2>3. digest' = [p \in Proofs |-> digest'[p]] /\ drawn' = [p \in Proofs |-> drawn'[p]]
    BY <1>3 DEF c
  <2>4. heard' = [p \in Proofs |-> heard'[p]]  BY <1>1, <1>3 DEF Shape
  <2>5. QED  BY <1>6, <2>1, <2>2, <2>3, <2>4 DEF Shape
<1>8. Histories'  BY <1>3, <1>4 DEF Histories
<1>9. QED  BY <1>6, <1>7, <1>8 DEF Inv

(* A root, or the last opening, and the challenge that answers it.         *)
LEMMA RootStep ==
  ASSUME Inv, NEW tag, NEW m, HearAndDraw(tag, m),
         \A h, d : Progress(step, h, d)
                     => Progress(step', h + 1, d + 1) /\ MessagesBefore(d + 1) = h + 1
  PROVE  Inv'
<1>1. 1 \in Proofs /\ 2 \in Proofs  BY DEF Proofs
<1> DEFINE after(p) == Absorb(digest[p], tag, m[p])
           c == [p \in Proofs |-> SqueezeQm31(after(p))]
<1>2. /\ heard' = [p \in Proofs |-> Append(heard[p], m[p])]
      /\ drawn' = [p \in Proofs |-> Append(drawn[p], c[p])]
      /\ digest' = [p \in Proofs |-> c[p][4]]
  BY DEF HearAndDraw
<1>3. c[1] = SqueezeQm31(after(1)) /\ c[2] = SqueezeQm31(after(2))  BY <1>1
<1> HIDE DEF c
<1>4. c[1] = c[2] => after(1) = after(2)  BY <1>3, SqueezeBinds
<1>5. digest'[1] = digest'[2] => after(1) = after(2)  BY <1>1, <1>2, <1>3, StateBinds
<1>6. after(1) = after(2) => digest[1] = digest[2] /\ m[1] = m[2]  BY AbsorbBinds
<1>7. QED
  <2>1. c[1] = c[2] => digest[1] = digest[2] /\ m[1] = m[2]  BY <1>4, <1>6
  <2>2. digest'[1] = digest'[2] => digest[1] = digest[2] /\ m[1] = m[2]  BY <1>5, <1>6
  <2>3. digest' = [p \in Proofs |-> digest'[p]]  BY <1>2
  <2>4. QED  BY <1>2, <2>1, <2>2, <2>3, HearDrawStep

(* The nonce: the grinding hash is drawn from the state before it.         *)
LEMMA NonceStep == ASSUME Inv, NEW m, AbsorbNonce(m)  PROVE Inv'
<1>1. 1 \in Proofs /\ 2 \in Proofs  BY DEF Proofs
<1> DEFINE c == [p \in Proofs |-> Pow(digest[p], m[p])]
<1>2. /\ heard' = [p \in Proofs |-> Append(heard[p], m[p])]
      /\ drawn' = [p \in Proofs |-> Append(drawn[p], c[p])]
      /\ digest' = [p \in Proofs |-> Absorb(digest[p], "nonce", m[p])]
  BY DEF AbsorbNonce, Hear
<1>3. c[1] = c[2] => digest[1] = digest[2] /\ m[1] = m[2]  BY <1>1 DEF Pow
<1>4. digest'[1] = digest'[2] => digest[1] = digest[2] /\ m[1] = m[2]
  <2>1. SUFFICES ASSUME digest'[1] = digest'[2]  PROVE digest[1] = digest[2] /\ m[1] = m[2]
    OBVIOUS
  <2>2. Absorb(digest[1], "nonce", m[1]) = Absorb(digest[2], "nonce", m[2])
    BY <1>1, <1>2, <2>1
  <2>3. QED  BY <2>2, AbsorbBinds
<1> HIDE DEF c
<1>5. \A h, d : Progress(step, h, d)
                  => Progress(step', h + 1, d + 1) /\ MessagesBefore(d + 1) = h + 1
  BY Advances
<1>6. digest' = [p \in Proofs |-> digest'[p]]  BY <1>2
<1>7. QED  BY <1>2, <1>3, <1>4, <1>5, <1>6, HearDrawStep

-----------------------------------------------------------------------------
(* It holds when the context alone has been absorbed.                      *)
LEMMA InitInv == Init => Inv
<1> SUFFICES ASSUME Init  PROVE Inv  OBVIOUS
<1>1. PICK ctx : /\ digest = [p \in Proofs |-> TranscriptInit(ctx[p])]
                 /\ heard = [p \in Proofs |-> <<ctx[p]>>]
  BY DEF Init
<1>2. step = <<"trace", 1>> /\ drawn = [p \in Proofs |-> << >>]  BY DEF Init
<1>3. 1 \in Proofs /\ 2 \in Proofs  BY DEF Proofs
<1>4. \A p \in Proofs : /\ IsSequence(heard[p]) /\ IsSequence(drawn[p])
                        /\ Len(heard[p]) = 1 /\ Len(drawn[p]) = 0
  <2>1. SUFFICES ASSUME NEW p \in Proofs
                 PROVE  /\ IsSequence(heard[p]) /\ IsSequence(drawn[p])
                        /\ Len(heard[p]) = 1 /\ Len(drawn[p]) = 0
    OBVIOUS
  <2>2. heard[p] = <<ctx[p]>> /\ drawn[p] = << >>  BY <1>1, <1>2
  <2>3. heard[p] \in Seq({ctx[p]}) /\ drawn[p] \in Seq({ctx[p]})  BY <2>2
  <2>4. QED  BY <2>2, <2>3 DEF IsSequence
<1>5. Shape
  <2>1. \A p \in Proofs : Progress(step, Len(heard[p]), Len(drawn[p]))
    BY <1>2, <1>4 DEF Progress
  <2>2. QED  BY <1>1, <1>2, <1>4, <2>1 DEF Shape
<1>6. Histories
  <2>1. digest[1] = digest[2] => ctx[1] = ctx[2]  BY <1>1, <1>3 DEF TranscriptInit
  <2>2. heard[1] = <<ctx[1]>> /\ heard[2] = <<ctx[2]>>  BY <1>1, <1>3
  <2>3. QED  BY <2>1, <2>2 DEF Histories, AgreeOn
<1>7. ChallengesBind
  <2>1. Len(drawn[1]) = 0  BY <1>3, <1>4
  <2>2. QED  BY <2>1 DEF ChallengesBind
<1>8. QED  BY <1>5, <1>6, <1>7 DEF Inv

(* Every absorption and every draw keeps it.                               *)
LEMMA NextInv == Inv /\ [Next]_vars => Inv'
<1> SUFFICES ASSUME Inv, [Next]_vars  PROVE Inv'  OBVIOUS
<1>1. ASSUME NEW m, AbsorbTraceRoot(m) \/ AbsorbCompRoot(m) \/ FriBetaStep(m)  PROVE Inv'
  <2>1. HearAndDraw("root", m)  BY <1>1 DEF AbsorbTraceRoot, AbsorbCompRoot, FriBetaStep
  <2>2. \A h, d : Progress(step, h, d)
                    => Progress(step', h + 1, d + 1) /\ MessagesBefore(d + 1) = h + 1
    BY <1>1, Advances
  <2>3. QED  BY <2>1, <2>2, RootStep
<1>2. ASSUME NEW m, AbsorbOpening(m)  PROVE Inv'
  <2>1. CASE step[2] = 7
    <3>1. HearAndDraw("qm31", m)  BY <1>2, <2>1 DEF AbsorbOpening
    <3>2. \A h, d : Progress(step, h, d)
                      => Progress(step', h + 1, d + 1) /\ MessagesBefore(d + 1) = h + 1
      BY <1>2, <2>1, Advances
    <3>3. QED  BY <3>1, <3>2, RootStep
  <2>2. CASE step[2] # 7
    <3>1. Hear("qm31", m) /\ UNCHANGED drawn  BY <1>2, <2>2 DEF AbsorbOpening
    <3>2. \A h, d : Progress(step, h, d) => Progress(step', h + 1, d)
      BY <1>2, <2>2, Advances
    <3>3. QED  BY <3>1, <3>2, HearStep
  <2>3. QED  BY <2>1, <2>2
<1>3. ASSUME NEW m, AbsorbFinal(m)  PROVE Inv'
  <2>1. Hear("qm31", m) /\ UNCHANGED drawn  BY <1>3 DEF AbsorbFinal
  <2>2. \A h, d : Progress(step, h, d) => Progress(step', h + 1, d)  BY <1>3, Advances
  <2>3. QED  BY <2>1, <2>2, HearStep
<1>4. ASSUME NEW m, AbsorbNonce(m)  PROVE Inv'  BY <1>4, NonceStep
<1>5. CASE QueryIdxStep  BY <1>5, QueryStep
<1>6. CASE UNCHANGED vars
  BY <1>6 DEF vars, Inv, Shape, Histories, ChallengesBind, AgreeOn, MessagesBefore
<1>7. QED  BY <1>1, <1>2, <1>3, <1>4, <1>5, <1>6 DEF Next

(* Whatever the two proofs bring, a challenge they share binds both to the *)
(* same context and the same messages before it: schedule.clar draws every *)
(* challenge after everything it must answer, for every N and L.           *)
THEOREM ChallengesBound == Spec => []ChallengesBind
<1>1. Inv => ChallengesBind  BY DEF Inv
<1>2. QED  BY <1>1, InitInv, NextInv, PTL DEF Spec

-----------------------------------------------------------------------------
(***************************************************************************)
(* Why no challenge is drawn twice.  A transcript state is a term made     *)
(* from the one before it, so the states passed through contain, with a    *)
(* term, every term it is made from, and nothing made from the last one:   *)
(* the next state is new, whatever messages were chosen.  A challenge is   *)
(* squeezed from a new state; the one draw that is not, the grinding hash, *)
(* is the only one of its kind.                                            *)
(***************************************************************************)

\* t is made from s by one squeeze or one absorption
MadeFrom(t, s) ==
  \/ t = SqueezeM31(s)
  \/ \E tag, m : t = Absorb(s, tag, m)

\* S can be the states a transcript has passed through up to state d.
Passed(S, d) ==
  /\ d \in S
  /\ \A t \in S : \A s : MadeFrom(t, s) => s \in S
  /\ \A t \in S : ~MadeFrom(t, d)

\* the three kinds of draw, each from states in S
Felt(c, S) == \E s : c = SqueezeQm31(s) /\ SqueezeM31(s) \in S
Grind(c) == \E s, m : c = Pow(s, m)
Index(c, S) == c \in S /\ \E s : c = SqueezeM31(s)

Distinct(d) == \A i, n \in 1 .. Len(d) : d[i] = d[n] => i = n

\* The draws of one proof: felts, then the grinding hash, then indices, all different.
Fresh(d, S, grindsAhead) ==
  /\ IsSequence(d) /\ Distinct(d)
  /\ \A i \in 1 .. Len(d) :
       Felt(d[i], S) \/ (~grindsAhead /\ (Grind(d[i]) \/ Index(d[i], S)))

GrindsAhead == step[1] \in {"trace", "comp", "opening", "fri", "final", "nonce"}

FreshInv == \A p \in Proofs : \E S : Passed(S, digest[p]) /\ Fresh(drawn[p], S, GrindsAhead)

-----------------------------------------------------------------------------
(* A term is made from one other, and from none if it starts a transcript. *)
LEMMA MadeFromOne ==
  /\ \A t, r, s : MadeFrom(t, r) /\ MadeFrom(t, s) => r = s
  /\ \A ctx, s : ~MadeFrom(TranscriptInit(ctx), s)
<1>1. ASSUME NEW t, NEW r, NEW s, MadeFrom(t, r), MadeFrom(t, s)  PROVE r = s
  BY <1>1 DEF MadeFrom, SqueezeM31, Absorb
<1>2. ASSUME NEW ctx, NEW s  PROVE ~MadeFrom(TranscriptInit(ctx), s)
  BY DEF MadeFrom, SqueezeM31, Absorb, TranscriptInit
<1>3. QED  BY <1>1, <1>2

(* A state made from the last one is new, and becomes the last one.        *)
LEMMA Passes ==
  ASSUME NEW S, NEW d, NEW t, Passed(S, d), MadeFrom(t, d)
  PROVE  t \notin S /\ Passed(S \cup {t}, t)
<1>1. t \notin S  BY DEF Passed
<1>2. d \in S /\ t # d  BY <1>1 DEF Passed
<1>3. ASSUME NEW u \in S \cup {t}, NEW s, MadeFrom(u, s)  PROVE s \in S \cup {t}
  <2>1. CASE u \in S  BY <1>3, <2>1 DEF Passed
  <2>2. CASE u = t  BY <1>2, <1>3, <2>2, MadeFromOne
  <2>3. QED  BY <2>1, <2>2
<1>4. ASSUME NEW u \in S \cup {t}, MadeFrom(u, t)  PROVE FALSE
  <2>1. CASE u \in S  BY <1>1, <1>4, <2>1 DEF Passed
  <2>2. CASE u = t  BY <1>2, <1>4, <2>2, MadeFromOne
  <2>3. QED  BY <2>1, <2>2
<1>5. QED  BY <1>1, <1>3, <1>4 DEF Passed

(* The kinds of draw are told apart, and a felt is known by its first block. *)
LEMMA KindsDiffer ==
  /\ \A s, r, m : SqueezeQm31(s) # Pow(r, m) /\ SqueezeM31(s) # Pow(r, m)
  /\ \A s, r : SqueezeQm31(s) # SqueezeM31(r)
  /\ \A s, r : SqueezeQm31(s) = SqueezeQm31(r) => SqueezeM31(s) = SqueezeM31(r)
<1>1. ASSUME NEW s, NEW r, NEW m  PROVE SqueezeQm31(s) # Pow(r, m) /\ SqueezeM31(s) # Pow(r, m)
  BY DEF SqueezeQm31, SqueezeM31, Pow
<1>2. ASSUME NEW s, NEW r  PROVE SqueezeQm31(s) # SqueezeM31(r)
  <2>1. Len(SqueezeQm31(s)) = 4 /\ Len(SqueezeM31(r)) = 2  BY DEF SqueezeQm31, SqueezeM31
  <2>2. QED  BY <2>1
<1>3. QED  BY <1>1, <1>2, SqueezeBinds

(* A new element at the end leaves the elements different.                 *)
LEMMA DistinctAppend ==
  ASSUME NEW d, IsSequence(d), Distinct(d), NEW c, \A i \in 1 .. Len(d) : d[i] # c
  PROVE  Distinct(Append(d, c))
  BY Appending DEF Distinct

(* Draws stay what they are when more states are passed.                   *)
LEMMA FreshGrows ==
  ASSUME NEW d, NEW S, NEW T, NEW ahead, Fresh(d, S, ahead), S \subseteq T
  PROVE  Fresh(d, T, ahead) /\ Fresh(d, T, FALSE)
<1>1. \A c : (Felt(c, S) => Felt(c, T)) /\ (Index(c, S) => Index(c, T))  BY DEF Felt, Index
<1>2. QED  BY <1>1 DEF Fresh

(* A felt squeezed from a new state is new.                                *)
LEMMA FeltFresh ==
  ASSUME NEW d, NEW S, NEW ahead, Fresh(d, S, ahead), NEW s, SqueezeM31(s) \notin S,
         NEW T, S \subseteq T, SqueezeM31(s) \in T
  PROVE  Fresh(Append(d, SqueezeQm31(s)), T, ahead)
<1> DEFINE c == SqueezeQm31(s)
<1>1. ASSUME NEW i \in 1 .. Len(d)  PROVE d[i] # c
  <2>1. CASE Felt(d[i], S)  BY <2>1, KindsDiffer DEF Felt
  <2>2. CASE Grind(d[i])  BY <2>2, KindsDiffer DEF Grind
  <2>3. CASE Index(d[i], S)  BY <2>3, KindsDiffer DEF Index
  <2>4. QED  BY <2>1, <2>2, <2>3 DEF Fresh
<1>2. IsSequence(d) /\ Distinct(d)  BY DEF Fresh
<1>3. Felt(c, T)  BY DEF Felt
<1>4. Fresh(d, T, ahead)  BY FreshGrows
<1> HIDE DEF c
<1>5. Distinct(Append(d, c))  BY <1>1, <1>2, DistinctAppend
<1>6. /\ IsSequence(Append(d, c)) /\ Len(Append(d, c)) = Len(d) + 1 /\ Len(d) \in Nat
      /\ Append(d, c)[Len(d) + 1] = c /\ \A i \in 1 .. Len(d) : Append(d, c)[i] = d[i]
  BY <1>2, Appending
<1>7. \A i \in 1 .. (Len(d) + 1) : i \in 1 .. Len(d) \/ i = Len(d) + 1  BY <1>6
<1>8. Fresh(Append(d, c), T, ahead)  BY <1>3, <1>4, <1>5, <1>6, <1>7 DEF Fresh
<1>9. QED  BY <1>8 DEF c

(* The first grinding hash is new.                                         *)
LEMMA GrindFresh ==
  ASSUME NEW d, NEW S, Fresh(d, S, TRUE), NEW s, NEW m, NEW T, S \subseteq T
  PROVE  Fresh(Append(d, Pow(s, m)), T, FALSE)
<1> DEFINE c == Pow(s, m)
<1>1. ASSUME NEW i \in 1 .. Len(d)  PROVE d[i] # c
  <2>1. Felt(d[i], S)  BY DEF Fresh
  <2>2. QED  BY <2>1, KindsDiffer DEF Felt
<1>2. IsSequence(d) /\ Distinct(d)  BY DEF Fresh
<1>3. Grind(c)  BY DEF Grind
<1>4. Fresh(d, T, FALSE)  BY FreshGrows
<1> HIDE DEF c
<1>5. Distinct(Append(d, c))  BY <1>1, <1>2, DistinctAppend
<1>6. /\ IsSequence(Append(d, c)) /\ Len(Append(d, c)) = Len(d) + 1 /\ Len(d) \in Nat
      /\ Append(d, c)[Len(d) + 1] = c /\ \A i \in 1 .. Len(d) : Append(d, c)[i] = d[i]
  BY <1>2, Appending
<1>7. \A i \in 1 .. (Len(d) + 1) : i \in 1 .. Len(d) \/ i = Len(d) + 1  BY <1>6
<1>8. Fresh(Append(d, c), T, FALSE)  BY <1>3, <1>4, <1>5, <1>6, <1>7 DEF Fresh
<1>9. QED  BY <1>8 DEF c

(* An index that is a new state is new.                                    *)
LEMMA IndexFresh ==
  ASSUME NEW d, NEW S, Fresh(d, S, FALSE), NEW s, SqueezeM31(s) \notin S
  PROVE  Fresh(Append(d, SqueezeM31(s)), S \cup {SqueezeM31(s)}, FALSE)
<1> DEFINE c == SqueezeM31(s)  T == S \cup {c}
<1>1. ASSUME NEW i \in 1 .. Len(d)  PROVE d[i] # c
  <2>1. CASE Felt(d[i], S)  BY <2>1, KindsDiffer DEF Felt
  <2>2. CASE Grind(d[i])  BY <2>2, KindsDiffer DEF Grind
  <2>3. CASE Index(d[i], S)  BY <2>3 DEF Index
  <2>4. QED  BY <2>1, <2>2, <2>3 DEF Fresh
<1>2. IsSequence(d) /\ Distinct(d)  BY DEF Fresh
<1>3. Index(c, T)  BY DEF Index
<1>4. Fresh(d, T, FALSE)  BY FreshGrows
<1> HIDE DEF c, T
<1>5. Distinct(Append(d, c))  BY <1>1, <1>2, DistinctAppend
<1>6. /\ IsSequence(Append(d, c)) /\ Len(Append(d, c)) = Len(d) + 1 /\ Len(d) \in Nat
      /\ Append(d, c)[Len(d) + 1] = c /\ \A i \in 1 .. Len(d) : Append(d, c)[i] = d[i]
  BY <1>2, Appending
<1>7. \A i \in 1 .. (Len(d) + 1) : i \in 1 .. Len(d) \/ i = Len(d) + 1  BY <1>6
<1>8. Fresh(Append(d, c), T, FALSE)  BY <1>3, <1>4, <1>5, <1>6, <1>7 DEF Fresh
<1>9. QED  BY <1>8 DEF c, T

-----------------------------------------------------------------------------
(* Four squeezes are four new states, the first of them the felt's block.  *)
LEMMA FeltPasses ==
  ASSUME NEW S, NEW a, Passed(S, a)
  PROVE  \E T : /\ S \subseteq T /\ SqueezeM31(a) \in T /\ SqueezeM31(a) \notin S
               /\ Passed(T, SqueezeQm31(a)[4])
<1> DEFINE b0 == SqueezeM31(a)  b1 == SqueezeM31(b0)  b2 == SqueezeM31(b1)  b3 == SqueezeM31(b2)
<1>1. SqueezeQm31(a)[4] = b3  BY DEF SqueezeQm31
<1>2. \A s : MadeFrom(SqueezeM31(s), s)  BY DEF MadeFrom
<1>3. MadeFrom(b0, a) /\ MadeFrom(b1, b0) /\ MadeFrom(b2, b1) /\ MadeFrom(b3, b2)  BY <1>2
<1> DEFINE S0 == S \cup {b0}  S1 == S0 \cup {b1}  S2 == S1 \cup {b2}  S3 == S2 \cup {b3}
<1>4. b0 = SqueezeM31(a)  OBVIOUS
<1> HIDE DEF b0, b1, b2, b3
<1>5. b0 \notin S /\ Passed(S0, b0)  BY <1>3, Passes
<1>6. Passed(S1, b1)  BY <1>3, <1>5, Passes
<1>7. Passed(S2, b2)  BY <1>3, <1>6, Passes
<1>8. Passed(S3, b3)  BY <1>3, <1>7, Passes
<1>9. S \subseteq S3 /\ b0 \in S3  OBVIOUS
<1> HIDE DEF S3
<1>10. QED  BY <1>1, <1>4, <1>5, <1>8, <1>9

(* A message alone: a new state, no new draw.                              *)
LEMMA HearFresh ==
  ASSUME FreshInv, NEW tag, NEW m, Hear(tag, m), UNCHANGED drawn, GrindsAhead' => GrindsAhead
  PROVE  FreshInv'
<1> SUFFICES ASSUME NEW p \in Proofs
             PROVE  \E T : Passed(T, digest'[p]) /\ Fresh(drawn'[p], T, GrindsAhead')
  BY DEF FreshInv
<1>1. PICK S : Passed(S, digest[p]) /\ Fresh(drawn[p], S, GrindsAhead)  BY DEF FreshInv
<1>2. digest'[p] = Absorb(digest[p], tag, m[p])  BY DEF Hear
<1>3. MadeFrom(digest'[p], digest[p])  BY <1>2 DEF MadeFrom
<1>4. Passed(S \cup {digest'[p]}, digest'[p])  BY <1>1, <1>3, Passes
<1>5. Fresh(drawn[p], S \cup {digest'[p]}, GrindsAhead) /\ Fresh(drawn[p], S \cup {digest'[p]}, FALSE)
  BY <1>1, FreshGrows
<1>6. Fresh(drawn'[p], S \cup {digest'[p]}, GrindsAhead')  BY <1>5 DEF Fresh
<1>7. QED  BY <1>4, <1>6

(* A message and the felt that answers it.                                 *)
LEMMA HearDrawFresh ==
  ASSUME FreshInv, NEW tag, NEW m, HearAndDraw(tag, m), GrindsAhead
  PROVE  FreshInv'
<1> SUFFICES ASSUME NEW p \in Proofs
             PROVE  \E T : Passed(T, digest'[p]) /\ Fresh(drawn'[p], T, GrindsAhead')
  BY DEF FreshInv
<1> DEFINE a == Absorb(digest[p], tag, m[p])
<1>1. PICK S : Passed(S, digest[p]) /\ Fresh(drawn[p], S, GrindsAhead)  BY DEF FreshInv
<1>2. drawn'[p] = Append(drawn[p], SqueezeQm31(a)) /\ digest'[p] = SqueezeQm31(a)[4]
  BY DEF HearAndDraw
<1>3. MadeFrom(a, digest[p])  BY DEF MadeFrom
<1> HIDE DEF a
<1> DEFINE S0 == S \cup {a}
<1>4. Passed(S0, a)  BY <1>1, <1>3, Passes
<1>5. Fresh(drawn[p], S0, TRUE)  BY <1>1, FreshGrows DEF Fresh
<1> HIDE DEF S0
<1>6. PICK T : /\ S0 \subseteq T /\ SqueezeM31(a) \in T /\ SqueezeM31(a) \notin S0
               /\ Passed(T, SqueezeQm31(a)[4])
  BY <1>4, FeltPasses
<1>7. Fresh(drawn'[p], T, TRUE)  BY <1>2, <1>5, <1>6, FeltFresh
<1>8. Fresh(drawn'[p], T, GrindsAhead')  BY <1>7 DEF Fresh
<1>9. QED  BY <1>2, <1>6, <1>8

(* The grinding hash, and the nonce into the transcript.                   *)
LEMMA NonceFresh == ASSUME FreshInv, NEW m, AbsorbNonce(m)  PROVE FreshInv'
<1> SUFFICES ASSUME NEW p \in Proofs
             PROVE  \E T : Passed(T, digest'[p]) /\ Fresh(drawn'[p], T, GrindsAhead')
  BY DEF FreshInv
<1>1. PICK S : Passed(S, digest[p]) /\ Fresh(drawn[p], S, GrindsAhead)  BY DEF FreshInv
<1>2. GrindsAhead /\ ~GrindsAhead'  BY DEF AbsorbNonce, GrindsAhead
<1>3. /\ digest'[p] = Absorb(digest[p], "nonce", m[p])
      /\ drawn'[p] = Append(drawn[p], Pow(digest[p], m[p]))
  BY DEF AbsorbNonce, Hear
<1>4. MadeFrom(digest'[p], digest[p])  BY <1>3 DEF MadeFrom
<1>5. Passed(S \cup {digest'[p]}, digest'[p])  BY <1>1, <1>4, Passes
<1>6. Fresh(drawn[p], S, TRUE)  BY <1>1, <1>2 DEF Fresh
<1>7. Fresh(drawn'[p], S \cup {digest'[p]}, FALSE)  BY <1>3, <1>6, GrindFresh
<1>8. Fresh(drawn'[p], S \cup {digest'[p]}, GrindsAhead')  BY <1>2, <1>7 DEF Fresh
<1>9. QED  BY <1>5, <1>8

(* An index: the next state is the draw.                                   *)
LEMMA IndexStepFresh == ASSUME FreshInv, QueryIdxStep  PROVE FreshInv'
<1> SUFFICES ASSUME NEW p \in Proofs
             PROVE  \E T : Passed(T, digest'[p]) /\ Fresh(drawn'[p], T, GrindsAhead')
  BY DEF FreshInv
<1>1. PICK S : Passed(S, digest[p]) /\ Fresh(drawn[p], S, GrindsAhead)  BY DEF FreshInv
<1>2. ~GrindsAhead'  BY DEF QueryIdxStep, GrindsAhead
<1>3. digest'[p] = SqueezeM31(digest[p]) /\ drawn'[p] = Append(drawn[p], SqueezeM31(digest[p]))
  BY DEF QueryIdxStep
<1>4. MadeFrom(SqueezeM31(digest[p]), digest[p])  BY DEF MadeFrom
<1>5. /\ SqueezeM31(digest[p]) \notin S
      /\ Passed(S \cup {SqueezeM31(digest[p])}, SqueezeM31(digest[p]))
  BY <1>1, <1>4, Passes
<1>6. Fresh(drawn[p], S, FALSE)  BY <1>1 DEF Fresh
<1>7. Fresh(drawn'[p], S \cup {SqueezeM31(digest[p])}, FALSE)  BY <1>3, <1>5, <1>6, IndexFresh
<1>8. Fresh(drawn'[p], S \cup {SqueezeM31(digest[p])}, GrindsAhead')  BY <1>2, <1>7 DEF Fresh
<1>9. QED  BY <1>3, <1>5, <1>8

-----------------------------------------------------------------------------
(* A transcript that absorbed its context alone.                           *)
LEMMA InitFresh == Init => FreshInv
<1> SUFFICES ASSUME Init, NEW p \in Proofs
             PROVE  \E S : Passed(S, digest[p]) /\ Fresh(drawn[p], S, GrindsAhead)
  BY DEF FreshInv
<1>1. PICK ctx : digest = [q \in Proofs |-> TranscriptInit(ctx[q])]  BY DEF Init
<1>2. digest[p] = TranscriptInit(ctx[p]) /\ drawn[p] = << >>  BY <1>1 DEF Init
<1>3. Passed({digest[p]}, digest[p])  BY <1>2, MadeFromOne DEF Passed
<1>4. IsSequence(drawn[p]) /\ Len(drawn[p]) = 0
  <2>1. << >> \in Seq({1}) /\ Len(<< >>) = 0  OBVIOUS
  <2>2. QED  BY <1>2, <2>1 DEF IsSequence
<1>5. Fresh(drawn[p], {digest[p]}, GrindsAhead)  BY <1>4 DEF Fresh, Distinct
<1>6. QED  BY <1>3, <1>5

(* Every absorption and every draw keeps the draws different.              *)
LEMMA NextFresh == FreshInv /\ [Next]_vars => FreshInv'
<1> SUFFICES ASSUME FreshInv, [Next]_vars  PROVE FreshInv'  OBVIOUS
<1>1. ASSUME NEW m, AbsorbTraceRoot(m) \/ AbsorbCompRoot(m) \/ FriBetaStep(m)  PROVE FreshInv'
  <2>1. HearAndDraw("root", m)  BY <1>1 DEF AbsorbTraceRoot, AbsorbCompRoot, FriBetaStep
  <2>2. GrindsAhead  BY <1>1 DEF AbsorbTraceRoot, AbsorbCompRoot, FriBetaStep, GrindsAhead
  <2>3. QED  BY <2>1, <2>2, HearDrawFresh
<1>2. ASSUME NEW m, AbsorbOpening(m)  PROVE FreshInv'
  <2>1. GrindsAhead  BY <1>2 DEF AbsorbOpening, GrindsAhead
  <2>2. CASE step[2] = 7
    <3>1. HearAndDraw("qm31", m)  BY <1>2, <2>2 DEF AbsorbOpening
    <3>2. QED  BY <2>1, <3>1, HearDrawFresh
  <2>3. CASE step[2] # 7
    <3>1. Hear("qm31", m) /\ UNCHANGED drawn  BY <1>2, <2>3 DEF AbsorbOpening
    <3>2. QED  BY <2>1, <3>1, HearFresh
  <2>4. QED  BY <2>2, <2>3
<1>3. ASSUME NEW m, AbsorbFinal(m)  PROVE FreshInv'
  <2>1. Hear("qm31", m) /\ UNCHANGED drawn  BY <1>3 DEF AbsorbFinal
  <2>2. GrindsAhead  BY <1>3 DEF AbsorbFinal, GrindsAhead
  <2>3. QED  BY <2>1, <2>2, HearFresh
<1>4. ASSUME NEW m, AbsorbNonce(m)  PROVE FreshInv'  BY <1>4, NonceFresh
<1>5. CASE QueryIdxStep  BY <1>5, IndexStepFresh
<1>6. CASE UNCHANGED vars
  <2>1. digest' = digest /\ drawn' = drawn /\ (GrindsAhead' <=> GrindsAhead)
    BY <1>6 DEF vars, GrindsAhead
  <2>2. QED  BY <2>1 DEF FreshInv, Fresh
<1>7. QED  BY <1>1, <1>2, <1>3, <1>4, <1>5, <1>6 DEF Next

(* No two challenges of a proof read the same block, whatever it brings    *)
(* and for every N and L: the three folds of schedule.clar thread one      *)
(* state, so every squeeze goes on from the one before it.                 *)
THEOREM DrawsFresh == Spec => []ChallengesFresh
<1>1. FreshInv => ChallengesFresh
  BY DEF FreshInv, Fresh, Distinct, ChallengesFresh
<1>2. QED  BY <1>1, InitFresh, NextFresh, PTL DEF Spec
=============================================================================
