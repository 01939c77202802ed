------------------------------- MODULE Replay -------------------------------
(***************************************************************************)
(* tools/gear6e_replay.py: a prover, honest or dishonest by overrides of   *)
(* its columns and of what it opens, whose proof is read by two verifiers: *)
(* verify() of the production driver, step by step, and verify() of the    *)
(* toy driver, at once.  A bundle may be altered before it is read, as the *)
(* tests of the driver alter it.  The two verifiers read the same bundles, *)
(* the production driver with hints.                                       *)
(***************************************************************************)
EXTENDS GearDriver, Script

CONSTANTS
  Kinds,                        \* which proofs are made: honest or a lie of the script
  SymTrace, SymComp, Samples,   \* columns of equal pairs and the openings claimed for them
  TraceLie, OpeningLie,         \* what a wrong row and a lied opening are off by
  Squeezed,                     \* the values each challenge can have, by its name
  Draws,                        \* index vectors the transcript can draw
  Altered(_)                    \* bundles sent in place of one

VARIABLES
  kind,
  col,      \* the column to be committed next; the size-2 layer at the end
  bundles   \* of the N queries, once the indices are drawn

replayVars == <<kind, col, bundles>>

Toy == INSTANCE ToyDriver

ReplayInit == Init /\ kind \in Kinds /\ col = << >> /\ bundles = << >>

-----------------------------------------------------------------------------
\* N23 and N24: one row wrong, and the sequence from its second element
WrongRows ==
  IF kind = "transviolation" THEN [FibColumn EXCEPT ![4] = M31Add(@, TraceLie)]
  ELSE [n \in Rows |-> IF n + 1 \in Rows THEN FibColumn[n + 1]
                       ELSE M31Add(FibColumn[n], FibColumn[n - 1])]

\* a wrong trace is committed, but neither composed nor opened
TraceSent ==
  CASE kind = "garbage" -> SymTrace
    [] kind \in {"transviolation", "wrongseed"} -> Committed(WrongRows)
    [] OTHER -> Committed(FibColumn)

CompSent(a) == IF kind = "garbage" THEN SymComp ELSE ComposedColumn(FibColumn, a)

\* openings whose composition is claimed to be one coordinate
Derived(t0, t1, t2, pt, a) ==
  <<t0, t1, t2, Compose(t0, t1, t2, pt, a)>> \o [i \in 1 .. 3 |-> Qm31FromM31(0)]

\* every lie about the openings closes the AIR
Told(o, a, pt) ==
  LET i == [c0 |-> 0, c1 |-> 1, c2 |-> 0, c3 |-> 0] IN
  CASE kind = "garbage" -> Derived(Samples[1], Samples[2], Samples[3], pt, a)
    [] kind = "oodlie" -> Derived(Qm31Add(o[1], OpeningLie), o[2], o[3], pt, a)
    [] kind = "recomb" -> [o EXCEPT ![4] = Qm31Add(@, OpeningLie),
                                    ![5] = Qm31Sub(@, Qm31Mul(OpeningLie, Qm31Inv(i)))]
    [] OTHER -> o

OpeningsSent(a, pt, ccol) == Told(Open3(FitTrace(FibColumn), pt) \o CoordAt(ccol, pt), a, pt)

Layer(i, w, beta) ==
  [p \in 0 .. (DomainSize[D - 1 - i] - 1) |->
     FriFoldStep(w[2 * p], w[2 * p + 1], FoldBy(i, p), beta)]

\* build_tree: what stands under a column's root are the hashes of the column.
Built(w, depth) ==
  LET t == Tree(w) IN
  /\ \A p \in 0 .. (DomainSize[depth] - 1) : t[0][p] = Leaf(w[p])
  /\ \A l \in 1 .. depth : \A i \in 0 .. (DomainSize[depth - l] - 1) :
       t[l][i] = Node(t[l - 1][2 * i], t[l - 1][2 * i + 1])

AllBuilt == Built(trace, D) /\ Built(comp, D) /\ \A i \in 1 .. L : Built(fri[i], D + 1 - i)

\* leaf to root, from the given height on
TreeSibs(w, depth, p, from) ==
  [i \in 1 .. (depth - from) |-> Tree(w)[from + i - 1][SiblingOf(PositionAt(p, from + i - 1))]]

BundleAt(q) ==
  [ tX |-> trace[q], tSibs |-> TreeSibs(trace, D, q, 0),
    cX |-> comp[q], cSibs |-> TreeSibs(comp, D, q, 0),
    pairs |-> [i \in 1 .. L |->
                 LET p == PositionAt(q, i - 1) IN
                 [sib |-> fri[i][SiblingOf(p)], sibs |-> TreeSibs(fri[i], D + 1 - i, p, 1)]],
    hints |-> [i \in 1 .. L |-> M31Inv(Twiddle(i - 1, EvenOf(PositionAt(q, i - 1))))] ]

\* What the types of verify-query's argument let through.
List(s, cap) == Len(s) \in 0 .. cap /\ s = [i \in 1 .. Len(s) |-> s[i]]
WellTyped(b) ==
  /\ b = [ tX |-> b.tX, tSibs |-> b.tSibs, cX |-> b.cX, cSibs |-> b.cSibs,
           pairs |-> b.pairs, hints |-> b.hints ]
  /\ List(b.tSibs, D) /\ List(b.cSibs, D)
  /\ b.pairs = [i \in 1 .. L |-> [sib |-> b.pairs[i].sib, sibs |-> b.pairs[i].sibs]]
  /\ \A i \in 1 .. L : List(b.pairs[i].sibs, D - i)
  /\ List(b.hints, L) /\ \A i \in 1 .. Len(b.hints) : b.hints[i] \in Nat

\* What the transcript draws are positions; no twiddle is without an inverse.
ASSUME DrawsAssumption ==
  /\ Draws \subseteq [1 .. N -> Indices]
  /\ \A i \in 0 .. (L - 1) : \A p \in 0 .. (DomainSize[D - i] - 1) :
       Twiddle(i, EvenOf(p)) \in M31 \ {0}

-----------------------------------------------------------------------------
SendTrace(c) == CommitTrace(TraceSent, c) /\ UNCHANGED replayVars

SendComp(c) == pc = "comp" /\ CommitComp(CompSent(alpha), c) /\ UNCHANGED replayVars

SendOpenings(c) ==
  /\ pc = "openings"
  /\ \E o \in {OpeningsSent(alpha, FeltToPoint(z), comp)} :
       /\ AbsorbOpenings(o, c)
       /\ col' = DeepColumn(trace, comp, o, FeltToPoint(z), c)
       /\ UNCHANGED <<kind, bundles>>

SendLayer(c) ==
  /\ pc = "fri"
  /\ FriBetaStep(col, c) /\ col' = Layer(Len(fri), col, c)
  /\ UNCHANGED <<kind, bundles>>

\* the first of the two values that are left, whether or not they agree
SendFinal(ok, ix) == DrawQueries(col[0], ok, ix) /\ UNCHANGED replayVars

\* the bundles are answered, one of them perhaps altered
Answer(n, b) ==
  /\ pc = "gate" /\ bundles = << >> /\ AllBuilt
  /\ bundles' = [[m \in 1 .. N |-> BundleAt(idx[m])] EXCEPT ![n] = b]
  /\ \A m \in 1 .. N : WellTyped(bundles'[m])
  /\ UNCHANGED <<vars, kind, col>>

Current == bundles[k + 1]

\* a pair's siblings begin at the height of its parents
Path == CASE climb.of = "trace" -> Current.tSibs
          [] climb.of = "comp"  -> Current.cSibs
          [] climb.of = "fri"   -> Current.pairs[j + 1].sibs
From == IF climb.of = "fri" THEN 1 ELSE 0

Read ==
  /\ bundles # << >>
  /\ \/ pc = "trace-leaf" /\ OpenTrace(Current.tX, Len(Current.tSibs))
     \/ pc = "comp-leaf" /\ OpenComp(Current.cX, Len(Current.cSibs))
     \/ pc = "pair" /\ OpenPair(Current.pairs[j + 1].sib, Len(Current.pairs[j + 1].sibs))
     \/ pc = "climb" /\ climb.level < climb.depth /\ ClimbStep(Path[climb.level + 1 - From])
     \/ pc = "fold" /\ j < Len(Current.hints) /\ FoldOne(Current.hints[j + 1])
     \/ pc = "fold" /\ j >= Len(Current.hints) /\ Reject
     \/ GrindingGate \/ OodClosure \/ CheckRoot \/ ComputeRow \/ LastLayer
  /\ UNCHANGED replayVars

ReplayNext ==
  \/ Lengths(L, N) /\ UNCHANGED replayVars
  \/ \E c \in Squeezed.alpha : SendTrace(c)
  \/ \E c \in Squeezed.z : SendComp(c)
  \/ \E c \in Squeezed.gamma : SendOpenings(c)
  \/ pc = "fri" /\ \E c \in Squeezed.betas[Len(fri) + 1] : SendLayer(c)
  \/ pc = "final" /\ \E ok \in BOOLEAN, ix \in Draws : SendFinal(ok, ix)
  \/ /\ pc = "gate" /\ bundles = << >>
     /\ \E n \in 1 .. N : \E b \in {BundleAt(idx[n])} \cup Altered(BundleAt(idx[n])) : Answer(n, b)
  \/ Read
  \/ Returned /\ UNCHANGED replayVars

ReplaySpec == ReplayInit /\ [][ReplayNext]_<<vars, replayVars>>

-----------------------------------------------------------------------------
Done == pc \in {"accepted", "aborted"} /\ bundles # << >>

ToyAccepts ==
  Toy!Verify(
    [ trace |-> Root(GearTree(trace), D), comp |-> Root(GearTree(comp), D),
      fri |-> [i \in 1 .. L |-> Root(GearTree(fri[i]), D + 1 - i)],
      openings |-> ood, final |-> final, queries |-> bundles ],
    [alpha |-> alpha, z |-> z, gamma |-> gamma, betas |-> betas, powOk |-> powOk, idx |-> idx])

HintsInvert ==
  \A n \in 1 .. N : \A i \in 1 .. L :
    /\ i <= Len(bundles[n].hints)
    /\ M31Mul(bundles[n].hints[i], GearTwiddle(i - 1, EvenOf(idx[n] \div 2 ^ (i - 1)))) = 1

(***************************************************************************)
(* The two wire formats carry one verdict: the production driver accepts   *)
(* what the toy driver accepts with right hints, and nothing else, for     *)
(* honest, lying and altered proofs: hints stand in for the inversion and  *)
(* change nothing of what is proved.                                       *)
(***************************************************************************)
FormatsAgree == Done => (pc = "accepted" <=> ToyAccepts /\ HintsInvert)

Reduced(b) == [b EXCEPT !.hints = [i \in 1 .. Len(@) |-> @[i] % P]]

(***************************************************************************)
(* A query has one answer: given roots, challenges and index, no bundle    *)
(* but the one read off the committed columns passes, be it another        *)
(* query's, the twin's, shorter or longer; a hint alone may be sent in     *)
(* another residue of the same class.                                      *)
(***************************************************************************)
OneAnswerPerQuery ==
  pc = "accepted" => \A n \in 1 .. N : Reduced(bundles[n]) = BundleAt(idx[n])

Straight == \A n \in 1 .. N : bundles[n] = BundleAt(idx[n])

(***************************************************************************)
(* Each lie of the script closes the AIR and binds to its columns, so that *)
(* it is rejected only by the last comparison ("rejected ONLY at the FRI   *)
(* terminal"), never by a gate before it.                                  *)
(***************************************************************************)
LiesReachTerminal ==
  [][pc' = "aborted" /\ pc # "aborted" /\ Straight => pc = "last" \/ ~powOk]_<<vars, replayVars>>

(***************************************************************************)
(* An untrue statement is accepted exactly if every index drawn leads to   *)
(* the terminal position whose value was sent as the final constant: one   *)
(* chance in two per query, the error the header of driver.clar states     *)
(* ("~2^-4 FRI error per query set"), and true ones always.                *)
(***************************************************************************)
LiesPassByLuckAlone ==
  Done /\ powOk /\ Straight =>
    (pc = "accepted" <=> kind = "honest" \/ \A n \in 1 .. N : idx[n] \div 2 ^ L = 0)
=============================================================================
