---------------------------- MODULE SubmitProofs ----------------------------
(***************************************************************************)
(* What holds for any number of runs, signers and public inputs.  A run    *)
(* broadcasts once, so its transaction is mined once at most, after the    *)
(* tip it read before; blocks are never undone, so what a poll saw of the  *)
(* chain stays true; an entry of the contract's map goes back to an        *)
(* accepted transaction, and burn heights only grow.                       *)
(***************************************************************************)
EXTENDS Submit, SequenceTheorems, FiniteSetTheorems, TLAPS

Block == [tx : Runs \cup {None}, burn : Nat]

\* the chain: no transaction twice, and none at or below the tip its run read
Blocks ==
  /\ chain \in Seq(Block)
  /\ \A h, k \in 1 .. Tip : chain[h].tx \in Runs /\ chain[h].tx = chain[k].tx => h = k
  /\ \A h \in 1 .. Tip : chain[h].tx \in Runs => height0[chain[h].tx] < h

\* a run in one of these has sent nothing
Unsent == {"prompt", "signing", "signed"}

Controls ==
  Unsent \cup {"declined", "failed", "unconfirmed", "poll", "map-hit", "reported", "aborted"}

Lives ==
  /\ pc \in [Runs -> Controls] /\ conf = [r \in Runs |-> conf[r]]
  /\ height0 \in [Runs -> Nat] /\ \A r \in Runs : height0[r] <= Tip
  /\ mempool \subseteq Runs
  /\ \A r \in Runs : pc[r] \in Unsent \/ r \in mempool => ~Mined(r)
  /\ \A r \in mempool : pc[r] \notin Unsent

Attested(p) == \E q \in Runs : Pub(q) = p /\ Accepted(q)

Entries ==
  /\ attestations = [p \in Pubs |-> attestations[p]]
  /\ \A p \in Pubs : attestations[p] # None =>
       /\ attestations[p].height \in Nat /\ attestations[p].height <= BurnHeight
       /\ Attested(p)

Recorded == {r \in Runs : Mined(r) /\ ProofOk(r)}
Counted == IsFiniteSet(Recorded) /\ attestCount = Cardinality(Recorded)

Reports == ReportIsTrue /\ \A r \in Runs : pc[r] = "map-hit" => Attested(Pub(r))

SubmitInv == Blocks /\ Lives /\ Entries /\ Counted /\ Reports

-----------------------------------------------------------------------------
(* The block a mined transaction is in.                                    *)
LEMMA BlockFound ==
  ASSUME NEW r, Mined(r)
  PROVE  BlockOf(r) \in 1 .. Tip /\ chain[BlockOf(r)].tx = r
  BY DEF Mined, BlockOf

LEMMA BlockFoundNext ==
  ASSUME NEW r, Mined(r)'
  PROVE  BlockOf(r)' \in 1 .. Tip' /\ chain'[BlockOf(r)'].tx = r
  BY DEF Mined, BlockOf

Appends(b) == chain' = Append(chain, b)

(* A block appended: what was mined stays in its block, nothing else is    *)
(* mined but its transaction.                                              *)
LEMMA Appended ==
  ASSUME chain \in Seq(Block), NEW b \in Block, Appends(b)
  PROVE  /\ Tip \in Nat /\ Tip' = Tip + 1 /\ chain' \in Seq(Block)
         /\ chain'[Tip + 1] = b /\ \A h \in 1 .. Tip : chain'[h] = chain[h]
         /\ \A r : Mined(r)' <=> Mined(r) \/ b.tx = r
<1>1. /\ Tip \in Nat /\ Tip' = Tip + 1 /\ chain' \in Seq(Block)
      /\ chain'[Tip + 1] = b /\ \A h \in 1 .. Tip : chain'[h] = chain[h]
  BY DEF Tip, Appends
<1>2. \A h \in 1 .. Tip' : h \in 1 .. Tip \/ h = Tip + 1  BY <1>1
<1>3. ASSUME NEW r  PROVE Mined(r)' <=> Mined(r) \/ b.tx = r
  <2>1. ASSUME Mined(r)  PROVE Mined(r)'
    <3>1. PICK h \in 1 .. Tip : chain[h].tx = r  BY <2>1 DEF Mined
    <3>2. h \in 1 .. Tip' /\ chain'[h].tx = r  BY <1>1, <3>1
    <3>3. QED  BY <3>2 DEF Mined
  <2>2. ASSUME b.tx = r  PROVE Mined(r)'
    <3>1. Tip + 1 \in 1 .. Tip' /\ chain'[Tip + 1].tx = r  BY <1>1, <2>2
    <3>2. QED  BY <3>1 DEF Mined
  <2>3. ASSUME Mined(r)'  PROVE Mined(r) \/ b.tx = r
    <3>1. PICK h \in 1 .. Tip' : chain'[h].tx = r  BY <2>3 DEF Mined
    <3>2. CASE h \in 1 .. Tip  BY <1>1, <3>1, <3>2 DEF Mined
    <3>3. CASE h = Tip + 1  BY <1>1, <3>1, <3>3
    <3>4. QED  BY <1>2, <3>2, <3>3
  <2>4. QED  BY <2>1, <2>2, <2>3
<1>4. QED  BY <1>1, <1>3

LEMMA BlockStays ==
  ASSUME Blocks, NEW b \in Block, Appends(b), NEW r \in Runs, Mined(r), b.tx # r
  PROVE  BlockOf(r)' = BlockOf(r)
<1>1. BlockOf(r) \in 1 .. Tip /\ chain[BlockOf(r)].tx = r  BY BlockFound
<1>2. chain \in Seq(Block)  BY DEF Blocks
<1>3. /\ Tip \in Nat /\ Tip' = Tip + 1 /\ chain'[Tip + 1] = b
      /\ \A h \in 1 .. Tip : chain'[h] = chain[h]
      /\ Mined(r)'
  BY <1>2, Appended
<1>4. BlockOf(r)' \in 1 .. Tip' /\ chain'[BlockOf(r)'].tx = r  BY <1>3, BlockFoundNext
<1>5. BlockOf(r)' \in 1 .. Tip  BY <1>3, <1>4
<1>6. chain[BlockOf(r)'].tx = r  BY <1>3, <1>4, <1>5
<1>7. QED  BY <1>1, <1>5, <1>6 DEF Blocks

-----------------------------------------------------------------------------
(* While no block is appended, nothing about the chain changes.            *)
LEMMA Frozen ==
  ASSUME chain' = chain
  PROVE  /\ Tip' = Tip /\ BurnHeight' = BurnHeight /\ Recorded' = Recorded
         /\ \A r : /\ Mined(r)' <=> Mined(r)
                   /\ BlockOf(r)' = BlockOf(r)
                   /\ Accepted(r)' <=> Accepted(r)
         /\ \A p : Attested(p)' <=> Attested(p)
  BY DEF Tip, BurnHeight, Recorded, Mined, BlockOf, Accepted, Attested

(* The heights that matter: a run's own once it is sent.                   *)
LEMMA ChainKept ==
  ASSUME SubmitInv, chain' = chain, UNCHANGED contract,
         \A r \in Runs : Mined(r) => height0'[r] = height0[r]
  PROVE  Blocks' /\ Entries' /\ Counted'
<1>1. Blocks /\ Entries /\ Counted  BY DEF SubmitInv
<1>2. \A h \in 1 .. Tip : chain[h].tx \in Runs => Mined(chain[h].tx)  BY DEF Mined
<1>3. Blocks'  BY <1>1, <1>2, Frozen DEF Blocks
<1>4. attestations' = attestations /\ attestCount' = attestCount  BY DEF contract
<1>5. Entries'  BY <1>1, <1>4, Frozen DEF Entries
<1>6. Counted'  BY <1>1, <1>4, Frozen DEF Counted
<1>7. QED  BY <1>3, <1>5, <1>6

(* A run that goes on without a report.                                    *)
LEMMA ReportsKept ==
  ASSUME SubmitInv, NEW r \in Runs, NEW to, to \notin {"aborted", "reported", "map-hit"},
         pc' = [pc EXCEPT ![r] = to], conf' = conf, chain' = chain,
         \A q \in Runs : q # r => height0'[q] = height0[q]
  PROVE  Reports'
<1>1. Lives /\ ReportIsTrue /\ \A q \in Runs : pc[q] = "map-hit" => Attested(Pub(q))
  BY DEF SubmitInv, Reports
<1>2. pc'[r] = to /\ \A q \in Runs : q # r => pc'[q] = pc[q]  BY <1>1 DEF Lives
<1>3. \A q \in Runs : pc'[q] = "map-hit" => Attested(Pub(q))'  BY <1>1, <1>2, Frozen
<1>4. ReportIsTrue'
  <2>1. SUFFICES ASSUME NEW q \in Runs
                 PROVE  /\ pc'[q] = "aborted" => Mined(q)' /\ ~ProofOk(q)
                        /\ pc'[q] = "reported" =>
                             IF conf'[q].via = "txid"
                             THEN /\ Accepted(q)' /\ conf'[q].height = BlockOf(q)'
                                  /\ conf'[q].height > height0'[q]
                             ELSE \E a \in Runs : /\ Pub(a) = Pub(q) /\ Accepted(a)'
                                                  /\ BlockOf(a)' <= conf'[q].height
    BY DEF ReportIsTrue
  <2>2. CASE q = r  BY <1>2, <2>2
  <2>3. CASE q # r  BY <1>1, <1>2, <2>3, Frozen DEF ReportIsTrue
  <2>4. QED  BY <2>2, <2>3
<1>5. QED  BY <1>3, <1>4 DEF Reports

(* One run moves on.                                                       *)
LEMMA LivesNext ==
  ASSUME Lives, NEW r \in Runs, NEW to \in Controls, chain' = chain,
         pc' = [pc EXCEPT ![r] = to],
         conf' = conf \/ \E c : conf' = [conf EXCEPT ![r] = c],
         height0' \in [Runs -> Nat], \A q \in Runs : height0'[q] <= Tip,
         r \in mempool' => to \notin Unsent,
         to \in Unsent \/ r \in mempool' => ~Mined(r),
         mempool' \subseteq mempool \cup {r}
  PROVE  Lives'
<1>1. pc' \in [Runs -> Controls] /\ pc'[r] = to /\ \A q \in Runs : q # r => pc'[q] = pc[q]
  BY DEF Lives
<1>2. conf' = [q \in Runs |-> conf'[q]]
  <2>1. conf = [q \in Runs |-> conf[q]]  BY DEF Lives
  <2>2. CASE conf' = conf  BY <2>1, <2>2
  <2>3. CASE \E c : conf' = [conf EXCEPT ![r] = c]
    <3>1. PICK c : conf' = [conf EXCEPT ![r] = c]  BY <2>3
    <3>2. DOMAIN conf = Runs  BY <2>1
    <3>3. QED  BY <3>1, <3>2
  <2>4. QED  BY <2>2, <2>3
<1>3. mempool' \subseteq Runs  BY DEF Lives
<1>4. \A q \in Runs : pc'[q] \in Unsent \/ q \in mempool' => ~Mined(q)
  <2>1. SUFFICES ASSUME NEW q \in Runs, pc'[q] \in Unsent \/ q \in mempool'  PROVE ~Mined(q)
    OBVIOUS
  <2>2. CASE q = r  BY <1>1, <2>1, <2>2
  <2>3. CASE q # r  BY <1>1, <2>1, <2>3 DEF Lives
  <2>4. QED  BY <2>2, <2>3
<1>5. \A q \in mempool' : pc'[q] \notin Unsent
  <2>1. SUFFICES ASSUME NEW q \in mempool'  PROVE pc'[q] \notin Unsent
    OBVIOUS
  <2>2. CASE q = r  BY <1>1, <2>2
  <2>3. CASE q # r
    <3>1. q \in mempool /\ q \in Runs  BY <2>3 DEF Lives
    <3>2. QED  BY <1>1, <2>3, <3>1 DEF Lives
  <2>4. QED  BY <2>2, <2>3
<1>6. \A q \in Runs : height0'[q] <= Tip' /\ (Mined(q)' <=> Mined(q))  BY Frozen
<1>7. QED  BY <1>1, <1>2, <1>3, <1>4, <1>5, <1>6 DEF Lives

(* Before the broadcast.                                                   *)
LEMMA BeforeInv ==
  ASSUME SubmitInv, NEW r \in Runs,
         Decline(r) \/ FetchNonce(r) \/ BroadcastRejected(r) \/ NetworkError(r)
  PROVE  SubmitInv'
<1>1. PICK to \in {"declined", "signing", "failed"} :
          pc' = [pc EXCEPT ![r] = to] /\ (to = "signing" => pc[r] = "prompt")
  BY DEF Decline, FetchNonce, BroadcastRejected, NetworkError, Goto
<1>2. /\ conf' = conf /\ height0' = height0 /\ mempool' = mempool /\ chain' = chain
      /\ UNCHANGED contract
  BY DEF Decline, FetchNonce, BroadcastRejected, NetworkError, node
<1>3. Lives  BY DEF SubmitInv
<1>4. Lives'
  <2>1. r \in mempool' => to \notin Unsent  BY <1>1, <1>2, <1>3 DEF Lives, Unsent
  <2>2. to \in Unsent \/ r \in mempool' => ~Mined(r)  BY <1>1, <1>2, <1>3 DEF Lives, Unsent
  <2>3. height0' \in [Runs -> Nat] /\ \A q \in Runs : height0'[q] <= Tip  BY <1>2, <1>3 DEF Lives
  <2>4. to \in Controls  BY DEF Controls, Unsent
  <2>5. QED  BY <1>1, <1>2, <1>3, <2>1, <2>2, <2>3, <2>4, LivesNext
<1>5. Reports'  BY <1>1, <1>2, ReportsKept
<1>6. QED  BY <1>2, <1>4, <1>5, ChainKept DEF SubmitInv

(* The height is read while nothing is sent.                               *)
LEMMA InfoInv == ASSUME SubmitInv, NEW r \in Runs, FetchInfo(r)  PROVE SubmitInv'
<1>1. Lives /\ Blocks  BY DEF SubmitInv
<1>2. /\ pc[r] = "signing" /\ pc' = [pc EXCEPT ![r] = "signed"]
      /\ height0' = [height0 EXCEPT ![r] = Tip]
      /\ conf' = conf /\ mempool' = mempool /\ chain' = chain /\ UNCHANGED contract
  BY DEF FetchInfo, Goto, node
<1>3. ~Mined(r) /\ r \notin mempool  BY <1>1, <1>2 DEF Lives, Unsent
<1>4. Tip \in Nat  BY <1>1 DEF Blocks, Tip
<1>5. \A q \in Runs : q # r => height0'[q] = height0[q]  BY <1>1, <1>2 DEF Lives
<1>6. height0' \in [Runs -> Nat] /\ \A q \in Runs : height0'[q] <= Tip
  BY <1>1, <1>2, <1>4 DEF Lives
<1>7. Lives'
  <2>1. "signed" \in Controls  BY DEF Controls, Unsent
  <2>2. QED  BY <1>1, <1>2, <1>3, <1>6, <2>1, LivesNext
<1>8. Reports'  BY <1>2, <1>5, ReportsKept
<1>9. QED  BY <1>2, <1>3, <1>5, <1>7, <1>8, ChainKept DEF SubmitInv

(* The broadcast, its answer lost or not.                                  *)
LEMMA BroadcastInv ==
  ASSUME SubmitInv, NEW r \in Runs, BroadcastAccepted(r) \/ BroadcastUnanswered(r)
  PROVE  SubmitInv'
<1>1. Lives  BY DEF SubmitInv
<1>2. PICK to \in {"unconfirmed", "poll", "failed"} : pc' = [pc EXCEPT ![r] = to]
  BY DEF BroadcastAccepted, BroadcastUnanswered, Goto
<1>3. /\ pc[r] = "signed" /\ mempool' = (mempool \ Conflicts(r)) \cup {r}
      /\ conf' = conf /\ height0' = height0 /\ chain' = chain /\ UNCHANGED contract
  BY DEF BroadcastAccepted, BroadcastUnanswered, Goto
<1>4. ~Mined(r)  BY <1>1, <1>3 DEF Lives, Unsent
<1>5. Lives'
  <2>1. to \notin Unsent /\ to \in Controls  BY <1>2 DEF Unsent, Controls
  <2>2. height0' \in [Runs -> Nat] /\ \A q \in Runs : height0'[q] <= Tip  BY <1>1, <1>3 DEF Lives
  <2>3. QED  BY <1>1, <1>2, <1>3, <1>4, <2>1, <2>2, LivesNext
<1>6. Reports'  BY <1>2, <1>3, ReportsKept
<1>7. QED  BY <1>3, <1>5, <1>6, ChainKept DEF SubmitInv

(* A run that reports, aborts or hits the map: only its own part is new.   *)
LEMMA PollShared ==
  ASSUME SubmitInv, NEW r \in Runs, NEW to \in {"aborted", "reported", "map-hit"},
         pc[r] \notin Unsent, pc' = [pc EXCEPT ![r] = to],
         conf' = conf \/ \E c : conf' = [conf EXCEPT ![r] = c],
         UNCHANGED <<nonce, height0, node, contract>>
  PROVE  /\ Blocks' /\ Entries' /\ Counted' /\ Lives'
         /\ pc'[r] = to /\ height0' = height0 /\ chain' = chain
         /\ \A q \in Runs : q # r => pc'[q] = pc[q] /\ conf'[q] = conf[q]
<1>1. Lives  BY DEF SubmitInv
<1>2. chain' = chain /\ mempool' = mempool /\ height0' = height0 /\ UNCHANGED contract
  BY DEF node
<1>3. Lives'
  <2>1. to \notin Unsent /\ to \in Controls  BY DEF Unsent, Controls
  <2>2. height0' \in [Runs -> Nat] /\ \A q \in Runs : height0'[q] <= Tip  BY <1>1, <1>2 DEF Lives
  <2>3. r \in mempool' => ~Mined(r)  BY <1>1, <1>2 DEF Lives
  <2>4. QED  BY <1>1, <1>2, <2>1, <2>2, <2>3, LivesNext
<1>4. pc'[r] = to /\ \A q \in Runs : q # r => pc'[q] = pc[q] /\ conf'[q] = conf[q]
  BY <1>1 DEF Lives
<1>5. QED  BY <1>2, <1>3, <1>4, ChainKept

(* The reports of the other runs stay true, the new one is.                *)
LEMMA ReportsNext ==
  ASSUME Reports, NEW r \in Runs, chain' = chain, height0' = height0,
         \A q \in Runs : q # r => pc'[q] = pc[q] /\ conf'[q] = conf[q],
         pc'[r] = "map-hit" => Attested(Pub(r)),
         pc'[r] = "aborted" => Mined(r) /\ ~ProofOk(r),
         pc'[r] = "reported" =>
           IF conf'[r].via = "txid"
           THEN Accepted(r) /\ conf'[r].height = BlockOf(r) /\ conf'[r].height > height0[r]
           ELSE \E a \in Runs : /\ Pub(a) = Pub(r) /\ Accepted(a)
                                /\ BlockOf(a) <= conf'[r].height
  PROVE  Reports'
<1>1. ReportIsTrue /\ \A q \in Runs : pc[q] = "map-hit" => Attested(Pub(q))  BY DEF Reports
<1>2. \A q \in Runs : pc'[q] = "map-hit" => Attested(Pub(q))'  BY <1>1, Frozen
<1>3. ReportIsTrue'
  <2>1. SUFFICES ASSUME NEW q \in Runs
                 PROVE  /\ pc'[q] = "aborted" => Mined(q)' /\ ~ProofOk(q)
                        /\ pc'[q] = "reported" =>
                             IF conf'[q].via = "txid"
                             THEN /\ Accepted(q)' /\ conf'[q].height = BlockOf(q)'
                                  /\ conf'[q].height > height0'[q]
                             ELSE \E a \in Runs : /\ Pub(a) = Pub(q) /\ Accepted(a)'
                                                  /\ BlockOf(a)' <= conf'[q].height
    BY DEF ReportIsTrue
  <2>2. CASE q = r  BY <2>2, Frozen
  <2>3. CASE q # r  BY <1>1, <2>3, Frozen DEF ReportIsTrue
  <2>4. QED  BY <2>2, <2>3
<1>4. QED  BY <1>2, <1>3 DEF Reports

(* An answer of the extended API, an entry of the map, the tip's height.   *)
LEMMA PollApiInv == ASSUME SubmitInv, NEW r \in Runs, PollApi(r)  PROVE SubmitInv'
<1>1. Mined(r) /\ pc[r] = "poll"  BY DEF PollApi, Goto
<1>2. Blocks /\ Lives /\ Reports  BY DEF SubmitInv
<1>3. BlockOf(r) \in 1 .. Tip /\ chain[BlockOf(r)].tx = r  BY <1>1, BlockFound
<1>4. BlockOf(r) \in Nat /\ height0[r] \in Nat /\ height0[r] < BlockOf(r)
  BY <1>2, <1>3 DEF Blocks, Lives, Tip
<1>5. r \in Runs /\ DOMAIN conf = Runs  BY <1>2 DEF Lives
<1>6. pc[r] \notin Unsent  BY <1>1 DEF Unsent
<1>7. UNCHANGED <<nonce, height0, node, contract>>  BY DEF PollApi
<1>8. CASE ProofOk(r)
  <2>1. /\ pc' = [pc EXCEPT ![r] = "reported"]
        /\ conf' = [conf EXCEPT ![r] = [height |-> BlockOf(r), via |-> "txid"]]
    BY <1>8 DEF PollApi, Goto, Confirm
  <2>2. conf'[r].via = "txid" /\ conf'[r].height = BlockOf(r)  BY <1>5, <2>1
  <2>3. /\ Blocks' /\ Entries' /\ Counted' /\ Lives'
        /\ pc'[r] = "reported" /\ height0' = height0 /\ chain' = chain
        /\ \A q \in Runs : q # r => pc'[q] = pc[q] /\ conf'[q] = conf[q]
    BY <1>6, <1>7, <2>1, PollShared
  <2>4. Accepted(r) /\ conf'[r].height > height0[r]  BY <1>1, <1>4, <1>8, <2>2 DEF Accepted
  <2>5. Reports'  BY <1>2, <2>2, <2>3, <2>4, ReportsNext
  <2>6. QED  BY <2>3, <2>5 DEF SubmitInv
<1>9. CASE ~ProofOk(r)
  <2>1. pc' = [pc EXCEPT ![r] = "aborted"] /\ conf' = conf  BY <1>9 DEF PollApi, Goto
  <2>2. /\ Blocks' /\ Entries' /\ Counted' /\ Lives'
        /\ pc'[r] = "aborted" /\ height0' = height0 /\ chain' = chain
        /\ \A q \in Runs : q # r => pc'[q] = pc[q] /\ conf'[q] = conf[q]
    BY <1>6, <1>7, <2>1, PollShared
  <2>3. Reports'  BY <1>1, <1>2, <1>9, <2>2, ReportsNext
  <2>4. QED  BY <2>2, <2>3 DEF SubmitInv
<1>10. QED  BY <1>8, <1>9

LEMMA PollMapInv == ASSUME SubmitInv, NEW r \in Runs, PollMap(r)  PROVE SubmitInv'
<1>1. Entries /\ Reports  BY DEF SubmitInv
<1>2. /\ attestations[Pub(r)] # None /\ pc[r] = "poll"
      /\ pc' = [pc EXCEPT ![r] = "map-hit"] /\ conf' = conf
      /\ UNCHANGED <<nonce, height0, node, contract>>
  BY DEF PollMap, GetAttestation, Goto
<1>3. Attested(Pub(r))  BY <1>1, <1>2, SubmitAssumption DEF Entries
<1>4. pc[r] \notin Unsent  BY <1>2 DEF Unsent
<1>5. /\ Blocks' /\ Entries' /\ Counted' /\ Lives'
      /\ pc'[r] = "map-hit" /\ height0' = height0 /\ chain' = chain
      /\ \A q \in Runs : q # r => pc'[q] = pc[q] /\ conf'[q] = conf[q]
  BY <1>2, <1>4, PollShared
<1>6. Reports'  BY <1>1, <1>3, <1>5, ReportsNext
<1>7. QED  BY <1>5, <1>6 DEF SubmitInv

LEMMA ReadTipInv == ASSUME SubmitInv, NEW r \in Runs, ReadTip(r)  PROVE SubmitInv'
<1>1. Blocks /\ Lives /\ Reports  BY DEF SubmitInv
<1>2. /\ pc[r] = "map-hit" /\ pc' = [pc EXCEPT ![r] = "reported"]
      /\ conf' = [conf EXCEPT ![r] = [height |-> Tip, via |-> "map"]]
      /\ UNCHANGED <<nonce, height0, node, contract>>
  BY DEF ReadTip, Goto, Confirm
<1>3. PICK a \in Runs : Pub(a) = Pub(r) /\ Accepted(a)  BY <1>1, <1>2 DEF Reports, Attested
<1>4. BlockOf(a) \in 1 .. Tip  BY <1>3, BlockFound DEF Accepted
<1>5. DOMAIN conf = Runs  BY <1>1 DEF Lives
<1>6. conf'[r].via = "map" /\ conf'[r].height = Tip  BY <1>2, <1>5
<1>7. pc[r] \notin Unsent  BY <1>2 DEF Unsent
<1>8. /\ Blocks' /\ Entries' /\ Counted' /\ Lives'
      /\ pc'[r] = "reported" /\ height0' = height0 /\ chain' = chain
      /\ \A q \in Runs : q # r => pc'[q] = pc[q] /\ conf'[q] = conf[q]
  BY <1>2, <1>7, PollShared
<1>9. BlockOf(a) <= conf'[r].height  BY <1>4, <1>6
<1>10. Reports'  BY <1>1, <1>3, <1>6, <1>8, <1>9, ReportsNext
<1>11. QED  BY <1>8, <1>10 DEF SubmitInv

-----------------------------------------------------------------------------
(* A block is appended: an empty one, or one with a pending transaction.   *)
LEMMA GrowsShared ==
  ASSUME SubmitInv, NEW b \in Block, Appends(b), UNCHANGED tool,
         b.tx = None \/ b.tx \in mempool, mempool' = mempool \ {b.tx}
  PROVE  /\ Blocks' /\ Lives' /\ Reports'
         /\ \A r \in Runs : Mined(r)' <=> Mined(r) \/ b.tx = r
         /\ \A p : Attested(p) => Attested(p)'
<1>1. Blocks /\ Lives /\ Reports  BY DEF SubmitInv
<1>2. pc' = pc /\ conf' = conf /\ height0' = height0  BY DEF tool
<1>3. /\ Tip \in Nat /\ Tip' = Tip + 1 /\ chain' \in Seq(Block)
      /\ chain'[Tip + 1] = b /\ \A h \in 1 .. Tip : chain'[h] = chain[h]
      /\ \A r : Mined(r)' <=> Mined(r) \/ b.tx = r
  BY <1>1, Appended DEF Blocks
<1>4. b.tx \in Runs => ~Mined(b.tx) /\ height0[b.tx] \in Nat /\ height0[b.tx] < Tip + 1
  <2>1. SUFFICES ASSUME b.tx \in Runs
                 PROVE  ~Mined(b.tx) /\ height0[b.tx] \in Nat /\ height0[b.tx] < Tip + 1
    OBVIOUS
  <2>2. b.tx \in mempool  BY <2>1, SubmitAssumption
  <2>3. ~Mined(b.tx)  BY <1>1, <2>1, <2>2 DEF Lives
  <2>4. height0[b.tx] \in Nat /\ height0[b.tx] <= Tip  BY <1>1, <2>1 DEF Lives
  <2>5. QED  BY <1>3, <2>3, <2>4
<1>5. \A h \in 1 .. Tip' : h \in 1 .. Tip \/ h = Tip + 1  BY <1>3
<1>6. Blocks'
  <2>1. \A h \in 1 .. Tip : chain[h].tx \in Runs => Mined(chain[h].tx)  BY DEF Mined
  <2>2. ASSUME NEW h \in 1 .. Tip', NEW k \in 1 .. Tip',
               chain'[h].tx \in Runs, chain'[h].tx = chain'[k].tx
        PROVE  h = k
    <3>1. CASE h \in 1 .. Tip /\ k \in 1 .. Tip  BY <1>1, <1>3, <2>2, <3>1 DEF Blocks
    <3>2. CASE h = Tip + 1 /\ k \in 1 .. Tip  BY <1>3, <1>4, <2>1, <2>2, <3>2
    <3>3. CASE h \in 1 .. Tip /\ k = Tip + 1  BY <1>3, <1>4, <2>1, <2>2, <3>3
    <3>4. QED  BY <1>5, <3>1, <3>2, <3>3
  <2>3. ASSUME NEW h \in 1 .. Tip', chain'[h].tx \in Runs  PROVE height0'[chain'[h].tx] < h
    <3>1. CASE h \in 1 .. Tip  BY <1>1, <1>2, <1>3, <2>3, <3>1 DEF Blocks
    <3>2. CASE h = Tip + 1  BY <1>2, <1>3, <1>4, <2>3, <3>2
    <3>3. QED  BY <1>5, <3>1, <3>2
  <2>4. QED  BY <1>3, <2>2, <2>3 DEF Blocks
<1>7. Lives'
  <2>1. \A r \in Runs : height0'[r] <= Tip'
    <3>1. SUFFICES ASSUME NEW r \in Runs  PROVE height0'[r] <= Tip'
      OBVIOUS
    <3>2. height0[r] \in Nat /\ height0[r] <= Tip  BY <1>1 DEF Lives
    <3>3. QED  BY <1>2, <1>3, <3>2
  <2>2. \A r \in Runs : pc'[r] \in Unsent \/ r \in mempool' => ~Mined(r)'
    <3>1. SUFFICES ASSUME NEW r \in Runs, pc[r] \in Unsent \/ r \in mempool \ {b.tx}
                   PROVE  ~Mined(r) /\ b.tx # r
      BY <1>2, <1>3
    <3>2. ~Mined(r)  BY <1>1, <3>1 DEF Lives
    <3>3. b.tx # r  BY <1>1, <3>1, SubmitAssumption DEF Lives
    <3>4. QED  BY <3>2, <3>3
  <2>3. mempool' \subseteq Runs /\ \A r \in mempool' : pc'[r] \notin Unsent
    BY <1>1, <1>2 DEF Lives
  <2>4. QED  BY <1>1, <1>2, <2>1, <2>2, <2>3 DEF Lives
<1>8. ASSUME NEW r \in Runs, Mined(r)  PROVE Mined(r)' /\ BlockOf(r)' = BlockOf(r)
  <2>1. b.tx # r  BY <1>4, <1>8
  <2>2. QED  BY <1>1, <1>3, <1>8, <2>1, BlockStays
<1>9. \A r \in Runs : Accepted(r) => Accepted(r)' /\ BlockOf(r)' = BlockOf(r)
  BY <1>8 DEF Accepted
<1>10. \A p : Attested(p) => Attested(p)'  BY <1>9 DEF Attested
<1>11. Reports'
  <2>1. ReportIsTrue /\ \A r \in Runs : pc[r] = "map-hit" => Attested(Pub(r))
    BY <1>1 DEF Reports
  <2>2. \A r \in Runs : pc'[r] = "map-hit" => Attested(Pub(r))'  BY <1>2, <1>10, <2>1
  <2>3. ReportIsTrue'
    <3>1. SUFFICES ASSUME NEW r \in Runs
                   PROVE  /\ pc[r] = "aborted" => Mined(r)' /\ ~ProofOk(r)
                          /\ pc[r] = "reported" =>
                               IF conf[r].via = "txid"
                               THEN /\ Accepted(r)' /\ conf[r].height = BlockOf(r)'
                                    /\ conf[r].height > height0[r]
                               ELSE \E a \in Runs : /\ Pub(a) = Pub(r) /\ Accepted(a)'
                                                    /\ BlockOf(a)' <= conf[r].height
      BY <1>2 DEF ReportIsTrue
    <3>2. pc[r] = "aborted" => Mined(r)' /\ ~ProofOk(r)  BY <1>8, <2>1 DEF ReportIsTrue
    <3>3. ASSUME pc[r] = "reported", conf[r].via = "txid"
          PROVE  /\ Accepted(r)' /\ conf[r].height = BlockOf(r)'
                 /\ conf[r].height > height0[r]
      BY <1>9, <2>1, <3>3 DEF ReportIsTrue
    <3>4. ASSUME pc[r] = "reported", conf[r].via # "txid"
          PROVE  \E a \in Runs : /\ Pub(a) = Pub(r) /\ Accepted(a)'
                                 /\ BlockOf(a)' <= conf[r].height
      <4>1. PICK a \in Runs : /\ Pub(a) = Pub(r) /\ Accepted(a)
                              /\ BlockOf(a) <= conf[r].height
        BY <2>1, <3>4 DEF ReportIsTrue
      <4>2. Accepted(a)' /\ BlockOf(a)' = BlockOf(a)  BY <1>9, <4>1
      <4>3. QED  BY <4>1, <4>2
    <3>5. QED  BY <3>2, <3>3, <3>4
  <2>4. QED  BY <2>2, <2>3 DEF Reports
<1>12. QED  BY <1>3, <1>6, <1>7, <1>10, <1>11

(* Burn heights are numbers and never go back.                             *)
LEMMA BurnGrows ==
  ASSUME chain \in Seq(Block), NEW b \in Block, Appends(b),
         b.burn \in {BurnHeight, BurnHeight + 1}
  PROVE  BurnHeight \in Nat /\ BurnHeight' = b.burn /\ b.burn \in Nat /\ BurnHeight <= b.burn
<1>1. Tip \in Nat /\ Tip' = Tip + 1 /\ chain' \in Seq(Block) /\ chain'[Tip + 1] = b
  BY Appended
<1>2. BurnHeight \in Nat
  <2>1. CASE chain = << >>  BY <2>1 DEF BurnHeight
  <2>2. CASE chain # << >>
    <3>1. Tip \in 1 .. Len(chain)  BY <2>2 DEF Tip
    <3>2. chain[Tip] \in Block  BY <3>1
    <3>3. QED  BY <2>2, <3>2 DEF BurnHeight, Block
  <2>3. QED  BY <2>1, <2>2
<1>3. chain' # << >>  BY <1>1 DEF Tip
<1>4. BurnHeight' = b.burn  BY <1>1, <1>3 DEF BurnHeight
<1>5. QED  BY <1>2, <1>4

(* What mining does to the contract: one record more, or nothing.          *)
LEMMA MineEffect ==
  ASSUME SubmitInv, NEW r \in Runs, Mine(r)
  PROVE  /\ Blocks' /\ Lives' /\ Reports' /\ \A p : Attested(p) => Attested(p)'
         /\ BurnHeight \in Nat /\ BurnHeight' \in Nat /\ BurnHeight <= BurnHeight'
         /\ ProofOk(r) =>
              /\ r \notin Recorded /\ Recorded' = Recorded \cup {r} /\ Accepted(r)'
              /\ attestCount' = attestCount + 1
              /\ attestations' =
                   [attestations EXCEPT ![Pub(r)] = [attester |-> Signer(r), height |-> BurnHeight']]
         /\ ~ProofOk(r) => Recorded' = Recorded /\ UNCHANGED contract
<1>1. r \in mempool /\ UNCHANGED tool /\ mempool' = mempool \ {r} /\ AppendBlock(r)
      /\ Attest(Pub(r), Signer(r), chain'[Tip + 1].burn, ProofOk(r))
  BY DEF Mine
<1>2. Blocks /\ Lives  BY DEF SubmitInv
<1>3. PICK height \in {BurnHeight, BurnHeight + 1} \cap (0 .. MaxBurn) :
             chain' = Append(chain, [tx |-> r, burn |-> height])
  BY <1>1 DEF AppendBlock
<1> DEFINE b == [tx |-> r, burn |-> height]
<1>4. b \in Block /\ b.tx = r /\ b.burn = height  BY SubmitAssumption DEF Block
<1>5. Appends(b)  BY <1>3 DEF Appends
<1> HIDE DEF b
<1>6. chain \in Seq(Block)  BY <1>2 DEF Blocks
<1>7. /\ Blocks' /\ Lives' /\ Reports' /\ \A p : Attested(p) => Attested(p)'
      /\ \A q \in Runs : Mined(q)' <=> Mined(q) \/ r = q
  BY <1>1, <1>4, <1>5, GrowsShared
<1>8. BurnHeight \in Nat /\ BurnHeight' = b.burn /\ b.burn \in Nat /\ BurnHeight <= b.burn
  BY <1>3, <1>4, <1>5, <1>6, BurnGrows
<1>9. chain'[Tip + 1] = b  BY <1>4, <1>5, <1>6, Appended
<1>10. Attest(Pub(r), Signer(r), BurnHeight', ProofOk(r))  BY <1>1, <1>8, <1>9
<1>11. ~Mined(r)  BY <1>1, <1>2 DEF Lives
<1>12. ASSUME ProofOk(r)
       PROVE  /\ r \notin Recorded /\ Recorded' = Recorded \cup {r} /\ Accepted(r)'
              /\ attestCount' = attestCount + 1
              /\ attestations' =
                   [attestations EXCEPT ![Pub(r)] = [attester |-> Signer(r), height |-> BurnHeight']]
  <2>1. r \notin Recorded /\ Recorded' = Recorded \cup {r}  BY <1>7, <1>11, <1>12 DEF Recorded
  <2>2. Accepted(r)'  BY <1>7, <1>12 DEF Accepted
  <2>3. QED  BY <1>10, <1>12, <2>1, <2>2 DEF Attest
<1>13. ASSUME ~ProofOk(r)  PROVE Recorded' = Recorded /\ UNCHANGED contract
  <2>1. Recorded' = Recorded  BY <1>7, <1>13 DEF Recorded
  <2>2. QED  BY <1>10, <1>13, <2>1 DEF Attest
<1>14. QED  BY <1>7, <1>8, <1>12, <1>13

LEMMA MineInv == ASSUME SubmitInv, NEW r \in Runs, Mine(r)  PROVE SubmitInv'
<1>1. Entries /\ Counted  BY DEF SubmitInv
<1>2. /\ Blocks' /\ Lives' /\ Reports' /\ \A p : Attested(p) => Attested(p)'
      /\ BurnHeight \in Nat /\ BurnHeight' \in Nat /\ BurnHeight <= BurnHeight'
  BY MineEffect
<1>3. \A p \in Pubs : attestations[p] # None =>
        /\ attestations[p].height \in Nat /\ attestations[p].height <= BurnHeight'
        /\ Attested(p)'
  <2>1. SUFFICES ASSUME NEW p \in Pubs, attestations[p] # None
                 PROVE  /\ attestations[p].height \in Nat /\ attestations[p].height <= BurnHeight'
                        /\ Attested(p)'
    OBVIOUS
  <2>2. /\ attestations[p].height \in Nat /\ attestations[p].height <= BurnHeight
        /\ Attested(p)
    BY <1>1, <2>1 DEF Entries
  <2>3. QED  BY <1>2, <2>2
<1>4. CASE ProofOk(r)
  <2>1. /\ r \notin Recorded /\ Recorded' = Recorded \cup {r} /\ Accepted(r)'
        /\ attestCount' = attestCount + 1
        /\ attestations' =
             [attestations EXCEPT ![Pub(r)] = [attester |-> Signer(r), height |-> BurnHeight']]
    BY <1>4, MineEffect
  <2>2. Counted'
    <3>1. /\ IsFiniteSet(Recorded \cup {r})
          /\ Cardinality(Recorded \cup {r}) = Cardinality(Recorded) + 1
      BY <1>1, <2>1, FS_AddElement DEF Counted
    <3>2. QED  BY <1>1, <2>1, <3>1 DEF Counted
  <2>3. Entries'
    <3>1. DOMAIN attestations = Pubs  BY <1>1 DEF Entries
    <3>2. Pub(r) \in Pubs  BY SubmitAssumption
    <3>3. /\ attestations'[Pub(r)].height = BurnHeight'
          /\ \A p \in Pubs : p # Pub(r) => attestations'[p] = attestations[p]
          /\ attestations' = [p \in Pubs |-> attestations'[p]]
      BY <2>1, <3>1, <3>2
    <3>4. Attested(Pub(r))'  BY <2>1 DEF Attested
    <3>5. \A p \in Pubs : attestations'[p] # None =>
            /\ attestations'[p].height \in Nat /\ attestations'[p].height <= BurnHeight'
            /\ Attested(p)'
      BY <1>2, <1>3, <3>3, <3>4
    <3>6. QED  BY <3>3, <3>5 DEF Entries
  <2>4. QED  BY <1>2, <2>2, <2>3 DEF SubmitInv
<1>5. CASE ~ProofOk(r)
  <2>1. Recorded' = Recorded /\ attestations' = attestations /\ attestCount' = attestCount
    BY <1>5, MineEffect DEF contract
  <2>2. Counted' /\ Entries'  BY <1>1, <1>3, <2>1 DEF Counted, Entries
  <2>3. QED  BY <1>2, <2>2 DEF SubmitInv
<1>6. QED  BY <1>4, <1>5

LEMMA MineEmptyInv == ASSUME SubmitInv, MineEmpty  PROVE SubmitInv' /\ Recorded' = Recorded
<1>1. /\ AppendBlock(None) /\ UNCHANGED tool /\ mempool' = mempool
      /\ attestations' = attestations /\ attestCount' = attestCount
  BY DEF MineEmpty, contract
<1>2. Blocks /\ Lives /\ Entries /\ Counted  BY DEF SubmitInv
<1>3. PICK height \in {BurnHeight, BurnHeight + 1} \cap (0 .. MaxBurn) :
             chain' = Append(chain, [tx |-> None, burn |-> height])
  BY <1>1 DEF AppendBlock
<1> DEFINE b == [tx |-> None, burn |-> height]
<1>4. b \in Block /\ b.tx = None /\ b.burn = height  BY SubmitAssumption DEF Block
<1>5. Appends(b)  BY <1>3 DEF Appends
<1> HIDE DEF b
<1>6. mempool' = mempool \ {b.tx}  BY <1>1, <1>2, <1>4, SubmitAssumption DEF Lives
<1>7. /\ Blocks' /\ Lives' /\ Reports' /\ \A p : Attested(p) => Attested(p)'
      /\ \A q \in Runs : Mined(q)' <=> Mined(q) \/ None = q
  BY <1>1, <1>4, <1>5, <1>6, GrowsShared
<1>8. BurnHeight \in Nat /\ BurnHeight' = b.burn /\ b.burn \in Nat /\ BurnHeight <= b.burn
  BY <1>2, <1>3, <1>4, <1>5, BurnGrows DEF Blocks
<1>9. Recorded' = Recorded  BY <1>7, SubmitAssumption DEF Recorded
<1>10. Counted'  BY <1>1, <1>2, <1>9 DEF Counted
<1>11. Entries'
  <2>1. SUFFICES ASSUME NEW p \in Pubs, attestations[p] # None
                 PROVE  /\ attestations[p].height \in Nat /\ attestations[p].height <= BurnHeight'
                        /\ Attested(p)'
    BY <1>1, <1>2 DEF Entries
  <2>2. /\ attestations[p].height \in Nat /\ attestations[p].height <= BurnHeight
        /\ Attested(p)
    BY <1>2, <2>1 DEF Entries
  <2>3. QED  BY <1>7, <1>8, <2>2
<1>12. QED  BY <1>7, <1>9, <1>10, <1>11 DEF SubmitInv

LEMMA DropInv == ASSUME SubmitInv, NEW r \in Runs, Drop(r)  PROVE SubmitInv'
<1>1. /\ pc' = pc /\ conf' = conf /\ height0' = height0 /\ chain' = chain
      /\ mempool' = mempool \ {r} /\ UNCHANGED contract
  BY DEF Drop, tool
<1>2. Lives /\ Reports  BY DEF SubmitInv
<1>3. Lives'  BY <1>1, <1>2, Frozen DEF Lives
<1>4. Reports'  BY <1>1, <1>2, Frozen DEF Reports, ReportIsTrue
<1>5. QED  BY <1>1, <1>3, <1>4, ChainKept DEF SubmitInv

-----------------------------------------------------------------------------
(* It holds before the first run and the first block.                      *)
LEMMA SubmitInitInv == SubmitInit => SubmitInv
<1> SUFFICES ASSUME SubmitInit  PROVE SubmitInv  OBVIOUS
<1>1. /\ pc = [r \in Runs |-> "prompt"] /\ height0 = [r \in Runs |-> 0]
      /\ conf = [r \in Runs |-> None] /\ mempool = {} /\ chain = << >>
      /\ attestations = [p \in Pubs |-> None] /\ attestCount = 0
  BY DEF SubmitInit, AttestInit
<1>2. Tip = 0 /\ chain \in Seq(Block)  BY <1>1 DEF Tip
<1>3. \A r : ~Mined(r)  BY <1>2 DEF Mined
<1>4. Blocks  BY <1>2 DEF Blocks
<1>5. Lives  BY <1>1, <1>2, <1>3 DEF Lives, Controls, Unsent
<1>6. Entries  BY <1>1 DEF Entries
<1>7. Recorded = {}  BY <1>3 DEF Recorded
<1>8. Counted  BY <1>1, <1>7, FS_EmptySet DEF Counted
<1>9. Reports  BY <1>1 DEF Reports, ReportIsTrue
<1>10. QED  BY <1>4, <1>5, <1>6, <1>8, <1>9 DEF SubmitInv

(* Every step of a run or of the node keeps it.                            *)
LEMMA SubmitNextInv == SubmitInv /\ [SubmitNext]_vars => SubmitInv'
<1> SUFFICES ASSUME SubmitInv, [SubmitNext]_vars  PROVE SubmitInv'  OBVIOUS
<1>1. ASSUME NEW r \in Runs, ToolStep(r)  PROVE SubmitInv'
  BY <1>1, BeforeInv, InfoInv, BroadcastInv, PollApiInv, PollMapInv, ReadTipInv DEF ToolStep
<1>2. ASSUME NEW r \in Runs, Mine(r)  PROVE SubmitInv'  BY <1>2, MineInv
<1>3. ASSUME NEW r \in Runs, Drop(r)  PROVE SubmitInv'  BY <1>3, DropInv
<1>4. CASE MineEmpty  BY <1>4, MineEmptyInv
<1>5. CASE UNCHANGED vars
  <2>1. /\ pc' = pc /\ conf' = conf /\ height0' = height0 /\ chain' = chain
        /\ mempool' = mempool /\ UNCHANGED contract
    BY <1>5 DEF vars, tool, node
  <2>2. Lives /\ Reports  BY DEF SubmitInv
  <2>3. Lives'  BY <2>1, <2>2, Frozen DEF Lives
  <2>4. Reports'  BY <2>1, <2>2, Frozen DEF Reports, ReportIsTrue
  <2>5. QED  BY <2>1, <2>3, <2>4, ChainKept DEF SubmitInv
<1>6. QED  BY <1>1, <1>2, <1>3, <1>4, <1>5 DEF SubmitNext

(* What a run of submit-proof.mjs reports happened on the chain, for any   *)
(* number of runs that share signers and public inputs, and any order in   *)
(* which the node mines, replaces and drops their transactions.            *)
THEOREM ReportsTrue == SubmitSpec => []ReportIsTrue
<1>1. SubmitInv => ReportIsTrue  BY DEF SubmitInv, Reports
<1>2. QED  BY <1>1, SubmitInitInv, SubmitNextInv, PTL DEF SubmitSpec

(* The registry counts like anybody else.                                  *)
LEMMA SameCount == \A S : R!Cardinality(S) = Cardinality(S)
  BY DEF R!Cardinality, Cardinality

(* The empty contract is an empty registry.                                *)
LEMMA InitRegistered == SubmitInit => R!Init
<1> SUFFICES ASSUME SubmitInit  PROVE R!Init  OBVIOUS
<1>1. chain = << >> /\ attestations = [p \in Pubs |-> None] /\ attestCount = 0
  BY DEF SubmitInit, AttestInit
<1>2. Tip = 0  BY <1>1 DEF Tip
<1>3. \A r : ~Mined(r)  BY <1>2 DEF Mined
<1>4. QED  BY <1>1, <1>3 DEF R!Init

(* A mined transaction with an accepted proof is one record; nothing else  *)
(* touches the registry.                                                   *)
LEMMA StepRegistered ==
  SubmitInv /\ [SubmitNext]_vars => [R!Next]_<<attestations, attestCount, Recorded>>
<1> SUFFICES ASSUME SubmitInv, [SubmitNext]_vars
             PROVE  [R!Next]_<<attestations, attestCount, Recorded>>
  OBVIOUS
<1>1. ASSUME chain' = chain, UNCHANGED contract
      PROVE  UNCHANGED <<attestations, attestCount, Recorded>>
  BY <1>1, Frozen DEF contract
<1>2. ASSUME NEW r \in Runs, ToolStep(r)
      PROVE  UNCHANGED <<attestations, attestCount, Recorded>>
  <2>1. chain' = chain /\ UNCHANGED contract
    BY <1>2 DEF ToolStep, Decline, FetchNonce, FetchInfo, BroadcastAccepted, BroadcastRejected,
                BroadcastUnanswered, PollApi, PollMap, ReadTip, NetworkError, node
  <2>2. QED  BY <1>1, <2>1
<1>3. ASSUME NEW r \in Runs, Mine(r)  PROVE [R!Next]_<<attestations, attestCount, Recorded>>
  <2>1. CASE ~ProofOk(r)  BY <1>3, <2>1, MineEffect DEF contract
  <2>2. CASE ProofOk(r)
    <3>1. /\ r \notin Recorded /\ Recorded' = Recorded \cup {r}
          /\ attestCount' = attestCount + 1
          /\ attestations' =
               [attestations EXCEPT ![Pub(r)] = [attester |-> Signer(r), height |-> BurnHeight']]
          /\ BurnHeight \in Nat /\ BurnHeight' \in Nat /\ BurnHeight <= BurnHeight'
      BY <1>3, <2>2, MineEffect
    <3>2. attestCount' = Cardinality(Recorded')
      <4>1. SubmitInv'  BY <1>3, MineInv
      <4>2. QED  BY <4>1 DEF SubmitInv, Counted
    <3>3. Entries  BY DEF SubmitInv
    <3>4. Pub(r) \in Pubs /\ DOMAIN attestations = Pubs  BY <3>3, SubmitAssumption DEF Entries
    <3> DEFINE entry == attestations'[Pub(r)]
    <3>5. entry = [attester |-> Signer(r), height |-> BurnHeight']  BY <3>1, <3>4
    <3>6. entry.attester = Signer(r) /\ entry.height = BurnHeight'  BY <3>5
    <3>7. attestations' = [attestations EXCEPT ![Pub(r)] = entry]  BY <3>1, <3>5
    <3>8. \A p \in Pubs : attestations[p] # None => attestations[p].height <= entry.height
      <4>1. SUFFICES ASSUME NEW p \in Pubs, attestations[p] # None
                     PROVE  attestations[p].height <= BurnHeight'
        BY <3>6
      <4>2. attestations[p].height \in Nat /\ attestations[p].height <= BurnHeight
        BY <3>3, <4>1 DEF Entries
      <4>3. QED  BY <3>1, <4>2
    <3> HIDE DEF entry
    <3>9. R!Record(r)
      <4>1. r \notin Recorded /\ ProofOk(r) /\ Recorded' = Recorded \cup {r}
        BY <2>2, <3>1
      <4>2. /\ entry = attestations'[Pub(r)] /\ entry.attester = Signer(r)
            /\ \A p \in Pubs : attestations[p] # None => attestations[p].height <= entry.height
            /\ attestations' = [attestations EXCEPT ![Pub(r)] = entry]
        BY <3>6, <3>7, <3>8 DEF entry
      <4>3. attestCount' = R!Cardinality(Recorded')  BY <3>2, SameCount
      <4>4. QED  BY Zenon, <4>1, <4>2, <4>3 DEF R!Record, Recorded
    <3>10. QED  BY <3>9 DEF R!Next
  <2>3. QED  BY <2>1, <2>2
<1>4. ASSUME NEW r \in Runs, Drop(r)  PROVE UNCHANGED <<attestations, attestCount, Recorded>>
  BY <1>1, <1>4 DEF Drop
<1>5. CASE MineEmpty  BY <1>5, MineEmptyInv DEF MineEmpty, contract
<1>6. CASE UNCHANGED vars  BY <1>1, <1>6 DEF vars, node
<1>7. QED  BY <1>2, <1>3, <1>4, <1>5, <1>6 DEF SubmitNext

(* The attestation contract on the chain is the registry its readers rely  *)
(* on: each accepted call recorded once, heights never back, the count of  *)
(* calls, for any number of concurrent runs of the tool.                   *)
THEOREM RegistryRefined == SubmitSpec => RegistryImplemented
<1>1. []SubmitInv /\ [][SubmitNext]_vars => [][R!Next]_<<attestations, attestCount, Recorded>>
  BY StepRegistered, PTL
<1>2. QED
  BY <1>1, InitRegistered, SubmitInitInv, SubmitNextInv, PTL
  DEF SubmitSpec, RegistryImplemented, R!Spec, Recorded
=============================================================================
