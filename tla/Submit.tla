------------------------------- MODULE Submit -------------------------------
(***************************************************************************)
(* tools/submit-proof.mjs against a Stacks node that runs the attestation  *)
(* contract.  Each member of Runs is one invocation of the tool, with its  *)
(* signer, its public input and its proof; runs are concurrent and may     *)
(* share a signer or a public input.                                       *)
(*                                                                         *)
(* The node is external: a mempool, from which transactions are mined in   *)
(* nonce order, replaced or dropped, and a chain with one transaction or   *)
(* none per block.  The extended API is there on testnet and not on        *)
(* devnet; where it is, a poll may still find it without an answer.  A     *)
(* behaviour in which PollApi is never taken is one of devnet.             *)
(***************************************************************************)
EXTENDS Attest, Sequences, FiniteSets

CONSTANTS
  Runs,
  Signer(_), Pub(_),
  ProofOk(_),      \* verify returns true for the run's proof
  NoWait,          \* the runs started with --no-wait
  MaxEmptyHeight, MaxBurn   \* bounds: no empty block, no burn block above

ASSUME SubmitAssumption ==
  /\ \A r \in Runs : Pub(r) \in Pubs /\ ProofOk(r) \in BOOLEAN
  /\ None \notin Runs /\ NoWait \subseteq Runs
  /\ MaxEmptyHeight \in Nat /\ MaxBurn \in Nat

VARIABLES
  pc, nonce, height0, conf,   \* the tool, for each run; conf is what confirmTx returned
  mempool, chain              \* the node; chain[h] is the block at height h

tool == <<pc, nonce, height0, conf>>
node == <<mempool, chain>>
vars == <<tool, node, contract>>

SubmitInit ==
  /\ AttestInit
  /\ pc = [r \in Runs |-> "prompt"]
  /\ nonce = [r \in Runs |-> 0] /\ height0 = [r \in Runs |-> 0]
  /\ conf = [r \in Runs |-> None]
  /\ mempool = {} /\ chain = << >>

-----------------------------------------------------------------------------
Tip == Len(chain)
BurnHeight == IF chain = << >> THEN 0 ELSE chain[Tip].burn
Mined(r) == \E h \in 1 .. Tip : chain[h].tx = r
BlockOf(r) == CHOOSE h \in 1 .. Tip : chain[h].tx = r
MinedBy(s) == {r \in Runs : Mined(r) /\ Signer(r) = s}
AccountNonce(s) == Cardinality(MinedBy(s))

\* transactions r would displace; r is admissible if its nonce is not used up
Conflicts(r) == {q \in mempool : Signer(q) = Signer(r) /\ nonce[q] = nonce[r]}
Admissible(r) == nonce[r] >= AccountNonce(Signer(r))

Goto(r, from, to) == pc[r] = from /\ pc' = [pc EXCEPT ![r] = to]

-----------------------------------------------------------------------------
\* an answer other than yes: exit 2
Decline(r) == Goto(r, "prompt", "declined") /\ UNCHANGED <<nonce, height0, conf, node, contract>>

\* fetchNonce: the account's next nonce, with or without its pending transactions
FetchNonce(r) ==
  /\ Goto(r, "prompt", "signing")
  /\ \E n \in {0, Cardinality({q \in mempool : Signer(q) = Signer(r)})} :
       nonce' = [nonce EXCEPT ![r] = AccountNonce(Signer(r)) + n]
  /\ UNCHANGED <<height0, conf, node, contract>>

FetchInfo(r) ==
  /\ Goto(r, "signing", "signed")
  /\ height0' = [height0 EXCEPT ![r] = Tip]
  /\ UNCHANGED <<nonce, conf, node, contract>>

\* accepted, possibly in place of a pending transaction with a lower fee
BroadcastAccepted(r) ==
  /\ Admissible(r)
  /\ Goto(r, "signed", IF r \in NoWait THEN "unconfirmed" ELSE "poll")
  /\ mempool' = (mempool \ Conflicts(r)) \cup {r}
  /\ UNCHANGED <<nonce, height0, conf, chain, contract>>

\* a used-up nonce, or a conflict with a pending transaction
BroadcastRejected(r) ==
  /\ ~Admissible(r) \/ Conflicts(r) # {}
  /\ Goto(r, "signed", "failed")
  /\ UNCHANGED <<nonce, height0, conf, node, contract>>

\* the node takes the transaction and its answer is lost
BroadcastUnanswered(r) ==
  /\ Admissible(r)
  /\ Goto(r, "signed", "failed")
  /\ mempool' = (mempool \ Conflicts(r)) \cup {r}
  /\ UNCHANGED <<nonce, height0, conf, chain, contract>>

\* a request that is not caught, or a body that cannot be read, throws: exit 1
NetworkError(r) ==
  /\ \E from \in {"prompt", "signing", "signed", "poll", "map-hit"} : Goto(r, from, "failed")
  /\ UNCHANGED <<nonce, height0, conf, node, contract>>

Confirm(r, height, via) == conf' = [conf EXCEPT ![r] = [height |-> height, via |-> via]]

\* Faulty variants: an aborted transaction polled again; the tip for the block's height.
PollApiForever(r) ==
  /\ Mined(r) /\ ProofOk(r)
  /\ Goto(r, "poll", "reported") /\ Confirm(r, BlockOf(r), "txid")
  /\ UNCHANGED <<nonce, height0, node, contract>>

PollApiTip(r) ==
  /\ Mined(r)
  /\ \/ ProofOk(r) /\ Goto(r, "poll", "reported") /\ Confirm(r, Tip, "txid")
     \/ ~ProofOk(r) /\ Goto(r, "poll", "aborted") /\ UNCHANGED conf
  /\ UNCHANGED <<nonce, height0, node, contract>>

\* the extended API answers success or abort; on any other status the loop continues
PollApi(r) ==
  /\ Mined(r)
  /\ \/ ProofOk(r) /\ Goto(r, "poll", "reported") /\ Confirm(r, BlockOf(r), "txid")
     \/ ~ProofOk(r) /\ Goto(r, "poll", "aborted") /\ UNCHANGED conf
  /\ UNCHANGED <<nonce, height0, node, contract>>

\* Faulty variant: only an entry of the run's own signer ends the wait.
PollMapOwn(r) ==
  /\ GetAttestation(Pub(r)) # None /\ GetAttestation(Pub(r)).attester = Signer(r)
  /\ Goto(r, "poll", "map-hit")
  /\ UNCHANGED <<nonce, height0, conf, node, contract>>

\* no answer from the extended API: look the public input up in the contract's map ...
PollMap(r) ==
  /\ GetAttestation(Pub(r)) # None
  /\ Goto(r, "poll", "map-hit")
  /\ UNCHANGED <<nonce, height0, conf, node, contract>>

\* ... and take the tip's height for the inclusion height.
ReadTip(r) ==
  /\ Goto(r, "map-hit", "reported") /\ Confirm(r, Tip, "map")
  /\ UNCHANGED <<nonce, height0, node, contract>>

-----------------------------------------------------------------------------
AppendBlock(tx) ==
  \E b \in {BurnHeight, BurnHeight + 1} \cap (0 .. MaxBurn) :
    chain' = Append(chain, [tx |-> tx, burn |-> b])

\* the next transaction of its signer is executed: attest's whole effect, or none of it
Mine(r) ==
  /\ r \in mempool /\ nonce[r] = AccountNonce(Signer(r))
  /\ AppendBlock(r)
  /\ Attest(Pub(r), Signer(r), chain'[Tip + 1].burn, ProofOk(r))
  /\ mempool' = mempool \ {r}
  /\ UNCHANGED tool

MineEmpty ==
  /\ Tip < MaxEmptyHeight
  /\ AppendBlock(None)
  /\ UNCHANGED <<tool, mempool, contract>>

\* the node forgets a transaction
Drop(r) == r \in mempool /\ mempool' = mempool \ {r} /\ UNCHANGED <<tool, chain, contract>>

ToolStep(r) ==
  \/ Decline(r) \/ FetchNonce(r) \/ FetchInfo(r)
  \/ BroadcastAccepted(r) \/ BroadcastRejected(r) \/ BroadcastUnanswered(r)
  \/ PollApi(r) \/ PollMap(r) \/ ReadTip(r) \/ NetworkError(r)

SubmitNext ==
  \/ \E r \in Runs : ToolStep(r) \/ Mine(r) \/ Drop(r)
  \/ MineEmpty

\* The loop of confirmTx runs until it ends.  Nobody has to answer the prompt, no
\* request has to fail, the node need not mine, and the extended API need not answer.
Fairness == \A r \in Runs : WF_vars(PollMap(r) \/ ReadTip(r))

SubmitSpec == SubmitInit /\ [][SubmitNext]_vars /\ Fairness

-----------------------------------------------------------------------------
(***************************************************************************)
(* The contract on the chain implements the registry: concurrent runs,     *)
(* shared signers and public inputs, repeated submissions and proofs that  *)
(* do not verify included ("a recorded attestation exists only for a proof *)
(* the verifier accepted", "attest-count counts calls, not unique pubs").  *)
(***************************************************************************)
R == INSTANCE Registry WITH
       Calls <- Runs, CallPub <- Pub, CallSender <- Signer, Acceptable <- ProofOk,
       entries <- attestations, total <- attestCount,
       recorded <- {r \in Runs : Mined(r) /\ ProofOk(r)}
RegistryImplemented == R!Spec

(***************************************************************************)
(* What a run reports happened on the chain.  By transaction id: its own   *)
(* transaction was accepted at the height it reports, after the height it  *)
(* was broadcast at; or it was aborted.  By the contract's map: somebody   *)
(* attested the public input, no later than the height it reports.         *)
(***************************************************************************)
Accepted(r) == Mined(r) /\ ProofOk(r)

ReportIsTrue ==
  \A r \in Runs :
    /\ pc[r] = "aborted" => Mined(r) /\ ~ProofOk(r)
    /\ pc[r] = "reported" =>
         IF conf[r].via = "txid"
         THEN Accepted(r) /\ conf[r].height = BlockOf(r) /\ conf[r].height > height0[r]
         ELSE \E q \in Runs : /\ Pub(q) = Pub(r) /\ Accepted(q)
                              /\ BlockOf(q) <= conf[r].height

(***************************************************************************)
(* A run that waits learns the fate of a transaction that was mined, if    *)
(* the extended API answers in the end.                                    *)
(***************************************************************************)
Waits(r) == pc[r] = "poll"
Ends(r) == pc[r] \in {"reported", "aborted", "failed"}

OutcomeReported ==
  \A r \in Runs \ NoWait : WF_vars(PollApi(r)) => (Waits(r) /\ Mined(r) ~> Ends(r))

(***************************************************************************)
(* It learns that its attestation was accepted on any node, devnet without *)
(* the extended API included: later attestations of the same public input  *)
(* replace the entry and never hide it.  (An aborted one leaves no entry,  *)
(* and without the API the run then waits for somebody else's.)            *)
(***************************************************************************)
AcceptedReported ==
  \A r \in Runs \ NoWait : Waits(r) /\ Accepted(r) ~> Ends(r)

(***************************************************************************)
(* docs/testnet-walkthrough.md: "After broadcast it prints the txid, the   *)
(* fee paid, and blocks to inclusion": a reported run's own transaction is *)
(* on the chain.  Does not hold: the fallback reads the map by public      *)
(* input, and an earlier or another attestation answers for it.            *)
(***************************************************************************)
InclusionIsOwn == \A r \in Runs : pc[r] = "reported" => Mined(r)

(***************************************************************************)
(* tools/submit-proof.mjs: "continue; // pending": a run goes on polling   *)
(* for a transaction that is pending, and ends otherwise.  Does not hold:  *)
(* a dropped or replaced transaction is polled forever.                    *)
(***************************************************************************)
PollsOnlyPending ==
  \A r \in Runs : (pc[r] = "poll" /\ ~Mined(r) /\ r \notin mempool) ~> pc[r] # "poll"
=============================================================================
