---------------------------- MODULE OracleProof ----------------------------
(***************************************************************************)
(* What a caller of verify() relies on, and an attestation with it: an     *)
(* interactive oracle proof.  A prover speaks in rounds; each message is   *)
(* answered by a random challenge before the next one and never taken      *)
(* back.  When all is said there is one verdict.  A proof that holds may   *)
(* still be rejected (its openings may not be given), one that does not    *)
(* hold is never accepted.                                                 *)
(***************************************************************************)
EXTENDS Statement

VARIABLE verdict

conversation == <<messages, challenges>>

Init == Unsaid /\ verdict = "open"

-----------------------------------------------------------------------------
Trace ==
  /\ trace = None
  /\ trace' \in TraceRoots /\ alpha' \in Challenges
  /\ UNCHANGED <<comp, ood, fri, final, z, gamma, betas, powOk, idx>>

Composition ==
  /\ trace # None /\ comp = None
  /\ comp' \in CompRoots /\ z' \in Challenges
  /\ UNCHANGED <<trace, ood, fri, final, alpha, gamma, betas, powOk, idx>>

Openings ==
  /\ comp # None /\ ood = None
  /\ ood' \in OodClaims /\ gamma' \in Challenges
  /\ UNCHANGED <<trace, comp, fri, final, alpha, z, betas, powOk, idx>>

Layer ==
  /\ ood # None /\ Len(fri) < L
  /\ \E r \in FriRoots[Len(fri)] : fri' = Append(fri, r)
  /\ \E c \in Challenges : betas' = Append(betas, c)
  /\ UNCHANGED <<trace, comp, ood, final, alpha, z, gamma, powOk, idx>>

Constant ==
  /\ Len(fri) = L /\ final = None
  /\ final' \in Finals /\ powOk' \in BOOLEAN /\ idx' \in [1 .. N -> Indices]
  /\ UNCHANGED <<trace, comp, ood, fri, alpha, z, gamma, betas>>

Round ==
  /\ verdict = "open" /\ verdict' = verdict
  /\ Trace \/ Composition \/ Openings \/ Layer \/ Constant

Accept ==
  /\ verdict = "open" /\ verdict' = "accepted" /\ UNCHANGED conversation
  /\ final # None /\ Valid

Reject ==
  /\ verdict = "open" /\ verdict' = "rejected" /\ UNCHANGED conversation

Next == Round \/ Accept \/ Reject

Spec == Init /\ [][Next]_<<conversation, verdict>>
=============================================================================
