------------------------------ MODULE Registry ------------------------------
(***************************************************************************)
(* What a reader of the attestation contract may rely on: an entry is the  *)
(* latest accepted call for its public input, each call is recorded once   *)
(* and only if its proof is acceptable, heights never go back, and the     *)
(* total counts calls, not public inputs.                                  *)
(***************************************************************************)
EXTENDS Naturals, FiniteSets

CONSTANTS Calls, Pubs, None, CallPub(_), CallSender(_), Acceptable(_)

VARIABLES entries, total, recorded

Init == entries = [p \in Pubs |-> None] /\ total = 0 /\ recorded = {}

Record(c) ==
  /\ c \notin recorded /\ Acceptable(c)
  /\ recorded' = recorded \cup {c}
  /\ total' = Cardinality(recorded')
  /\ LET entry == entries'[CallPub(c)] IN
     /\ entry.attester = CallSender(c)
     /\ \A p \in Pubs : entries[p] # None => entries[p].height <= entry.height
     /\ entries' = [entries EXCEPT ![CallPub(c)] = entry]

Next == \E c \in Calls : Record(c)

Spec == Init /\ [][Next]_<<entries, total, recorded>>
=============================================================================
