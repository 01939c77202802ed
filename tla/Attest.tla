------------------------------- MODULE Attest -------------------------------
(***************************************************************************)
(* contracts/verifold-attest.clar: a map from the hash of a public input   *)
(* to its latest attestation, and a counter of accepted calls.             *)
(***************************************************************************)
EXTENDS Naturals

CONSTANTS Pubs, None

VARIABLES attestations, attestCount

contract == <<attestations, attestCount>>

AttestInit == attestations = [p \in Pubs |-> None] /\ attestCount = 0

\* Faulty variant: an existing entry kept.
AttestKeepsFirst(pub, sender, height, verified) ==
  \/ /\ verified /\ attestCount' = attestCount + 1
     /\ IF attestations[pub] # None THEN UNCHANGED attestations
        ELSE attestations' = [attestations EXCEPT ![pub] = [attester |-> sender, height |-> height]]
  \/ ~verified /\ UNCHANGED contract

\* A call that verify aborts, or answers false, is rolled back as a whole.
Attest(pub, sender, height, verified) ==
  \/ /\ verified
     /\ attestations' = [attestations EXCEPT ![pub] = [attester |-> sender, height |-> height]]
     /\ attestCount' = attestCount + 1
  \/ ~verified /\ UNCHANGED contract

GetAttestation(pub) == attestations[pub]
=============================================================================
