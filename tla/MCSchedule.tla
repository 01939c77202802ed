----------------------------- MODULE MCSchedule -----------------------------
(***************************************************************************)
(* Only whether the proofs bring the same message matters: the first one   *)
(* always brings "a", and the other may differ from it at any point, at    *)
(* several, or nowhere.                                                    *)
(***************************************************************************)
EXTENDS Schedule

Brings(p) == IF p = 1 THEN {"a"} ELSE {"a", "b"}
=============================================================================
