------------------------------ MODULE MCSubmit ------------------------------
(***************************************************************************)
(* Alice submits an honest proof and one that does not verify for one      *)
(* public input, Bob an honest proof for the same one.                     *)
(***************************************************************************)
EXTENDS Submit

CONSTANTS r1, r2, r3, alice, bob, p1, p2

MCRuns == {r1, r2, r3}
AliceRuns == {r1, r2}
MCSigner(r) == IF r = r3 THEN bob ELSE alice
MCPub(r) == p1
MCProofOk(r) == r # r2
MCPubs == {p1, p2}
NobodyUnwaited == {}
BobRuns == {r3}
=============================================================================
