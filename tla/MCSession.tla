------------------------------ MODULE MCSession ------------------------------
(* Small instances of Session for TLC. *)
EXTENDS Session

CONSTANTS s1, r1, r2, r3, r4, nobody

MCOneSession == {s1}
MCThreeRequests == {r1, r2, r3}
MCFourRequests == {r1, r2, r3, r4}
=============================================================================
