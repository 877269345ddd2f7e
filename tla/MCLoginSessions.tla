--------------------------- MODULE MCLoginSessions ---------------------------
(* Constants for model-checking LoginSessions. *)
EXTENDS SessionInvariants, TLC

CONSTANTS r1, r2, r3

MCTwo == {r1, r2}
MCThree == {r1, r2, r3}
MCPermitted == {"Unavailable"}
MCSymmetry == Permutations(Requests)
=============================================================================
