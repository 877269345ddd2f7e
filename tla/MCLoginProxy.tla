---------------------------- MODULE MCLoginProxy ----------------------------
(* A small instance of LoginProxy and of its contract for TLC. *)
EXTENDS ContractRefinement

CONSTANTS s1, s2, Gone, Conflict

MCSessions == {s1, s2}
MCSessionErrors == {Gone, Conflict}
MCPermittedErrors == {Conflict}
=============================================================================
