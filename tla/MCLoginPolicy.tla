---------------------------- MODULE MCLoginPolicy ----------------------------
(* A small instance of LoginPolicy for TLC. *)
EXTENDS LoginPolicyInvariants, TLC

CONSTANTS c1, c2

MCChecks == {c1, c2}
MCMethods == {"GET", "POST"}

MCPatternFaults ==
    (<<"a">> :> "none") @@ (<<"a", "">> :> "none") @@ (<<"a", "x">> :> "none")
    @@ (<<"A">> :> "NonCanonicalCase")

MCRequestPaths ==
    {<<"">>, <<"a">>, <<"a", "">>, <<"a", "x">>, <<"a", "x", "y">>, <<"b">>}
=============================================================================
