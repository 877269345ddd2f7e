--------------------------- MODULE MCResourcePolicy ---------------------------
(* A small instance of ResourcePolicy for TLC. *)
EXTENDS ResourcePolicyInvariants, TLC

CONSTANTS a1, s1, s2, c1

MCAudiences == {a1}
MCScopes == {s1, s2}
MCChecks == {c1}
MCMethods == {"GET"}

MCPatternFaults ==
    (<<"a">> :> "none") @@ (<<"a", "..">> :> "NonCanonical")

\* Scopes are only compared with each other.
MCSymmetry == Permutations(MCScopes)

MCRequestPaths == {<<"">>, <<"a">>, <<"a", "">>, <<"a", "x">>}
=============================================================================
