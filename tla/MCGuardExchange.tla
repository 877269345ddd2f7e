---------------------------- MODULE MCGuardExchange ----------------------------
(* A small instance of GuardExchange for TLC. *)
EXTENDS GuardExchangeInvariants

CONSTANTS a1, s1, s2

MCAudiences == {a1}
MCScopes == {s1, s2}
MCMethods == {"GET", "HEAD"}
MCBindings == {NoBinding, {a1}}
MCDemands == {{}, {s2}}
MCPages == {[length |-> 0, typed |-> FALSE], [length |-> 1, typed |-> TRUE]}
=============================================================================
