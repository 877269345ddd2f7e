-------------------------- MODULE MCLoginApplication --------------------------
(* The example at the root of its origin, and behind an ingress that serves  *)
(* it at /app and hands it requests under /in.                               *)
EXTENDS ApplicationInvariants

MCMappings ==
    {[base |-> <<>>, prefix |-> <<>>],
     [base |-> <<"app">>, prefix |-> <<"in">>]}

MCPageNames ==
    {Home, Dashboard, <<"dashboard", "report">>, <<"other">>, Health,
     SignedOut, Logout}

MCPatternFaults ==
    [path \in {m.prefix \o Routes[i].name : m \in MCMappings,
                                            i \in DOMAIN Routes} |-> "none"]

\* main expects the routes to be valid, at each of the prefixes.
ASSUME ConfigurationIsValid ==
    \A m \in MCMappings :
      RouterErrors([i \in DOMAIN Routes |->
                      Registration(Routes[i].kind, m.prefix \o Routes[i].name,
                                   AnyMethod)]) = {}
=============================================================================
