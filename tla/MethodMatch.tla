----------------------------- MODULE MethodMatch -----------------------------
(* The method axis of a rule (src/src/method.rs).                            *)
CONSTANTS
    RequestMethods,   \* the methods of requests
    AnyMethod         \* MethodMatch::Any

ASSUME MethodAssumption == AnyMethod \notin RequestMethods

\* A rule is for every method, or for a set of them.
MethodMatches == {AnyMethod} \cup SUBSET RequestMethods

\* MethodMatch::from(method).
OneOf(method) == {method}
=============================================================================
