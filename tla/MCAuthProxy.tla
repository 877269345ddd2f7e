----------------------------- MODULE MCAuthProxy -----------------------------
(* Small instances of AuthProxy for TLC. *)
EXTENDS AuthInvariants, TLC

CONSTANTS a1, a2, s1

TwoAudiences == {a1, a2}
OneAudience == {a1}
OneScope == {s1}
NoScopes == {}
DecisionBindings == {NoBinding, {}, {a1}, {a1, a2}}
LifecycleBindings == {NoBinding, {a1}}
=============================================================================
