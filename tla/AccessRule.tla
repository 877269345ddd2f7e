------------------------------ MODULE AccessRule ------------------------------
(***************************************************************************)
(* Rule (src/src/resource/rule.rs): what a resource's route asks of the    *)
(* token.  Audiences and scopes are sets: the order and the repetitions of *)
(* the code's lists matter to the wording of a hint alone.                 *)
(* strip_credentials is left to AuthProxy.                                 *)
(***************************************************************************)
EXTENDS MethodMatch

CONSTANTS
    NoCheck,    \* the None of a rule's check
    NoScope     \* the None of scope_param

TokenRequirements == {"none", "optional", "required"}

\* Faulty variants: the hint names the scopes of the last call alone; a check is
\* not counted as a constraint.
FaultHintsLast(rule, scopes) ==
    [rule EXCEPT !.scopes = @ \cup scopes,
                 !.scope_param = IF scopes = {} THEN NoScope ELSE scopes]

FaultIgnoresChecks(rule) ==
    rule.token = "none" /\ (rule.audiences # {} \/ rule.scopes # {})

\* Rule::with_requirement: public, optional and required.
WithRequirement(token) ==
    [token |-> token, audiences |-> {}, scopes |-> {}, scope_param |-> NoScope,
     check |-> NoCheck, method |-> AnyMethod]

\* Rule::audience and audiences extend the list.
WithAudiences(rule, audiences) == [rule EXCEPT !.audiences = @ \cup audiences]

\* Rule::scopes extends the list and rewrites the hint from all of it.
WithScopes(rule, scopes) ==
    LET all == rule.scopes \cup scopes IN
    [rule EXCEPT !.scopes = all,
                 !.scope_param = IF all = {} THEN NoScope ELSE all]

\* Rule::check and method replace what an earlier call set.
WithCheck(rule, f) == [rule EXCEPT !.check = f]
WithMethod(rule, methods) == [rule EXCEPT !.method = methods]

\* Rule::default.
DefaultRule == WithRequirement("required")

PublicConstraintsRequested(rule) ==
    /\ rule.token = "none"
    /\ rule.audiences # {} \/ rule.scopes # {} \/ rule.check # NoCheck
=============================================================================
