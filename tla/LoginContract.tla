---------------------------- MODULE LoginContract ----------------------------
(***************************************************************************)
(* What LoginProxy promises of one request, without hooks, phases or       *)
(* cookies: which call the request owes the session store, that it is made *)
(* once, and which response may leave before, after or instead of it.      *)
(* LoginProxy implements it (ContractRefinement).                          *)
(***************************************************************************)
CONSTANTS Sessions, NoSession, SessionErrors, PermittedErrors

VARIABLES
    stage,     \* arriving, open, claimed, refused, ended or dropped
    session,   \* the session the request was loaded with
    owes,      \* the call owed to the engine
    made,      \* the call made, and what it returned
    response   \* none, refusal, application or bare

contractVars == <<stage, session, owes, made, response>>

NoCall == [op |-> "none", session |-> NoSession]
Persist(s) == [op |-> "persist", session |-> s]
Revoke(s) == [op |-> "revoke", session |-> s]
Made(call, outcome) ==
    [op |-> call.op, session |-> call.session, result |-> outcome]

ContractInit ==
    /\ stage = "arriving"
    /\ session = NoSession
    /\ owes = NoCall
    /\ made = Made(NoCall, "none")
    /\ response = "none"

\* The request is forwarded, with or without a session; a session whose
\* refresh is not saved yet owes a commit.
Admit ==
    /\ stage = "arriving"
    /\ stage' = "open"
    /\ session' \in Sessions \cup {NoSession}
    /\ owes' \in {NoCall} \cup (IF session' = NoSession THEN {}
                                ELSE {Persist(session')})
    /\ UNCHANGED <<made, response>>

\* The request is answered by the adapter, which makes an owed commit first.
Refuse ==
    /\ stage = "arriving"
    /\ stage' = "refused"
    /\ session' \in Sessions \cup {NoSession}
    /\ owes' \in {NoCall} \cup (IF session' = NoSession THEN {}
                                ELSE {Persist(session')})
    /\ made' = Made(owes', "none")
    /\ UNCHANGED response

\* The application asks for the session's end, which supersedes a commit.
AskTermination ==
    /\ stage = "open" /\ session # NoSession
    /\ owes' = Revoke(session)
    /\ UNCHANGED <<stage, session, made, response>>

\* Nothing is owed any more from here on: the one call is under way.
Claim ==
    /\ stage = "open"
    /\ stage' = "claimed"
    /\ made' = Made(owes, "none")
    /\ UNCHANGED <<session, owes, response>>

Outstanding == made.op # "none" /\ made.result = "none"

Return ==
    /\ Outstanding
    /\ stage \in {"claimed", "refused"}
    /\ made' \in {Made(owes, r) : r \in SessionErrors \cup {"ok"}}
    /\ UNCHANGED <<stage, session, owes, response>>

\* The response of the application goes out only after the call returned, and
\* not after a commit that the policy refuses to overlook.
RespondApplication ==
    /\ stage = "claimed" /\ response = "none"
    /\ ~Outstanding
    /\ made.op = "persist" => made.result \in PermittedErrors \cup {"ok"}
    /\ response' = "application"
    /\ UNCHANGED <<stage, session, owes, made>>

RespondRefusal ==
    /\ stage = "refused" /\ response = "none"
    /\ ~Outstanding
    /\ response' = "refusal"
    /\ UNCHANGED <<stage, session, owes, made>>

\* A response that bypasses finalization: the inner proxy's own write, or the
\* runner's error response.
RespondBare ==
    /\ stage \in {"open", "claimed"} /\ response = "none"
    /\ response' = "bare"
    /\ UNCHANGED <<stage, session, owes, made>>

\* The task may end only with nothing left to attempt.
End ==
    /\ stage \in {"claimed", "refused"}
    /\ ~Outstanding
    /\ stage' = "ended"
    /\ UNCHANGED <<session, owes, made, response>>

Drop ==
    /\ stage # "ended"
    /\ stage' = "dropped"
    /\ UNCHANGED <<session, owes, made, response>>

ContractNext ==
    \/ Admit \/ Refuse \/ AskTermination \/ Claim \/ Return
    \/ RespondApplication \/ RespondRefusal \/ RespondBare \/ End \/ Drop

ContractSpec == ContractInit /\ [][ContractNext]_contractVars
=============================================================================
