-------------------------- MODULE SessionInvariants --------------------------
(***************************************************************************)
(* What must hold between requests that share one session.                 *)
(***************************************************************************)
EXTENDS LoginSessions

AllVersions == Nat \ {0}

\* A commit that finds a newer version lost to a write of another request, or
\* to the one its own load seemed to fail at: never to a commit made before by
\* the same request, on its denial path, at the response or from logging.
ConflictsAreWithOthers ==
    \A r \in Requests :
        made[r].result = "Conflict" =>
            record.writes[session[r]] # [by |-> r, at |-> "commit"]

\* When a request that asked for the session's end is over and its revocation
\* succeeded, no request that arrives afterwards is given the session, whatever
\* refreshes of other requests are saved or retried in between.
SignedOutStaysOut ==
    \A r, q \in Requests :
        q \in before[r] /\ asked[q] /\ made[q].result = "ok" =>
            session[r] = NoSession

Contract(r) == INSTANCE LoginContract WITH
    Sessions <- AllVersions, PermittedErrors <- Permitted,
    stage <- IF stage[r] = "loading" THEN "arriving" ELSE stage[r],
    session <- session[r], owes <- Owes(r),
    made <- made[r], response <- response[r]

\* Each of the requests keeps to the contract of LoginProxy while the others
\* write and delete the record between its steps: the application's response
\* waits for the commit and is hidden when another request won the record.
EachKeepsContract ==
    /\ \A r \in Requests : Contract(r)!ContractInit
    /\ [][\A r \in Requests :
            Contract(r)!ContractNext \/ UNCHANGED Contract(r)!contractVars]_vars

\* What a request owes the record is attempted and answered, unless its task is
\* dropped.
DebtsAreSettled ==
    \A r \in Requests :
        Owes(r) # NoCall ~>
            (made[r].result # "none" \/ stage[r] = "dropped")
=============================================================================
