---------------------------- MODULE LoginSessions ----------------------------
(***************************************************************************)
(* Several requests that carry the cookie of one store-backed session.     *)
(* Each is a request through LoginProxy, known here only by what           *)
(* LoginContract says of it; they meet in the session's record, which      *)
(* belongs to the engine (external): a save is guarded by the version it   *)
(* started from and does not recreate a deleted record.                    *)
(***************************************************************************)
EXTENDS Integers, Sequences, FiniteSets

CONSTANTS
    Requests,         \* the requests of one browser session
    Permitted,        \* the commit errors the persist failure policy overlooks
    MaxActive,        \* bound: how many of the requests are under way at a time
    MaxResponses      \* bound: how many responses are written; no step reads one

VARIABLES
    record,      \* the session's record: its writes in order, and deleted
    seen,        \* the version a load under way has read, 0 for none
    before,      \* the requests that had ended when this one arrived
    stage, session, made, response,    \* of each request, as in LoginContract
    pending,     \* the request was loaded with a refresh it has yet to save
    asked,       \* its inner proxy asked for the session's end
    effect       \* what the store answered to the call under way

vars == <<record, seen, before, stage, session, made, response, pending, asked,
          effect>>

NoSession == 0
SessionErrors == {"Gone", "Conflict", "Unavailable"}
\* A session is known by the version of the record it was loaded from.
Version == Len(record.writes) + 1
Written(r, at) == [record EXCEPT !.writes = Append(@, [by |-> r, at |-> at])]

CallOf(call, s) == [op |-> call, session |-> s]
Made(call, outcome) ==
    [op |-> call.op, session |-> call.session, result |-> outcome]
NoCall == CallOf("none", NoSession)
Nothing == Made(NoCall, "none")

\* A broken CallMade: an owed commit goes first.
FaultCommitsFirst(isAsked, isPending, s) ==
    CASE s = NoSession -> NoCall
      [] s # NoSession /\ isPending -> CallOf("persist", s)
      [] s # NoSession /\ ~isPending /\ isAsked -> CallOf("revoke", s)
      [] OTHER -> NoCall

\* A requested termination supersedes the commit that is owed.
CallMade(isAsked, isPending, s) ==
    CASE s # NoSession /\ isAsked -> CallOf("revoke", s)
      [] s # NoSession /\ ~isAsked /\ isPending -> CallOf("persist", s)
      [] OTHER -> NoCall

Owes(r) == CallMade(asked[r], pending[r], session[r])
Outstanding(r) == made[r].op # "none" /\ made[r].result = "none"

Active == {q \in Requests : stage[q] \in {"loading", "open", "claimed", "refused"}}

Init ==
    /\ record = [writes |-> <<>>, deleted |-> FALSE]
    /\ seen = [r \in Requests |-> 0]
    /\ before = [r \in Requests |-> {}]
    /\ stage = [r \in Requests |-> "arriving"]
    /\ session = [r \in Requests |-> NoSession]
    /\ made = [r \in Requests |-> Nothing]
    /\ response = [r \in Requests |-> "none"]
    /\ pending = [r \in Requests |-> FALSE]
    /\ asked = [r \in Requests |-> FALSE]
    /\ effect = [r \in Requests |-> "none"]

-----------------------------------------------------------------------------
\* The engine reads the record; what it does next goes by what it read.
ReadRecord(r) ==
    /\ stage[r] = "arriving" /\ Cardinality(Active) < MaxActive
    /\ stage' = [stage EXCEPT ![r] = "loading"]
    /\ seen' = [seen EXCEPT ![r] = IF record.deleted THEN 0 ELSE Version]
    /\ before' = [before EXCEPT ![r] = {q \in Requests : stage[q] = "ended"}]
    /\ UNCHANGED <<record, session, made, response, pending, asked, effect>>

\* The request goes on to the inner proxy, or it is denied by its rule's check
\* and then commits at once what it owes.
Admit(r, s, refreshed) ==
    /\ stage[r] = "loading"
    /\ session' = [session EXCEPT ![r] = s]
    /\ pending' = [pending EXCEPT ![r] = refreshed]
    /\ \/ /\ stage' = [stage EXCEPT ![r] = "open"]
          /\ UNCHANGED made
       \/ /\ stage' = [stage EXCEPT ![r] = "refused"]
          /\ made' = [made EXCEPT ![r] = Made(CallMade(FALSE, refreshed, s), "none")]
    /\ UNCHANGED <<before, response, asked, effect>>

\* The tokens are good as they are.
LoadActive(r) ==
    /\ seen[r] # 0
    /\ Admit(r, seen[r], FALSE)
    /\ seen' = [seen EXCEPT ![r] = 0]
    /\ UNCHANGED record

\* The tokens were refreshed and the save during the load failed, or seemed to:
\* it is owed from here on.
LoadPending(r) ==
    /\ seen[r] # 0
    /\ Admit(r, seen[r], TRUE)
    /\ \/ UNCHANGED record
       \/ ~record.deleted /\ seen[r] = Version /\ record' = Written(r, "load")
    /\ seen' = [seen EXCEPT ![r] = 0]

\* The tokens were refreshed and saved during the load, over the version read.
LoadSaved(r) ==
    /\ seen[r] # 0 /\ ~record.deleted /\ seen[r] = Version
    /\ record' = Written(r, "load")
    /\ seen' = [seen EXCEPT ![r] = 0]
    /\ Admit(r, Version + 1, FALSE)

\* There is no record, or the engine dropped the session.
LoadNothing(r) ==
    /\ Admit(r, NoSession, FALSE)
    /\ seen' = [seen EXCEPT ![r] = 0]
    /\ UNCHANGED record

\* The load or the refresh failed: the request is answered without a session.
LoadFails(r) ==
    /\ stage[r] = "loading"
    /\ stage' = [stage EXCEPT ![r] = "refused"]
    /\ seen' = [seen EXCEPT ![r] = 0]
    /\ UNCHANGED <<record, before, session, made, response, pending, asked, effect>>

RequestTermination(r) ==
    /\ stage[r] = "open" /\ ~asked[r]
    /\ asked' = [asked EXCEPT ![r] = TRUE]
    /\ UNCHANGED <<record, seen, before, stage, session, made, response, pending, effect>>

-----------------------------------------------------------------------------
\* The state is claimed before the call is awaited, by the response filter or
\* by logging.
Claim(r) ==
    /\ stage[r] = "open"
    /\ stage' = [stage EXCEPT ![r] = "claimed"]
    /\ made' = [made EXCEPT ![r] = Made(Owes(r), "none")]
    /\ UNCHANGED <<record, seen, before, session, response, pending, asked, effect>>

\* The store executes a call, also one whose request was dropped meanwhile.
Execute(r) ==
    LET call == made[r]
        Answer(outcome) == effect' = [effect EXCEPT ![r] = outcome]
        Delete == record' = [record EXCEPT !.deleted = TRUE]
    IN /\ Outstanding(r) /\ effect[r] = "none"
       /\ \/ Answer("Unavailable") /\ UNCHANGED record
          \/ /\ call.op = "revoke" /\ Delete
             /\ Answer("ok") \/ Answer("Unavailable")
          \/ /\ call.op = "persist" /\ record.deleted
             /\ Answer("Gone") /\ UNCHANGED record
          \/ /\ call.op = "persist" /\ ~record.deleted /\ call.session # Version
             /\ Answer("Conflict") /\ UNCHANGED record
          \/ /\ call.op = "persist" /\ ~record.deleted /\ call.session = Version
             /\ record' = Written(r, "commit")
             /\ Answer("ok") \/ Answer("Unavailable")
       /\ UNCHANGED <<seen, before, stage, session, made, response, pending, asked>>

\* The awaited call returns; a denied request then answers, whatever it was.
Return(r) ==
    /\ stage[r] \in {"claimed", "refused"} /\ Outstanding(r)
    /\ effect[r] # "none"
    /\ made' = [made EXCEPT ![r].result = effect[r]]
    /\ effect' = [effect EXCEPT ![r] = "none"]
    /\ UNCHANGED <<record, seen, before, stage, session, response, pending, asked>>

Responds(r, kind) ==
    /\ response[r] = "none"
    /\ Cardinality({q \in Requests : response[q] # "none"}) < MaxResponses
    /\ response' = [response EXCEPT ![r] = kind]
    /\ UNCHANGED <<record, seen, before, stage, session, made, pending, asked, effect>>

\* A broken RespondApplication: a lost commit does not matter.
FaultServesStale(r) ==
    stage[r] = "claimed" /\ ~Outstanding(r) /\ Responds(r, "application")

\* The application's response leaves, unless the commit failed and the policy
\* does not overlook how.
RespondApplication(r) ==
    /\ stage[r] = "claimed" /\ ~Outstanding(r)
    /\ made[r].op = "persist" => made[r].result \in Permitted \cup {"ok"}
    /\ Responds(r, "application")

RespondRefusal(r) ==
    stage[r] = "refused" /\ ~Outstanding(r) /\ Responds(r, "refusal")

\* The inner proxy writes itself, or the runner answers an error.
RespondBare(r) == stage[r] \in {"open", "claimed"} /\ Responds(r, "bare")

\* A broken Logging: a request that was finalized is finalized again.
FaultLoggingRepeats(r) ==
    \/ Claim(r)
    \/ /\ stage[r] = "claimed" /\ ~Outstanding(r)
       /\ made' = [made EXCEPT ![r] = Made(Owes(r), "none")]
       /\ UNCHANGED <<record, seen, before, stage, session, response, pending, asked, effect>>

\* A broken Logging: what no response finalized is forgotten.
FaultLoggingForgets(r) ==
    /\ stage[r] \in {"open", "claimed", "refused"} /\ ~Outstanding(r)
    /\ stage' = [stage EXCEPT ![r] = "ended"]
    /\ UNCHANGED <<record, seen, before, session, made, response, pending, asked, effect>>

\* Logging runs last: it claims what no response filter did, and ends the
\* request when nothing is under way.
Logging(r) ==
    \/ Claim(r)
    \/ /\ stage[r] \in {"claimed", "refused"} /\ ~Outstanding(r)
       /\ stage' = [stage EXCEPT ![r] = "ended"]
       /\ UNCHANGED <<record, seen, before, session, made, response, pending, asked, effect>>

\* The task is dropped: a call under way may still be executed.
Drop(r) ==
    /\ stage[r] \notin {"ended", "dropped"}
    /\ stage' = [stage EXCEPT ![r] = "dropped"]
    /\ UNCHANGED <<record, seen, before, session, made, response, pending, asked, effect>>

Load(r) ==
    ReadRecord(r) \/ LoadActive(r) \/ LoadPending(r) \/ LoadSaved(r)
    \/ LoadNothing(r) \/ LoadFails(r)

Next ==
    \E r \in Requests :
        \/ ReadRecord(r) \/ LoadActive(r) \/ LoadPending(r) \/ LoadSaved(r)
        \/ LoadNothing(r) \/ LoadFails(r) \/ RequestTermination(r)
        \/ Execute(r) \/ Return(r)
        \/ RespondApplication(r) \/ RespondRefusal(r) \/ RespondBare(r)
        \/ Logging(r) \/ Drop(r)

\* Each request's task and the store make progress; a drop is no progress.
Fairness ==
    \A r \in Requests :
        WF_vars(Load(r)) /\ WF_vars(Execute(r)) /\ WF_vars(Return(r))
        /\ WF_vars(Logging(r))

Spec == Init /\ [][Next]_vars
FairSpec == Spec /\ Fairness
=============================================================================
