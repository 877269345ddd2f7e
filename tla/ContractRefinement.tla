-------------------------- MODULE ContractRefinement --------------------------
(***************************************************************************)
(* LoginProxy implements LoginContract: the stage is read off the decision *)
(* that was counted and the finalized flag, what is owed off the load and  *)
(* the inner proxy's request, and what was made off the engine calls.      *)
(***************************************************************************)
EXTENDS LoginInvariants

Refusals ==
    {"denied_route", "login_route", "server_error", "refresh_unavailable",
     "unauthenticated", "forbidden"}

ContractStage ==
    CASE pc = "aborted" -> "dropped"
      [] pc = "done" -> "ended"
      [] pc \notin {"aborted", "done"} /\ tally.decisions = <<>> -> "arriving"
      [] pc \notin {"aborted", "done"} /\ tally.decisions # <<>>
         /\ tally.decisions[1] \in Refusals -> "refused"
      [] OTHER -> IF state.finalized THEN "claimed" ELSE "open"

ContractCall(op, s) == [op |-> op, session |-> s]

ContractOwes ==
    IF wanted THEN ContractCall("revoke", loaded.session)
    ELSE IF Deferred THEN ContractCall("persist", loaded.session)
    ELSE ContractCall("none", NoSession)

ContractMade ==
    IF calls = <<>>
    THEN [op |-> "none", session |-> NoSession, result |-> "none"]
    ELSE [op |-> calls[1].op, session |-> calls[1].session, result |-> result]

ContractResponse ==
    CASE client.kind = "none" -> "none"
      [] client.kind = "engine" -> "refusal"
      [] client.kind = "application" -> "application"
      [] OTHER -> "bare"

Contract == INSTANCE LoginContract WITH
    stage <- ContractStage, session <- loaded.session, owes <- ContractOwes,
    made <- ContractMade, response <- ContractResponse

\* Every behaviour of LoginProxy is one the contract allows.
ImplementsContract == Contract!ContractSpec
=============================================================================
