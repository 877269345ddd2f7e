---------------------------- MODULE LoginInduction ----------------------------
(***************************************************************************)
(* The inductive invariant behind the theorems of LoginProxyProofs.  None  *)
(* of the properties of LoginInvariants is inductive: what a step may do   *)
(* to a cookie or a call depends on where the task is, whether the context *)
(* was prepared and whether its obligations were claimed.                  *)
(***************************************************************************)
EXTENDS LoginInvariants

\* The context is prepared and its obligations are not claimed yet.
Open == ~state.finalized /\ state.request_headers

FreshPoints == {"request_filter", "load_session"}
UnclaimedPoints ==
    {"inner_request_filter", "cache_lookup", "connect", "upstream"}
FilterPoints == {"response_filter", "finalize_response"}
AwaitingCall == {"denied_commit", "commit", "terminate", "logging_commit",
                 "logging_terminate"}
Unanswered ==
    FreshPoints \cup FilterPoints \cup
    {"denied_commit", "commit", "terminate", "cache_lookup", "connect",
     "upstream", "write_header"}

AllPoints ==
    AwaitPoints \cup {"finalize_response", "logging", "done", "aborted"}

\* The types of the variables, one name for each.
HeaderType ==
    [kind : {"none", "interim", "final", "upgrade"},
     source : {"none", "engine", "queued", "upstream", "cache"},
     cookies : BundleLists, no_store : BOOLEAN]

CallsType == {<<>>} \cup {<<c>> : c \in Calls}

ResultType == ErrorsOrOk \cup {"none"}

UpstreamType ==
    [attempts : 0 .. MaxAttempts, interims : 0 .. MaxInterim,
     repeats : 0 .. MaxRepeats, cookies : SUBSET {"session", "application"}]

ClientType ==
    [kind : {"none", "engine", "application", "direct", "error"},
     cookies : BundleLists, no_store : BOOLEAN, gone : BOOLEAN]

LedgerType ==
    [produced : {<<>>, <<"commit">>, <<"clear">>},
     stranded : BundleLists, discarded : BundleLists]

TallyType ==
    [decisions : {<<>>} \cup {<<o>> : o \in Outcomes},
     finalizations : {0, 1}]

Shape ==
    /\ pc \in AllPoints
    /\ request \in Requests
    /\ loaded \in LoadedSession
    /\ state \in StateType
    /\ header \in HeaderType
    /\ calls \in CallsType
    /\ result \in ResultType
    /\ upstream \in UpstreamType
    /\ client \in ClientType
    /\ ledger \in LedgerType
    /\ tally \in TallyType
    /\ wanted \in BOOLEAN

\* Nothing but routing has happened before load_session answers.
Fresh ==
    pc \in FreshPoints =>
      /\ loaded = NotLoaded("unasked", <<>>)
      /\ state = DefaultState /\ header = NoHeader /\ calls = <<>>
      /\ result = "none" /\ ~wanted /\ ledger.produced = <<>>
      /\ upstream.attempts = 0 /\ upstream.cookies = {}
      /\ client.kind = "none"

\* What load_session can have returned.
LoadFacts ==
    /\ loaded.kind \in {"active", "pending"} <=> loaded.session # NoSession
    /\ Deferred => loaded.set_cookies = <<>>

\* The context holds what is owed while it is open and nothing otherwise.
ContextFacts ==
    /\ Open => /\ state.session = loaded.session
               /\ state.pending = Owed(loaded)
               /\ state.set_cookies = loaded.set_cookies
               /\ calls = <<>> /\ ledger.produced = <<>>
               /\ result = "none"
    /\ ~Open => state.pending = NoSession /\ state.set_cookies = <<>>
    /\ ~state.finalized /\ ~state.request_headers => state.session = NoSession
    /\ state.session # NoSession => state.session = loaded.session
    /\ Open /\ state.session # NoSession =>
         (wanted <=> state.terminate_requested)
    /\ wanted => loaded.session # NoSession
    /\ (wanted \/ Deferred) /\ calls = <<>> => Open

\* The one call that was made is the one that was owed.
CallFacts ==
    calls # <<>> =>
      /\ calls[1].session = loaded.session
      /\ calls[1].headers
      /\ calls[1].op = IF wanted THEN "revoke" ELSE "persist"
      /\ wanted \/ Deferred

Places(owed, carried, sent, stranded, discarded) ==
    /\ state.set_cookies = owed /\ header.cookies = carried
    /\ client.cookies = sent
    /\ ledger.stranded = stranded /\ ledger.discarded = discarded

\* Every bundle is in one place, and no place holds anything else; none is
\* given up while the response is still to be finalized.
Conserved ==
    /\ \/ Places(Bundle, <<>>, <<>>, <<>>, <<>>)
       \/ Places(<<>>, Bundle, <<>>, <<>>, <<>>)
       \/ Places(<<>>, <<>>, Bundle, <<>>, <<>>)
       \/ Places(<<>>, <<>>, <<>>, Bundle, <<>>)
       \/ Places(<<>>, <<>>, <<>>, <<>>, Bundle)
    /\ ~state.finalized /\ pc \in Unanswered \cup {"inner_request_filter"} =>
         ledger.stranded = <<>> /\ ledger.discarded = <<>>

\* Where the task is tells what has been claimed and what header it holds.
PointFacts ==
    /\ header.source = "engine" => ~state.request_headers
    /\ pc \in UnclaimedPoints => ~state.finalized /\ header = NoHeader
    /\ pc \in FilterPoints =>
         /\ header.kind # "none" /\ header.source \notin {"none", "engine"}
         /\ IF state.finalized THEN upstream.repeats > 0 /\ header.kind # "interim"
            ELSE header.cookies = <<>>
    /\ pc \in {"commit", "terminate"} =>
         /\ state.finalized
         /\ header.kind \in {"final", "upgrade"}
         /\ header.source \notin {"none", "engine"}
    /\ pc = "denied_commit" =>
         header.source = "engine" /\ header.kind = "final"
    /\ pc = "write_header" =>
         /\ header.kind # "none" /\ header.source # "none"
         /\ header.kind = "interim" => ~state.finalized /\ header.cookies = <<>>
                                       /\ header.source # "engine"
         /\ header.kind # "interim" /\ header.source # "engine" =>
              state.finalized
    /\ pc \in {"inner_logging", "done", "logging_commit", "logging_terminate"}
         => state.finalized

\* Which call is awaited where, and what the answered ones produced.
AnswerFacts ==
    /\ pc \in AwaitingCall =>
         /\ calls # <<>> /\ result = "none" /\ ledger.produced = <<>>
         /\ pc \in {"terminate", "logging_terminate"} <=> wanted
    /\ pc = "denied_commit" => calls[1].phase = "denied"
    /\ pc \in {"commit", "terminate"} => calls[1].phase = "response"
    /\ pc \in {"logging_commit", "logging_terminate"} =>
         calls[1].phase = "logging"
    /\ calls # <<>> /\ pc \notin AwaitingCall \cup {"aborted"} /\ wanted
         => ledger.produced = <<"clear">>
    /\ ledger.produced = <<"commit">> => Deferred
    /\ ledger.produced = <<"clear">> => wanted

\* Where the bundle is while a header is in flight and once it was written.
PlaceFacts ==
    /\ pc \in {"denied_commit", "commit", "terminate"} \cup FilterPoints
       /\ (state.finalized \/ pc = "denied_commit") => header.cookies = Bundle
    /\ pc = "write_header" /\ header.kind # "interim" => header.cookies = Bundle
    /\ pc \in {"logging_commit", "logging_terminate"} =>
         ledger.stranded = Bundle
    /\ client.kind \in {"engine", "application"} => client.cookies = Bundle
    /\ client.kind \notin {"engine", "application"} => client.cookies = <<>>
    /\ pc \notin {"denied_commit", "commit", "terminate", "write_header",
                  "aborted"} \cup FilterPoints => header = NoHeader

\* The client's connection.
ClientFacts ==
    /\ pc \in Unanswered => client.kind = "none" /\ ~client.gone
    /\ pc = "inner_request_filter" =>
         client.kind \in {"none", "direct"} /\ ~client.gone
    /\ pc \in {"logging_commit", "logging_terminate"} =>
         client.kind \in {"none", "direct", "error"}
    /\ Open => client.kind \notin {"engine", "application"}
    /\ header.kind # "none" =>
         header.no_store <=> (header.source = "engine" \/ header.cookies # <<>>)
    /\ client.kind = "application" =>
         (client.no_store <=> client.cookies # <<>>)
    /\ client.kind = "engine" => client.no_store
    /\ ledger.stranded # <<>> => client.kind \in {"none", "direct", "error"}
    /\ ledger.discarded # <<>> => client.gone \/ upstream.repeats > 0
    /\ client.kind = "application" /\ wanted => ledger.produced = <<"clear">>

\* A rejected commit leaves only error handling and cleanup.
RejectFacts ==
    /\ calls # <<>> /\ calls[1].op = "persist"
    /\ calls[1].phase = "response"
    /\ result \in SessionErrors \ PermittedErrors
    => /\ pc \in {"fail_to_proxy", "logging", "inner_logging", "done",
                  "aborted"}
       /\ client.kind \in {"none", "error"}

\* The two counters.
TallyFacts ==
    /\ tally.finalizations = IF state.finalized THEN 1 ELSE 0
    /\ pc \in FreshPoints => tally.decisions = <<>>
    /\ pc \notin FreshPoints \cup {"aborted"} => tally.decisions # <<>>

\* What the routing and the load admitted.
Admitted ==
    /\ request.resolves
    /\ ~IsPassedPreflight =>
         /\ ~request.login_route
         /\ loaded.kind \notin {"error", "unavailable"}
         /\ request.rule = "required" => loaded.session # NoSession
         /\ loaded.session # NoSession => request.check # "fails"

AdmissionFacts ==
    /\ pc = "load_session" =>
         /\ ~IsPassedPreflight /\ ~request.login_route /\ request.resolves
         /\ request.rule # "public"
    /\ \/ Forwarded
       \/ header.source \in {"queued", "upstream", "cache"}
       => Admitted
    /\ "session" \notin upstream.cookies

IInv ==
    /\ Shape /\ Fresh /\ LoadFacts /\ ContextFacts /\ CallFacts /\ Conserved
    /\ PointFacts /\ AnswerFacts /\ PlaceFacts /\ ClientFacts /\ RejectFacts
    /\ TallyFacts /\ AdmissionFacts
=============================================================================
