----------------------------- MODULE LoginProxy -----------------------------
(***************************************************************************)
(* One request passing through LoginProxy (src/src/login/proxy/mod.rs) and *)
(* the request state it keeps (src/src/login/ctx.rs), from request_filter  *)
(* to logging.                                                             *)
(*                                                                         *)
(* Every place where the task awaits is a value of pc, so that whatever    *)
(* another party can do there is a step of its own: the engine's answer,   *)
(* an inner hook, the upstream, the client's connection, or the task being *)
(* dropped.  The engine, the inner proxy, Pingora's runner and the client  *)
(* are outside this repository; they are the nondeterministic choices.     *)
(*                                                                         *)
(* A Set-Cookie bundle is one token: "load" (the clears or re-sealed       *)
(* cookies of load_session), "commit" (what a pending commit returned) or  *)
(* "clear" (the clears of a termination).  A header carries the sequence   *)
(* of bundles in the order they were appended.                             *)
(***************************************************************************)
EXTENDS Naturals, Sequences

CONSTANTS
    Sessions,         \* the sessions a request may present
    NoSession,        \* the None of Option<S>
    SessionErrors,    \* the kinds of SessionError
    PermittedErrors,  \* those for which PersistFailurePolicy::handle is None
    CorsPassthrough,  \* LoginProxy::cors_passthrough
    MaxAttempts,      \* bound: attempts Pingora makes at the upstream
    MaxInterim,       \* bound: interim headers the upstream sends
    MaxRepeats        \* bound: repeated callbacks for one final header

ASSUME ConstantsAssumption ==
    /\ NoSession \notin Sessions
    /\ "ok" \notin SessionErrors /\ "none" \notin SessionErrors
    /\ PermittedErrors \subseteq SessionErrors
    /\ CorsPassthrough \in BOOLEAN
    /\ MaxAttempts \in Nat /\ MaxInterim \in Nat /\ MaxRepeats \in Nat

VARIABLES
    pc,         \* where the request's task is
    request,    \* what the request is, as routing and the rule's check see it
    loaded,     \* the LoadedSession that load_session returned
    state,      \* LoginState in the request's context
    header,     \* the response header in flight
    calls,      \* persist and revoke calls made on the engine, in order
    result,     \* what the last of them returned
    upstream,   \* the exchange with the upstream
    client,     \* what the client's connection has carried
    ledger,     \* where each Set-Cookie bundle went
    tally,      \* the decision and finalization counters
    wanted      \* an inner hook asked in time for a loaded session's end

vars == <<pc, request, loaded, state, header, calls, result, upstream,
          client, ledger, tally, wanted>>

Bundles == {"load", "commit", "clear"}

\* No builder accepts a public rule with a check, so "public" has none.
Requests ==
    [preflight : BOOLEAN, login_route : BOOLEAN, resolves : BOOLEAN,
     rule : {"public", "optional", "required"},
     check : {"none", "passes", "fails"}]

LoadedSession ==
    [kind : {"unasked", "error", "missing", "cleared", "active", "pending",
             "unavailable"},
     session : Sessions \cup {NoSession},
     set_cookies : {<<>>, <<"load">>}]

NotLoaded(kind, cookies) ==
    [kind |-> kind, session |-> NoSession, set_cookies |-> cookies]

DefaultState ==
    [session |-> NoSession, pending |-> NoSession, request_headers |-> FALSE,
     set_cookies |-> <<>>, terminate_requested |-> FALSE, finalized |-> FALSE,
     response |-> FALSE]

NoHeader ==
    [kind |-> "none", source |-> "none", cookies |-> <<>>, no_store |-> FALSE]

Init ==
    /\ pc = "request_filter"
    /\ request \in {r \in Requests : r.rule = "public" => r.check = "none"}
    /\ loaded = NotLoaded("unasked", <<>>)
    /\ state = DefaultState
    /\ header = NoHeader
    /\ calls = <<>> /\ result = "none"
    /\ upstream = [attempts |-> 0, interims |-> 0, repeats |-> 0,
                   cookies |-> {}]
    /\ client = [kind |-> "none", cookies |-> <<>>, no_store |-> FALSE,
                 gone |-> FALSE]
    /\ ledger = [produced |-> <<>>, stranded |-> <<>>, discarded |-> <<>>]
    /\ tally = [decisions |-> <<>>, finalizations |-> 0]
    /\ wanted = FALSE

-----------------------------------------------------------------------------
(* Faulty variants of the definitions below: none is part of the model. Each *)
(* is a slip an edit of the code could make; replacing the definition by it  *)
(* must break a property, which shows that the property is about the code.   *)

FaultAppendsTwice(h, cookies) ==
    [h EXCEPT !.cookies = @ \o cookies \o cookies, !.no_store = cookies # <<>>]

\* The call is built from the context after its headers were taken.
FaultCallAfterTake(op, phase, session) ==
    [op |-> op, phase |-> phase, session |-> session, headers |-> FALSE]

\* The claim is left to be made when the awaited call has returned.
FaultClaimAfterAwait ==
    [state EXCEPT !.request_headers = FALSE, !.set_cookies = <<>>]

FaultNoFallbackSave ==
    /\ state.session # NoSession /\ ~state.terminate_requested
    /\ state.pending # NoSession /\ pc # "logging"

FaultInterimFinalizes == state.finalized

FaultClearsOnSuccess(outcome) ==
    IF outcome = "ok" THEN <<"clear">> ELSE <<>>

FaultPolicyIgnored(e) == FALSE

FaultStrandedUnreported(l, cookies) ==
    IF state.session = NoSession THEN l
    ELSE [l EXCEPT !.stranded = @ \o cookies]

\* A transiently failing refresh is flattened into "no session".
FaultUnavailableIsAnonymous ==
    {[kind |-> kind, session |-> NoSession, set_cookies |-> <<>>] :
        kind \in {"missing", "unavailable"}}
    \cup {[kind |-> "cleared", session |-> NoSession, set_cookies |-> <<"load">>]}

FaultWrittenUnchecked == TRUE

-----------------------------------------------------------------------------
(* Building blocks *)

Decide(outcome) == tally' = [tally EXCEPT !.decisions = Append(@, outcome)]

\* The header of an engine-authored response: it already carries no-store.
EngineHeader(cookies) ==
    [kind |-> "final", source |-> "engine", cookies |-> cookies,
     no_store |-> TRUE]

\* A header as it enters response_filter, with the application's own caching.
AppHeader(kind, source) ==
    [kind |-> kind, source |-> source, cookies |-> <<>>, no_store |-> FALSE]

\* append_set_cookies: an empty bundle leaves the header alone.
WithCookies(h, cookies) ==
    IF cookies = <<>> THEN h
    ELSE [h EXCEPT !.cookies = @ \o cookies, !.no_store = TRUE]

\* The engine call a prepared state owes, as it is made in the given phase.
SessionCall(op, phase, session) ==
    [op |-> op, phase |-> phase, session |-> session,
     headers |-> state.request_headers]

\* prepare_forward replaces what the proxy manages and keeps a queued response.
Prepared(session, pending, cookies) ==
    [state EXCEPT !.session = session, !.pending = pending,
                  !.request_headers = TRUE, !.set_cookies = cookies,
                  !.terminate_requested = FALSE, !.finalized = FALSE]

\* What finalization leaves in the context: it takes all but the session.
Drained ==
    [state EXCEPT !.pending = NoSession, !.request_headers = FALSE,
                  !.set_cookies = <<>>, !.terminate_requested = FALSE,
                  !.finalized = TRUE]

\* The session is to be ended: this supersedes a pending commit, which is
\* abandoned.
EndsSession == state.session # NoSession /\ state.terminate_requested

\* The context still owes the store a commit.
SavesSession ==
    /\ state.session # NoSession /\ ~state.terminate_requested
    /\ state.pending # NoSession

\* terminate_session returns the clears whichever way the revocation went.
ClearsFor(outcome) == <<"clear">>

\* PersistFailurePolicy::handle returns a replacement response.
PolicyRejects(e) == e \notin PermittedErrors

\* report_stranded_cookies
Stranded(l, cookies) == [l EXCEPT !.stranded = @ \o cookies]

\* A header dropped by an error takes the bundles appended to it along.
Discard == ledger' = [ledger EXCEPT !.discarded = @ \o header.cookies]

-----------------------------------------------------------------------------
(* request_filter *)

IsPassedPreflight == CorsPassthrough /\ request.preflight

\* serve_path_confusion, from the preflight or from the ordinary path.
RouteDenied ==
    /\ pc = "request_filter"
    /\ ~request.resolves
    /\ IsPassedPreflight \/ ~request.login_route
    /\ Decide("denied_route")
    /\ header' = EngineHeader(<<>>)
    /\ pc' = "write_header"
    /\ UNCHANGED <<request, loaded, state, calls, result, upstream, client,
                   ledger, wanted>>

\* A preflight and a public route go on with the context as it was created.
ForwardUnloaded(outcome) ==
    /\ Decide(outcome)
    /\ pc' = "inner_request_filter"
    /\ UNCHANGED <<request, loaded, state, header, calls, result, upstream,
                   client, ledger, wanted>>

Preflight ==
    /\ pc = "request_filter"
    /\ IsPassedPreflight /\ request.resolves
    /\ ForwardUnloaded("preflight")

PublicRoute ==
    /\ pc = "request_filter"
    /\ ~IsPassedPreflight /\ ~request.login_route /\ request.resolves
    /\ request.rule = "public"
    /\ ForwardUnloaded("public")

\* try_handle_login_route answers the callback and logout paths.
LoginRoute ==
    /\ pc = "request_filter"
    /\ ~IsPassedPreflight /\ request.login_route
    /\ Decide("login_route")
    /\ header' = EngineHeader(<<>>)
    /\ pc' = "write_header"
    /\ UNCHANGED <<request, loaded, state, calls, result, upstream, client,
                   ledger, wanted>>

LoadSession ==
    /\ pc = "request_filter"
    /\ ~IsPassedPreflight /\ ~request.login_route /\ request.resolves
    /\ request.rule # "public"
    /\ pc' = "load_session"
    /\ UNCHANGED <<request, loaded, state, header, calls, result, upstream,
                   client, ledger, tally, wanted>>

\* Answers of load_session that end the request with an error response:
\* a failed load (500) and a transiently failing refresh (503).
LoadRefused(kind, outcome) ==
    /\ pc = "load_session"
    /\ loaded' = NotLoaded(kind, <<>>)
    /\ Decide(outcome)
    /\ header' = EngineHeader(<<>>)
    /\ pc' = "write_header"
    /\ UNCHANGED <<request, state, calls, result, upstream, client, ledger,
                   wanted>>

LoadFailed == LoadRefused("error", "server_error")
RefreshUnavailable == LoadRefused("unavailable", "refresh_unavailable")

\* LoadedSession::Missing and ::Cleared; the latter owes the client clears.
Sessionless ==
    {NotLoaded("missing", <<>>), NotLoaded("cleared", <<"load">>)}

\* No session where the rule requires one: redirect or challenge.
Unauthenticated ==
    /\ pc = "load_session" /\ request.rule = "required"
    /\ loaded' \in Sessionless
    /\ Decide("unauthenticated")
    /\ header' = EngineHeader(loaded'.set_cookies)
    /\ pc' = "write_header"
    /\ UNCHANGED <<request, state, calls, result, upstream, client, ledger,
                   wanted>>

Anonymous ==
    /\ pc = "load_session" /\ request.rule = "optional"
    /\ loaded' \in Sessionless
    /\ Decide("anonymous")
    /\ state' = Prepared(NoSession, NoSession, loaded'.set_cookies)
    /\ pc' = "inner_request_filter"
    /\ UNCHANGED <<request, header, calls, result, upstream, client, ledger,
                   wanted>>

\* LoadedSession::Active, with or without re-sealed cookies, and
\* ::ActivePending, which still owes the store a commit.
WithSession ==
    {[kind |-> "active", session |-> s, set_cookies |-> cookies] :
        s \in Sessions, cookies \in {<<>>, <<"load">>}}
    \cup
    {[kind |-> "pending", session |-> s, set_cookies |-> <<>>] :
        s \in Sessions}

Owed(l) == IF l.kind = "pending" THEN l.session ELSE NoSession

\* The rule's check fails: the commit is made here, best effort, before the
\* denial is written, and the context is never prepared.
Forbidden ==
    /\ pc = "load_session" /\ request.check = "fails"
    /\ loaded' \in WithSession
    /\ Decide("forbidden")
    /\ header' = EngineHeader(loaded'.set_cookies)
    /\ IF Owed(loaded') # NoSession
       THEN /\ calls' = Append(calls,
                  [op |-> "persist", phase |-> "denied",
                   session |-> Owed(loaded'), headers |-> TRUE])
            /\ pc' = "denied_commit"
       ELSE /\ pc' = "write_header" /\ UNCHANGED calls
    /\ UNCHANGED <<request, state, result, upstream, client, ledger, wanted>>

\* cookies.extend(more) on success; a failure is only observed.
DeniedCommitReturns ==
    /\ pc = "denied_commit"
    /\ \/ \E cookies \in {<<>>, <<"commit">>} :
            /\ result' = "ok"
            /\ header' = [header EXCEPT !.cookies = @ \o cookies]
            /\ ledger' = [ledger EXCEPT !.produced = @ \o cookies]
       \/ /\ result' \in SessionErrors
          /\ UNCHANGED <<header, ledger>>
    /\ pc' = "write_header"
    /\ UNCHANGED <<request, loaded, state, calls, upstream, client, tally,
                   wanted>>

Authenticated ==
    /\ pc = "load_session" /\ request.check # "fails"
    /\ loaded' \in WithSession
    /\ Decide("authenticated")
    /\ state' = Prepared(loaded'.session, Owed(loaded'), loaded'.set_cookies)
    /\ pc' = "inner_request_filter"
    /\ UNCHANGED <<request, header, calls, result, upstream, client, ledger,
                   wanted>>

RequestFilter ==
    \/ RouteDenied \/ Preflight \/ PublicRoute \/ LoginRoute \/ LoadSession
    \/ LoadFailed \/ RefreshUnavailable \/ Unauthenticated \/ Anonymous
    \/ Forbidden \/ DeniedCommitReturns \/ Authenticated

-----------------------------------------------------------------------------
(* The inner proxy and forward_request *)

\* The points at which hooks of the inner proxy run: request_filter, the cache
\* hooks, upstream_peer and fail_to_connect, upstream_request_filter,
\* response_filter and the body filters, fail_to_proxy, logging.
InnerHooks ==
    {"inner_request_filter", "cache_lookup", "connect", "upstream",
     "response_filter", "write_body", "fail_to_proxy", "inner_logging"}

\* Any inner hook may set terminate_requested, also when it is too late.
InnerRequestsTermination ==
    /\ pc \in InnerHooks
    /\ ~state.terminate_requested
    /\ state' = [state EXCEPT !.terminate_requested = TRUE]
    /\ wanted' = (wanted \/ (~state.finalized /\ state.session # NoSession))
    /\ UNCHANGED <<pc, request, loaded, header, calls, result, upstream,
                   client, ledger, tally>>

\* inner.request_filter queues a response, LoginState::respond.
InnerQueuesResponse ==
    /\ pc = "inner_request_filter"
    /\ ~state.response
    /\ state' = [state EXCEPT !.response = TRUE]
    /\ UNCHANGED <<pc, request, loaded, header, calls, result, upstream,
                   client, ledger, tally, wanted>>

\* ... or writes one to the connection itself.
InnerWritesDirectly ==
    /\ pc = "inner_request_filter"
    /\ client.kind = "none"
    /\ client' = [client EXCEPT !.kind = "direct"]
    /\ UNCHANGED <<pc, request, loaded, state, header, calls, result,
                   upstream, ledger, tally, wanted>>

\* forward_request: inner.request_filter failed, or a response is queued that
\* can no longer be sent.  Either way the task goes on to Pingora's handler.
ForwardFails ==
    /\ pc = "inner_request_filter"
    /\ \/ UNCHANGED state
       \/ state.response /\ state' = [state EXCEPT !.response = FALSE]
    /\ pc' = "fail_to_proxy"
    /\ UNCHANGED <<request, loaded, header, calls, result, upstream, client,
                   ledger, tally, wanted>>

\* inner.request_filter returns Ok(true) with nothing queued.
ForwardHandled ==
    /\ pc = "inner_request_filter"
    /\ ~state.response
    /\ pc' = "logging"
    /\ UNCHANGED <<request, loaded, state, header, calls, result, upstream,
                   client, ledger, tally, wanted>>

\* Ok(false), nothing queued or written: Pingora goes on to cache and upstream.
\* The code does not ask whether something was written.  Ok(false) after a
\* direct write breaks Pingora's contract, and the inner proxy is taken to keep
\* it: it answers Ok(true), which is ForwardHandled.
ForwardProxied ==
    /\ pc = "inner_request_filter"
    /\ ~state.response /\ client.kind = "none"
    /\ pc' = "cache_lookup"
    /\ UNCHANGED <<request, loaded, state, header, calls, result, upstream,
                   client, ledger, tally, wanted>>

\* Ok(false) with a queued response and an unwritten connection.
StillUnwritten == client.kind = "none"

ForwardQueued ==
    /\ pc = "inner_request_filter"
    /\ state.response /\ StillUnwritten
    /\ state' = [state EXCEPT !.response = FALSE]
    /\ header' = AppHeader("final", "queued")
    /\ pc' = "response_filter"
    /\ UNCHANGED <<request, loaded, calls, result, upstream, client, ledger,
                   tally, wanted>>

ForwardRequest ==
    \/ InnerQueuesResponse \/ InnerWritesDirectly \/ ForwardFails
    \/ ForwardHandled \/ ForwardProxied \/ ForwardQueued

-----------------------------------------------------------------------------
(* Pingora's cache and upstream phases *)

CacheHit ==
    /\ pc = "cache_lookup"
    /\ header' = AppHeader("final", "cache")
    /\ pc' = "response_filter"
    /\ UNCHANGED <<request, loaded, state, calls, result, upstream, client,
                   ledger, tally, wanted>>

\* upstream_request_filter, run afresh for every attempt: the session cookies
\* are stripped, the others are kept, before the inner hook sees the request.
UpstreamRequestFilter ==
    /\ pc \in {"cache_lookup", "connect"}
    /\ upstream.attempts < MaxAttempts
    /\ upstream' = [upstream EXCEPT !.attempts = @ + 1,
                        !.cookies = {"session", "application"} \ {"session"}]
    /\ pc' = "upstream"
    /\ UNCHANGED <<request, loaded, state, header, calls, result, client,
                   ledger, tally, wanted>>

UpstreamInterim ==
    /\ pc = "upstream"
    /\ upstream.interims < MaxInterim
    /\ upstream' = [upstream EXCEPT !.interims = @ + 1]
    /\ header' = AppHeader("interim", "upstream")
    /\ pc' = "response_filter"
    /\ UNCHANGED <<request, loaded, state, calls, result, client, ledger,
                   tally, wanted>>

\* A final response, an upgrade, or a revalidated or stale cached response.
UpstreamResponds ==
    /\ pc = "upstream"
    /\ header' \in {AppHeader("final", "upstream"),
                    AppHeader("upgrade", "upstream"),
                    AppHeader("final", "cache")}
    /\ pc' = "response_filter"
    /\ UNCHANGED <<request, loaded, state, calls, result, upstream, client,
                   ledger, tally, wanted>>

\* The attempt fails: Pingora retries it or gives the request up.
UpstreamFails ==
    /\ pc \in {"cache_lookup", "upstream"}
    /\ pc' \in {"connect", "fail_to_proxy"}
    /\ pc' = "connect" => pc = "upstream" /\ upstream.attempts < MaxAttempts
    /\ UNCHANGED <<request, loaded, state, header, calls, result, upstream,
                   client, ledger, tally, wanted>>

Upstream ==
    \/ CacheHit \/ UpstreamRequestFilter \/ UpstreamInterim
    \/ UpstreamResponds \/ UpstreamFails

-----------------------------------------------------------------------------
(* response_filter and finalize_response *)

InnerResponseFilter ==
    /\ pc = "response_filter"
    /\ \/ pc' = "finalize_response" /\ UNCHANGED <<header, ledger>>
       \/ pc' = "fail_to_proxy" /\ header' = NoHeader /\ Discard
    /\ UNCHANGED <<request, loaded, state, calls, result, upstream, client,
                   tally, wanted>>

\* An interim header and a repeated callback pass through untouched.
PassesUntouched == header.kind = "interim" \/ state.finalized

FinalizeSkips ==
    /\ pc = "finalize_response" /\ PassesUntouched
    /\ pc' = "write_header"
    /\ UNCHANGED <<request, loaded, state, header, calls, result, upstream,
                   client, ledger, tally, wanted>>

\* The claim: finalized is set and the state drained before anything awaits.
FinalizeClaims ==
    /\ pc = "finalize_response" /\ ~PassesUntouched
    /\ state' = Drained
    /\ tally' = [tally EXCEPT !.finalizations = @ + 1]
    /\ header' = WithCookies(header, state.set_cookies)
    /\ \/ /\ EndsSession
          /\ calls' = Append(calls,
                         SessionCall("revoke", "response", state.session))
          /\ pc' = "terminate"
       \/ /\ SavesSession
          /\ calls' = Append(calls,
                         SessionCall("persist", "response", state.pending))
          /\ pc' = "commit"
       \/ /\ ~EndsSession /\ ~SavesSession
          /\ pc' = "write_header"
          /\ UNCHANGED calls
    /\ UNCHANGED <<request, loaded, result, upstream, client, ledger, wanted>>

TerminateReturns ==
    /\ pc = "terminate"
    /\ result' \in SessionErrors \cup {"ok"}
    /\ header' = WithCookies(header, ClearsFor(result'))
    /\ ledger' = [ledger EXCEPT !.produced = @ \o ClearsFor(result')]
    /\ pc' = "write_header"
    /\ UNCHANGED <<request, loaded, state, calls, upstream, client, tally,
                   wanted>>

CommitSucceeds ==
    /\ pc = "commit"
    /\ \E cookies \in {<<>>, <<"commit">>} :
         /\ header' = WithCookies(header, cookies)
         /\ ledger' = [ledger EXCEPT !.produced = @ \o cookies]
    /\ result' = "ok"
    /\ pc' = "write_header"
    /\ UNCHANGED <<request, loaded, state, calls, upstream, client, tally,
                   wanted>>

\* The policy lets the response through or replaces it by an error.
CommitFails ==
    /\ pc = "commit"
    /\ result' \in SessionErrors
    /\ \/ /\ ~PolicyRejects(result')
          /\ pc' = "write_header"
          /\ UNCHANGED <<header, ledger>>
       \/ /\ PolicyRejects(result')
          /\ pc' = "fail_to_proxy" /\ header' = NoHeader /\ Discard
    /\ UNCHANGED <<request, loaded, state, calls, upstream, client, tally,
                   wanted>>

\* The runner presents the same final header to response_filter once more.
RepeatFinalHeader ==
    /\ pc = "write_header"
    /\ header.kind # "interim" /\ header.source \in {"upstream", "cache"}
    /\ upstream.repeats < MaxRepeats
    /\ upstream' = [upstream EXCEPT !.repeats = @ + 1]
    /\ pc' = "response_filter"
    /\ UNCHANGED <<request, loaded, state, header, calls, result, client,
                   ledger, tally, wanted>>

ResponseFilter ==
    \/ InnerResponseFilter \/ FinalizeSkips \/ FinalizeClaims
    \/ TerminateReturns \/ CommitSucceeds \/ CommitFails \/ RepeatFinalHeader

-----------------------------------------------------------------------------
(* Writing the response *)

\* write_login_response, forward_request's own write, or Pingora's.
WriteInterim ==
    /\ pc = "write_header" /\ header.kind = "interim"
    /\ header' = NoHeader
    /\ pc' = "upstream"
    /\ UNCHANGED <<request, loaded, state, calls, result, upstream, client,
                   ledger, tally, wanted>>

\* A bodiless response (HEAD, 204, 304, empty) ends with its header.
WriteHeader ==
    /\ pc = "write_header" /\ header.kind # "interim"
    /\ client' = [client EXCEPT
                    !.kind = IF header.source = "engine" THEN "engine"
                             ELSE "application",
                    !.cookies = header.cookies, !.no_store = header.no_store]
    /\ header' = NoHeader
    /\ pc' \in {"write_body", "logging"}
    /\ UNCHANGED <<request, loaded, state, calls, result, upstream, ledger,
                   tally, wanted>>

WriteHeaderFails ==
    /\ pc = "write_header"
    /\ client' = [client EXCEPT !.gone = TRUE]
    /\ header' = NoHeader /\ Discard
    /\ pc' = "fail_to_proxy"
    /\ UNCHANGED <<request, loaded, state, calls, result, upstream, tally,
                   wanted>>

WriteBody ==
    /\ pc = "write_body"
    /\ \/ pc' = "logging" /\ UNCHANGED client
       \/ /\ pc' = "fail_to_proxy"
          /\ client' = [client EXCEPT !.gone = TRUE]
    /\ UNCHANGED <<request, loaded, state, header, calls, result, upstream,
                   ledger, tally, wanted>>

\* Pingora's error response, when nothing final has been written yet.
FailToProxy ==
    /\ pc = "fail_to_proxy"
    /\ client' = IF client.kind = "none" /\ ~client.gone
                 THEN [client EXCEPT !.kind = "error"] ELSE client
    /\ pc' = "logging"
    /\ UNCHANGED <<request, loaded, state, header, calls, result, upstream,
                   ledger, tally, wanted>>

Write == WriteInterim \/ WriteHeader \/ WriteHeaderFails \/ WriteBody
         \/ FailToProxy

-----------------------------------------------------------------------------
(* logging *)

LoggingSkips ==
    /\ pc = "logging" /\ state.finalized
    /\ pc' = "inner_logging"
    /\ UNCHANGED <<request, loaded, state, header, calls, result, upstream,
                   client, ledger, tally, wanted>>

\* The fallback: queued cookies are reported as stranded, and what the state
\* still owes is attempted.  Without a session only the cookies are taken.
LoggingClaims ==
    /\ pc = "logging" /\ ~state.finalized
    /\ tally' = [tally EXCEPT !.finalizations = @ + 1]
    /\ ledger' = Stranded(ledger, state.set_cookies)
    /\ state' = IF state.session # NoSession THEN Drained
                ELSE [state EXCEPT !.set_cookies = <<>>, !.finalized = TRUE]
    /\ \/ /\ EndsSession
          /\ calls' = Append(calls,
                         SessionCall("revoke", "logging", state.session))
          /\ pc' = "logging_terminate"
       \/ /\ SavesSession
          /\ calls' = Append(calls,
                         SessionCall("persist", "logging", state.pending))
          /\ pc' = "logging_commit"
       \/ /\ ~EndsSession /\ ~SavesSession
          /\ pc' = "inner_logging"
          /\ UNCHANGED calls
    /\ UNCHANGED <<request, loaded, header, result, upstream, client, wanted>>

\* Cookies returned now cannot be sent any more.
ProducedTooLate(cookies) ==
    ledger' = Stranded([ledger EXCEPT !.produced = @ \o cookies], cookies)

LoggingTerminateReturns ==
    /\ pc = "logging_terminate"
    /\ result' \in SessionErrors \cup {"ok"}
    /\ ProducedTooLate(ClearsFor(result'))
    /\ pc' = "inner_logging"
    /\ UNCHANGED <<request, loaded, state, header, calls, upstream, client,
                   tally, wanted>>

LoggingCommitReturns ==
    /\ pc = "logging_commit"
    /\ \/ /\ result' = "ok"
          /\ \E cookies \in {<<>>, <<"commit">>} : ProducedTooLate(cookies)
       \/ result' \in SessionErrors /\ UNCHANGED ledger
    /\ pc' = "inner_logging"
    /\ UNCHANGED <<request, loaded, state, header, calls, upstream, client,
                   tally, wanted>>

InnerLogging ==
    /\ pc = "inner_logging"
    /\ pc' = "done"
    /\ UNCHANGED <<request, loaded, state, header, calls, result, upstream,
                   client, ledger, tally, wanted>>

Logging ==
    \/ LoggingSkips \/ LoggingClaims \/ LoggingTerminateReturns
    \/ LoggingCommitReturns \/ InnerLogging

-----------------------------------------------------------------------------
\* The points at which the request's future may be dropped.
AwaitPoints ==
    {"request_filter", "load_session", "denied_commit",
     "inner_request_filter", "cache_lookup", "connect", "upstream",
     "response_filter", "commit", "terminate", "write_header", "write_body",
     "fail_to_proxy", "logging_commit", "logging_terminate", "inner_logging"}

Abort ==
    /\ pc \in AwaitPoints
    /\ pc' = "aborted"
    /\ UNCHANGED <<request, loaded, state, header, calls, result, upstream,
                   client, ledger, tally, wanted>>

Ended ==
    /\ pc \in {"done", "aborted"}
    /\ UNCHANGED vars

Progress ==
    \/ RequestFilter \/ ForwardRequest \/ Upstream \/ ResponseFilter
    \/ Write \/ Logging

Next == Progress \/ InnerRequestsTermination \/ Abort \/ Ended

Spec == Init /\ [][Next]_vars

\* Every awaited call returns and Pingora keeps driving the task.
FairSpec == Spec /\ WF_vars(Progress)
=============================================================================
