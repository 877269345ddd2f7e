--------------------------- MODULE LoginInvariants ---------------------------
(***************************************************************************)
(* What LoginProxy promises of one request.  The letters in brackets are   *)
(* the names of docs/reference/login_invariants.md; the statements are     *)
(* about the code's own behaviour as LoginProxy models it.                 *)
(***************************************************************************)
EXTENDS LoginProxy

\* The orders in which one response can be given bundles, none of them twice.
BundleLists ==
    {<<>>, <<"load">>, <<"commit">>, <<"clear">>, <<"load", "clear">>}

ErrorsOrOk == SessionErrors \cup {"ok"}

Calls ==
    [op : {"persist", "revoke"}, phase : {"denied", "response", "logging"},
     session : Sessions, headers : BOOLEAN]

Outcomes ==
    {"denied_route", "preflight", "public", "login_route", "server_error",
     "refresh_unavailable", "unauthenticated", "anonymous", "forbidden",
     "authenticated"}

StateType ==
    [session : Sessions \cup {NoSession}, pending : Sessions \cup {NoSession},
     request_headers : BOOLEAN, set_cookies : {<<>>, <<"load">>},
     terminate_requested : BOOLEAN, finalized : BOOLEAN, response : BOOLEAN]

\* The types of the variables; a list of cookies names no bundle twice.
TypeOK ==
    /\ pc \in AwaitPoints \cup {"finalize_response", "logging", "done",
                                "aborted"}
    /\ request \in Requests
    /\ loaded \in LoadedSession
    /\ state \in StateType
    /\ header \in [kind : {"none", "interim", "final", "upgrade"},
                   source : {"none", "engine", "queued", "upstream", "cache"},
                   cookies : BundleLists, no_store : BOOLEAN]
    /\ calls \in Seq(Calls)
    /\ result \in ErrorsOrOk \cup {"none"}
    /\ upstream \in [attempts : 0 .. MaxAttempts, interims : 0 .. MaxInterim,
                     repeats : 0 .. MaxRepeats,
                     cookies : SUBSET {"session", "application"}]
    /\ client \in [kind : {"none", "engine", "application", "direct", "error"},
                   cookies : BundleLists, no_store : BOOLEAN, gone : BOOLEAN]
    /\ ledger \in [produced : BundleLists, stranded : BundleLists,
                   discarded : BundleLists]
    /\ tally.decisions \in Seq(Outcomes)
    /\ tally.finalizations \in Nat
    /\ wanted \in BOOLEAN

-----------------------------------------------------------------------------
\* The session an owed commit would save.
Deferred == loaded.kind = "pending"

\* Every bundle the engine has handed to the adapter for this request.
Bundle == loaded.set_cookies \o ledger.produced

\* [F1, F3] The denial path, response finalization (also when its callback is
\* repeated) and logging together call the engine for a pending commit or a
\* termination at most once, whatever fails in between.
AtMostOneSessionCall == Len(calls) <= 1

\* [F1, F3] A request whose task ran to its end has made exactly the call it
\* owed: a termination, of the loaded session and with the request's own
\* headers, if an inner hook asked for one before finalization began, else
\* the commit that load_session left pending, else none.
ObligationsMet ==
    pc = "done" =>
      LET op == IF wanted THEN "revoke" ELSE "persist" IN
      IF wanted \/ Deferred
      THEN /\ Len(calls) = 1
           /\ calls[1].op = op
           /\ calls[1].session = loaded.session
           /\ calls[1].headers
      ELSE calls = <<>>

\* [C3] The application's caching policy is overridden when, and only when,
\* the response carries cookies; an engine response is never storable.
NoStoreMatchesCookies ==
    /\ client.kind = "application" =>
         (client.no_store <=> client.cookies # <<>>)
    /\ client.kind = "engine" => client.no_store

\* [C1] A final header that went out through the adapter (an engine response,
\* a queued, proxied or cached one) carries all the bundles of the request,
\* those of the load first, each of them once, and is kept out of caches.
ResponseCarriesBundle ==
    /\ client.kind \in {"engine", "application"} => client.cookies = Bundle
    /\ NoStoreMatchesCookies

\* [C1, C4] No bundle is lost without a trace or counted twice: at the end
\* each one was sent, was reported as stranded, or went down with a header
\* that an error replaced after finalization; the last only when the client
\* was gone or the runner filtered the header a second time.
CookiesAccountedFor ==
    pc = "done" =>
      /\ client.cookies \o ledger.stranded \o ledger.discarded = Bundle
      /\ ledger.stranded # <<>> => client.kind \in {"none", "direct", "error"}
      /\ ledger.discarded # <<>> => client.gone \/ upstream.repeats > 0

\* [E2, F3] On a response that ended the session the clears come after the
\* cookies of the load, which a browser would otherwise keep, and they are
\* there also when the revocation failed.
TerminationClearsLast ==
    /\ client.kind = "application" /\ calls # <<>>
    /\ calls[1].op = "revoke"
    => /\ client.cookies # <<>>
       /\ client.cookies[Len(client.cookies)] = "clear"

\* [E1] Once a commit was refused by the policy, the client is never served
\* the response the application produced, nor any cookie.
RejectedCommitNeverServed ==
    /\ calls # <<>> /\ calls[1].op = "persist"
    /\ calls[1].phase = "response"
    /\ result \in SessionErrors \ PermittedErrors
    => client.kind \in {"none", "error"} /\ client.cookies = <<>>

\* The points reached only if the request was forwarded to the inner proxy.
Forwarded ==
    \/ pc \in {"inner_request_filter", "cache_lookup", "connect", "upstream",
               "response_filter", "finalize_response"}
    \/ client.kind \in {"application", "direct"}
    \/ upstream.attempts > 0

\* Inner proxy, cache and upstream see a request only if its path resolved
\* and, unless it is a passed preflight, the engine did not claim it and its
\* rule admits what load_session found: no session is needed, or a session
\* that passed the check.  A failed load or refresh is never an anonymous
\* request, and no attempt sends the session cookies upstream.
OnlyAdmittedForwarded ==
    Forwarded =>
      /\ request.resolves
      /\ "session" \notin upstream.cookies
      /\ ~IsPassedPreflight =>
           /\ ~request.login_route
           /\ loaded.kind \notin {"error", "unavailable"}
           /\ request.rule = "required" => loaded.session # NoSession
           /\ loaded.session # NoSession => request.check # "fails"

\* Telemetry: by its end every request has counted one decision and one
\* entry into finalization, on whichever path it took.
CountedOnce ==
    /\ Len(tally.decisions) <= 1
    /\ tally.finalizations <= 1
    /\ pc = "done" => Len(tally.decisions) = 1 /\ tally.finalizations = 1

\* [F2] Until finalization is claimed, interim headers, retries and failing
\* hooks leave everything owed in the context, and nothing has been called or
\* attached; once it is claimed the context owes nothing.
OwedUntilClaimed ==
    IF state.finalized
    THEN state.pending = NoSession /\ state.set_cookies = <<>>
    ELSE state.request_headers =>
           /\ state.session = loaded.session
           /\ state.pending = Owed(loaded)
           /\ state.set_cookies = loaded.set_cookies
           /\ calls = <<>> /\ header.cookies = <<>>

\* [F4] The session snapshot in the context is never removed or replaced,
\* not by finalization, termination or cleanup.
SnapshotPreserved ==
    [][state.session # NoSession => state'.session = state.session]_vars

\* A response the client has the header of is final: no later error path or
\* cleanup writes a second one or adds to its cookies.
OneResponse ==
    [][client.kind # "none" =>
         client'.kind = client.kind /\ client'.cookies = client.cookies]_vars

\* What has been given away stays: the client its response, and the inner
\* proxy's hooks the session that they read.
NothingTakenBack == OneResponse /\ SnapshotPreserved

-----------------------------------------------------------------------------
\* Liveness, under FairSpec: unless the task is dropped, a pending commit is
\* attempted or superseded by a termination, however the response goes, and a
\* request for termination made in time leads to a revocation.
OwedIsAttempted ==
    /\ state.pending # NoSession ~> (calls # <<>> \/ pc = "aborted")
    /\ wanted ~>
         (pc = "aborted" \/ \E i \in DOMAIN calls : calls[i].op = "revoke")
=============================================================================
