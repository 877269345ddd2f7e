--------------------------- MODULE LoginApplication ---------------------------
(***************************************************************************)
(* The login proxy of src/examples/login_proxy.rs, with the browser in     *)
(* front of it and the upstream behind it: the routes and the login paths  *)
(* that main mounts, and the identity that upstream_request_filter tells   *)
(* the upstream.                                                           *)
(*                                                                         *)
(* Browsers use public URLs, and the process receives incoming paths.  The *)
(* mapping between the two, the engine's answers on its own routes, and    *)
(* the provider are other crates' and programs'.  How the proxy treats a   *)
(* session that it loads is LoginProxy; here a request's session is the    *)
(* one of its cookie, or none.                                             *)
(***************************************************************************)
EXTENDS RouteTable

CONSTANTS
    Mappings,      \* PUBLIC_BASE and INCOMING_PREFIX, as two path prefixes
    PageNames,     \* paths below the public base that a browser asks for
    Subjects,      \* the subjects that sessions and forged headers name
    Unsendable,    \* the subjects whose text is no value of a header
    Forgeries,     \* sets of subjects that a client writes in its header
    Nameless,      \* a session without a subject
    NoSession,     \* no session
    MaxAttempts    \* bound: attempts to reach the upstream

ASSUME ApplicationAssumption ==
    /\ {Nameless, NoSession} \cap Subjects = {} /\ Nameless # NoSession
    /\ \A m \in Mappings :
         /\ DOMAIN m = {"base", "prefix"}
         /\ m.base \in Seq(STRING) /\ m.prefix \in Seq(STRING)
    /\ \A name \in PageNames : name \in Seq(STRING) /\ name # <<>>
    /\ Unsendable \subseteq Subjects
    /\ Forgeries \subseteq SUBSET (Subjects \ Unsendable)
    /\ MaxAttempts \in Nat \ {0}

VARIABLES
    mapping,   \* the mapping that the process was started with
    pc,        \* idle, filter, upstream or answered
    jar,       \* the session in the browser's cookie
    request,   \* the request on its way
    session,   \* LoginState.session in the request's context
    upstream,  \* attempts of this request, and the subjects of the last one
    answer,    \* what the browser got last
    origin     \* what the user asked for, before any redirect

app_vars == <<mapping, pc, jar, request, session, upstream, answer, origin>>

Sessions == Subjects \cup {Nameless}

\* Names that are fixed in main, and the callback of REDIRECT_URI.
Dashboard == <<"dashboard">>
Health == <<"health">>
SignedOut == <<"signed-out">>
Home == <<"">>
Logout == <<"logout">>
Callback == <<"callback">>

Request(name, method, preflight, forged) ==
    [name |-> name, method |-> method, preflight |-> preflight,
     forged |-> forged]

NoAnswer == [kind |-> "none", name |-> Home]

AppInit ==
    /\ mapping \in Mappings
    /\ pc = "idle"
    /\ jar = NoSession
    /\ request = Request(Home, "GET", FALSE, {})
    /\ session = NoSession
    /\ upstream = [attempts |-> 0, subjects |-> {}]
    /\ answer = NoAnswer
    /\ origin = Request(Home, "GET", FALSE, {})

-----------------------------------------------------------------------------
(* PublicUrlMapping.                                                        *)

ResourceUrl(name) == mapping.base \o name

IncomingUri(url) ==
    mapping.prefix \o SubSeq(url, Len(mapping.base) + 1, Len(url))

-----------------------------------------------------------------------------
(* main: paths and routes.                                                  *)

\* incoming_path: resource_url makes the name public, incoming_uri maps it.
IncomingPath(name) == IncomingUri(ResourceUrl(name))

Routes ==
    <<[kind |-> "Subtree", name |-> Dashboard, level |-> "required"],
      [kind |-> "Exact", name |-> Health, level |-> "public"],
      [kind |-> "Exact", name |-> SignedOut, level |-> "public"],
      [kind |-> "Exact", name |-> Home, level |-> "optional"]>>

-----------------------------------------------------------------------------
(* Faulty variants of the definitions below: none is part of the model.     *)

FaultCallbackAsPublished == ResourceUrl(Callback)

FaultMountedAsPublished ==
    [i \in DOMAIN Routes |->
       Registration(Routes[i].kind, ResourceUrl(Routes[i].name), AnyMethod)]

FaultAppends(values) ==
    values \cup (IF session \in Subjects THEN {session} ELSE {})

-----------------------------------------------------------------------------

\* callback_path of the redirect URI.
CallbackPath == IncomingUri(ResourceUrl(Callback))

LogoutPath == IncomingPath(Logout)

AppRegistrations ==
    [i \in DOMAIN Routes |->
       Registration(Routes[i].kind, IncomingPath(Routes[i].name), AnyMethod)]

\* The level of the rule that decides a path; the default is required.
Level(path, method) ==
    LET verdict == Resolve(AppRegistrations, path, method) IN
    IF verdict.kind = "rule" THEN Routes[verdict.index].level ELSE "required"

-----------------------------------------------------------------------------
(* The browser.                                                             *)

Send(r) ==
    /\ request' = r
    /\ pc' = "filter"
    /\ session' = NoSession
    /\ upstream' = [attempts |-> 0, subjects |-> {}]
    /\ UNCHANGED <<mapping, jar, answer>>

IsRedirect == answer.kind \in {"provider", "see_other"}

Ask(r) ==
    /\ pc = "idle" /\ ~IsRedirect
    /\ Send(r) /\ origin' = [r EXCEPT !.forged = {}]

\* A redirect is followed without the headers that a client may have forged.
Follow ==
    /\ pc = "idle" /\ answer.kind = "see_other"
    /\ Send(Request(answer.name, "GET", FALSE, {}))
    /\ UNCHANGED origin

\* The provider sends the browser back to REDIRECT_URI, signed in or not.
ProviderReturns ==
    /\ pc = "idle" /\ answer.kind = "provider"
    /\ Send(Request(Callback, "GET", FALSE, {}))
    /\ UNCHANGED origin

\* A cookie expires, or its token is no longer refreshed.  It lives longer
\* than a chain of redirects takes.
Expire ==
    /\ pc = "idle" /\ ~IsRedirect
    /\ jar' = NoSession
    /\ UNCHANGED <<mapping, pc, request, session, upstream, answer, origin>>

-----------------------------------------------------------------------------
(* The login proxy.                                                         *)

Reply(kind, name) ==
    /\ answer' = [kind |-> kind, name |-> name]
    /\ pc' = "idle"

\* The ingress maps what the browser asked for.
Path == IncomingUri(ResourceUrl(request.name))

IsLoginRoute == ~request.preflight /\ Path \in {CallbackPath, LogoutPath}

\* try_handle_login_route: the callback makes a session and leads back to the
\* page that login began at, if there is a login to complete.
CallbackRoute ==
    /\ pc = "filter" /\ IsLoginRoute /\ Path = CallbackPath
    /\ \/ /\ answer.kind = "provider"
          /\ jar' \in Sessions
          /\ Reply("see_other", answer.name)
       \/ Reply("refused", request.name) /\ UNCHANGED jar
    /\ UNCHANGED <<mapping, request, session, upstream, origin>>

\* A POST of the same origin clears the cookie and leads to the URL that main
\* made of "/signed-out".
LogoutRoute ==
    /\ pc = "filter" /\ IsLoginRoute /\ Path = LogoutPath
    /\ \/ /\ request.method = "POST"
          /\ jar' = NoSession
          /\ Reply("see_other", SignedOut)
       \/ Reply("refused", request.name) /\ UNCHANGED jar
    /\ UNCHANGED <<mapping, request, session, upstream, origin>>

\* The rule decides, but not on preflights: they and public routes go on
\* without a session.
Sessionless == request.preflight \/ Level(Path, request.method) = "public"

Forward ==
    /\ pc = "filter" /\ ~IsLoginRoute
    /\ \/ Sessionless /\ session' = NoSession
       \/ /\ ~Sessionless
          /\ Level(Path, request.method) = "required" => jar # NoSession
          /\ session' = jar
    /\ pc' = "upstream"
    /\ UNCHANGED <<mapping, jar, request, upstream, answer, origin>>

\* Browsers are sent to the provider, other clients are told so.
Unauthenticated ==
    /\ pc = "filter" /\ ~IsLoginRoute /\ ~Sessionless
    /\ Level(Path, request.method) = "required" /\ jar = NoSession
    /\ Reply(IF request.method = "GET" THEN "provider" ELSE "refused",
             request.name)
    /\ UNCHANGED <<mapping, jar, request, session, upstream, origin>>

-----------------------------------------------------------------------------
(* The upstream.                                                            *)

\* set_identity_header: whatever values the client sent are removed.
IdentityHeader(values) == IF session \in Subjects THEN {session} ELSE {}

\* upstream_request_filter, which begins each attempt with the header that the
\* client sent; the Host header is left out.
Attempt ==
    /\ pc = "upstream" /\ upstream.attempts < MaxAttempts
    /\ session \notin Unsendable
    /\ upstream' = [attempts |-> upstream.attempts + 1,
                    subjects |-> IdentityHeader(request.forged)]
    /\ pc' = "answered"
    /\ UNCHANGED <<mapping, jar, request, session, answer, origin>>

\* insert_header refuses the subject: the error is not one to retry after, and
\* the request fails before it is written to the upstream.
AttemptRefused ==
    /\ pc = "upstream" /\ session \in Unsendable
    /\ Reply("failed", request.name)
    /\ UNCHANGED <<mapping, jar, request, session, upstream, origin>>

Retry ==
    /\ pc = "answered" /\ upstream.attempts < MaxAttempts
    /\ pc' = "upstream"
    /\ UNCHANGED <<mapping, jar, request, session, upstream, answer, origin>>

\* The upstream answers, or the last attempt failed as well.
Respond ==
    /\ pc = "answered"
    /\ \E kind \in {"served", "failed"} : Reply(kind, request.name)
    /\ UNCHANGED <<mapping, jar, request, session, upstream, origin>>

AppNext ==
    \/ \E name \in PageNames, method \in RequestMethods,
          preflight \in BOOLEAN, forged \in Forgeries :
         /\ preflight => method = "OPTIONS"
         /\ Ask(Request(name, method, preflight, forged))
    \/ Follow \/ ProviderReturns \/ Expire
    \/ CallbackRoute \/ LogoutRoute \/ Forward \/ Unauthenticated
    \/ Attempt \/ AttemptRefused \/ Retry \/ Respond

AppSpec == AppInit /\ [][AppNext]_app_vars

\* A browser follows its redirects, the provider returns, and the proxy does
\* what a request waits for.  Whether the user asks again is the user's affair.
Fairness ==
    WF_app_vars(\/ Follow \/ ProviderReturns
            \/ CallbackRoute \/ LogoutRoute \/ Forward \/ Unauthenticated
            \/ Attempt \/ AttemptRefused \/ Respond)

FairSpec == AppSpec /\ Fairness
=============================================================================
