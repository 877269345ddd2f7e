--------------------------- MODULE LoginProxyProofs ---------------------------
(***************************************************************************)
(* The theorems about LoginProxy, for every set of sessions and errors,    *)
(* every policy and every bound: that every step keeps the variables in    *)
(* their types (Shape), that it keeps the other conjuncts of IInv, the     *)
(* properties of LoginInvariants that follow, and that LoginProxy          *)
(* implements LoginContract.                                               *)
(***************************************************************************)
EXTENDS LoginInduction, ContractRefinement, SequenceTheorems, TLAPS

-----------------------------------------------------------------------------
(* Shape.  Most of it is about sequences of cookie bundles: a bundle is     *)
(* appended only where the header, the stranded and the produced ones have  *)
(* room.                                                                    *)

\* Appending to the empty list.
LEMMA Appended ==
    \A x : Append(<<>>, x) = <<x>>
  OBVIOUS

\* The concatenations of bundle lists that occur.
LEMMA Concatenated ==
    /\ \A b \in BundleLists : b \o <<>> = b /\ <<>> \o b = b
    /\ <<"load">> \o <<"clear">> = <<"load", "clear">>
    /\ <<>> \o <<"load">> = <<"load">>
    /\ <<>> \o <<"commit">> = <<"commit">>
    /\ <<>> \o <<"clear">> = <<"clear">>
    /\ <<>> \o <<>> = <<>>
<1>1. \A b \in BundleLists : b \o <<>> = b /\ <<>> \o b = b
  BY DEF BundleLists
<1>2. <<"load">> \o <<"clear">> = <<"load", "clear">>
  <2>1. /\ <<"load">> \in Seq(Bundles) /\ <<"clear">> \in Seq(Bundles)
        /\ Len(<<"load">>) = 1 /\ Len(<<"clear">>) = 1
        /\ <<"load">>[1] = "load" /\ <<"clear">>[1] = "clear"
    BY DEF Bundles
  <2> DEFINE both == <<"load">> \o <<"clear">>
  <2>2. both \in Seq(Bundles) /\ Len(both) = 2 /\ both[1] = "load"
          /\ both[2] = "clear"
    BY <2>1, ConcatProperties
  <2>3. /\ <<"load", "clear">> \in Seq(Bundles)
        /\ Len(<<"load", "clear">>) = 2
        /\ <<"load", "clear">>[1] = "load" /\ <<"load", "clear">>[2] = "clear"
    BY DEF Bundles
  <2>4. \A k \in 1 .. Len(both) : both[k] = <<"load", "clear">>[k]
    BY <2>2, <2>3
  <2> HIDE DEF both
  <2>5. both = <<"load", "clear">>
    BY <2>2, <2>3, <2>4, SeqEqual
  <2> QED BY <2>5 DEF both
<1> QED BY <1>1, <1>2 DEF BundleLists

\* The bundles of a request form one of the possible lists; before an engine
\* call has returned they are those of the load.
LEMMA BundleCases ==
    ASSUME IInv
    PROVE  /\ Bundle \in BundleLists
           /\ loaded.set_cookies \in {<<>>, <<"load">>}
           /\ ledger.produced = <<>> => Bundle = loaded.set_cookies
<1>1. /\ loaded.set_cookies \in {<<>>, <<"load">>}
      /\ ledger.produced \in {<<>>, <<"commit">>, <<"clear">>}
  BY DEF IInv, Shape, LoadedSession, LedgerType
<1>2. ledger.produced = <<"commit">> => loaded.set_cookies = <<>>
  BY DEF IInv, PointFacts, AnswerFacts, LoadFacts
<1> QED BY <1>1, <1>2, Concatenated DEF Bundle, BundleLists

\* What the one engine call returns may follow the bundles of the load.
LEMMA ProducedFirst ==
    ASSUME IInv, NEW b \in {<<>>, <<"commit">>, <<"clear">>},
           ledger.produced = <<>>, b = <<"commit">> => Deferred
    PROVE  /\ ledger.produced \o b = b
           /\ Bundle \o b = loaded.set_cookies \o b
           /\ Bundle \o b \in BundleLists
           /\ Bundle \o <<>> = Bundle
<1>1. Bundle = loaded.set_cookies /\ loaded.set_cookies \in {<<>>, <<"load">>}
  BY BundleCases
<1>2. b = <<"commit">> => loaded.set_cookies = <<>>
  BY DEF IInv, LoadFacts
<1> QED BY <1>1, <1>2, Concatenated DEF BundleLists

\* A step that loads and produces nothing keeps the bundles.
LEMMA BundleKept ==
    loaded' = loaded /\ ledger'.produced = ledger.produced => Bundle' = Bundle
  BY DEF Bundle

\* The answer of load_session brings the first bundle.
LEMMA LoadBundle ==
    ASSUME IInv, pc \in FreshPoints, ledger' = ledger,
           loaded'.set_cookies \in {<<>>, <<"load">>}
    PROVE  Bundle' = loaded'.set_cookies
<1>1. ledger.produced = <<>>
  BY DEF IInv, Fresh
<1> QED BY <1>1, Concatenated DEF Bundle, BundleLists

\* The answer of an engine call adds its bundle at the end.
LEMMA ReturnedBundle ==
    ASSUME IInv, loaded' = loaded, ledger.produced = <<>>,
           NEW b \in {<<>>, <<"commit">>, <<"clear">>},
           b = <<"commit">> => Deferred,
           ledger'.produced = ledger.produced \o b
    PROVE  Bundle' = Bundle \o b
  BY ProducedFirst DEF Bundle

\* The headers that enter the pipeline are well typed.
LEMMA HeaderTypes ==
  /\ NoHeader \in HeaderType
  /\ \A k \in {"interim", "final", "upgrade"},
        s \in {"queued", "upstream", "cache"} : AppHeader(k, s) \in HeaderType
  /\ \A c \in BundleLists : EngineHeader(c) \in HeaderType
  BY DEF NoHeader, AppHeader, EngineHeader, HeaderType, BundleLists

\* append_set_cookies keeps a header well typed.
LEMMA WithCookiesTypes ==
    ASSUME NEW h \in HeaderType, NEW b, h.cookies \o b \in BundleLists
    PROVE  WithCookies(h, b) \in HeaderType
  BY DEF WithCookies, HeaderType

-----------------------------------------------------------------------------
\* The task goes from point to point; results are errors or ok.
LEMMA ControlShape ==
    ASSUME IInv, [Next]_vars
    PROVE  /\ pc' \in AllPoints /\ request' \in Requests
           /\ wanted' \in BOOLEAN /\ result' \in ResultType
<1>1. CASE RequestFilter
  BY <1>1 DEF RequestFilter, RouteDenied, Decide, EngineHeader, Preflight,
     ForwardUnloaded, PublicRoute, LoginRoute, LoadSession, LoadFailed,
     LoadRefused, NotLoaded, RefreshUnavailable, Unauthenticated, Sessionless,
     Anonymous, Prepared, Forbidden, WithSession, DeniedCommitReturns,
     Authenticated, IInv, Shape, AllPoints, AwaitPoints, ResultType,
     ErrorsOrOk
<1>2. CASE ForwardRequest
  BY <1>2 DEF ForwardRequest, InnerQueuesResponse, InnerWritesDirectly,
     ForwardFails, ForwardHandled, ForwardProxied, ForwardQueued, AppHeader,
     StillUnwritten, IInv, Shape, AllPoints, AwaitPoints, ResultType,
     ErrorsOrOk
<1>3. CASE Upstream
  BY <1>3 DEF Upstream, CacheHit, AppHeader, UpstreamRequestFilter,
     UpstreamInterim, UpstreamResponds, UpstreamFails, IInv, Shape, AllPoints,
     AwaitPoints, ResultType, ErrorsOrOk
<1>4. CASE ResponseFilter
  BY <1>4 DEF ResponseFilter, InnerResponseFilter, Discard, NoHeader,
     FinalizeSkips, PassesUntouched, FinalizeClaims, Drained, EndsSession,
     SavesSession, SessionCall, WithCookies, TerminateReturns, ClearsFor,
     CommitSucceeds, CommitFails, PolicyRejects, RepeatFinalHeader, IInv,
     Shape, AllPoints, AwaitPoints, ResultType, ErrorsOrOk
<1>5. CASE Write
  BY <1>5 DEF Write, WriteInterim, NoHeader, WriteHeader, WriteHeaderFails,
     Discard, WriteBody, FailToProxy, IInv, Shape, AllPoints, AwaitPoints,
     ResultType, ErrorsOrOk
<1>6. CASE Logging
  BY <1>6 DEF Logging, LoggingSkips, LoggingClaims, Stranded, Drained,
     EndsSession, SavesSession, SessionCall, LoggingTerminateReturns,
     ProducedTooLate, ClearsFor, LoggingCommitReturns, InnerLogging, IInv,
     Shape, AllPoints, AwaitPoints, ResultType, ErrorsOrOk
<1>7. CASE InnerRequestsTermination \/ Abort \/ Ended \/ UNCHANGED vars
  BY <1>7 DEF InnerRequestsTermination, Abort, Ended, vars, IInv, Shape,
     AllPoints, AwaitPoints, ResultType, ErrorsOrOk
<1> QED BY <1>1, <1>2, <1>3, <1>4, <1>5, <1>6, <1>7 DEF Next, Progress

\* prepare_forward without a session.
LEMMA AnonymousShape ==
    ASSUME IInv, Anonymous
    PROVE  loaded' \in LoadedSession /\ state' \in StateType
<1>1. loaded' \in LoadedSession /\ loaded'.set_cookies \in {<<>>, <<"load">>}
  BY ConstantsAssumption DEF Anonymous, Sessionless, NotLoaded, LoadedSession
<1>2. state \in StateType
  BY DEF IInv, Shape
<1>3. state' \in StateType
  BY <1>1, <1>2 DEF Anonymous, Prepared, StateType
<1> QED BY <1>1, <1>3

\* prepare_forward with a session.
LEMMA AuthenticatedShape ==
    ASSUME IInv, Authenticated
    PROVE  loaded' \in LoadedSession /\ state' \in StateType
<1>1. loaded' \in LoadedSession
  BY DEF Authenticated, WithSession, LoadedSession
<1>2. state \in StateType
  BY DEF IInv, Shape
<1>3. /\ loaded'.session \in Sessions \cup {NoSession}
      /\ loaded'.set_cookies \in {<<>>, <<"load">>}
      /\ Owed(loaded') \in Sessions \cup {NoSession}
  BY <1>1 DEF LoadedSession, Owed
<1>4. state' \in StateType
  BY <1>2, <1>3 DEF Authenticated, Prepared, StateType
<1> QED BY <1>1, <1>4

\* The context is prepared, drained or touched by hooks, field by field.
LEMMA ContextShape ==
    ASSUME IInv, [Next]_vars
    PROVE  loaded' \in LoadedSession /\ state' \in StateType
<1>1. CASE RequestFilter
  <2>1. CASE RouteDenied
    BY <2>1 DEF RouteDenied, Decide, EngineHeader, IInv, Shape, LoadedSession,
       StateType
  <2>2. CASE Preflight
    BY <2>2 DEF Preflight, ForwardUnloaded, Decide, IInv, Shape,
       LoadedSession, StateType
  <2>3. CASE PublicRoute
    BY <2>3 DEF PublicRoute, ForwardUnloaded, Decide, IInv, Shape,
       LoadedSession, StateType
  <2>4. CASE LoginRoute
    BY <2>4 DEF LoginRoute, Decide, EngineHeader, IInv, Shape, LoadedSession,
       StateType
  <2>5. CASE LoadSession
    BY <2>5 DEF LoadSession, IInv, Shape, LoadedSession, StateType
  <2>6. CASE LoadFailed
    BY <2>6, ConstantsAssumption DEF LoadFailed, LoadRefused, Decide,
       EngineHeader, NotLoaded, IInv, Shape, LoadedSession, StateType, Owed,
       Fresh, FreshPoints, DefaultState, NoHeader
  <2>7. CASE RefreshUnavailable
    BY <2>7, ConstantsAssumption DEF RefreshUnavailable, LoadRefused, Decide,
       EngineHeader, NotLoaded, IInv, Shape, LoadedSession, StateType, Owed,
       Fresh, FreshPoints, DefaultState, NoHeader
  <2>8. CASE Unauthenticated
    BY <2>8, ConstantsAssumption DEF Unauthenticated, Sessionless, NotLoaded,
       Decide, EngineHeader, IInv, Shape, LoadedSession, StateType, Owed,
       Fresh, FreshPoints, DefaultState, NoHeader
  <2>9. CASE Anonymous
    BY <2>9, AnonymousShape
  <2>10. CASE Forbidden
    BY <2>10, ConstantsAssumption DEF Forbidden, WithSession, Decide,
       EngineHeader, IInv, Shape, LoadedSession, StateType, Owed, Fresh,
       FreshPoints, DefaultState, NotLoaded, NoHeader
  <2>11. CASE DeniedCommitReturns
    BY <2>11 DEF DeniedCommitReturns, IInv, Shape, LoadedSession, StateType
  <2>12. CASE Authenticated
    BY <2>12, AuthenticatedShape
  <2> QED BY <1>1, <2>1, <2>2, <2>3, <2>4, <2>5, <2>6, <2>7, <2>8, <2>9,
    <2>10, <2>11, <2>12 DEF RequestFilter
<1>2. CASE ForwardRequest
  BY <1>2 DEF ForwardRequest, InnerQueuesResponse, InnerWritesDirectly,
     ForwardFails, ForwardHandled, ForwardProxied, ForwardQueued, AppHeader,
     StillUnwritten, IInv, Shape, LoadedSession, StateType
<1>3. CASE Upstream
  BY <1>3 DEF Upstream, CacheHit, AppHeader, UpstreamRequestFilter,
     UpstreamInterim, UpstreamResponds, UpstreamFails, IInv, Shape,
     LoadedSession, StateType
<1>4. CASE ResponseFilter
  <2>1. CASE InnerResponseFilter
    BY <2>1 DEF InnerResponseFilter, Discard, NoHeader, IInv, Shape,
       LoadedSession, StateType
  <2>2. CASE FinalizeSkips
    BY <2>2 DEF FinalizeSkips, PassesUntouched, IInv, Shape, LoadedSession,
       StateType
  <2>3. CASE FinalizeClaims
    BY <2>3 DEF FinalizeClaims, PassesUntouched, Drained, EndsSession,
       SavesSession, SessionCall, WithCookies, IInv, Shape, LoadedSession,
       StateType
  <2>4. CASE TerminateReturns
    BY <2>4 DEF TerminateReturns, WithCookies, ClearsFor, IInv, Shape,
       LoadedSession, StateType
  <2>5. CASE CommitSucceeds
    BY <2>5 DEF CommitSucceeds, WithCookies, IInv, Shape, LoadedSession,
       StateType
  <2>6. CASE CommitFails
    BY <2>6 DEF CommitFails, PolicyRejects, Discard, NoHeader, IInv, Shape,
       LoadedSession, StateType
  <2>7. CASE RepeatFinalHeader
    BY <2>7 DEF RepeatFinalHeader, IInv, Shape, LoadedSession, StateType
  <2> QED BY <1>4, <2>1, <2>2, <2>3, <2>4, <2>5, <2>6, <2>7 DEF ResponseFilter
<1>5. CASE Write
  BY <1>5 DEF Write, WriteInterim, NoHeader, WriteHeader, WriteHeaderFails,
     Discard, WriteBody, FailToProxy, IInv, Shape, LoadedSession, StateType
<1>6. CASE Logging
  <2>1. CASE LoggingSkips
    BY <2>1 DEF LoggingSkips, IInv, Shape, LoadedSession, StateType
  <2>2. CASE LoggingClaims
    BY <2>2 DEF LoggingClaims, Stranded, Drained, EndsSession, SavesSession,
       SessionCall, IInv, Shape, LoadedSession, StateType
  <2>3. CASE LoggingTerminateReturns
    BY <2>3 DEF LoggingTerminateReturns, ProducedTooLate, Stranded, ClearsFor,
       IInv, Shape, LoadedSession, StateType
  <2>4. CASE LoggingCommitReturns
    BY <2>4 DEF LoggingCommitReturns, ProducedTooLate, Stranded, IInv, Shape,
       LoadedSession, StateType
  <2>5. CASE InnerLogging
    BY <2>5 DEF InnerLogging, IInv, Shape, LoadedSession, StateType
  <2> QED BY <1>6, <2>1, <2>2, <2>3, <2>4, <2>5 DEF Logging
<1>7. CASE InnerRequestsTermination \/ Abort \/ Ended \/ UNCHANGED vars
  BY <1>7 DEF InnerRequestsTermination, Abort, Ended, vars, IInv, Shape,
     LoadedSession, StateType
<1> QED BY <1>1, <1>2, <1>3, <1>4, <1>5, <1>6, <1>7 DEF Next, Progress

\* The denial's commit is the request's first call.
LEMMA ForbiddenCall ==
    ASSUME IInv, Forbidden
    PROVE  calls' \in CallsType
<1>1. calls = <<>>
  BY DEF IInv, Fresh, FreshPoints, Forbidden
<1>2. loaded' \in LoadedSession
  BY DEF Forbidden, WithSession, LoadedSession
<1>3. CASE Owed(loaded') # NoSession
  <2>1. [op |-> "persist", phase |-> "denied", session |-> Owed(loaded'),
          headers |-> TRUE] \in Calls
    BY <1>2, <1>3 DEF LoadedSession, Owed, Calls
  <2> QED BY <1>1, <1>3, <2>1, Appended DEF Forbidden, CallsType
<1> QED BY <1>1, <1>3 DEF Forbidden, CallsType

\* So is the call of finalization, in either callback.
LEMMA FinalizationCall ==
    ASSUME IInv, FinalizeClaims \/ LoggingClaims
    PROVE  calls' \in CallsType
<1>1. ASSUME EndsSession \/ SavesSession
      PROVE  /\ calls = <<>> /\ state.session \in Sessions
             /\ SavesSession => state.pending \in Sessions
             /\ state.request_headers \in BOOLEAN
  BY <1>1 DEF IInv, ContextFacts, Open, FinalizeClaims, LoggingClaims,
     PassesUntouched, Shape, StateType, EndsSession, SavesSession
<1>2. CASE ~EndsSession /\ ~SavesSession
  BY <1>2 DEF FinalizeClaims, LoggingClaims, IInv, Shape
<1>3. CASE EndsSession
  <2>1. \A phase \in {"response", "logging"} : SessionCall("revoke", phase,
          state.session) \in Calls
    BY <1>1, <1>3 DEF SessionCall, Calls
  <2> QED
    BY <1>1, <1>3, <2>1, Appended DEF FinalizeClaims, LoggingClaims,
       CallsType, SavesSession, EndsSession
<1>4. CASE SavesSession
  <2>1. \A phase \in {"response", "logging"} : SessionCall("persist", phase,
          state.pending) \in Calls
    BY <1>1, <1>4 DEF SessionCall, Calls
  <2> QED
    BY <1>1, <1>4, <2>1, Appended DEF FinalizeClaims, LoggingClaims,
       CallsType, SavesSession, EndsSession
<1> QED BY <1>2, <1>3, <1>4

\* No path makes a second call.
LEMMA CallShape ==
    ASSUME IInv, [Next]_vars
    PROVE  calls' \in CallsType
<1>1. CASE RequestFilter
  <2>1. CASE RouteDenied
    BY <2>1, Appended DEF RouteDenied, Decide, EngineHeader, IInv, Shape,
       CallsType, Calls, StateType
  <2>2. CASE Preflight
    BY <2>2, Appended DEF Preflight, ForwardUnloaded, Decide, IInv, Shape,
       CallsType, Calls, StateType
  <2>3. CASE PublicRoute
    BY <2>3, Appended DEF PublicRoute, ForwardUnloaded, Decide, IInv, Shape,
       CallsType, Calls, StateType
  <2>4. CASE LoginRoute
    BY <2>4, Appended DEF LoginRoute, Decide, EngineHeader, IInv, Shape,
       CallsType, Calls, StateType
  <2>5. CASE LoadSession
    BY <2>5, Appended DEF LoadSession, IInv, Shape, CallsType, Calls,
       StateType
  <2>6. CASE LoadFailed
    BY <2>6, Appended DEF LoadFailed, LoadRefused, Decide, EngineHeader,
       NotLoaded, IInv, Shape, CallsType, Calls, StateType
  <2>7. CASE RefreshUnavailable
    BY <2>7, Appended DEF RefreshUnavailable, LoadRefused, Decide,
       EngineHeader, NotLoaded, IInv, Shape, CallsType, Calls, StateType
  <2>8. CASE Unauthenticated
    BY <2>8, Appended DEF Unauthenticated, Sessionless, NotLoaded, Decide,
       EngineHeader, IInv, Shape, CallsType, Calls, StateType
  <2>9. CASE Anonymous
    BY <2>9, Appended DEF Anonymous, Sessionless, NotLoaded, Decide, Prepared,
       IInv, Shape, CallsType, Calls, StateType
  <2>10. CASE Forbidden
    BY <2>10, ForbiddenCall
  <2>11. CASE DeniedCommitReturns
    BY <2>11, Appended DEF DeniedCommitReturns, IInv, Shape, CallsType, Calls,
       StateType
  <2>12. CASE Authenticated
    BY <2>12, Appended DEF Authenticated, WithSession, Decide, Prepared, IInv,
       Shape, CallsType, Calls, StateType
  <2> QED BY <1>1, <2>1, <2>2, <2>3, <2>4, <2>5, <2>6, <2>7, <2>8, <2>9,
    <2>10, <2>11, <2>12 DEF RequestFilter
<1>2. CASE ForwardRequest
  BY <1>2, Appended DEF ForwardRequest, InnerQueuesResponse,
     InnerWritesDirectly, ForwardFails, ForwardHandled, ForwardProxied,
     ForwardQueued, AppHeader, StillUnwritten, IInv, Shape, CallsType, Calls,
     StateType
<1>3. CASE Upstream
  BY <1>3, Appended DEF Upstream, CacheHit, AppHeader, UpstreamRequestFilter,
     UpstreamInterim, UpstreamResponds, UpstreamFails, IInv, Shape, CallsType,
     Calls, StateType
<1>4. CASE ResponseFilter
  <2>1. CASE InnerResponseFilter
    BY <2>1, Appended DEF InnerResponseFilter, Discard, NoHeader, IInv, Shape,
       CallsType, Calls, StateType
  <2>2. CASE FinalizeSkips
    BY <2>2, Appended DEF FinalizeSkips, PassesUntouched, IInv, Shape,
       CallsType, Calls, StateType
  <2>3. CASE FinalizeClaims
    BY <2>3, FinalizationCall
  <2>4. CASE TerminateReturns
    BY <2>4, Appended DEF TerminateReturns, WithCookies, ClearsFor, IInv,
       Shape, CallsType, Calls, StateType
  <2>5. CASE CommitSucceeds
    BY <2>5, Appended DEF CommitSucceeds, WithCookies, IInv, Shape, CallsType,
       Calls, StateType
  <2>6. CASE CommitFails
    BY <2>6, Appended DEF CommitFails, PolicyRejects, Discard, NoHeader, IInv,
       Shape, CallsType, Calls, StateType
  <2>7. CASE RepeatFinalHeader
    BY <2>7, Appended DEF RepeatFinalHeader, IInv, Shape, CallsType, Calls,
       StateType
  <2> QED BY <1>4, <2>1, <2>2, <2>3, <2>4, <2>5, <2>6, <2>7 DEF ResponseFilter
<1>5. CASE Write
  BY <1>5, Appended DEF Write, WriteInterim, NoHeader, WriteHeader,
     WriteHeaderFails, Discard, WriteBody, FailToProxy, IInv, Shape,
     CallsType, Calls, StateType
<1>6. CASE Logging
  <2>1. CASE LoggingSkips
    BY <2>1, Appended DEF LoggingSkips, IInv, Shape, CallsType, Calls,
       StateType
  <2>2. CASE LoggingClaims
    BY <2>2, FinalizationCall
  <2>3. CASE LoggingTerminateReturns
    BY <2>3, Appended DEF LoggingTerminateReturns, ProducedTooLate, Stranded,
       ClearsFor, IInv, Shape, CallsType, Calls, StateType
  <2>4. CASE LoggingCommitReturns
    BY <2>4, Appended DEF LoggingCommitReturns, ProducedTooLate, Stranded,
       IInv, Shape, CallsType, Calls, StateType
  <2>5. CASE InnerLogging
    BY <2>5, Appended DEF InnerLogging, IInv, Shape, CallsType, Calls,
       StateType
  <2> QED BY <1>6, <2>1, <2>2, <2>3, <2>4, <2>5 DEF Logging
<1>7. CASE InnerRequestsTermination \/ Abort \/ Ended \/ UNCHANGED vars
  BY <1>7, Appended DEF InnerRequestsTermination, Abort, Ended, vars, IInv,
     Shape, CallsType, Calls, StateType
<1> QED BY <1>1, <1>2, <1>3, <1>4, <1>5, <1>6, <1>7 DEF Next, Progress

\* What the upstream answers with.
LEMMA RespondsHeader ==
    ASSUME IInv, UpstreamResponds
    PROVE  header' \in HeaderType
  BY HeaderTypes DEF UpstreamResponds

\* The clears fit behind the bundle of the load.
LEMMA TerminateHeader ==
    ASSUME IInv, TerminateReturns
    PROVE  header' \in HeaderType
<1>1. header \in HeaderType /\ header.cookies = Bundle
        /\ ledger.produced = <<>>
  BY DEF TerminateReturns, IInv, Shape, PlaceFacts, PointFacts, AnswerFacts,
     AwaitingCall, FilterPoints
<1>2. Bundle \o <<"clear">> \in BundleLists
  BY <1>1, ProducedFirst
<1> QED BY <1>1, <1>2, WithCookiesTypes DEF TerminateReturns, ClearsFor

\* A commit's cookies come alone: a pending load brought none.
LEMMA CommitHeader ==
    ASSUME IInv, CommitSucceeds
    PROVE  header' \in HeaderType
<1>1. header \in HeaderType /\ header.cookies = Bundle
        /\ ledger.produced = <<>> /\ Deferred
  BY DEF CommitSucceeds, IInv, Shape, PlaceFacts, PointFacts, AnswerFacts,
     AwaitingCall, FilterPoints, CallFacts
<1>2. \A b \in {<<>>, <<"commit">>} : Bundle \o b \in BundleLists
  BY <1>1, ProducedFirst
<1> QED BY <1>1, <1>2, WithCookiesTypes DEF CommitSucceeds

\* A header never carries a bundle twice.
LEMMA HeaderShape ==
    ASSUME IInv, [Next]_vars
    PROVE  header' \in HeaderType
<1>1. CASE RequestFilter
  <2>1. CASE RouteDenied
    BY <2>1, Concatenated DEF RouteDenied, Decide, EngineHeader, IInv, Shape,
       HeaderType, BundleLists, LoadedSession, StateType, LedgerType
  <2>2. CASE Preflight
    BY <2>2, Concatenated DEF Preflight, ForwardUnloaded, Decide, IInv, Shape,
       HeaderType, BundleLists, LoadedSession, StateType, LedgerType
  <2>3. CASE PublicRoute
    BY <2>3, Concatenated DEF PublicRoute, ForwardUnloaded, Decide, IInv,
       Shape, HeaderType, BundleLists, LoadedSession, StateType, LedgerType
  <2>4. CASE LoginRoute
    BY <2>4, Concatenated DEF LoginRoute, Decide, EngineHeader, IInv, Shape,
       HeaderType, BundleLists, LoadedSession, StateType, LedgerType
  <2>5. CASE LoadSession
    BY <2>5, Concatenated DEF LoadSession, IInv, Shape, HeaderType,
       BundleLists, LoadedSession, StateType, LedgerType
  <2>6. CASE LoadFailed
    BY <2>6, Concatenated DEF LoadFailed, LoadRefused, Decide, EngineHeader,
       NotLoaded, IInv, Shape, HeaderType, BundleLists, LoadedSession,
       StateType, LedgerType
  <2>7. CASE RefreshUnavailable
    BY <2>7, Concatenated DEF RefreshUnavailable, LoadRefused, Decide,
       EngineHeader, NotLoaded, IInv, Shape, HeaderType, BundleLists,
       LoadedSession, StateType, LedgerType
  <2>8. CASE Unauthenticated
    BY <2>8, Concatenated DEF Unauthenticated, Sessionless, NotLoaded, Decide,
       EngineHeader, IInv, Shape, HeaderType, BundleLists, LoadedSession,
       StateType, LedgerType
  <2>9. CASE Anonymous
    BY <2>9, Concatenated DEF Anonymous, Sessionless, NotLoaded, Decide,
       Prepared, IInv, Shape, HeaderType, BundleLists, LoadedSession,
       StateType, LedgerType
  <2>10. CASE Forbidden
    BY <2>10, Concatenated DEF Forbidden, WithSession, Decide, EngineHeader,
       IInv, Shape, HeaderType, BundleLists, LoadedSession, StateType,
       LedgerType
  <2>11. CASE DeniedCommitReturns
    BY <2>11, Concatenated DEF DeniedCommitReturns, IInv, Shape, HeaderType,
       BundleLists, LoadedSession, StateType, LedgerType, PlaceFacts,
       FilterPoints, PointFacts, AnswerFacts, AwaitingCall, Bundle, Deferred,
       LoadFacts, CallFacts, ClientFacts
  <2>12. CASE Authenticated
    BY <2>12, Concatenated DEF Authenticated, WithSession, Decide, Prepared,
       IInv, Shape, HeaderType, BundleLists, LoadedSession, StateType,
       LedgerType
  <2> QED BY <1>1, <2>1, <2>2, <2>3, <2>4, <2>5, <2>6, <2>7, <2>8, <2>9,
    <2>10, <2>11, <2>12 DEF RequestFilter
<1>2. CASE ForwardRequest
  <2>1. CASE InnerQueuesResponse
    BY <2>1, Concatenated DEF InnerQueuesResponse, IInv, Shape, HeaderType,
       BundleLists, LoadedSession, StateType, LedgerType
  <2>2. CASE InnerWritesDirectly
    BY <2>2, Concatenated DEF InnerWritesDirectly, IInv, Shape, HeaderType,
       BundleLists, LoadedSession, StateType, LedgerType
  <2>3. CASE ForwardFails
    BY <2>3, Concatenated DEF ForwardFails, IInv, Shape, HeaderType,
       BundleLists, LoadedSession, StateType, LedgerType
  <2>4. CASE ForwardHandled
    BY <2>4, Concatenated DEF ForwardHandled, IInv, Shape, HeaderType,
       BundleLists, LoadedSession, StateType, LedgerType
  <2>5. CASE ForwardProxied
    BY <2>5, Concatenated DEF ForwardProxied, IInv, Shape, HeaderType,
       BundleLists, LoadedSession, StateType, LedgerType
  <2>6. CASE ForwardQueued
    BY <2>6, Concatenated DEF ForwardQueued, AppHeader, StillUnwritten, IInv,
       Shape, HeaderType, BundleLists, LoadedSession, StateType, LedgerType
  <2> QED BY <1>2, <2>1, <2>2, <2>3, <2>4, <2>5, <2>6 DEF ForwardRequest
<1>3. CASE Upstream
  <2>1. CASE CacheHit
    BY <2>1, Concatenated DEF CacheHit, AppHeader, IInv, Shape, HeaderType,
       BundleLists, LoadedSession, StateType, LedgerType
  <2>2. CASE UpstreamRequestFilter
    BY <2>2, Concatenated DEF UpstreamRequestFilter, IInv, Shape, HeaderType,
       BundleLists, LoadedSession, StateType, LedgerType
  <2>3. CASE UpstreamInterim
    BY <2>3, Concatenated DEF UpstreamInterim, AppHeader, IInv, Shape,
       HeaderType, BundleLists, LoadedSession, StateType, LedgerType
  <2>4. CASE UpstreamResponds
    BY <2>4, RespondsHeader
  <2>5. CASE UpstreamFails
    BY <2>5, Concatenated DEF UpstreamFails, IInv, Shape, HeaderType,
       BundleLists, LoadedSession, StateType, LedgerType
  <2> QED BY <1>3, <2>1, <2>2, <2>3, <2>4, <2>5 DEF Upstream
<1>4. CASE ResponseFilter
  <2>1. CASE InnerResponseFilter
    BY <2>1, Concatenated, HeaderTypes DEF InnerResponseFilter, Discard,
       NoHeader, IInv, Shape, HeaderType, BundleLists, LoadedSession,
       StateType, LedgerType
  <2>2. CASE FinalizeSkips
    BY <2>2, Concatenated DEF FinalizeSkips, PassesUntouched, IInv, Shape,
       HeaderType, BundleLists, LoadedSession, StateType, LedgerType
  <2>3. CASE FinalizeClaims
    BY <2>3, Concatenated DEF FinalizeClaims, PassesUntouched, Drained,
       EndsSession, SavesSession, SessionCall, WithCookies, IInv, Shape,
       HeaderType, BundleLists, LoadedSession, StateType, LedgerType,
       PlaceFacts, FilterPoints, PointFacts, AnswerFacts, AwaitingCall,
       Bundle, Deferred, LoadFacts, CallFacts, ClientFacts
  <2>4. CASE TerminateReturns
    BY <2>4, TerminateHeader
  <2>5. CASE CommitSucceeds
    BY <2>5, CommitHeader
  <2>6. CASE CommitFails
    BY <2>6, Concatenated, HeaderTypes DEF CommitFails, PolicyRejects,
       Discard, NoHeader, IInv, Shape, HeaderType, BundleLists, LoadedSession,
       StateType, LedgerType
  <2>7. CASE RepeatFinalHeader
    BY <2>7, Concatenated DEF RepeatFinalHeader, IInv, Shape, HeaderType,
       BundleLists, LoadedSession, StateType, LedgerType
  <2> QED BY <1>4, <2>1, <2>2, <2>3, <2>4, <2>5, <2>6, <2>7 DEF ResponseFilter
<1>5. CASE Write
  <2>1. CASE WriteInterim
    BY <2>1, Concatenated DEF WriteInterim, NoHeader, IInv, Shape, HeaderType,
       BundleLists, LoadedSession, StateType, LedgerType
  <2>2. CASE WriteHeader
    BY <2>2, Concatenated DEF WriteHeader, NoHeader, IInv, Shape, HeaderType,
       BundleLists, LoadedSession, StateType, LedgerType
  <2>3. CASE WriteHeaderFails
    BY <2>3, Concatenated DEF WriteHeaderFails, Discard, NoHeader, IInv,
       Shape, HeaderType, BundleLists, LoadedSession, StateType, LedgerType
  <2>4. CASE WriteBody
    BY <2>4, Concatenated DEF WriteBody, IInv, Shape, HeaderType, BundleLists,
       LoadedSession, StateType, LedgerType
  <2>5. CASE FailToProxy
    BY <2>5, Concatenated DEF FailToProxy, IInv, Shape, HeaderType,
       BundleLists, LoadedSession, StateType, LedgerType
  <2> QED BY <1>5, <2>1, <2>2, <2>3, <2>4, <2>5 DEF Write
<1>6. CASE Logging
  BY <1>6, Concatenated DEF Logging, LoggingSkips, LoggingClaims, Stranded,
     Drained, EndsSession, SavesSession, SessionCall, LoggingTerminateReturns,
     ProducedTooLate, ClearsFor, LoggingCommitReturns, InnerLogging, IInv,
     Shape, HeaderType, BundleLists, LoadedSession, StateType, LedgerType
<1>7. CASE InnerRequestsTermination \/ Abort \/ Ended \/ UNCHANGED vars
  BY <1>7, Concatenated DEF InnerRequestsTermination, Abort, Ended, vars,
     IInv, Shape, HeaderType, BundleLists, LoadedSession, StateType,
     LedgerType
<1> QED BY <1>1, <1>2, <1>3, <1>4, <1>5, <1>6, <1>7 DEF Next, Progress

\* The attempts stay within their bound.
LEMMA AttemptShape ==
    ASSUME IInv, UpstreamRequestFilter
    PROVE  client' \in ClientType /\ upstream' \in UpstreamType
<1>1. upstream \in UpstreamType
  BY DEF IInv, Shape
<1>2. upstream.attempts + 1 \in 0 .. MaxAttempts
  BY <1>1, ConstantsAssumption DEF UpstreamType, UpstreamRequestFilter
<1>3. {"session", "application"} \ {"session"} \in SUBSET {"session",
        "application"}
  OBVIOUS
<1> QED
  BY <1>1, <1>2, <1>3 DEF IInv, Shape, UpstreamType, UpstreamRequestFilter

\* The connection and the exchange with the upstream.
LEMMA ClientShape ==
    ASSUME IInv, [Next]_vars
    PROVE  client' \in ClientType /\ upstream' \in UpstreamType
<1>1. CASE RequestFilter
  BY <1>1, ConstantsAssumption DEF RequestFilter, RouteDenied, Decide,
     EngineHeader, Preflight, ForwardUnloaded, PublicRoute, LoginRoute,
     LoadSession, LoadFailed, LoadRefused, NotLoaded, RefreshUnavailable,
     Unauthenticated, Sessionless, Anonymous, Prepared, Forbidden,
     WithSession, DeniedCommitReturns, Authenticated, IInv, Shape, HeaderType,
     ClientType, UpstreamType
<1>2. CASE ForwardRequest
  BY <1>2, ConstantsAssumption DEF ForwardRequest, InnerQueuesResponse,
     InnerWritesDirectly, ForwardFails, ForwardHandled, ForwardProxied,
     ForwardQueued, AppHeader, StillUnwritten, IInv, Shape, HeaderType,
     ClientType, UpstreamType
<1>3. CASE Upstream
  <2>1. CASE CacheHit
    BY <2>1, ConstantsAssumption DEF CacheHit, AppHeader, IInv, Shape,
       HeaderType, ClientType, UpstreamType
  <2>2. CASE UpstreamRequestFilter
    BY <2>2, AttemptShape
  <2>3. CASE UpstreamInterim
    BY <2>3, ConstantsAssumption DEF UpstreamInterim, AppHeader, IInv, Shape,
       HeaderType, ClientType, UpstreamType
  <2>4. CASE UpstreamResponds
    BY <2>4, ConstantsAssumption DEF UpstreamResponds, AppHeader, IInv, Shape,
       HeaderType, ClientType, UpstreamType
  <2>5. CASE UpstreamFails
    BY <2>5, ConstantsAssumption DEF UpstreamFails, IInv, Shape, HeaderType,
       ClientType, UpstreamType
  <2> QED BY <1>3, <2>1, <2>2, <2>3, <2>4, <2>5 DEF Upstream
<1>4. CASE ResponseFilter
  BY <1>4, ConstantsAssumption DEF ResponseFilter, InnerResponseFilter,
     Discard, NoHeader, FinalizeSkips, PassesUntouched, FinalizeClaims,
     Drained, EndsSession, SavesSession, SessionCall, WithCookies,
     TerminateReturns, ClearsFor, CommitSucceeds, CommitFails, PolicyRejects,
     RepeatFinalHeader, IInv, Shape, HeaderType, ClientType, UpstreamType
<1>5. CASE Write
  <2>1. CASE WriteInterim
    BY <2>1, ConstantsAssumption DEF WriteInterim, NoHeader, IInv, Shape,
       HeaderType, ClientType, UpstreamType
  <2>2. CASE WriteHeader
    BY <2>2, ConstantsAssumption DEF WriteHeader, NoHeader, IInv, Shape,
       HeaderType, ClientType, UpstreamType
  <2>3. CASE WriteHeaderFails
    BY <2>3, ConstantsAssumption DEF WriteHeaderFails, Discard, NoHeader,
       IInv, Shape, HeaderType, ClientType, UpstreamType
  <2>4. CASE WriteBody
    BY <2>4, ConstantsAssumption DEF WriteBody, IInv, Shape, HeaderType,
       ClientType, UpstreamType
  <2>5. CASE FailToProxy
    BY <2>5, ConstantsAssumption DEF FailToProxy, IInv, Shape, HeaderType,
       ClientType, UpstreamType
  <2> QED BY <1>5, <2>1, <2>2, <2>3, <2>4, <2>5 DEF Write
<1>6. CASE Logging
  BY <1>6, ConstantsAssumption DEF Logging, LoggingSkips, LoggingClaims,
     Stranded, Drained, EndsSession, SavesSession, SessionCall,
     LoggingTerminateReturns, ProducedTooLate, ClearsFor,
     LoggingCommitReturns, InnerLogging, IInv, Shape, HeaderType, ClientType,
     UpstreamType
<1>7. CASE InnerRequestsTermination \/ Abort \/ Ended \/ UNCHANGED vars
  BY <1>7, ConstantsAssumption DEF InnerRequestsTermination, Abort, Ended,
     vars, IInv, Shape, HeaderType, ClientType, UpstreamType
<1> QED BY <1>1, <1>2, <1>3, <1>4, <1>5, <1>6, <1>7 DEF Next, Progress

\* Clears returned in logging are stranded.
LEMMA LateClears ==
    ASSUME IInv, LoggingTerminateReturns
    PROVE  ledger' \in LedgerType
<1>1. ledger \in LedgerType /\ ledger.stranded = Bundle
        /\ ledger.produced = <<>>
  BY DEF LoggingTerminateReturns, IInv, Shape, PlaceFacts, PointFacts,
     AnswerFacts, AwaitingCall, FilterPoints
<1>2. Bundle \o <<"clear">> \in BundleLists
        /\ ledger.produced \o <<"clear">> = <<"clear">>
  BY <1>1, ProducedFirst
<1> QED
  BY <1>1, <1>2 DEF LoggingTerminateReturns, ClearsFor, ProducedTooLate,
     Stranded, LedgerType

\* So are the cookies of a commit made in logging.
LEMMA LateCommit ==
    ASSUME IInv, LoggingCommitReturns
    PROVE  ledger' \in LedgerType
<1>1. ledger \in LedgerType /\ ledger.stranded = Bundle
        /\ ledger.produced = <<>> /\ Deferred
  BY DEF LoggingCommitReturns, IInv, Shape, PlaceFacts, PointFacts,
     AnswerFacts, AwaitingCall, FilterPoints, CallFacts
<1>2. \A b \in {<<>>, <<"commit">>} : Bundle \o b \in BundleLists
        /\ ledger.produced \o b = b
  BY <1>1, ProducedFirst
<1> QED
  BY <1>1, <1>2 DEF LoggingCommitReturns, ProducedTooLate, Stranded,
     LedgerType

\* A header that carries bundles is dropped only when none was before.
LEMMA DiscardShape ==
    ASSUME IInv, Discard
    PROVE  ledger' \in LedgerType
<1>1. ledger \in LedgerType /\ header.cookies \in BundleLists
  BY DEF IInv, Shape, HeaderType
<1>2. header.cookies = <<>> \/ ledger.discarded = <<>>
  BY DEF IInv, Conserved, Places
<1>3. ledger.discarded \o header.cookies \in BundleLists
  BY <1>1, <1>2, Concatenated DEF LedgerType
<1> QED BY <1>1, <1>3 DEF Discard, LedgerType

\* A failing hook or write, and a refused commit, drop the header.
LEMMA DroppedShape ==
    ASSUME IInv, InnerResponseFilter \/ CommitFails \/ WriteHeaderFails
    PROVE  ledger' \in LedgerType
<1>1. ledger' = ledger \/ Discard
  BY DEF InnerResponseFilter, CommitFails, WriteHeaderFails
<1> QED BY <1>1, DiscardShape DEF IInv, Shape

\* An engine call returns its bundle as the first one produced.
LEMMA ReturnedShape ==
    ASSUME IInv, DeniedCommitReturns \/ TerminateReturns \/ CommitSucceeds
    PROVE  ledger' \in LedgerType
<1>1. ledger \in LedgerType /\ ledger.produced = <<>>
  BY DEF IInv, Shape, AnswerFacts, AwaitingCall, DeniedCommitReturns,
     TerminateReturns, CommitSucceeds
<1>2. \/ ledger' = ledger
      \/ \E b \in {<<>>, <<"commit">>, <<"clear">>} :
           ledger' = [ledger EXCEPT !.produced = @ \o b]
  BY DEF DeniedCommitReturns, TerminateReturns, CommitSucceeds, ClearsFor
<1>3. \A b \in {<<>>, <<"commit">>, <<"clear">>} : ledger.produced \o b = b
  BY <1>1, Concatenated DEF BundleLists
<1> QED BY <1>1, <1>2, <1>3 DEF LedgerType

\* Bundles still in the context are the first ones to be stranded.
LEMMA StrandedShape ==
    ASSUME IInv, LoggingClaims
    PROVE  ledger' \in LedgerType
<1>1. ledger \in LedgerType /\ state.set_cookies \in BundleLists
  BY DEF IInv, Shape, StateType, BundleLists
<1>2. state.set_cookies = <<>> \/ ledger.stranded = <<>>
  BY DEF IInv, Conserved, Places
<1>3. ledger.stranded \o state.set_cookies \in BundleLists
  BY <1>1, <1>2, Concatenated DEF LedgerType
<1> QED BY <1>1, <1>3 DEF LoggingClaims, Stranded, LedgerType

\* No bundle is produced, stranded or discarded twice.
LEMMA LedgerShape ==
    ASSUME IInv, [Next]_vars
    PROVE  ledger' \in LedgerType
<1>1. CASE RequestFilter
  <2>1. CASE RouteDenied
    BY <2>1, Concatenated DEF RouteDenied, Decide, EngineHeader, IInv, Shape,
       HeaderType, BundleLists, LedgerType, StateType
  <2>2. CASE Preflight
    BY <2>2, Concatenated DEF Preflight, ForwardUnloaded, Decide, IInv, Shape,
       HeaderType, BundleLists, LedgerType, StateType
  <2>3. CASE PublicRoute
    BY <2>3, Concatenated DEF PublicRoute, ForwardUnloaded, Decide, IInv,
       Shape, HeaderType, BundleLists, LedgerType, StateType
  <2>4. CASE LoginRoute
    BY <2>4, Concatenated DEF LoginRoute, Decide, EngineHeader, IInv, Shape,
       HeaderType, BundleLists, LedgerType, StateType
  <2>5. CASE LoadSession
    BY <2>5, Concatenated DEF LoadSession, IInv, Shape, HeaderType,
       BundleLists, LedgerType, StateType
  <2>6. CASE LoadFailed
    BY <2>6, Concatenated DEF LoadFailed, LoadRefused, Decide, EngineHeader,
       NotLoaded, IInv, Shape, HeaderType, BundleLists, LedgerType, StateType
  <2>7. CASE RefreshUnavailable
    BY <2>7, Concatenated DEF RefreshUnavailable, LoadRefused, Decide,
       EngineHeader, NotLoaded, IInv, Shape, HeaderType, BundleLists,
       LedgerType, StateType
  <2>8. CASE Unauthenticated
    BY <2>8, Concatenated DEF Unauthenticated, Sessionless, NotLoaded, Decide,
       EngineHeader, IInv, Shape, HeaderType, BundleLists, LedgerType,
       StateType
  <2>9. CASE Anonymous
    BY <2>9, Concatenated DEF Anonymous, Sessionless, NotLoaded, Decide,
       Prepared, IInv, Shape, HeaderType, BundleLists, LedgerType, StateType
  <2>10. CASE Forbidden
    BY <2>10, Concatenated DEF Forbidden, WithSession, Decide, EngineHeader,
       IInv, Shape, HeaderType, BundleLists, LedgerType, StateType
  <2>11. CASE DeniedCommitReturns
    BY <2>11, ReturnedShape
  <2>12. CASE Authenticated
    BY <2>12, Concatenated DEF Authenticated, WithSession, Decide, Prepared,
       IInv, Shape, HeaderType, BundleLists, LedgerType, StateType
  <2> QED BY <1>1, <2>1, <2>2, <2>3, <2>4, <2>5, <2>6, <2>7, <2>8, <2>9,
    <2>10, <2>11, <2>12 DEF RequestFilter
<1>2. CASE ForwardRequest
  BY <1>2, Concatenated DEF ForwardRequest, InnerQueuesResponse,
     InnerWritesDirectly, ForwardFails, ForwardHandled, ForwardProxied,
     ForwardQueued, AppHeader, StillUnwritten, IInv, Shape, HeaderType,
     BundleLists, LedgerType, StateType
<1>3. CASE Upstream
  BY <1>3, Concatenated DEF Upstream, CacheHit, AppHeader,
     UpstreamRequestFilter, UpstreamInterim, UpstreamResponds, UpstreamFails,
     IInv, Shape, HeaderType, BundleLists, LedgerType, StateType
<1>4. CASE ResponseFilter
  <2>1. CASE InnerResponseFilter
    BY <2>1, DroppedShape
  <2>2. CASE FinalizeSkips
    BY <2>2, Concatenated DEF FinalizeSkips, PassesUntouched, IInv, Shape,
       HeaderType, BundleLists, LedgerType, StateType
  <2>3. CASE FinalizeClaims
    BY <2>3, Concatenated DEF FinalizeClaims, PassesUntouched, Drained,
       EndsSession, SavesSession, SessionCall, WithCookies, IInv, Shape,
       HeaderType, BundleLists, LedgerType, StateType
  <2>4. CASE TerminateReturns
    BY <2>4, ReturnedShape
  <2>5. CASE CommitSucceeds
    BY <2>5, ReturnedShape
  <2>6. CASE CommitFails
    BY <2>6, DroppedShape
  <2>7. CASE RepeatFinalHeader
    BY <2>7, Concatenated DEF RepeatFinalHeader, IInv, Shape, HeaderType,
       BundleLists, LedgerType, StateType
  <2> QED BY <1>4, <2>1, <2>2, <2>3, <2>4, <2>5, <2>6, <2>7 DEF ResponseFilter
<1>5. CASE Write
  <2>1. CASE WriteInterim
    BY <2>1, Concatenated DEF WriteInterim, NoHeader, IInv, Shape, HeaderType,
       BundleLists, LedgerType, StateType
  <2>2. CASE WriteHeader
    BY <2>2, Concatenated DEF WriteHeader, NoHeader, IInv, Shape, HeaderType,
       BundleLists, LedgerType, StateType
  <2>3. CASE WriteHeaderFails
    BY <2>3, DroppedShape
  <2>4. CASE WriteBody
    BY <2>4, Concatenated DEF WriteBody, IInv, Shape, HeaderType, BundleLists,
       LedgerType, StateType
  <2>5. CASE FailToProxy
    BY <2>5, Concatenated DEF FailToProxy, IInv, Shape, HeaderType,
       BundleLists, LedgerType, StateType
  <2> QED BY <1>5, <2>1, <2>2, <2>3, <2>4, <2>5 DEF Write
<1>6. CASE Logging
  <2>1. CASE LoggingSkips
    BY <2>1, Concatenated DEF LoggingSkips, IInv, Shape, HeaderType,
       BundleLists, LedgerType, StateType
  <2>2. CASE LoggingClaims
    BY <2>2, StrandedShape
  <2>3. CASE LoggingTerminateReturns
    BY <2>3, LateClears
  <2>4. CASE LoggingCommitReturns
    BY <2>4, LateCommit
  <2>5. CASE InnerLogging
    BY <2>5, Concatenated DEF InnerLogging, IInv, Shape, HeaderType,
       BundleLists, LedgerType, StateType
  <2> QED BY <1>6, <2>1, <2>2, <2>3, <2>4, <2>5 DEF Logging
<1>7. CASE InnerRequestsTermination \/ Abort \/ Ended \/ UNCHANGED vars
  BY <1>7, Concatenated DEF InnerRequestsTermination, Abort, Ended, vars,
     IInv, Shape, HeaderType, BundleLists, LedgerType, StateType
<1> QED BY <1>1, <1>2, <1>3, <1>4, <1>5, <1>6, <1>7 DEF Next, Progress

\* A public route counts the first decision.
LEMMA PublicTally ==
    ASSUME IInv, PublicRoute
    PROVE  tally' \in TallyType
<1>1. tally \in TallyType /\ tally.decisions = <<>>
  BY DEF IInv, Shape, TallyFacts, PublicRoute, FreshPoints
<1> QED
  BY <1>1, Appended DEF TallyType, PublicRoute, ForwardUnloaded, Decide,
     Outcomes

\* The counters are counted once.
LEMMA TallyShape ==
    ASSUME IInv, [Next]_vars
    PROVE  tally' \in TallyType
<1>1. CASE RequestFilter
  <2>1. CASE RouteDenied
    BY <2>1, Appended DEF RouteDenied, Decide, EngineHeader, IInv, Shape,
       TallyType, TallyFacts, Outcomes, StateType, FreshPoints
  <2>2. CASE Preflight
    BY <2>2, Appended DEF Preflight, ForwardUnloaded, Decide, IInv, Shape,
       TallyType, TallyFacts, Outcomes, StateType, FreshPoints
  <2>3. CASE PublicRoute
    BY <2>3, PublicTally
  <2>4. CASE LoginRoute
    BY <2>4, Appended DEF LoginRoute, Decide, EngineHeader, IInv, Shape,
       TallyType, TallyFacts, Outcomes, StateType, FreshPoints
  <2>5. CASE LoadSession
    BY <2>5, Appended DEF LoadSession, IInv, Shape, TallyType, TallyFacts,
       Outcomes, StateType, FreshPoints
  <2>6. CASE LoadFailed
    BY <2>6, Appended DEF LoadFailed, LoadRefused, Decide, EngineHeader,
       NotLoaded, IInv, Shape, TallyType, TallyFacts, Outcomes, StateType,
       FreshPoints
  <2>7. CASE RefreshUnavailable
    BY <2>7, Appended DEF RefreshUnavailable, LoadRefused, Decide,
       EngineHeader, NotLoaded, IInv, Shape, TallyType, TallyFacts, Outcomes,
       StateType, FreshPoints
  <2>8. CASE Unauthenticated
    BY <2>8, Appended DEF Unauthenticated, Sessionless, NotLoaded, Decide,
       EngineHeader, IInv, Shape, TallyType, TallyFacts, Outcomes, StateType,
       FreshPoints
  <2>9. CASE Anonymous
    BY <2>9, Appended DEF Anonymous, Sessionless, NotLoaded, Decide, Prepared,
       IInv, Shape, TallyType, TallyFacts, Outcomes, StateType, FreshPoints
  <2>10. CASE Forbidden
    BY <2>10, Appended DEF Forbidden, WithSession, Decide, EngineHeader, IInv,
       Shape, TallyType, TallyFacts, Outcomes, StateType, FreshPoints
  <2>11. CASE DeniedCommitReturns
    BY <2>11, Appended DEF DeniedCommitReturns, IInv, Shape, TallyType,
       TallyFacts, Outcomes, StateType, FreshPoints
  <2>12. CASE Authenticated
    BY <2>12, Appended DEF Authenticated, WithSession, Decide, Prepared, IInv,
       Shape, TallyType, TallyFacts, Outcomes, StateType, FreshPoints
  <2> QED BY <1>1, <2>1, <2>2, <2>3, <2>4, <2>5, <2>6, <2>7, <2>8, <2>9,
    <2>10, <2>11, <2>12 DEF RequestFilter
<1>2. CASE ForwardRequest
  BY <1>2, Appended DEF ForwardRequest, InnerQueuesResponse,
     InnerWritesDirectly, ForwardFails, ForwardHandled, ForwardProxied,
     ForwardQueued, AppHeader, StillUnwritten, IInv, Shape, TallyType,
     TallyFacts, Outcomes, StateType
<1>3. CASE Upstream
  BY <1>3, Appended DEF Upstream, CacheHit, AppHeader, UpstreamRequestFilter,
     UpstreamInterim, UpstreamResponds, UpstreamFails, IInv, Shape, TallyType,
     TallyFacts, Outcomes, StateType
<1>4. CASE ResponseFilter
  <2>1. CASE InnerResponseFilter
    BY <2>1, Appended DEF InnerResponseFilter, Discard, NoHeader, IInv, Shape,
       TallyType, TallyFacts, Outcomes, StateType
  <2>2. CASE FinalizeSkips
    BY <2>2, Appended DEF FinalizeSkips, PassesUntouched, IInv, Shape,
       TallyType, TallyFacts, Outcomes, StateType
  <2>3. CASE FinalizeClaims
    BY <2>3, Appended DEF FinalizeClaims, PassesUntouched, Drained,
       EndsSession, SavesSession, SessionCall, WithCookies, IInv, Shape,
       TallyType, TallyFacts, Outcomes, StateType
  <2>4. CASE TerminateReturns
    BY <2>4, Appended DEF TerminateReturns, WithCookies, ClearsFor, IInv,
       Shape, TallyType, TallyFacts, Outcomes, StateType
  <2>5. CASE CommitSucceeds
    BY <2>5, Appended DEF CommitSucceeds, WithCookies, IInv, Shape, TallyType,
       TallyFacts, Outcomes, StateType
  <2>6. CASE CommitFails
    BY <2>6, Appended DEF CommitFails, PolicyRejects, Discard, NoHeader, IInv,
       Shape, TallyType, TallyFacts, Outcomes, StateType
  <2>7. CASE RepeatFinalHeader
    BY <2>7, Appended DEF RepeatFinalHeader, IInv, Shape, TallyType,
       TallyFacts, Outcomes, StateType
  <2> QED BY <1>4, <2>1, <2>2, <2>3, <2>4, <2>5, <2>6, <2>7 DEF ResponseFilter
<1>5. CASE Write
  BY <1>5, Appended DEF Write, WriteInterim, NoHeader, WriteHeader,
     WriteHeaderFails, Discard, WriteBody, FailToProxy, IInv, Shape,
     TallyType, TallyFacts, Outcomes, StateType
<1>6. CASE Logging
  BY <1>6, Appended DEF Logging, LoggingSkips, LoggingClaims, Stranded,
     Drained, EndsSession, SavesSession, SessionCall, LoggingTerminateReturns,
     ProducedTooLate, ClearsFor, LoggingCommitReturns, InnerLogging, IInv,
     Shape, TallyType, TallyFacts, Outcomes, StateType
<1>7. CASE InnerRequestsTermination \/ Abort \/ Ended \/ UNCHANGED vars
  BY <1>7, Appended DEF InnerRequestsTermination, Abort, Ended, vars, IInv,
     Shape, TallyType, TallyFacts, Outcomes, StateType
<1> QED BY <1>1, <1>2, <1>3, <1>4, <1>5, <1>6, <1>7 DEF Next, Progress

\* Every step keeps the variables in their types.
LEMMA ShapeStep ==
    ASSUME IInv, [Next]_vars
    PROVE  Shape'
  BY ControlShape, ContextShape, CallShape, HeaderShape, ClientShape,
     LedgerShape, TallyShape DEF Shape

-----------------------------------------------------------------------------
(* The other conjuncts.  There is one lemma for each, with one step for     *)
(* each action; an action that moves cookies or claims obligations has a    *)
(* lemma of its own before it.                                              *)

\* Nothing happens before load_session answers but routing.
LEMMA FreshStep ==
    ASSUME IInv, [Next]_vars
    PROVE  Fresh'
<1>1. CASE RequestFilter
  BY <1>1 DEF RequestFilter, RouteDenied, Decide, EngineHeader, Preflight,
     ForwardUnloaded, PublicRoute, LoginRoute, LoadSession, LoadFailed,
     LoadRefused, NotLoaded, RefreshUnavailable, Unauthenticated, Sessionless,
     Anonymous, Prepared, Forbidden, WithSession, DeniedCommitReturns,
     Authenticated, IInv, Fresh, FreshPoints
<1>2. CASE ForwardRequest
  BY <1>2 DEF ForwardRequest, InnerQueuesResponse, InnerWritesDirectly,
     ForwardFails, ForwardHandled, ForwardProxied, ForwardQueued, AppHeader,
     StillUnwritten, IInv, Fresh, FreshPoints
<1>3. CASE Upstream
  BY <1>3 DEF Upstream, CacheHit, AppHeader, UpstreamRequestFilter,
     UpstreamInterim, UpstreamResponds, UpstreamFails, IInv, Fresh,
     FreshPoints
<1>4. CASE ResponseFilter
  BY <1>4 DEF ResponseFilter, InnerResponseFilter, Discard, NoHeader,
     FinalizeSkips, PassesUntouched, FinalizeClaims, Drained, EndsSession,
     SavesSession, SessionCall, WithCookies, TerminateReturns, ClearsFor,
     CommitSucceeds, CommitFails, PolicyRejects, RepeatFinalHeader, IInv,
     Fresh, FreshPoints
<1>5. CASE Write
  BY <1>5 DEF Write, WriteInterim, NoHeader, WriteHeader, WriteHeaderFails,
     Discard, WriteBody, FailToProxy, IInv, Fresh, FreshPoints
<1>6. CASE Logging
  BY <1>6 DEF Logging, LoggingSkips, LoggingClaims, Stranded, Drained,
     EndsSession, SavesSession, SessionCall, LoggingTerminateReturns,
     ProducedTooLate, ClearsFor, LoggingCommitReturns, InnerLogging, IInv,
     Fresh, FreshPoints
<1>7. CASE InnerRequestsTermination \/ Abort \/ Ended \/ UNCHANGED vars
  BY <1>7 DEF InnerRequestsTermination, InnerHooks, Abort, Ended, vars,
              IInv, Fresh, FreshPoints
<1> QED BY <1>1, <1>2, <1>3, <1>4, <1>5, <1>6, <1>7 DEF Next, Progress

\* The context holds what is owed until it is claimed: the steps that matter
\* are the two preparations, the two claims and the termination requests.
LEMMA ContextStep ==
    ASSUME IInv, [Next]_vars
    PROVE  ContextFacts' /\ LoadFacts'
<1>1. CASE RequestFilter
  <2>1. CASE RouteDenied
    BY <2>1 DEF RouteDenied, Decide, EngineHeader, IInv, Shape, LedgerType,
       LoadedSession, StateType, ContextFacts, LoadFacts, Open, Owed, Deferred
  <2>2. CASE Preflight
    BY <2>2 DEF Preflight, ForwardUnloaded, Decide, IInv, Shape, LedgerType,
       LoadedSession, StateType, ContextFacts, LoadFacts, Open, Owed, Deferred
  <2>3. CASE PublicRoute
    BY <2>3 DEF PublicRoute, ForwardUnloaded, Decide, IInv, Shape, LedgerType,
       LoadedSession, StateType, ContextFacts, LoadFacts, Open, Owed, Deferred
  <2>4. CASE LoginRoute
    BY <2>4 DEF LoginRoute, Decide, EngineHeader, IInv, Shape, LedgerType,
       LoadedSession, StateType, ContextFacts, LoadFacts, Open, Owed, Deferred
  <2>5. CASE LoadSession
    BY <2>5 DEF LoadSession, IInv, Shape, LedgerType, LoadedSession,
       StateType, ContextFacts, LoadFacts, Open, Owed, Deferred
  <2>6. CASE LoadFailed
    BY <2>6 DEF LoadFailed, LoadRefused, Decide, EngineHeader, NotLoaded,
       IInv, Shape, LedgerType, LoadedSession, StateType, ContextFacts,
       LoadFacts, Open, Owed, Deferred, Fresh, FreshPoints, DefaultState
  <2>7. CASE RefreshUnavailable
    BY <2>7 DEF RefreshUnavailable, LoadRefused, Decide, EngineHeader,
       NotLoaded, IInv, Shape, LedgerType, LoadedSession, StateType,
       ContextFacts, LoadFacts, Open, Owed, Deferred, Fresh, FreshPoints,
       DefaultState
  <2>8. CASE Unauthenticated
    BY <2>8 DEF Unauthenticated, Sessionless, NotLoaded, Decide, EngineHeader,
       IInv, Shape, LedgerType, LoadedSession, StateType, ContextFacts,
       LoadFacts, Open, Owed, Deferred, Fresh, FreshPoints, DefaultState
  <2>9. CASE Anonymous
    BY <2>9, ConstantsAssumption DEF Anonymous, Sessionless, NotLoaded,
       Decide, Prepared, IInv, Shape, LedgerType, LoadedSession, StateType,
       ContextFacts, LoadFacts, Open, Owed, Deferred, Fresh, FreshPoints,
       DefaultState
  <2>10. CASE Forbidden
    BY <2>10, ConstantsAssumption DEF Forbidden, WithSession, Decide,
       EngineHeader, IInv, Shape, LedgerType, LoadedSession, StateType,
       ContextFacts, LoadFacts, Open, Owed, Deferred, Fresh, FreshPoints,
       DefaultState
  <2>11. CASE DeniedCommitReturns
    BY <2>11 DEF DeniedCommitReturns, IInv, Shape, LedgerType, LoadedSession,
       StateType, ContextFacts, LoadFacts, Open, Owed, Deferred, PointFacts,
       AnswerFacts, AwaitingCall
  <2>12. CASE Authenticated
    BY <2>12, ConstantsAssumption DEF Authenticated, WithSession, Decide,
       Prepared, IInv, Shape, LedgerType, LoadedSession, StateType,
       ContextFacts, LoadFacts, Open, Owed, Deferred, Fresh, FreshPoints,
       DefaultState
  <2> QED BY <1>1, <2>1, <2>2, <2>3, <2>4, <2>5, <2>6, <2>7, <2>8, <2>9,
    <2>10, <2>11, <2>12 DEF RequestFilter
<1>2. CASE ForwardRequest
  BY <1>2 DEF ForwardRequest, InnerQueuesResponse, InnerWritesDirectly,
     ForwardFails, ForwardHandled, ForwardProxied, ForwardQueued, AppHeader,
     StillUnwritten, IInv, Shape, LedgerType, LoadedSession, StateType,
     ContextFacts, LoadFacts, Open, Owed, Deferred
<1>3. CASE Upstream
  BY <1>3 DEF Upstream, CacheHit, AppHeader, UpstreamRequestFilter,
     UpstreamInterim, UpstreamResponds, UpstreamFails, IInv, Shape,
     LedgerType, LoadedSession, StateType, ContextFacts, LoadFacts, Open,
     Owed, Deferred
<1>4. CASE ResponseFilter
  <2>1. CASE InnerResponseFilter
    BY <2>1 DEF InnerResponseFilter, Discard, NoHeader, IInv, Shape,
       LedgerType, LoadedSession, StateType, ContextFacts, LoadFacts, Open,
       Owed, Deferred
  <2>2. CASE FinalizeSkips
    BY <2>2 DEF FinalizeSkips, PassesUntouched, IInv, Shape, LedgerType,
       LoadedSession, StateType, ContextFacts, LoadFacts, Open, Owed, Deferred
  <2>3. CASE FinalizeClaims
    BY <2>3 DEF FinalizeClaims, PassesUntouched, Drained, EndsSession,
       SavesSession, SessionCall, WithCookies, IInv, Shape, LedgerType,
       LoadedSession, StateType, ContextFacts, LoadFacts, Open, Owed, Deferred
  <2>4. CASE TerminateReturns
    BY <2>4 DEF TerminateReturns, WithCookies, ClearsFor, IInv, Shape,
       LedgerType, LoadedSession, StateType, ContextFacts, LoadFacts, Open,
       Owed, Deferred, PointFacts, AnswerFacts, AwaitingCall
  <2>5. CASE CommitSucceeds
    BY <2>5 DEF CommitSucceeds, WithCookies, IInv, Shape, LedgerType,
       LoadedSession, StateType, ContextFacts, LoadFacts, Open, Owed,
       Deferred, PointFacts, AnswerFacts, AwaitingCall
  <2>6. CASE CommitFails
    BY <2>6 DEF CommitFails, PolicyRejects, Discard, NoHeader, IInv, Shape,
       LedgerType, LoadedSession, StateType, ContextFacts, LoadFacts, Open,
       Owed, Deferred, PointFacts, AnswerFacts, AwaitingCall
  <2>7. CASE RepeatFinalHeader
    BY <2>7 DEF RepeatFinalHeader, IInv, Shape, LedgerType, LoadedSession,
       StateType, ContextFacts, LoadFacts, Open, Owed, Deferred
  <2> QED BY <1>4, <2>1, <2>2, <2>3, <2>4, <2>5, <2>6, <2>7 DEF ResponseFilter
<1>5. CASE Write
  BY <1>5 DEF Write, WriteInterim, NoHeader, WriteHeader, WriteHeaderFails,
     Discard, WriteBody, FailToProxy, IInv, Shape, LedgerType, LoadedSession,
     StateType, ContextFacts, LoadFacts, Open, Owed, Deferred
<1>6. CASE Logging
  <2>1. CASE LoggingSkips
    BY <2>1 DEF LoggingSkips, IInv, Shape, LedgerType, LoadedSession,
       StateType, ContextFacts, LoadFacts, Open, Owed, Deferred
  <2>2. CASE LoggingClaims
    BY <2>2 DEF LoggingClaims, Stranded, Drained, EndsSession, SavesSession,
       SessionCall, IInv, Shape, LedgerType, LoadedSession, StateType,
       ContextFacts, LoadFacts, Open, Owed, Deferred
  <2>3. CASE LoggingTerminateReturns
    BY <2>3 DEF LoggingTerminateReturns, ProducedTooLate, Stranded, ClearsFor,
       IInv, Shape, LedgerType, LoadedSession, StateType, ContextFacts,
       LoadFacts, Open, Owed, Deferred, PointFacts, AnswerFacts, AwaitingCall
  <2>4. CASE LoggingCommitReturns
    BY <2>4 DEF LoggingCommitReturns, ProducedTooLate, Stranded, IInv, Shape,
       LedgerType, LoadedSession, StateType, ContextFacts, LoadFacts, Open,
       Owed, Deferred, PointFacts, AnswerFacts, AwaitingCall
  <2>5. CASE InnerLogging
    BY <2>5 DEF InnerLogging, IInv, Shape, LedgerType, LoadedSession,
       StateType, ContextFacts, LoadFacts, Open, Owed, Deferred
  <2> QED BY <1>6, <2>1, <2>2, <2>3, <2>4, <2>5 DEF Logging
<1>7. CASE InnerRequestsTermination \/ Abort \/ Ended \/ UNCHANGED vars
  BY <1>7 DEF InnerRequestsTermination, Abort, Ended, vars, IInv, Shape,
     LedgerType, LoadedSession, StateType, ContextFacts, LoadFacts, Open,
     Owed, Deferred
<1> QED BY <1>1, <1>2, <1>3, <1>4, <1>5, <1>6, <1>7 DEF Next, Progress

\* A call is only made where none was made before, and as it was owed.
LEMMA CallStep ==
    ASSUME IInv, [Next]_vars
    PROVE  CallFacts'
<1>1. CASE RequestFilter
  <2>1. CASE RouteDenied
    BY <2>1 DEF RouteDenied, Decide, EngineHeader, IInv, CallFacts,
       ContextFacts, Open, Deferred, Owed, Shape, CallsType, Calls
  <2>2. CASE Preflight
    BY <2>2 DEF Preflight, ForwardUnloaded, Decide, IInv, CallFacts,
       ContextFacts, Open, Deferred, Owed, Shape, CallsType, Calls
  <2>3. CASE PublicRoute
    BY <2>3 DEF PublicRoute, ForwardUnloaded, Decide, IInv, CallFacts,
       ContextFacts, Open, Deferred, Owed, Shape, CallsType, Calls
  <2>4. CASE LoginRoute
    BY <2>4 DEF LoginRoute, Decide, EngineHeader, IInv, CallFacts,
       ContextFacts, Open, Deferred, Owed, Shape, CallsType, Calls
  <2>5. CASE LoadSession
    BY <2>5 DEF LoadSession, IInv, CallFacts, ContextFacts, Open, Deferred,
       Owed, Shape, CallsType, Calls
  <2>6. CASE LoadFailed
    BY <2>6 DEF LoadFailed, LoadRefused, Decide, EngineHeader, NotLoaded,
       IInv, CallFacts, ContextFacts, Open, Deferred, Owed, Shape, CallsType,
       Calls, Fresh, FreshPoints
  <2>7. CASE RefreshUnavailable
    BY <2>7 DEF RefreshUnavailable, LoadRefused, Decide, EngineHeader,
       NotLoaded, IInv, CallFacts, ContextFacts, Open, Deferred, Owed, Shape,
       CallsType, Calls, Fresh, FreshPoints
  <2>8. CASE Unauthenticated
    BY <2>8 DEF Unauthenticated, Sessionless, NotLoaded, Decide, EngineHeader,
       IInv, CallFacts, ContextFacts, Open, Deferred, Owed, Shape, CallsType,
       Calls, Fresh, FreshPoints
  <2>9. CASE Anonymous
    BY <2>9 DEF Anonymous, Sessionless, NotLoaded, Decide, Prepared, IInv,
       CallFacts, ContextFacts, Open, Deferred, Owed, Shape, CallsType, Calls,
       Fresh, FreshPoints
  <2>10. CASE Forbidden
    BY <2>10, ConstantsAssumption DEF Forbidden, WithSession, Decide,
       EngineHeader, IInv, CallFacts, ContextFacts, Open, Deferred, Owed,
       Shape, CallsType, Calls, Fresh, FreshPoints, DefaultState
  <2>11. CASE DeniedCommitReturns
    BY <2>11 DEF DeniedCommitReturns, IInv, CallFacts, ContextFacts, Open,
       Deferred, Owed, Shape, CallsType, Calls
  <2>12. CASE Authenticated
    BY <2>12 DEF Authenticated, WithSession, Decide, Prepared, IInv,
       CallFacts, ContextFacts, Open, Deferred, Owed, Shape, CallsType, Calls,
       Fresh, FreshPoints
  <2> QED BY <1>1, <2>1, <2>2, <2>3, <2>4, <2>5, <2>6, <2>7, <2>8, <2>9,
    <2>10, <2>11, <2>12 DEF RequestFilter
<1>2. CASE ForwardRequest
  BY <1>2 DEF ForwardRequest, InnerQueuesResponse, InnerWritesDirectly,
     ForwardFails, ForwardHandled, ForwardProxied, ForwardQueued, AppHeader,
     StillUnwritten, IInv, CallFacts, ContextFacts, Open, Deferred, Owed,
     Shape, CallsType, Calls
<1>3. CASE Upstream
  BY <1>3 DEF Upstream, CacheHit, AppHeader, UpstreamRequestFilter,
     UpstreamInterim, UpstreamResponds, UpstreamFails, IInv, CallFacts,
     ContextFacts, Open, Deferred, Owed, Shape, CallsType, Calls
<1>4. CASE ResponseFilter
  <2>1. CASE InnerResponseFilter
    BY <2>1 DEF InnerResponseFilter, Discard, NoHeader, IInv, CallFacts,
       ContextFacts, Open, Deferred, Owed, Shape, CallsType, Calls
  <2>2. CASE FinalizeSkips
    BY <2>2 DEF FinalizeSkips, PassesUntouched, IInv, CallFacts, ContextFacts,
       Open, Deferred, Owed, Shape, CallsType, Calls
  <2>3. CASE FinalizeClaims
    BY <2>3, ConstantsAssumption DEF FinalizeClaims, PassesUntouched, Drained,
       EndsSession, SavesSession, SessionCall, WithCookies, IInv, CallFacts,
       ContextFacts, Open, Deferred, Owed, Shape, CallsType, Calls, StateType,
       LoadFacts
  <2>4. CASE TerminateReturns
    BY <2>4 DEF TerminateReturns, WithCookies, ClearsFor, IInv, CallFacts,
       ContextFacts, Open, Deferred, Owed, Shape, CallsType, Calls
  <2>5. CASE CommitSucceeds
    BY <2>5 DEF CommitSucceeds, WithCookies, IInv, CallFacts, ContextFacts,
       Open, Deferred, Owed, Shape, CallsType, Calls
  <2>6. CASE CommitFails
    BY <2>6 DEF CommitFails, PolicyRejects, Discard, NoHeader, IInv,
       CallFacts, ContextFacts, Open, Deferred, Owed, Shape, CallsType, Calls
  <2>7. CASE RepeatFinalHeader
    BY <2>7 DEF RepeatFinalHeader, IInv, CallFacts, ContextFacts, Open,
       Deferred, Owed, Shape, CallsType, Calls
  <2> QED BY <1>4, <2>1, <2>2, <2>3, <2>4, <2>5, <2>6, <2>7 DEF ResponseFilter
<1>5. CASE Write
  <2>1. CASE WriteInterim
    BY <2>1 DEF WriteInterim, NoHeader, IInv, CallFacts, ContextFacts, Open,
       Deferred, Owed, Shape, CallsType, Calls
  <2>2. CASE WriteHeader
    BY <2>2 DEF WriteHeader, NoHeader, IInv, CallFacts, ContextFacts, Open,
       Deferred, Owed, Shape, CallsType, Calls
  <2>3. CASE WriteHeaderFails
    BY <2>3 DEF WriteHeaderFails, Discard, NoHeader, IInv, CallFacts,
       ContextFacts, Open, Deferred, Owed, Shape, CallsType, Calls
  <2>4. CASE WriteBody
    BY <2>4 DEF WriteBody, IInv, CallFacts, ContextFacts, Open, Deferred,
       Owed, Shape, CallsType, Calls
  <2>5. CASE FailToProxy
    BY <2>5 DEF FailToProxy, IInv, CallFacts, ContextFacts, Open, Deferred,
       Owed, Shape, CallsType, Calls
  <2> QED BY <1>5, <2>1, <2>2, <2>3, <2>4, <2>5 DEF Write
<1>6. CASE Logging
  <2>1. CASE LoggingSkips
    BY <2>1 DEF LoggingSkips, IInv, CallFacts, ContextFacts, Open, Deferred,
       Owed, Shape, CallsType, Calls
  <2>2. CASE LoggingClaims
    BY <2>2, ConstantsAssumption DEF LoggingClaims, Stranded, Drained,
       EndsSession, SavesSession, SessionCall, IInv, CallFacts, ContextFacts,
       Open, Deferred, Owed, Shape, CallsType, Calls, StateType, LoadFacts
  <2>3. CASE LoggingTerminateReturns
    BY <2>3 DEF LoggingTerminateReturns, ProducedTooLate, Stranded, ClearsFor,
       IInv, CallFacts, ContextFacts, Open, Deferred, Owed, Shape, CallsType,
       Calls
  <2>4. CASE LoggingCommitReturns
    BY <2>4 DEF LoggingCommitReturns, ProducedTooLate, Stranded, IInv,
       CallFacts, ContextFacts, Open, Deferred, Owed, Shape, CallsType, Calls
  <2>5. CASE InnerLogging
    BY <2>5 DEF InnerLogging, IInv, CallFacts, ContextFacts, Open, Deferred,
       Owed, Shape, CallsType, Calls
  <2> QED BY <1>6, <2>1, <2>2, <2>3, <2>4, <2>5 DEF Logging
<1>7. CASE InnerRequestsTermination \/ Abort \/ Ended \/ UNCHANGED vars
  BY <1>7 DEF InnerRequestsTermination, Abort, Ended, vars, IInv, CallFacts,
     ContextFacts, Open, Deferred, Owed, Shape, CallsType, Calls
<1> QED BY <1>1, <1>2, <1>3, <1>4, <1>5, <1>6, <1>7 DEF Next, Progress

-----------------------------------------------------------------------------
\* What a call returns before the header is written joins the header's bundles.
LEMMA HeaderTakesReturn ==
    ASSUME IInv, DeniedCommitReturns \/ TerminateReturns \/ CommitSucceeds
    PROVE  /\ header.cookies = Bundle /\ header'.cookies = Bundle'
         /\ UNCHANGED <<state, loaded, client>>
         /\ ledger'.stranded = ledger.stranded
         /\ ledger'.discarded = ledger.discarded
<1>1. /\ pc \in {"denied_commit", "terminate", "commit"}
      /\ header.cookies = Bundle /\ header \in HeaderType
      /\ ledger \in LedgerType
      /\ ledger.produced = <<>> /\ UNCHANGED <<state, loaded, client>>
  BY DEF IInv, Shape, PlaceFacts, PointFacts, AnswerFacts, AwaitingCall,
     DeniedCommitReturns, TerminateReturns, CommitSucceeds
<1>2. \/ header' = header /\ ledger' = ledger
      \/ \E b \in {<<>>, <<"commit">>, <<"clear">>} :
           /\ header' = [header EXCEPT !.cookies = @ \o b]
                \/ header' = WithCookies(header, b)
           /\ ledger' = [ledger EXCEPT !.produced = @ \o b]
           /\ b = <<"commit">> => pc # "terminate"
  BY DEF DeniedCommitReturns, TerminateReturns, CommitSucceeds, ClearsFor
<1>3. CASE header' = header /\ ledger' = ledger
  BY <1>1, <1>3, BundleKept
<1>4. ASSUME NEW b \in {<<>>, <<"commit">>, <<"clear">>},
             header' = [header EXCEPT !.cookies = @ \o b]
               \/ header' = WithCookies(header, b),
             ledger' = [ledger EXCEPT !.produced = @ \o b],
             b = <<"commit">> => pc # "terminate"
      PROVE  /\ header'.cookies = Bundle'
             /\ ledger'.stranded = ledger.stranded
             /\ ledger'.discarded = ledger.discarded
  <2>1. header'.cookies = Bundle \o b
    BY <1>1, <1>4, BundleCases, Concatenated DEF WithCookies, HeaderType
  <2>2. b = <<"commit">> => Deferred
    BY <1>1, <1>4 DEF IInv, AnswerFacts, AwaitingCall, CallFacts
  <2>3. /\ ledger'.produced = ledger.produced \o b
        /\ ledger'.stranded = ledger.stranded
        /\ ledger'.discarded = ledger.discarded
    BY <1>1, <1>4 DEF LedgerType
  <2> QED BY <1>1, <2>1, <2>2, <2>3, ReturnedBundle
<1> QED BY <1>1, <1>2, <1>3, <1>4

\* What a call returns in logging joins the stranded bundles.
LEMMA StrandedTakesReturn ==
    ASSUME IInv, LoggingTerminateReturns \/ LoggingCommitReturns
    PROVE  /\ ledger.stranded = Bundle /\ ledger'.stranded = Bundle'
         /\ UNCHANGED <<state, loaded, client, header>>
         /\ ledger'.discarded = ledger.discarded
<1>1. /\ pc \in {"logging_terminate", "logging_commit"}
      /\ ledger.stranded = Bundle /\ ledger \in LedgerType
      /\ ledger.produced = <<>> /\ UNCHANGED <<state, loaded, client, header>>
  BY DEF IInv, Shape, PlaceFacts, AnswerFacts, AwaitingCall,
     LoggingTerminateReturns, LoggingCommitReturns
<1>2. \/ ledger' = ledger
      \/ \E b \in {<<>>, <<"commit">>, <<"clear">>} :
           ProducedTooLate(b) /\ (b = <<"commit">> => pc = "logging_commit")
  BY DEF LoggingTerminateReturns, LoggingCommitReturns, ClearsFor
<1>3. CASE ledger' = ledger
  BY <1>1, <1>3, BundleKept
<1>4. ASSUME NEW b \in {<<>>, <<"commit">>, <<"clear">>},
             ProducedTooLate(b), b = <<"commit">> => pc = "logging_commit"
      PROVE  ledger'.stranded = Bundle'
               /\ ledger'.discarded = ledger.discarded
  <2>1. /\ ledger'.stranded = Bundle \o b
        /\ ledger'.discarded = ledger.discarded
        /\ ledger'.produced = ledger.produced \o b
    BY <1>1, <1>4 DEF ProducedTooLate, Stranded, LedgerType
  <2>2. b = <<"commit">> => Deferred
    BY <1>1, <1>4 DEF IInv, AnswerFacts, AwaitingCall, CallFacts
  <2> QED BY <1>1, <2>1, <2>2, ReturnedBundle
<1> QED BY <1>1, <1>2, <1>3, <1>4

\* A dropped header takes the bundles it carries along.
LEMMA DiscardConserves ==
    ASSUME IInv, Discard, header' = NoHeader, state' = state,
             loaded' = loaded,
         client'.cookies = client.cookies,
         pc' \notin Unanswered \cup {"inner_request_filter"}
    PROVE  Conserved'
<1>1. header.cookies \in BundleLists /\ ledger \in LedgerType
  BY DEF IInv, Shape, HeaderType
<1>2. /\ ledger'.produced = ledger.produced
      /\ ledger'.stranded = ledger.stranded
      /\ ledger'.discarded = ledger.discarded \o header.cookies
  BY <1>1 DEF Discard, LedgerType
<1>3. Bundle' = Bundle
  BY <1>2, BundleKept
<1>4. header'.cookies = <<>>
  BY DEF NoHeader
<1>5. ledger.discarded \in BundleLists
  BY <1>1 DEF LedgerType
<1>6. header.cookies = <<>> => ledger'.discarded = ledger.discarded
  BY <1>2, <1>5, Concatenated
<1>7. ledger.discarded = <<>> => ledger'.discarded = header.cookies
  BY <1>1, <1>2, Concatenated
<1> QED BY <1>2, <1>3, <1>4, <1>6, <1>7 DEF IInv, Conserved, Places

\* An engine-authored answer carries the bundle of the load.
LEMMA ConservedByRefusal ==
    ASSUME IInv,
           RouteDenied \/ LoginRoute \/ LoadFailed \/ RefreshUnavailable
             \/ Unauthenticated \/ Forbidden
    PROVE  Conserved'
<1>1. /\ pc \in FreshPoints /\ UNCHANGED <<state, client, ledger>>
      /\ state.set_cookies = <<>> /\ ~state.finalized /\ client.cookies = <<>>
      /\ loaded'.set_cookies \in {<<>>, <<"load">>}
      /\ header' = EngineHeader(loaded'.set_cookies)
  BY DEF IInv, Fresh, DefaultState, PlaceFacts, FreshPoints, RouteDenied,
     LoginRoute, LoadFailed, RefreshUnavailable, LoadRefused, NotLoaded,
     Unauthenticated, Forbidden, Sessionless, WithSession
<1>2. Bundle' = loaded'.set_cookies
  BY <1>1, LoadBundle
<1>3. ledger.stranded = <<>> /\ ledger.discarded = <<>>
  BY <1>1 DEF IInv, Conserved, FreshPoints, Unanswered
<1> QED BY <1>1, <1>2, <1>3 DEF Conserved, Places, EngineHeader

\* The prepared context owes the bundle of the load.
LEMMA ConservedByPreparation ==
    ASSUME IInv, Anonymous \/ Authenticated
    PROVE  Conserved'
<1>1. /\ pc \in FreshPoints /\ UNCHANGED <<header, client, ledger>>
      /\ header.cookies = <<>>
      /\ client.cookies = <<>> /\ ~state.finalized /\ state \in StateType
  BY DEF IInv, Shape, Fresh, DefaultState, NoHeader, PlaceFacts, FreshPoints,
     Anonymous, Authenticated
<1>4. loaded'.set_cookies \in {<<>>, <<"load">>}
  BY DEF NotLoaded, Anonymous, Authenticated, Sessionless, WithSession
<1>5. state'.set_cookies = loaded'.set_cookies
  BY <1>1 DEF StateType, Prepared, Anonymous, Authenticated
<1>2. Bundle' = loaded'.set_cookies
  BY <1>1, <1>4, LoadBundle
<1>3. ledger.stranded = <<>> /\ ledger.discarded = <<>>
  BY <1>1 DEF IInv, Conserved, FreshPoints, Unanswered
<1> QED BY <1>1, <1>2, <1>3, <1>5 DEF Conserved, Places

\* A header that enters response_filter carries none.
LEMMA ConservedByNewHeader ==
    ASSUME IInv,
           ForwardQueued \/ CacheHit \/ UpstreamInterim \/ UpstreamResponds
    PROVE  Conserved'
<1>1. /\ pc \in Unanswered \cup {"inner_request_filter"}
      /\ header.cookies = <<>> /\ header'.cookies = <<>>
      /\ state'.set_cookies = state.set_cookies
      /\ state'.finalized = state.finalized /\ ~state.finalized
      /\ UNCHANGED <<client, ledger, loaded>>
  BY DEF IInv, PointFacts, UnclaimedPoints, NoHeader, Shape, StateType,
     Unanswered, ForwardQueued, CacheHit, UpstreamInterim, UpstreamResponds,
     AppHeader
<1>2. Bundle' = Bundle
  BY <1>1, BundleKept
<1> QED BY <1>1, <1>2 DEF IInv, Conserved, Places

\* A returned bundle goes where the others are.
LEMMA ConservedByReturn ==
    ASSUME IInv, DeniedCommitReturns \/ TerminateReturns \/ CommitSucceeds
    PROVE  Conserved'
<1>1. (~state.finalized => ledger.stranded = <<>> /\ ledger.discarded = <<>>)
  BY DEF DeniedCommitReturns, TerminateReturns, CommitSucceeds, IInv,
     Conserved, Unanswered
<1> QED BY <1>1, HeaderTakesReturn DEF IInv, Conserved, Places

\* A failing hook, a refused commit or a failing write drops the header.
LEMMA ConservedByFailure ==
    ASSUME IInv, InnerResponseFilter \/ CommitFails \/ WriteHeaderFails
    PROVE  Conserved'
<1>0. /\ pc \in Unanswered /\ client'.cookies = client.cookies
      /\ state' = state /\ loaded' = loaded
  BY DEF InnerResponseFilter, CommitFails, WriteHeaderFails, Unanswered,
     FilterPoints, IInv, Shape, ClientType
<1>1. CASE Discard /\ header' = NoHeader /\ pc' = "fail_to_proxy"
  BY <1>0, <1>1, DiscardConserves DEF Unanswered, FreshPoints, FilterPoints
<1>2. CASE UNCHANGED <<header, ledger>>
  BY <1>0, <1>2, BundleKept DEF IInv, Conserved, Places
<1> QED BY <1>1, <1>2 DEF InnerResponseFilter, CommitFails, WriteHeaderFails

\* Finalization moves what the context owes to the header.
LEMMA ConservedByFinalization ==
    ASSUME IInv, FinalizeClaims
    PROVE  Conserved'
<1>1. /\ pc = "finalize_response" /\ client' = client /\ ledger' = ledger
      /\ loaded' = loaded
      /\ header.cookies = <<>> /\ header \in HeaderType
      /\ state.set_cookies \in {<<>>, <<"load">>}
      /\ state'.set_cookies = <<>> /\ state'.finalized
  BY DEF IInv, Shape, StateType, PointFacts, FilterPoints, FinalizeClaims,
     PassesUntouched, Drained
<1>2. header'.cookies = state.set_cookies
  BY <1>1, Concatenated DEF FinalizeClaims, WithCookies, HeaderType,
     BundleLists
<1>3. Bundle' = Bundle
  BY <1>1, BundleKept
<1> QED BY <1>1, <1>2, <1>3 DEF IInv, Conserved, Places

\* Writing moves the header's bundles to the client.
LEMMA ConservedByWrite ==
    ASSUME IInv, WriteInterim \/ WriteHeader
    PROVE  Conserved'
<1>1. /\ pc = "write_header" /\ client.cookies = <<>>
      /\ header'.cookies = <<>>
      /\ UNCHANGED <<state, loaded, ledger>> /\ client \in ClientType
  BY DEF IInv, Shape, PlaceFacts, ClientFacts, Unanswered, NoHeader,
     WriteInterim, WriteHeader
<1>2. client'.cookies = header.cookies
  BY <1>1 DEF IInv, PointFacts, WriteInterim, WriteHeader, ClientType
<1>3. Bundle' = Bundle
  BY <1>1, BundleKept
<1> QED
  BY <1>1, <1>2, <1>3 DEF IInv, Conserved, Places, Unanswered, WriteHeader,
     WriteInterim

\* The fallback strands what the context still owes.
LEMMA ConservedByLogging ==
    ASSUME IInv, LoggingClaims
    PROVE  Conserved'
<1>1. /\ pc = "logging" /\ ledger \in LedgerType
      /\ UNCHANGED <<header, client, loaded>>
      /\ state'.set_cookies = <<>> /\ state'.finalized
      /\ state.set_cookies \in {<<>>, <<"load">>}
  BY DEF IInv, Shape, StateType, LoggingClaims, Drained
<1>2. /\ ledger'.produced = ledger.produced
      /\ ledger'.discarded = ledger.discarded
      /\ ledger'.stranded = ledger.stranded \o state.set_cookies
  BY <1>1 DEF LoggingClaims, Stranded, LedgerType
<1>3. Bundle' = Bundle
  BY <1>1, <1>2, BundleKept
<1>4. ledger.stranded \in BundleLists /\ state.set_cookies \in BundleLists
  BY <1>1 DEF LedgerType, BundleLists
<1>5. state.set_cookies = <<>> => ledger'.stranded = ledger.stranded
  BY <1>2, <1>4, Concatenated
<1>6. ledger.stranded = <<>> => ledger'.stranded = state.set_cookies
  BY <1>2, <1>4, Concatenated
<1> QED BY <1>1, <1>2, <1>3, <1>5, <1>6 DEF IInv, Conserved, Places

\* A bundle returned in logging is stranded.
LEMMA ConservedByLateReturn ==
    ASSUME IInv, LoggingTerminateReturns \/ LoggingCommitReturns
    PROVE  Conserved'
<1>1. state.finalized
  BY DEF LoggingTerminateReturns, LoggingCommitReturns, IInv, PointFacts
<1> QED BY <1>1, StrandedTakesReturn DEF IInv, Conserved, Places

\* Every bundle stays in one place or moves to another.
LEMMA ConservedStep ==
    ASSUME IInv, [Next]_vars
    PROVE  Conserved'
<1>1. CASE RequestFilter
  <2>1. CASE RouteDenied
    BY <2>1, ConservedByRefusal
  <2>2. CASE Preflight
    BY <2>2, BundleKept DEF Preflight, ForwardUnloaded, Decide, IInv,
       Conserved, Places, Unanswered, FreshPoints, FilterPoints
  <2>3. CASE PublicRoute
    BY <2>3, BundleKept DEF PublicRoute, ForwardUnloaded, Decide, IInv,
       Conserved, Places, Unanswered, FreshPoints, FilterPoints
  <2>4. CASE LoginRoute
    BY <2>4, ConservedByRefusal
  <2>5. CASE LoadSession
    BY <2>5, BundleKept DEF LoadSession, IInv, Conserved, Places, Unanswered,
       FreshPoints, FilterPoints
  <2>6. CASE LoadFailed
    BY <2>6, ConservedByRefusal
  <2>7. CASE RefreshUnavailable
    BY <2>7, ConservedByRefusal
  <2>8. CASE Unauthenticated
    BY <2>8, ConservedByRefusal
  <2>9. CASE Anonymous
    BY <2>9, ConservedByPreparation
  <2>10. CASE Forbidden
    BY <2>10, ConservedByRefusal
  <2>11. CASE DeniedCommitReturns
    BY <2>11, ConservedByReturn
  <2>12. CASE Authenticated
    BY <2>12, ConservedByPreparation
  <2> QED BY <1>1, <2>1, <2>2, <2>3, <2>4, <2>5, <2>6, <2>7, <2>8, <2>9,
    <2>10, <2>11, <2>12 DEF RequestFilter
<1>2. CASE ForwardRequest
  <2>1. CASE InnerQueuesResponse
    BY <2>1, BundleKept DEF InnerQueuesResponse, IInv, Conserved, Places,
       Unanswered, FreshPoints, FilterPoints, Shape, StateType, ClientType
  <2>2. CASE InnerWritesDirectly
    BY <2>2, BundleKept DEF InnerWritesDirectly, IInv, Conserved, Places,
       Unanswered, FreshPoints, FilterPoints, Shape, StateType, ClientType
  <2>3. CASE ForwardFails
    BY <2>3, BundleKept DEF ForwardFails, IInv, Conserved, Places, Unanswered,
       FreshPoints, FilterPoints, Shape, StateType, ClientType
  <2>4. CASE ForwardHandled
    BY <2>4, BundleKept DEF ForwardHandled, IInv, Conserved, Places,
       Unanswered, FreshPoints, FilterPoints
  <2>5. CASE ForwardProxied
    BY <2>5, BundleKept DEF ForwardProxied, IInv, Conserved, Places,
       Unanswered, FreshPoints, FilterPoints
  <2>6. CASE ForwardQueued
    BY <2>6, ConservedByNewHeader
  <2> QED BY <1>2, <2>1, <2>2, <2>3, <2>4, <2>5, <2>6 DEF ForwardRequest
<1>3. CASE Upstream
  <2>1. CASE CacheHit
    BY <2>1, ConservedByNewHeader
  <2>2. CASE UpstreamRequestFilter
    BY <2>2, BundleKept DEF UpstreamRequestFilter, IInv, Conserved, Places,
       Unanswered, FreshPoints, FilterPoints
  <2>3. CASE UpstreamInterim
    BY <2>3, ConservedByNewHeader
  <2>4. CASE UpstreamResponds
    BY <2>4, ConservedByNewHeader
  <2>5. CASE UpstreamFails
    BY <2>5, BundleKept DEF UpstreamFails, IInv, Conserved, Places,
       Unanswered, FreshPoints, FilterPoints
  <2> QED BY <1>3, <2>1, <2>2, <2>3, <2>4, <2>5 DEF Upstream
<1>4. CASE ResponseFilter
  <2>1. CASE InnerResponseFilter
    BY <2>1, ConservedByFailure
  <2>2. CASE FinalizeSkips
    BY <2>2, BundleKept DEF FinalizeSkips, PassesUntouched, IInv, Conserved,
       Places, Unanswered, FreshPoints, FilterPoints
  <2>3. CASE FinalizeClaims
    BY <2>3, ConservedByFinalization
  <2>4. CASE TerminateReturns
    BY <2>4, ConservedByReturn
  <2>5. CASE CommitSucceeds
    BY <2>5, ConservedByReturn
  <2>6. CASE CommitFails
    BY <2>6, ConservedByFailure
  <2>7. CASE RepeatFinalHeader
    BY <2>7, BundleKept DEF RepeatFinalHeader, IInv, Conserved, Places,
       Unanswered, FreshPoints, FilterPoints
  <2> QED BY <1>4, <2>1, <2>2, <2>3, <2>4, <2>5, <2>6, <2>7 DEF ResponseFilter
<1>5. CASE Write
  <2>1. CASE WriteInterim
    BY <2>1, ConservedByWrite
  <2>2. CASE WriteHeader
    BY <2>2, ConservedByWrite
  <2>3. CASE WriteHeaderFails
    BY <2>3, ConservedByFailure
  <2>4. CASE WriteBody
    BY <2>4, BundleKept DEF WriteBody, IInv, Conserved, Places, Unanswered,
       FreshPoints, FilterPoints, Shape, StateType, ClientType
  <2>5. CASE FailToProxy
    BY <2>5, BundleKept DEF FailToProxy, IInv, Conserved, Places, Unanswered,
       FreshPoints, FilterPoints, Shape, StateType, ClientType
  <2> QED BY <1>5, <2>1, <2>2, <2>3, <2>4, <2>5 DEF Write
<1>6. CASE Logging
  <2>1. CASE LoggingSkips
    BY <2>1, BundleKept DEF LoggingSkips, IInv, Conserved, Places, Unanswered,
       FreshPoints, FilterPoints
  <2>2. CASE LoggingClaims
    BY <2>2, ConservedByLogging
  <2>3. CASE LoggingTerminateReturns
    BY <2>3, ConservedByLateReturn
  <2>4. CASE LoggingCommitReturns
    BY <2>4, ConservedByLateReturn
  <2>5. CASE InnerLogging
    BY <2>5, BundleKept DEF InnerLogging, IInv, Conserved, Places, Unanswered,
       FreshPoints, FilterPoints
  <2> QED BY <1>6, <2>1, <2>2, <2>3, <2>4, <2>5 DEF Logging
<1>7. CASE InnerRequestsTermination \/ Abort \/ Ended \/ UNCHANGED vars
  <2>1. CASE InnerRequestsTermination
    BY <2>1, BundleKept DEF InnerRequestsTermination, IInv, Conserved, Places,
       Unanswered, FreshPoints, FilterPoints, Shape, StateType, ClientType
  <2>2. CASE Abort
    BY <2>2, BundleKept DEF Abort, IInv, Conserved, Places, Unanswered,
       FreshPoints, FilterPoints
  <2>3. CASE Ended
    BY <2>3, BundleKept DEF Ended, vars, IInv, Conserved, Places, Unanswered,
       FreshPoints, FilterPoints
  <2>4. CASE UNCHANGED vars
    BY <2>4, BundleKept DEF vars, IInv, Conserved, Places, Unanswered,
       FreshPoints, FilterPoints
  <2> QED BY <1>7, <2>1, <2>2, <2>3, <2>4
<1> QED BY <1>1, <1>2, <1>3, <1>4, <1>5, <1>6, <1>7 DEF Next, Progress

-----------------------------------------------------------------------------
\* Where the task is tells what was claimed and which header it holds.
LEMMA PointStep ==
    ASSUME IInv, [Next]_vars
    PROVE  PointFacts'
<1>1. CASE RequestFilter
  <2>1. CASE RouteDenied
    BY <2>1 DEF RouteDenied, Decide, EngineHeader, IInv, Shape, StateType,
       HeaderType, PointFacts, FilterPoints, UnclaimedPoints, Fresh,
       FreshPoints, DefaultState, NotLoaded, NoHeader
  <2>2. CASE Preflight
    BY <2>2 DEF Preflight, ForwardUnloaded, Decide, IInv, Shape, StateType,
       HeaderType, PointFacts, FilterPoints, UnclaimedPoints, Fresh,
       FreshPoints, DefaultState, NotLoaded, NoHeader
  <2>3. CASE PublicRoute
    BY <2>3 DEF PublicRoute, ForwardUnloaded, Decide, IInv, Shape, StateType,
       HeaderType, PointFacts, FilterPoints, UnclaimedPoints, Fresh,
       FreshPoints, DefaultState, NotLoaded, NoHeader
  <2>4. CASE LoginRoute
    BY <2>4 DEF LoginRoute, Decide, EngineHeader, IInv, Shape, StateType,
       HeaderType, PointFacts, FilterPoints, UnclaimedPoints, Fresh,
       FreshPoints, DefaultState, NotLoaded, NoHeader
  <2>5. CASE LoadSession
    BY <2>5 DEF LoadSession, IInv, Shape, StateType, HeaderType, PointFacts,
       FilterPoints, UnclaimedPoints, Fresh, FreshPoints, DefaultState,
       NotLoaded, NoHeader
  <2>6. CASE LoadFailed
    BY <2>6 DEF LoadFailed, LoadRefused, Decide, EngineHeader, NotLoaded,
       IInv, Shape, StateType, HeaderType, PointFacts, FilterPoints,
       UnclaimedPoints, Fresh, FreshPoints, DefaultState, NoHeader
  <2>7. CASE RefreshUnavailable
    BY <2>7 DEF RefreshUnavailable, LoadRefused, Decide, EngineHeader,
       NotLoaded, IInv, Shape, StateType, HeaderType, PointFacts,
       FilterPoints, UnclaimedPoints, Fresh, FreshPoints, DefaultState,
       NoHeader
  <2>8. CASE Unauthenticated
    BY <2>8 DEF Unauthenticated, Sessionless, NotLoaded, Decide, EngineHeader,
       IInv, Shape, StateType, HeaderType, PointFacts, FilterPoints,
       UnclaimedPoints, Fresh, FreshPoints, DefaultState, NoHeader
  <2>9. CASE Anonymous
    BY <2>9 DEF Anonymous, Sessionless, NotLoaded, Decide, Prepared, IInv,
       Shape, StateType, HeaderType, PointFacts, FilterPoints,
       UnclaimedPoints, Fresh, FreshPoints, DefaultState, NoHeader
  <2>10. CASE Forbidden
    BY <2>10 DEF Forbidden, WithSession, Decide, EngineHeader, IInv, Shape,
       StateType, HeaderType, PointFacts, FilterPoints, UnclaimedPoints,
       Fresh, FreshPoints, DefaultState, NotLoaded, NoHeader
  <2>11. CASE DeniedCommitReturns
    BY <2>11 DEF DeniedCommitReturns, IInv, Shape, StateType, HeaderType,
       PointFacts, FilterPoints, UnclaimedPoints, Fresh, FreshPoints,
       DefaultState, NotLoaded, NoHeader
  <2>12. CASE Authenticated
    BY <2>12 DEF Authenticated, WithSession, Decide, Prepared, IInv, Shape,
       StateType, HeaderType, PointFacts, FilterPoints, UnclaimedPoints,
       Fresh, FreshPoints, DefaultState, NotLoaded, NoHeader
  <2> QED BY <1>1, <2>1, <2>2, <2>3, <2>4, <2>5, <2>6, <2>7, <2>8, <2>9,
    <2>10, <2>11, <2>12 DEF RequestFilter
<1>2. CASE ForwardRequest
  <2>1. CASE InnerQueuesResponse
    BY <2>1 DEF InnerQueuesResponse, IInv, Shape, StateType, HeaderType,
       PointFacts, FilterPoints, UnclaimedPoints
  <2>2. CASE InnerWritesDirectly
    BY <2>2 DEF InnerWritesDirectly, IInv, Shape, StateType, HeaderType,
       PointFacts, FilterPoints, UnclaimedPoints
  <2>3. CASE ForwardFails
    BY <2>3 DEF ForwardFails, IInv, Shape, StateType, HeaderType, PointFacts,
       FilterPoints, UnclaimedPoints
  <2>4. CASE ForwardHandled
    BY <2>4 DEF ForwardHandled, IInv, Shape, StateType, HeaderType,
       PointFacts, FilterPoints, UnclaimedPoints
  <2>5. CASE ForwardProxied
    BY <2>5 DEF ForwardProxied, IInv, Shape, StateType, HeaderType,
       PointFacts, FilterPoints, UnclaimedPoints
  <2>6. CASE ForwardQueued
    BY <2>6 DEF ForwardQueued, AppHeader, StillUnwritten, IInv, Shape,
       StateType, HeaderType, PointFacts, FilterPoints, UnclaimedPoints
  <2> QED BY <1>2, <2>1, <2>2, <2>3, <2>4, <2>5, <2>6 DEF ForwardRequest
<1>3. CASE Upstream
  <2>1. CASE CacheHit
    BY <2>1 DEF CacheHit, AppHeader, IInv, Shape, StateType, HeaderType,
       PointFacts, FilterPoints, UnclaimedPoints
  <2>2. CASE UpstreamRequestFilter
    BY <2>2 DEF UpstreamRequestFilter, IInv, Shape, StateType, HeaderType,
       PointFacts, FilterPoints, UnclaimedPoints
  <2>3. CASE UpstreamInterim
    BY <2>3 DEF UpstreamInterim, AppHeader, IInv, Shape, StateType,
       HeaderType, PointFacts, FilterPoints, UnclaimedPoints
  <2>4. CASE UpstreamResponds
    BY <2>4 DEF UpstreamResponds, AppHeader, IInv, Shape, StateType,
       HeaderType, PointFacts, FilterPoints, UnclaimedPoints
  <2>5. CASE UpstreamFails
    BY <2>5 DEF UpstreamFails, IInv, Shape, StateType, HeaderType, PointFacts,
       FilterPoints, UnclaimedPoints
  <2> QED BY <1>3, <2>1, <2>2, <2>3, <2>4, <2>5 DEF Upstream
<1>4. CASE ResponseFilter
  <2>1. CASE InnerResponseFilter
    BY <2>1 DEF InnerResponseFilter, Discard, NoHeader, IInv, Shape,
       StateType, HeaderType, PointFacts, FilterPoints, UnclaimedPoints
  <2>2. CASE FinalizeSkips
    BY <2>2 DEF FinalizeSkips, PassesUntouched, IInv, Shape, StateType,
       HeaderType, PointFacts, FilterPoints, UnclaimedPoints
  <2>3. CASE FinalizeClaims
    BY <2>3 DEF FinalizeClaims, PassesUntouched, Drained, EndsSession,
       SavesSession, SessionCall, WithCookies, IInv, Shape, StateType,
       HeaderType, PointFacts, FilterPoints, UnclaimedPoints
  <2>4. CASE TerminateReturns
    BY <2>4 DEF TerminateReturns, WithCookies, ClearsFor, IInv, Shape,
       StateType, HeaderType, PointFacts, FilterPoints, UnclaimedPoints
  <2>5. CASE CommitSucceeds
    BY <2>5 DEF CommitSucceeds, WithCookies, IInv, Shape, StateType,
       HeaderType, PointFacts, FilterPoints, UnclaimedPoints
  <2>6. CASE CommitFails
    BY <2>6 DEF CommitFails, PolicyRejects, Discard, NoHeader, IInv, Shape,
       StateType, HeaderType, PointFacts, FilterPoints, UnclaimedPoints
  <2>7. CASE RepeatFinalHeader
    BY <2>7 DEF RepeatFinalHeader, IInv, Shape, StateType, HeaderType,
       PointFacts, FilterPoints, UnclaimedPoints, UpstreamType
  <2> QED BY <1>4, <2>1, <2>2, <2>3, <2>4, <2>5, <2>6, <2>7 DEF ResponseFilter
<1>5. CASE Write
  <2>1. CASE WriteInterim
    BY <2>1 DEF WriteInterim, NoHeader, IInv, Shape, StateType, HeaderType,
       PointFacts, FilterPoints, UnclaimedPoints
  <2>2. CASE WriteHeader
    BY <2>2 DEF WriteHeader, NoHeader, IInv, Shape, StateType, HeaderType,
       PointFacts, FilterPoints, UnclaimedPoints
  <2>3. CASE WriteHeaderFails
    BY <2>3 DEF WriteHeaderFails, Discard, NoHeader, IInv, Shape, StateType,
       HeaderType, PointFacts, FilterPoints, UnclaimedPoints
  <2>4. CASE WriteBody
    BY <2>4 DEF WriteBody, IInv, Shape, StateType, HeaderType, PointFacts,
       FilterPoints, UnclaimedPoints
  <2>5. CASE FailToProxy
    BY <2>5 DEF FailToProxy, IInv, Shape, StateType, HeaderType, PointFacts,
       FilterPoints, UnclaimedPoints
  <2> QED BY <1>5, <2>1, <2>2, <2>3, <2>4, <2>5 DEF Write
<1>6. CASE Logging
  <2>1. CASE LoggingSkips
    BY <2>1 DEF LoggingSkips, IInv, Shape, StateType, HeaderType, PointFacts,
       FilterPoints, UnclaimedPoints
  <2>2. CASE LoggingClaims
    BY <2>2 DEF LoggingClaims, Stranded, Drained, EndsSession, SavesSession,
       SessionCall, IInv, Shape, StateType, HeaderType, PointFacts,
       FilterPoints, UnclaimedPoints
  <2>3. CASE LoggingTerminateReturns
    BY <2>3 DEF LoggingTerminateReturns, ProducedTooLate, Stranded, ClearsFor,
       IInv, Shape, StateType, HeaderType, PointFacts, FilterPoints,
       UnclaimedPoints
  <2>4. CASE LoggingCommitReturns
    BY <2>4 DEF LoggingCommitReturns, ProducedTooLate, Stranded, IInv, Shape,
       StateType, HeaderType, PointFacts, FilterPoints, UnclaimedPoints
  <2>5. CASE InnerLogging
    BY <2>5 DEF InnerLogging, IInv, Shape, StateType, HeaderType, PointFacts,
       FilterPoints, UnclaimedPoints
  <2> QED BY <1>6, <2>1, <2>2, <2>3, <2>4, <2>5 DEF Logging
<1>7. CASE InnerRequestsTermination \/ Abort \/ Ended \/ UNCHANGED vars
  <2>1. CASE InnerRequestsTermination
    BY <2>1 DEF InnerRequestsTermination, IInv, Shape, StateType, HeaderType,
       PointFacts, FilterPoints, UnclaimedPoints
  <2>2. CASE Abort
    BY <2>2 DEF Abort, IInv, Shape, StateType, HeaderType, PointFacts,
       FilterPoints, UnclaimedPoints
  <2>3. CASE Ended
    BY <2>3 DEF Ended, vars, IInv, Shape, StateType, HeaderType, PointFacts,
       FilterPoints, UnclaimedPoints
  <2>4. CASE UNCHANGED vars
    BY <2>4 DEF vars, IInv, Shape, StateType, HeaderType, PointFacts,
       FilterPoints, UnclaimedPoints
  <2> QED BY <1>7, <2>1, <2>2, <2>3, <2>4
<1> QED BY <1>1, <1>2, <1>3, <1>4, <1>5, <1>6, <1>7 DEF Next, Progress

\* The denial's commit returns.
LEMMA AnsweredByDenial ==
    ASSUME IInv, DeniedCommitReturns
    PROVE  AnswerFacts'
<1>1. /\ pc = "denied_commit" /\ ledger.produced = <<>>
      /\ ledger \in LedgerType /\ Deferred /\ ~wanted
      /\ UNCHANGED <<calls, loaded, wanted>> /\ pc' = "write_header"
  BY DEF DeniedCommitReturns, IInv, Shape, AnswerFacts, AwaitingCall,
     CallFacts
<1>2. ledger'.produced \in {<<>>, <<"commit">>}
  BY <1>1, Concatenated DEF DeniedCommitReturns, LedgerType
<1>3. ledger'.produced # <<"clear">>
  BY <1>2
<1> QED BY <1>1, <1>2, <1>3 DEF AnswerFacts, AwaitingCall, Deferred

\* The inner response_filter asks and answers nothing.
LEMMA AnsweredByFilter ==
    ASSUME IInv, InnerResponseFilter
    PROVE  AnswerFacts'
<1>1. /\ pc = "response_filter" /\ ledger'.produced = ledger.produced
      /\ UNCHANGED <<calls, loaded, wanted>>
      /\ pc' \in {"finalize_response", "fail_to_proxy"}
  BY DEF InnerResponseFilter, IInv, Shape, LedgerType, Discard
<1> QED BY <1>1 DEF IInv, AnswerFacts, AwaitingCall, Deferred

\* Finalization awaits the call it owes, if any.
LEMMA AnsweredByFinalization ==
    ASSUME IInv, FinalizeClaims
    PROVE  AnswerFacts'
<1>1. /\ pc = "finalize_response" /\ ~state.finalized
      /\ UNCHANGED <<loaded, wanted, ledger, result>>
      /\ pc' \in {"commit", "terminate", "write_header"}
  BY DEF FinalizeClaims, PassesUntouched
<1>2. CASE EndsSession \/ SavesSession
  <2>1. Open /\ state.session # NoSession
    BY <1>1, <1>2 DEF IInv, ContextFacts, Open, EndsSession, SavesSession
  <2>2. calls = <<>> /\ ledger.produced = <<>> /\ result = "none"
          /\ (wanted <=> state.terminate_requested)
    BY <2>1 DEF IInv, ContextFacts
  <2>3. /\ EndsSession => wanted /\ pc' = "terminate"
             /\ calls' = <<SessionCall("revoke", "response", state.session)>>
        /\ SavesSession => ~wanted /\ pc' = "commit"
             /\ calls' = <<SessionCall("persist", "response", state.pending)>>
    BY <2>2, Appended DEF FinalizeClaims, EndsSession, SavesSession
  <2>4. calls' # <<>> /\ calls'[1].phase = "response"
    BY <1>2, <2>3 DEF SessionCall
  <2> QED BY <1>1, <1>2, <2>2, <2>3, <2>4 DEF AnswerFacts, AwaitingCall
<1>3. CASE ~EndsSession /\ ~SavesSession
  BY <1>1, <1>3 DEF FinalizeClaims, IInv, AnswerFacts, AwaitingCall, Deferred
<1> QED BY <1>2, <1>3

\* A termination produces the clears.
LEMMA AnsweredByTermination ==
    ASSUME IInv, TerminateReturns \/ LoggingTerminateReturns
    PROVE  AnswerFacts'
<1>1. /\ pc \in {"terminate", "logging_terminate"} /\ ledger.produced = <<>>
      /\ ledger \in LedgerType /\ wanted
      /\ UNCHANGED <<calls, loaded, wanted>>
      /\ pc' \in {"write_header", "inner_logging"}
  BY DEF TerminateReturns, LoggingTerminateReturns, IInv, Shape, AnswerFacts,
     AwaitingCall
<1>2. ledger'.produced = <<"clear">>
  BY <1>1, Concatenated DEF TerminateReturns, LoggingTerminateReturns,
     ProducedTooLate, Stranded, ClearsFor, LedgerType
<1> QED BY <1>1, <1>2 DEF AnswerFacts, AwaitingCall, Deferred

\* A commit produces its cookies, if any.
LEMMA AnsweredByCommit ==
    ASSUME IInv, CommitSucceeds \/ CommitFails \/ LoggingCommitReturns
    PROVE  AnswerFacts'
<1>1. /\ pc \in {"commit", "logging_commit"} /\ ledger.produced = <<>>
      /\ ledger \in LedgerType /\ ~wanted /\ Deferred
      /\ UNCHANGED <<calls, loaded, wanted>>
      /\ pc' \in {"write_header", "fail_to_proxy", "inner_logging"}
  BY DEF CommitSucceeds, CommitFails, LoggingCommitReturns, IInv, Shape,
     AnswerFacts, AwaitingCall, CallFacts
<1>2. ledger'.produced \in {<<>>, <<"commit">>}
  BY <1>1, Concatenated DEF CommitSucceeds, CommitFails, Discard,
     LoggingCommitReturns, ProducedTooLate, Stranded, LedgerType
<1> QED BY <1>1, <1>2 DEF AnswerFacts, AwaitingCall, Deferred

\* The fallback awaits the call it owes, if any.
LEMMA AnsweredByLogging ==
    ASSUME IInv, LoggingClaims
    PROVE  AnswerFacts'
<1>1. /\ pc = "logging" /\ ~state.finalized
      /\ UNCHANGED <<loaded, wanted, result>>
      /\ ledger'.produced = ledger.produced
      /\ pc' \in {"logging_commit", "logging_terminate", "inner_logging"}
  BY DEF LoggingClaims, IInv, Shape, LedgerType, Stranded
<1>2. CASE EndsSession \/ SavesSession
  <2>1. Open /\ state.session # NoSession
    BY <1>1, <1>2 DEF IInv, ContextFacts, Open, EndsSession, SavesSession
  <2>2. calls = <<>> /\ ledger.produced = <<>> /\ result = "none"
          /\ (wanted <=> state.terminate_requested)
    BY <2>1 DEF IInv, ContextFacts
  <2>3. /\ EndsSession => wanted /\ pc' = "logging_terminate"
             /\ calls' = <<SessionCall("revoke", "logging", state.session)>>
        /\ SavesSession => ~wanted /\ pc' = "logging_commit"
             /\ calls' = <<SessionCall("persist", "logging", state.pending)>>
    BY <2>2, Appended DEF LoggingClaims, EndsSession, SavesSession
  <2>4. calls' # <<>> /\ calls'[1].phase = "logging"
    BY <1>2, <2>3 DEF SessionCall
  <2> QED BY <1>1, <1>2, <2>2, <2>3, <2>4 DEF AnswerFacts, AwaitingCall
<1>3. CASE ~EndsSession /\ ~SavesSession
  BY <1>1, <1>3 DEF LoggingClaims, IInv, AnswerFacts, AwaitingCall, Deferred
<1> QED BY <1>2, <1>3

\* A request for termination comes before any call or too late.
LEMMA AnsweredByRequest ==
    ASSUME IInv, InnerRequestsTermination
    PROVE  AnswerFacts'
<1>1. /\ UNCHANGED <<pc, calls, loaded, ledger, result>>
      /\ pc \notin AwaitingCall /\ pc # "aborted"
      /\ wanted => wanted'
  BY DEF InnerRequestsTermination, InnerHooks, AwaitingCall
<1>2. calls # <<>> /\ wanted' => wanted
  BY DEF InnerRequestsTermination, IInv, ContextFacts, Open
<1> QED BY <1>1, <1>2 DEF IInv, AnswerFacts, AwaitingCall, Deferred

\* The call that is awaited is the one that was owed.
LEMMA AnswerStep ==
    ASSUME IInv, [Next]_vars
    PROVE  AnswerFacts'
<1>1. CASE RequestFilter
  <2>1. CASE RouteDenied
    BY <2>1 DEF RouteDenied, Decide, EngineHeader, IInv, Shape, AnswerFacts,
       AwaitingCall, Deferred, Fresh, FreshPoints, DefaultState, NotLoaded,
       NoHeader
  <2>2. CASE Preflight
    BY <2>2 DEF Preflight, ForwardUnloaded, Decide, IInv, Shape, AnswerFacts,
       AwaitingCall, Deferred, Fresh, FreshPoints, DefaultState, NotLoaded,
       NoHeader
  <2>3. CASE PublicRoute
    BY <2>3 DEF PublicRoute, ForwardUnloaded, Decide, IInv, Shape,
       AnswerFacts, AwaitingCall, Deferred, Fresh, FreshPoints, DefaultState,
       NotLoaded, NoHeader
  <2>4. CASE LoginRoute
    BY <2>4 DEF LoginRoute, Decide, EngineHeader, IInv, Shape, AnswerFacts,
       AwaitingCall, Deferred, Fresh, FreshPoints, DefaultState, NotLoaded,
       NoHeader
  <2>5. CASE LoadSession
    BY <2>5 DEF LoadSession, IInv, Shape, AnswerFacts, AwaitingCall, Deferred,
       Fresh, FreshPoints, DefaultState, NotLoaded, NoHeader
  <2>6. CASE LoadFailed
    BY <2>6 DEF LoadFailed, LoadRefused, Decide, EngineHeader, NotLoaded,
       IInv, Shape, AnswerFacts, AwaitingCall, Deferred, Fresh, FreshPoints,
       DefaultState, NoHeader
  <2>7. CASE RefreshUnavailable
    BY <2>7 DEF RefreshUnavailable, LoadRefused, Decide, EngineHeader,
       NotLoaded, IInv, Shape, AnswerFacts, AwaitingCall, Deferred, Fresh,
       FreshPoints, DefaultState, NoHeader
  <2>8. CASE Unauthenticated
    BY <2>8 DEF Unauthenticated, Sessionless, NotLoaded, Decide, EngineHeader,
       IInv, Shape, AnswerFacts, AwaitingCall, Deferred, Fresh, FreshPoints,
       DefaultState, NoHeader
  <2>9. CASE Anonymous
    BY <2>9 DEF Anonymous, Sessionless, NotLoaded, Decide, Prepared, IInv,
       Shape, AnswerFacts, AwaitingCall, Deferred, Fresh, FreshPoints,
       DefaultState, NoHeader
  <2>10. CASE Forbidden
    BY <2>10 DEF Forbidden, WithSession, Decide, EngineHeader, IInv, Shape,
       AnswerFacts, AwaitingCall, Deferred, Fresh, FreshPoints, DefaultState,
       NotLoaded, NoHeader
  <2>11. CASE DeniedCommitReturns
    BY <2>11, AnsweredByDenial
  <2>12. CASE Authenticated
    BY <2>12 DEF Authenticated, WithSession, Decide, Prepared, IInv, Shape,
       AnswerFacts, AwaitingCall, Deferred, Fresh, FreshPoints, DefaultState,
       NotLoaded, NoHeader
  <2> QED BY <1>1, <2>1, <2>2, <2>3, <2>4, <2>5, <2>6, <2>7, <2>8, <2>9,
    <2>10, <2>11, <2>12 DEF RequestFilter
<1>2. CASE ForwardRequest
  <2>1. CASE InnerQueuesResponse
    BY <2>1 DEF InnerQueuesResponse, IInv, Shape, AnswerFacts, AwaitingCall,
       Deferred
  <2>2. CASE InnerWritesDirectly
    BY <2>2 DEF InnerWritesDirectly, IInv, Shape, AnswerFacts, AwaitingCall,
       Deferred
  <2>3. CASE ForwardFails
    BY <2>3 DEF ForwardFails, IInv, Shape, AnswerFacts, AwaitingCall, Deferred
  <2>4. CASE ForwardHandled
    BY <2>4 DEF ForwardHandled, IInv, Shape, AnswerFacts, AwaitingCall,
       Deferred
  <2>5. CASE ForwardProxied
    BY <2>5 DEF ForwardProxied, IInv, Shape, AnswerFacts, AwaitingCall,
       Deferred
  <2>6. CASE ForwardQueued
    BY <2>6 DEF ForwardQueued, AppHeader, StillUnwritten, IInv, Shape,
       AnswerFacts, AwaitingCall, Deferred
  <2> QED BY <1>2, <2>1, <2>2, <2>3, <2>4, <2>5, <2>6 DEF ForwardRequest
<1>3. CASE Upstream
  <2>1. CASE CacheHit
    BY <2>1 DEF CacheHit, AppHeader, IInv, Shape, AnswerFacts, AwaitingCall,
       Deferred
  <2>2. CASE UpstreamRequestFilter
    BY <2>2 DEF UpstreamRequestFilter, IInv, Shape, AnswerFacts, AwaitingCall,
       Deferred
  <2>3. CASE UpstreamInterim
    BY <2>3 DEF UpstreamInterim, AppHeader, IInv, Shape, AnswerFacts,
       AwaitingCall, Deferred
  <2>4. CASE UpstreamResponds
    BY <2>4 DEF UpstreamResponds, AppHeader, IInv, Shape, AnswerFacts,
       AwaitingCall, Deferred
  <2>5. CASE UpstreamFails
    BY <2>5 DEF UpstreamFails, IInv, Shape, AnswerFacts, AwaitingCall,
       Deferred
  <2> QED BY <1>3, <2>1, <2>2, <2>3, <2>4, <2>5 DEF Upstream
<1>4. CASE ResponseFilter
  <2>1. CASE InnerResponseFilter
    BY <2>1, AnsweredByFilter
  <2>2. CASE FinalizeSkips
    BY <2>2 DEF FinalizeSkips, PassesUntouched, IInv, Shape, AnswerFacts,
       AwaitingCall, Deferred
  <2>3. CASE FinalizeClaims
    BY <2>3, AnsweredByFinalization
  <2>4. CASE TerminateReturns
    BY <2>4, AnsweredByTermination
  <2>5. CASE CommitSucceeds
    BY <2>5, AnsweredByCommit
  <2>6. CASE CommitFails
    BY <2>6, AnsweredByCommit
  <2>7. CASE RepeatFinalHeader
    BY <2>7 DEF RepeatFinalHeader, IInv, Shape, AnswerFacts, AwaitingCall,
       Deferred
  <2> QED BY <1>4, <2>1, <2>2, <2>3, <2>4, <2>5, <2>6, <2>7 DEF ResponseFilter
<1>5. CASE Write
  <2>1. CASE WriteInterim
    BY <2>1 DEF WriteInterim, NoHeader, IInv, Shape, AnswerFacts,
       AwaitingCall, Deferred
  <2>2. CASE WriteHeader
    BY <2>2 DEF WriteHeader, NoHeader, IInv, Shape, AnswerFacts, AwaitingCall,
       Deferred
  <2>3. CASE WriteHeaderFails
    BY <2>3 DEF WriteHeaderFails, Discard, NoHeader, IInv, Shape, AnswerFacts,
       AwaitingCall, Deferred
  <2>4. CASE WriteBody
    BY <2>4 DEF WriteBody, IInv, Shape, AnswerFacts, AwaitingCall, Deferred
  <2>5. CASE FailToProxy
    BY <2>5 DEF FailToProxy, IInv, Shape, AnswerFacts, AwaitingCall, Deferred
  <2> QED BY <1>5, <2>1, <2>2, <2>3, <2>4, <2>5 DEF Write
<1>6. CASE Logging
  <2>1. CASE LoggingSkips
    BY <2>1 DEF LoggingSkips, IInv, Shape, AnswerFacts, AwaitingCall, Deferred
  <2>2. CASE LoggingClaims
    BY <2>2, AnsweredByLogging
  <2>3. CASE LoggingTerminateReturns
    BY <2>3, AnsweredByTermination
  <2>4. CASE LoggingCommitReturns
    BY <2>4, AnsweredByCommit
  <2>5. CASE InnerLogging
    BY <2>5 DEF InnerLogging, IInv, Shape, AnswerFacts, AwaitingCall, Deferred
  <2> QED BY <1>6, <2>1, <2>2, <2>3, <2>4, <2>5 DEF Logging
<1>7. CASE InnerRequestsTermination \/ Abort \/ Ended \/ UNCHANGED vars
  <2>1. CASE InnerRequestsTermination
    BY <2>1, AnsweredByRequest
  <2>2. CASE Abort
    BY <2>2 DEF Abort, IInv, Shape, AnswerFacts, AwaitingCall, Deferred
  <2>3. CASE Ended
    BY <2>3 DEF Ended, vars, IInv, Shape, AnswerFacts, AwaitingCall, Deferred
  <2>4. CASE UNCHANGED vars
    BY <2>4 DEF vars, IInv, Shape, AnswerFacts, AwaitingCall, Deferred
  <2> QED BY <1>7, <2>1, <2>2, <2>3, <2>4
<1> QED BY <1>1, <1>2, <1>3, <1>4, <1>5, <1>6, <1>7 DEF Next, Progress

-----------------------------------------------------------------------------
\* An answer before the load carries nothing.
LEMMA PlacedByEngine ==
    ASSUME IInv, RouteDenied \/ LoginRoute \/ LoadFailed \/ RefreshUnavailable
    PROVE  PlaceFacts'
<1>1. /\ pc \in FreshPoints /\ ledger' = ledger /\ client' = client
      /\ client.kind = "none" /\ client.cookies = <<>>
      /\ loaded'.set_cookies = <<>> /\ header' = EngineHeader(<<>>)
      /\ pc' = "write_header"
  BY DEF IInv, Fresh, PlaceFacts, FreshPoints, RouteDenied, LoginRoute,
     LoadFailed, RefreshUnavailable, LoadRefused, NotLoaded
<1>2. Bundle' = <<>>
  BY <1>1, LoadBundle
<1> QED BY <1>1, <1>2 DEF PlaceFacts, EngineHeader, FilterPoints

\* A refusal carries the bundle of the load.
LEMMA PlacedByRefusal ==
    ASSUME IInv, Unauthenticated \/ Forbidden
    PROVE  PlaceFacts'
<1>1. /\ pc \in FreshPoints /\ ledger' = ledger /\ client' = client
      /\ client.kind = "none" /\ client.cookies = <<>>
      /\ header' = EngineHeader(loaded'.set_cookies)
      /\ pc' \in {"write_header", "denied_commit"}
  BY DEF IInv, Fresh, PlaceFacts, FreshPoints, Unauthenticated, Forbidden
<1>3. loaded'.set_cookies \in {<<>>, <<"load">>}
  BY DEF Unauthenticated, Forbidden, Sessionless, WithSession, NotLoaded
<1>2. Bundle' = loaded'.set_cookies
  BY <1>1, <1>3, LoadBundle
<1> QED BY <1>1, <1>2 DEF PlaceFacts, EngineHeader, FilterPoints

\* A returned bundle joins those in the header.
LEMMA PlacedByReturn ==
    ASSUME IInv, DeniedCommitReturns \/ TerminateReturns \/ CommitSucceeds
    PROVE  PlaceFacts'
<1>1. /\ client.kind = "none" /\ client.cookies = <<>> /\ pc' = "write_header"
  BY DEF IInv, PlaceFacts, ClientFacts, Unanswered, DeniedCommitReturns,
     TerminateReturns, CommitSucceeds
<1> QED BY <1>1, HeaderTakesReturn DEF PlaceFacts, FilterPoints

\* A header entering response_filter before finalization carries none.
LEMMA PlacedByNewHeader ==
    ASSUME IInv,
           ForwardQueued \/ CacheHit \/ UpstreamInterim \/ UpstreamResponds
    PROVE  PlaceFacts'
<1>1. /\ ~state.finalized /\ state'.finalized = state.finalized
      /\ client' = client /\ client.kind = "none" /\ client.cookies = <<>>
      /\ pc' = "response_filter"
  BY DEF IInv, Shape, StateType, PlaceFacts, PointFacts, AnswerFacts,
     UnclaimedPoints, ClientFacts, Unanswered, ForwardQueued, StillUnwritten,
     CacheHit, UpstreamInterim, UpstreamResponds
<1> QED BY <1>1 DEF PlaceFacts, FilterPoints

\* The inner response_filter keeps the header or drops it.
LEMMA PlacedByFilter ==
    ASSUME IInv, InnerResponseFilter
    PROVE  PlaceFacts'
<1>1. /\ pc = "response_filter" /\ client' = client /\ client.kind = "none"
      /\ client.cookies = <<>> /\ state' = state
      /\ loaded' = loaded /\ ledger'.produced = ledger.produced
  BY DEF IInv, Shape, LedgerType, PlaceFacts, ClientFacts, Unanswered,
     FilterPoints, InnerResponseFilter, Discard
<1>2. CASE pc' = "finalize_response" /\ UNCHANGED <<header, ledger>>
  BY <1>1, <1>2, BundleKept DEF IInv, PlaceFacts, FilterPoints
<1>3. CASE pc' = "fail_to_proxy" /\ header' = NoHeader
  BY <1>1, <1>3 DEF PlaceFacts, FilterPoints
<1> QED BY <1>2, <1>3 DEF InnerResponseFilter

\* Finalization puts what the context owes into the header.
LEMMA PlacedByFinalization ==
    ASSUME IInv, FinalizeClaims
    PROVE  PlaceFacts'
<1>1. /\ pc = "finalize_response" /\ client' = client /\ client.kind = "none"
      /\ client.cookies = <<>>
      /\ header.cookies = <<>> /\ header \in HeaderType
      /\ state.set_cookies \in {<<>>, <<"load">>}
      /\ loaded' = loaded /\ ledger' = ledger
      /\ pc' \in {"commit", "terminate", "write_header"}
  BY DEF IInv, Shape, StateType, PlaceFacts, PointFacts, AnswerFacts,
     ClientFacts, Unanswered, FilterPoints, FinalizeClaims, PassesUntouched
<1>2. state.set_cookies = Bundle
  BY <1>1, BundleCases DEF IInv, Conserved, Places, ContextFacts, Unanswered,
     FilterPoints, FinalizeClaims, PassesUntouched
<1>3. header'.cookies = Bundle'
  <2>1. Bundle' = Bundle
    BY <1>1, BundleKept
  <2> QED
    BY <1>1, <1>2, <2>1, Concatenated DEF FinalizeClaims, WithCookies,
       HeaderType, BundleLists
<1> QED BY <1>1, <1>3 DEF PlaceFacts, FilterPoints

\* A failed commit adds nothing.
LEMMA PlacedByFailedCommit ==
    ASSUME IInv, CommitFails
    PROVE  PlaceFacts'
<1>1. /\ pc = "commit" /\ client' = client /\ client.kind = "none"
      /\ client.cookies = <<>> /\ header.cookies = Bundle /\ state' = state
      /\ loaded' = loaded /\ ledger'.produced = ledger.produced
  BY DEF IInv, Shape, LedgerType, PlaceFacts, PointFacts, AnswerFacts,
     ClientFacts, Unanswered, CommitFails, Discard
<1>2. CASE pc' = "write_header" /\ UNCHANGED <<header, ledger>>
  BY <1>1, <1>2, BundleKept DEF PlaceFacts, FilterPoints
<1>3. CASE pc' = "fail_to_proxy" /\ header' = NoHeader
  BY <1>1, <1>3 DEF PlaceFacts, FilterPoints
<1> QED BY <1>2, <1>3 DEF CommitFails

\* The fallback strands what the context owes.
LEMMA PlacedByLogging ==
    ASSUME IInv, LoggingClaims
    PROVE  PlaceFacts'
<1>1. /\ pc = "logging"
      /\ pc' \in {"logging_commit", "logging_terminate", "inner_logging"}
      /\ UNCHANGED <<header, client, loaded>>
      /\ header = NoHeader /\ client \in ClientType /\ ledger \in LedgerType
      /\ ~state.finalized
      /\ state.set_cookies \in {<<>>, <<"load">>}
  BY DEF IInv, Shape, StateType, PlaceFacts, FilterPoints, LoggingClaims
<1>2. ledger'.produced = ledger.produced
  BY <1>1 DEF LedgerType, LoggingClaims, Stranded
<1>3. Bundle' = Bundle
  BY <1>1, <1>2, BundleKept
<1>4. pc' \in {"logging_commit", "logging_terminate"}
        => ledger'.stranded = Bundle
  <2> SUFFICES ASSUME EndsSession \/ SavesSession
               PROVE ledger'.stranded = Bundle
    BY DEF LoggingClaims
  <2>1. Open
    BY <1>1 DEF IInv, ContextFacts, EndsSession, SavesSession, Open
  <2>2. state.set_cookies = loaded.set_cookies /\ ledger.produced = <<>>
    BY <2>1 DEF IInv, ContextFacts
  <2>3. state.set_cookies = Bundle /\ ledger.stranded = <<>>
    BY <2>2, BundleCases DEF IInv, Conserved, Places
  <2> QED
    BY <1>1, <2>3, Concatenated DEF LoggingClaims, Stranded, LedgerType,
       BundleLists
<1> QED BY <1>1, <1>3, <1>4 DEF PlaceFacts, FilterPoints, IInv

\* A bundle returned in logging joins the stranded ones.
LEMMA PlacedByLateReturn ==
    ASSUME IInv, LoggingTerminateReturns \/ LoggingCommitReturns
    PROVE  PlaceFacts'
<1>1. /\ client.kind \notin {"engine", "application"} /\ header = NoHeader
      /\ pc' = "inner_logging"
  BY DEF LoggingTerminateReturns, LoggingCommitReturns, IInv, ClientFacts,
     PlaceFacts, FilterPoints
<1> QED BY <1>1, StrandedTakesReturn DEF IInv, PlaceFacts, FilterPoints

\* Writing the body moves no cookies.
LEMMA PlacedByBody ==
    ASSUME IInv, WriteBody
    PROVE  PlaceFacts'
<1>1. /\ UNCHANGED <<loaded, ledger, header, state>> /\ pc = "write_body"
      /\ pc' \in {"logging", "fail_to_proxy"}
      /\ client'.kind = client.kind /\ client'.cookies = client.cookies
  BY DEF WriteBody, IInv, Shape, ClientType
<1> QED BY <1>1, BundleKept DEF IInv, PlaceFacts, FilterPoints

\* A task that ended moves no cookies.
LEMMA PlacedByEnd ==
    ASSUME IInv, Ended
    PROVE  PlaceFacts'
<1>1. UNCHANGED <<loaded, ledger, header, state, client, pc>>
  BY DEF Ended, vars
<1> QED BY <1>1, BundleKept DEF IInv, PlaceFacts, FilterPoints

\* A header in flight carries all the bundles once it was finalized, and so
\* does a response that was written.
LEMMA PlaceStep ==
    ASSUME IInv, [Next]_vars
    PROVE  PlaceFacts'
<1>1. CASE RequestFilter
  <2>1. CASE RouteDenied
    BY <2>1, PlacedByEngine
  <2>2. CASE Preflight
    BY <2>2, BundleKept DEF Preflight, ForwardUnloaded, Decide, IInv,
       PlaceFacts, PointFacts, AnswerFacts, FilterPoints, FreshPoints,
       NoHeader, Fresh
  <2>3. CASE PublicRoute
    BY <2>3, BundleKept DEF PublicRoute, ForwardUnloaded, Decide, IInv,
       PlaceFacts, PointFacts, AnswerFacts, FilterPoints, FreshPoints,
       NoHeader, Fresh
  <2>4. CASE LoginRoute
    BY <2>4, PlacedByEngine
  <2>5. CASE LoadSession
    BY <2>5, BundleKept DEF LoadSession, IInv, PlaceFacts, PointFacts,
       AnswerFacts, FilterPoints, FreshPoints, NoHeader, Fresh
  <2>6. CASE LoadFailed
    BY <2>6, PlacedByEngine
  <2>7. CASE RefreshUnavailable
    BY <2>7, PlacedByEngine
  <2>8. CASE Unauthenticated
    BY <2>8, PlacedByRefusal
  <2>9. CASE Anonymous
    BY <2>9, BundleKept DEF Anonymous, Sessionless, NotLoaded, Decide,
       Prepared, IInv, PlaceFacts, PointFacts, AnswerFacts, FilterPoints,
       FreshPoints, NoHeader, Fresh
  <2>10. CASE Forbidden
    BY <2>10, PlacedByRefusal
  <2>11. CASE DeniedCommitReturns
    BY <2>11, PlacedByReturn
  <2>12. CASE Authenticated
    BY <2>12, BundleKept DEF Authenticated, WithSession, Decide, Prepared,
       IInv, PlaceFacts, PointFacts, AnswerFacts, FilterPoints, FreshPoints,
       NoHeader, Fresh
  <2> QED BY <1>1, <2>1, <2>2, <2>3, <2>4, <2>5, <2>6, <2>7, <2>8, <2>9,
    <2>10, <2>11, <2>12 DEF RequestFilter
<1>2. CASE ForwardRequest
  <2>1. CASE InnerQueuesResponse
    BY <2>1, BundleKept DEF InnerQueuesResponse, IInv, PlaceFacts, PointFacts,
       AnswerFacts, FilterPoints, FreshPoints, NoHeader
  <2>2. CASE InnerWritesDirectly
    BY <2>2, BundleKept DEF InnerWritesDirectly, IInv, PlaceFacts, PointFacts,
       AnswerFacts, FilterPoints, FreshPoints, NoHeader
  <2>3. CASE ForwardFails
    BY <2>3, BundleKept DEF ForwardFails, IInv, PlaceFacts, PointFacts,
       AnswerFacts, FilterPoints, FreshPoints, NoHeader
  <2>4. CASE ForwardHandled
    BY <2>4, BundleKept DEF ForwardHandled, IInv, PlaceFacts, PointFacts,
       AnswerFacts, FilterPoints, FreshPoints, NoHeader
  <2>5. CASE ForwardProxied
    BY <2>5, BundleKept DEF ForwardProxied, IInv, PlaceFacts, PointFacts,
       AnswerFacts, FilterPoints, FreshPoints, NoHeader
  <2>6. CASE ForwardQueued
    BY <2>6, PlacedByNewHeader
  <2> QED BY <1>2, <2>1, <2>2, <2>3, <2>4, <2>5, <2>6 DEF ForwardRequest
<1>3. CASE Upstream
  <2>1. CASE CacheHit
    BY <2>1, PlacedByNewHeader
  <2>2. CASE UpstreamRequestFilter
    BY <2>2, BundleKept DEF UpstreamRequestFilter, IInv, PlaceFacts,
       PointFacts, AnswerFacts, FilterPoints, FreshPoints, NoHeader
  <2>3. CASE UpstreamInterim
    BY <2>3, PlacedByNewHeader
  <2>4. CASE UpstreamResponds
    BY <2>4, PlacedByNewHeader
  <2>5. CASE UpstreamFails
    BY <2>5, BundleKept DEF UpstreamFails, IInv, PlaceFacts, PointFacts,
       AnswerFacts, FilterPoints, FreshPoints, NoHeader
  <2> QED BY <1>3, <2>1, <2>2, <2>3, <2>4, <2>5 DEF Upstream
<1>4. CASE ResponseFilter
  <2>1. CASE InnerResponseFilter
    BY <2>1, PlacedByFilter
  <2>2. CASE FinalizeSkips
    BY <2>2, BundleKept DEF FinalizeSkips, PassesUntouched, IInv, PlaceFacts,
       PointFacts, AnswerFacts, FilterPoints, FreshPoints, NoHeader
  <2>3. CASE FinalizeClaims
    BY <2>3, PlacedByFinalization
  <2>4. CASE TerminateReturns
    BY <2>4, PlacedByReturn
  <2>5. CASE CommitSucceeds
    BY <2>5, PlacedByReturn
  <2>6. CASE CommitFails
    BY <2>6, PlacedByFailedCommit
  <2>7. CASE RepeatFinalHeader
    BY <2>7, BundleKept DEF RepeatFinalHeader, IInv, PlaceFacts, PointFacts,
       AnswerFacts, FilterPoints, FreshPoints, NoHeader
  <2> QED BY <1>4, <2>1, <2>2, <2>3, <2>4, <2>5, <2>6, <2>7 DEF ResponseFilter
<1>5. CASE Write
  <2>1. CASE WriteInterim
    BY <2>1, BundleKept DEF WriteInterim, NoHeader, IInv, PlaceFacts,
       PointFacts, AnswerFacts, FilterPoints, FreshPoints
  <2>2. CASE WriteHeader
    BY <2>2, BundleKept DEF WriteHeader, NoHeader, IInv, PlaceFacts,
       PointFacts, AnswerFacts, FilterPoints, FreshPoints
  <2>3. CASE WriteHeaderFails
    BY <2>3, BundleKept DEF WriteHeaderFails, Discard, NoHeader, IInv,
       PlaceFacts, PointFacts, AnswerFacts, FilterPoints, FreshPoints
  <2>4. CASE WriteBody
    BY <2>4, PlacedByBody
  <2>5. CASE FailToProxy
    BY <2>5, BundleKept DEF FailToProxy, IInv, PlaceFacts, PointFacts,
       AnswerFacts, FilterPoints, FreshPoints, NoHeader
  <2> QED BY <1>5, <2>1, <2>2, <2>3, <2>4, <2>5 DEF Write
<1>6. CASE Logging
  <2>1. CASE LoggingSkips
    BY <2>1, BundleKept DEF LoggingSkips, IInv, PlaceFacts, PointFacts,
       AnswerFacts, FilterPoints, FreshPoints, NoHeader
  <2>2. CASE LoggingClaims
    BY <2>2, PlacedByLogging
  <2>3. CASE LoggingTerminateReturns
    BY <2>3, PlacedByLateReturn
  <2>4. CASE LoggingCommitReturns
    BY <2>4, PlacedByLateReturn
  <2>5. CASE InnerLogging
    BY <2>5, BundleKept DEF InnerLogging, IInv, PlaceFacts, PointFacts,
       AnswerFacts, FilterPoints, FreshPoints, NoHeader
  <2> QED BY <1>6, <2>1, <2>2, <2>3, <2>4, <2>5 DEF Logging
<1>7. CASE InnerRequestsTermination \/ Abort \/ Ended \/ UNCHANGED vars
  <2>1. CASE InnerRequestsTermination
    BY <2>1, BundleKept DEF InnerRequestsTermination, IInv, PlaceFacts,
       PointFacts, AnswerFacts, FilterPoints, FreshPoints, NoHeader
  <2>2. CASE Abort
    BY <2>2, BundleKept DEF Abort, IInv, PlaceFacts, PointFacts, AnswerFacts,
       FilterPoints, FreshPoints, NoHeader
  <2>3. CASE Ended
    BY <2>3, PlacedByEnd
  <2>4. CASE UNCHANGED vars
    BY <2>4, BundleKept DEF vars, IInv, PlaceFacts, PointFacts, AnswerFacts,
       FilterPoints, FreshPoints, NoHeader
  <2> QED BY <1>7, <2>1, <2>2, <2>3, <2>4
<1> QED BY <1>1, <1>2, <1>3, <1>4, <1>5, <1>6, <1>7 DEF Next, Progress

-----------------------------------------------------------------------------
\* Cookies are only lost with a header that was finalized before.
LEMMA DiscardKeepsClient ==
    ASSUME IInv, client.kind = "none", ~client.gone, pc' = "fail_to_proxy",
             Discard, header' = NoHeader, UNCHANGED <<state, client, wanted,
               upstream>>,
     header.cookies # <<>> => upstream.repeats > 0
    PROVE  ClientFacts'
<1>1. /\ ledger \in LedgerType /\ header.cookies \in BundleLists
  BY DEF IInv, Shape, HeaderType
<1>2. ledger'.stranded = ledger.stranded
        /\ ledger'.discarded = ledger.discarded \o header.cookies
  BY <1>1 DEF Discard, LedgerType
<1>3. ledger.discarded \in BundleLists
  BY <1>1 DEF LedgerType
<1>4. header.cookies = <<>> => ledger'.discarded = ledger.discarded
  BY <1>2, <1>3, Concatenated
<1>5. ledger'.discarded # <<>> => upstream.repeats > 0
  BY <1>4 DEF IInv, ClientFacts
<1> QED
  BY <1>2, <1>5 DEF IInv, ClientFacts, Open, NoHeader, Unanswered,
     FreshPoints, FilterPoints

\* The denial's commit adds cookies to a header that is not storable anyway.
LEMMA ClientAfterDenial ==
    ASSUME IInv, DeniedCommitReturns
    PROVE  ClientFacts'
<1>1. /\ pc = "denied_commit" /\ header.source = "engine"
      /\ header.kind # "none" /\ header \in HeaderType /\ pc' = "write_header"
      /\ ledger \in LedgerType
      /\ UNCHANGED <<state, client, wanted, upstream>> /\ client.kind = "none"
      /\ ~client.gone
  BY DEF IInv, Shape, PointFacts, ClientFacts, Unanswered, DeniedCommitReturns
<1>2. /\ header'.source = header.source /\ header'.kind = header.kind
      /\ header'.no_store = header.no_store
      /\ ledger'.stranded = ledger.stranded
      /\ ledger'.discarded = ledger.discarded
  BY <1>1 DEF DeniedCommitReturns, HeaderType, LedgerType
<1>3. header.no_store
  BY <1>1 DEF IInv, ClientFacts
<1> QED BY <1>1, <1>2, <1>3 DEF IInv, ClientFacts, Open

\* The connection is unwritten when the request goes on.
LEMMA ClientAfterForward ==
    ASSUME IInv, ForwardProxied \/ ForwardQueued
    PROVE  ClientFacts'
<1>1. /\ pc = "inner_request_filter" /\ client.kind = "none" /\ ~client.gone
      /\ UNCHANGED <<client, wanted, upstream, ledger>>
      /\ header' \in {header, AppHeader("final", "queued")}
      /\ pc' \in {"cache_lookup", "response_filter"}
  BY DEF ForwardProxied, ForwardQueued, StillUnwritten, IInv, ClientFacts
<1> QED BY <1>1 DEF IInv, ClientFacts, AppHeader, Open

\* The inner response_filter may drop the header.
LEMMA ClientAfterFilter ==
    ASSUME IInv, InnerResponseFilter
    PROVE  ClientFacts'
<1>1. /\ pc = "response_filter" /\ client.kind = "none" /\ ~client.gone
      /\ UNCHANGED <<state, client, wanted, upstream>>
  BY DEF IInv, ClientFacts, Unanswered, FilterPoints, InnerResponseFilter
<1>2. header.cookies # <<>> => upstream.repeats > 0
  BY <1>1 DEF IInv, PointFacts, FilterPoints
<1>3. CASE pc' = "finalize_response" /\ UNCHANGED <<header, ledger>>
  BY <1>1, <1>3 DEF IInv, ClientFacts, Open
<1>4. CASE pc' = "fail_to_proxy" /\ header' = NoHeader /\ Discard
  BY <1>1, <1>2, <1>4, DiscardKeepsClient
<1> QED BY <1>3, <1>4 DEF InnerResponseFilter

\* A refused commit drops a header without cookies.
LEMMA ClientAfterFailedCommit ==
    ASSUME IInv, CommitFails
    PROVE  ClientFacts'
<1>1. /\ pc = "commit" /\ client.kind = "none" /\ ~client.gone
      /\ UNCHANGED <<state, client, wanted, upstream>>
  BY DEF IInv, ClientFacts, Unanswered, CommitFails
<1>2. header.cookies = <<>>
  <2>1. Deferred /\ header.cookies = Bundle /\ ledger.produced = <<>>
    BY <1>1 DEF IInv, AnswerFacts, AwaitingCall, CallFacts, PlaceFacts,
       PointFacts
  <2> QED BY <2>1, BundleCases DEF IInv, LoadFacts
<1>3. CASE pc' = "write_header" /\ UNCHANGED <<header, ledger>>
  BY <1>1, <1>3 DEF IInv, ClientFacts, Open
<1>4. CASE pc' = "fail_to_proxy" /\ header' = NoHeader /\ Discard
  BY <1>1, <1>2, <1>4, DiscardKeepsClient
<1> QED BY <1>3, <1>4 DEF CommitFails

\* A repeated callback.
LEMMA ClientAfterRepeat ==
    ASSUME IInv, RepeatFinalHeader
    PROVE  ClientFacts'
<1>1. upstream'.repeats > 0
  BY DEF RepeatFinalHeader, IInv, Shape, UpstreamType
<1>2. /\ pc = "write_header" /\ pc' = "response_filter"
      /\ UNCHANGED <<state, client, wanted, header, ledger>>
  BY DEF RepeatFinalHeader
<1> QED BY <1>1, <1>2 DEF IInv, ClientFacts, Open, Unanswered

\* The header is written with its caching policy.
LEMMA ClientAfterHeader ==
    ASSUME IInv, WriteHeader
    PROVE  ClientFacts'
<1>1. /\ pc = "write_header" /\ header \in HeaderType
      /\ header.kind \notin {"none", "interim"} /\ client \in ClientType
      /\ UNCHANGED <<state, calls, wanted, upstream, ledger>>
      /\ header.cookies = Bundle /\ header' = NoHeader
      /\ pc' \in {"write_body", "logging"}
  BY DEF WriteHeader, IInv, Shape, PointFacts, PlaceFacts, FilterPoints
<1>2. /\ client'.kind = IF header.source = "engine" THEN "engine" ELSE "application"
      /\ client'.cookies = header.cookies
      /\ client'.no_store = header.no_store /\ client'.gone = client.gone
  BY <1>1 DEF WriteHeader, ClientType
<1>3. ledger.stranded = <<>> /\ (Open => header.source = "engine")
  BY <1>1 DEF IInv, Conserved, Places, Unanswered, PointFacts, Open
<1>4. ~Open
  BY <1>1 DEF IInv, PointFacts, Open
<1>5. client'.kind = "application" /\ wanted => ledger.produced = <<"clear">>
  BY <1>1, <1>4 DEF IInv, ContextFacts, AnswerFacts, AwaitingCall
<1>6. header.no_store <=> (header.source = "engine" \/ header.cookies # <<>>)
  BY <1>1 DEF IInv, ClientFacts
<1>7. ~Open'
  BY <1>1, <1>4 DEF Open
<1> QED
  BY <1>1, <1>2, <1>3, <1>5, <1>6, <1>7 DEF IInv, ClientFacts, Unanswered,
     FreshPoints, FilterPoints, NoHeader

\* Cookies are only stranded when no finalized header went out.
LEMMA ClientAfterLogging ==
    ASSUME IInv, LoggingClaims
    PROVE  ClientFacts'
<1>1. /\ pc = "logging" /\ ledger \in LedgerType
      /\ UNCHANGED <<header, client, wanted, upstream>>
      /\ state'.finalized /\ state.set_cookies \in {<<>>, <<"load">>}
      /\ ~state.finalized
      /\ client.kind \in {"none", "engine", "application", "direct", "error"}
      /\ pc' \in {"logging_commit", "logging_terminate", "inner_logging"}
  BY DEF IInv, Shape, StateType, ClientType, LoggingClaims, Drained
<1>2. /\ ledger'.produced = ledger.produced
      /\ ledger'.discarded = ledger.discarded
      /\ ledger'.stranded = ledger.stranded \o state.set_cookies
  BY <1>1 DEF LoggingClaims, Stranded, LedgerType
<1>3. ledger.stranded \in BundleLists
  BY <1>1 DEF LedgerType, BundleLists
<1>4. ~Open => ledger'.stranded = ledger.stranded /\ pc' = "inner_logging"
  <2> SUFFICES ASSUME ~Open PROVE state.set_cookies = <<>> /\ ~EndsSession
                        /\ ~SavesSession
    BY <1>2, <1>3, Concatenated DEF LoggingClaims
  <2> QED BY <1>1 DEF IInv, ContextFacts, Open, EndsSession, SavesSession
<1>5. Open => client.kind \in {"none", "direct", "error"}
  BY <1>1 DEF IInv, ClientFacts
<1>6. ~Open'
  BY <1>1 DEF Open
<1> QED
  BY <1>1, <1>2, <1>4, <1>5, <1>6 DEF IInv, ClientFacts, Unanswered,
     FreshPoints, FilterPoints

\* A request for termination after the response is too late.
LEMMA ClientAfterRequest ==
    ASSUME IInv, InnerRequestsTermination
    PROVE  ClientFacts'
<1>1. /\ UNCHANGED <<pc, header, client, upstream, ledger>>
      /\ state'.finalized = state.finalized
      /\ state'.request_headers = state.request_headers
  BY DEF InnerRequestsTermination, IInv, Shape, StateType
<1>2. client.kind = "application" /\ wanted' => wanted
  BY DEF InnerRequestsTermination, IInv, ContextFacts, ClientFacts, Open
<1> QED BY <1>1, <1>2 DEF IInv, ClientFacts, Open

\* What the client's connection carried agrees with what was claimed.
LEMMA ClientStep ==
    ASSUME IInv, [Next]_vars
    PROVE  ClientFacts'
<1>1. CASE RequestFilter
  <2>1. CASE RouteDenied
    BY <2>1 DEF RouteDenied, Decide, EngineHeader, IInv, Shape, HeaderType,
       ClientType, LedgerType, ClientFacts, Unanswered, FreshPoints,
       FilterPoints, Open, PlaceFacts, NoHeader, StateType
  <2>2. CASE Preflight
    BY <2>2 DEF Preflight, ForwardUnloaded, Decide, IInv, Shape, HeaderType,
       ClientType, LedgerType, ClientFacts, Unanswered, FreshPoints,
       FilterPoints, Open, PlaceFacts, NoHeader, StateType
  <2>3. CASE PublicRoute
    BY <2>3 DEF PublicRoute, ForwardUnloaded, Decide, IInv, Shape, HeaderType,
       ClientType, LedgerType, ClientFacts, Unanswered, FreshPoints,
       FilterPoints, Open, PlaceFacts, NoHeader, StateType
  <2>4. CASE LoginRoute
    BY <2>4 DEF LoginRoute, Decide, EngineHeader, IInv, Shape, HeaderType,
       ClientType, LedgerType, ClientFacts, Unanswered, FreshPoints,
       FilterPoints, Open, PlaceFacts, NoHeader, StateType
  <2>5. CASE LoadSession
    BY <2>5 DEF LoadSession, IInv, Shape, HeaderType, ClientType, LedgerType,
       ClientFacts, Unanswered, FreshPoints, FilterPoints, Open, PlaceFacts,
       NoHeader, StateType
  <2>6. CASE LoadFailed
    BY <2>6 DEF LoadFailed, LoadRefused, Decide, EngineHeader, NotLoaded,
       IInv, Shape, HeaderType, ClientType, LedgerType, ClientFacts,
       Unanswered, FreshPoints, FilterPoints, Open, PlaceFacts, NoHeader,
       StateType
  <2>7. CASE RefreshUnavailable
    BY <2>7 DEF RefreshUnavailable, LoadRefused, Decide, EngineHeader,
       NotLoaded, IInv, Shape, HeaderType, ClientType, LedgerType,
       ClientFacts, Unanswered, FreshPoints, FilterPoints, Open, PlaceFacts,
       NoHeader, StateType
  <2>8. CASE Unauthenticated
    BY <2>8 DEF Unauthenticated, Sessionless, NotLoaded, Decide, EngineHeader,
       IInv, Shape, HeaderType, ClientType, LedgerType, ClientFacts,
       Unanswered, FreshPoints, FilterPoints, Open, PlaceFacts, NoHeader,
       StateType
  <2>9. CASE Anonymous
    BY <2>9 DEF Anonymous, Sessionless, NotLoaded, Decide, Prepared, IInv,
       Shape, HeaderType, ClientType, LedgerType, ClientFacts, Unanswered,
       FreshPoints, FilterPoints, Open, PlaceFacts, NoHeader, StateType
  <2>10. CASE Forbidden
    BY <2>10 DEF Forbidden, WithSession, Decide, EngineHeader, IInv, Shape,
       HeaderType, ClientType, LedgerType, ClientFacts, Unanswered,
       FreshPoints, FilterPoints, Open, PlaceFacts, NoHeader, StateType
  <2>11. CASE DeniedCommitReturns
    BY <2>11, ClientAfterDenial
  <2>12. CASE Authenticated
    BY <2>12 DEF Authenticated, WithSession, Decide, Prepared, IInv, Shape,
       HeaderType, ClientType, LedgerType, ClientFacts, Unanswered,
       FreshPoints, FilterPoints, Open, PlaceFacts, NoHeader, StateType
  <2> QED BY <1>1, <2>1, <2>2, <2>3, <2>4, <2>5, <2>6, <2>7, <2>8, <2>9,
    <2>10, <2>11, <2>12 DEF RequestFilter
<1>2. CASE ForwardRequest
  <2>1. CASE InnerQueuesResponse
    BY <2>1 DEF InnerQueuesResponse, IInv, Shape, HeaderType, ClientType,
       LedgerType, ClientFacts, Unanswered, FreshPoints, FilterPoints, Open,
       PlaceFacts, NoHeader, StateType
  <2>2. CASE InnerWritesDirectly
    BY <2>2 DEF InnerWritesDirectly, IInv, Shape, HeaderType, ClientType,
       LedgerType, ClientFacts, Unanswered, FreshPoints, FilterPoints, Open,
       PlaceFacts, NoHeader, StateType
  <2>3. CASE ForwardFails
    BY <2>3 DEF ForwardFails, IInv, Shape, HeaderType, ClientType, LedgerType,
       ClientFacts, Unanswered, FreshPoints, FilterPoints, Open, PlaceFacts,
       NoHeader, StateType
  <2>4. CASE ForwardHandled
    BY <2>4 DEF ForwardHandled, IInv, Shape, HeaderType, ClientType,
       LedgerType, ClientFacts, Unanswered, FreshPoints, FilterPoints, Open,
       PlaceFacts, NoHeader, StateType
  <2>5. CASE ForwardProxied
    BY <2>5, ClientAfterForward
  <2>6. CASE ForwardQueued
    BY <2>6, ClientAfterForward
  <2> QED BY <1>2, <2>1, <2>2, <2>3, <2>4, <2>5, <2>6 DEF ForwardRequest
<1>3. CASE Upstream
  <2>1. CASE CacheHit
    BY <2>1 DEF CacheHit, AppHeader, IInv, Shape, HeaderType, ClientType,
       LedgerType, ClientFacts, Unanswered, FreshPoints, FilterPoints, Open,
       PlaceFacts, NoHeader, StateType
  <2>2. CASE UpstreamRequestFilter
    BY <2>2 DEF UpstreamRequestFilter, IInv, Shape, HeaderType, ClientType,
       LedgerType, ClientFacts, Unanswered, FreshPoints, FilterPoints, Open,
       PlaceFacts, NoHeader, StateType
  <2>3. CASE UpstreamInterim
    BY <2>3 DEF UpstreamInterim, AppHeader, IInv, Shape, HeaderType,
       ClientType, LedgerType, ClientFacts, Unanswered, FreshPoints,
       FilterPoints, Open, PlaceFacts, NoHeader, StateType
  <2>4. CASE UpstreamResponds
    BY <2>4 DEF UpstreamResponds, AppHeader, IInv, Shape, HeaderType,
       ClientType, LedgerType, ClientFacts, Unanswered, FreshPoints,
       FilterPoints, Open, PlaceFacts, NoHeader, StateType
  <2>5. CASE UpstreamFails
    BY <2>5 DEF UpstreamFails, IInv, Shape, HeaderType, ClientType,
       LedgerType, ClientFacts, Unanswered, FreshPoints, FilterPoints, Open,
       PlaceFacts, NoHeader, StateType
  <2> QED BY <1>3, <2>1, <2>2, <2>3, <2>4, <2>5 DEF Upstream
<1>4. CASE ResponseFilter
  <2>1. CASE InnerResponseFilter
    BY <2>1, ClientAfterFilter
  <2>2. CASE FinalizeSkips
    BY <2>2 DEF FinalizeSkips, PassesUntouched, IInv, Shape, HeaderType,
       ClientType, LedgerType, ClientFacts, Unanswered, FreshPoints,
       FilterPoints, Open, PlaceFacts, NoHeader, StateType
  <2>3. CASE FinalizeClaims
    BY <2>3 DEF FinalizeClaims, PassesUntouched, Drained, EndsSession,
       SavesSession, SessionCall, WithCookies, IInv, Shape, HeaderType,
       ClientType, LedgerType, ClientFacts, Unanswered, FreshPoints,
       FilterPoints, Open, PlaceFacts, NoHeader, StateType
  <2>4. CASE TerminateReturns
    BY <2>4 DEF TerminateReturns, WithCookies, ClearsFor, IInv, Shape,
       HeaderType, ClientType, LedgerType, ClientFacts, Unanswered,
       FreshPoints, FilterPoints, Open, PlaceFacts, NoHeader, StateType
  <2>5. CASE CommitSucceeds
    BY <2>5 DEF CommitSucceeds, WithCookies, IInv, Shape, HeaderType,
       ClientType, LedgerType, ClientFacts, Unanswered, FreshPoints,
       FilterPoints, Open, PlaceFacts, NoHeader, StateType
  <2>6. CASE CommitFails
    BY <2>6, ClientAfterFailedCommit
  <2>7. CASE RepeatFinalHeader
    BY <2>7, ClientAfterRepeat
  <2> QED BY <1>4, <2>1, <2>2, <2>3, <2>4, <2>5, <2>6, <2>7 DEF ResponseFilter
<1>5. CASE Write
  <2>1. CASE WriteInterim
    BY <2>1 DEF WriteInterim, NoHeader, IInv, Shape, HeaderType, ClientType,
       LedgerType, ClientFacts, Unanswered, FreshPoints, FilterPoints, Open,
       PlaceFacts, StateType
  <2>2. CASE WriteHeader
    BY <2>2, ClientAfterHeader
  <2>3. CASE WriteHeaderFails
    BY <2>3 DEF WriteHeaderFails, Discard, NoHeader, IInv, Shape, HeaderType,
       ClientType, LedgerType, ClientFacts, Unanswered, FreshPoints,
       FilterPoints, Open, PlaceFacts, StateType
  <2>4. CASE WriteBody
    BY <2>4 DEF WriteBody, IInv, Shape, HeaderType, ClientType, LedgerType,
       ClientFacts, Unanswered, FreshPoints, FilterPoints, Open, PlaceFacts,
       NoHeader, StateType
  <2>5. CASE FailToProxy
    BY <2>5 DEF FailToProxy, IInv, Shape, HeaderType, ClientType, LedgerType,
       ClientFacts, Unanswered, FreshPoints, FilterPoints, Open, PlaceFacts,
       NoHeader, StateType
  <2> QED BY <1>5, <2>1, <2>2, <2>3, <2>4, <2>5 DEF Write
<1>6. CASE Logging
  <2>1. CASE LoggingSkips
    BY <2>1 DEF LoggingSkips, IInv, Shape, HeaderType, ClientType, LedgerType,
       ClientFacts, Unanswered, FreshPoints, FilterPoints, Open, PlaceFacts,
       NoHeader, StateType
  <2>2. CASE LoggingClaims
    BY <2>2, ClientAfterLogging
  <2>3. CASE LoggingTerminateReturns
    BY <2>3 DEF LoggingTerminateReturns, ProducedTooLate, Stranded, ClearsFor,
       IInv, Shape, HeaderType, ClientType, LedgerType, ClientFacts,
       Unanswered, FreshPoints, FilterPoints, Open, PlaceFacts, NoHeader,
       StateType
  <2>4. CASE LoggingCommitReturns
    BY <2>4 DEF LoggingCommitReturns, ProducedTooLate, Stranded, IInv, Shape,
       HeaderType, ClientType, LedgerType, ClientFacts, Unanswered,
       FreshPoints, FilterPoints, Open, PlaceFacts, NoHeader, StateType
  <2>5. CASE InnerLogging
    BY <2>5 DEF InnerLogging, IInv, Shape, HeaderType, ClientType, LedgerType,
       ClientFacts, Unanswered, FreshPoints, FilterPoints, Open, PlaceFacts,
       NoHeader, StateType
  <2> QED BY <1>6, <2>1, <2>2, <2>3, <2>4, <2>5 DEF Logging
<1>7. CASE InnerRequestsTermination \/ Abort \/ Ended \/ UNCHANGED vars
  <2>1. CASE InnerRequestsTermination
    BY <2>1, ClientAfterRequest
  <2>2. CASE Abort
    BY <2>2 DEF Abort, IInv, Shape, HeaderType, ClientType, LedgerType,
       ClientFacts, Unanswered, FreshPoints, FilterPoints, Open, PlaceFacts,
       NoHeader, StateType
  <2>3. CASE Ended
    BY <2>3 DEF Ended, vars, IInv, Shape, HeaderType, ClientType, LedgerType,
       ClientFacts, Unanswered, FreshPoints, FilterPoints, Open, PlaceFacts,
       NoHeader, StateType
  <2>4. CASE UNCHANGED vars
    BY <2>4 DEF vars, IInv, Shape, HeaderType, ClientType, LedgerType,
       ClientFacts, Unanswered, FreshPoints, FilterPoints, Open, PlaceFacts,
       NoHeader, StateType
  <2> QED BY <1>7, <2>1, <2>2, <2>3, <2>4
<1> QED BY <1>1, <1>2, <1>3, <1>4, <1>5, <1>6, <1>7 DEF Next, Progress

-----------------------------------------------------------------------------
\* Once the policy refused a failed commit, only error handling follows.
LEMMA RejectStep ==
    ASSUME IInv, [Next]_vars
    PROVE  RejectFacts'
<1>1. CASE RequestFilter
  <2>1. CASE RouteDenied
    BY <2>1, ConstantsAssumption DEF RouteDenied, Decide, EngineHeader, IInv,
       RejectFacts, PointFacts, AnswerFacts, AwaitingCall, ClientFacts,
       Unanswered, ContextFacts, Open, Shape, CallsType, Calls, ClientType,
       ResultType, ErrorsOrOk, Fresh, FreshPoints
  <2>2. CASE Preflight
    BY <2>2, ConstantsAssumption DEF Preflight, ForwardUnloaded, Decide, IInv,
       RejectFacts, PointFacts, AnswerFacts, AwaitingCall, ClientFacts,
       Unanswered, ContextFacts, Open, Shape, CallsType, Calls, ClientType,
       ResultType, ErrorsOrOk, Fresh, FreshPoints
  <2>3. CASE PublicRoute
    BY <2>3, ConstantsAssumption DEF PublicRoute, ForwardUnloaded, Decide,
       IInv, RejectFacts, PointFacts, AnswerFacts, AwaitingCall, ClientFacts,
       Unanswered, ContextFacts, Open, Shape, CallsType, Calls, ClientType,
       ResultType, ErrorsOrOk, Fresh, FreshPoints
  <2>4. CASE LoginRoute
    BY <2>4, ConstantsAssumption DEF LoginRoute, Decide, EngineHeader, IInv,
       RejectFacts, PointFacts, AnswerFacts, AwaitingCall, ClientFacts,
       Unanswered, ContextFacts, Open, Shape, CallsType, Calls, ClientType,
       ResultType, ErrorsOrOk, Fresh, FreshPoints
  <2>5. CASE LoadSession
    BY <2>5, ConstantsAssumption DEF LoadSession, IInv, RejectFacts,
       PointFacts, AnswerFacts, AwaitingCall, ClientFacts, Unanswered,
       ContextFacts, Open, Shape, CallsType, Calls, ClientType, ResultType,
       ErrorsOrOk, Fresh, FreshPoints
  <2>6. CASE LoadFailed
    BY <2>6, ConstantsAssumption DEF LoadFailed, LoadRefused, Decide,
       EngineHeader, NotLoaded, IInv, RejectFacts, PointFacts, AnswerFacts,
       AwaitingCall, ClientFacts, Unanswered, ContextFacts, Open, Shape,
       CallsType, Calls, ClientType, ResultType, ErrorsOrOk, Fresh,
       FreshPoints
  <2>7. CASE RefreshUnavailable
    BY <2>7, ConstantsAssumption DEF RefreshUnavailable, LoadRefused, Decide,
       EngineHeader, NotLoaded, IInv, RejectFacts, PointFacts, AnswerFacts,
       AwaitingCall, ClientFacts, Unanswered, ContextFacts, Open, Shape,
       CallsType, Calls, ClientType, ResultType, ErrorsOrOk, Fresh,
       FreshPoints
  <2>8. CASE Unauthenticated
    BY <2>8, ConstantsAssumption DEF Unauthenticated, Sessionless, NotLoaded,
       Decide, EngineHeader, IInv, RejectFacts, PointFacts, AnswerFacts,
       AwaitingCall, ClientFacts, Unanswered, ContextFacts, Open, Shape,
       CallsType, Calls, ClientType, ResultType, ErrorsOrOk, Fresh,
       FreshPoints
  <2>9. CASE Anonymous
    BY <2>9, ConstantsAssumption DEF Anonymous, Sessionless, NotLoaded,
       Decide, Prepared, IInv, RejectFacts, PointFacts, AnswerFacts,
       AwaitingCall, ClientFacts, Unanswered, ContextFacts, Open, Shape,
       CallsType, Calls, ClientType, ResultType, ErrorsOrOk, Fresh,
       FreshPoints
  <2>10. CASE Forbidden
    BY <2>10, ConstantsAssumption DEF Forbidden, WithSession, Decide,
       EngineHeader, IInv, RejectFacts, PointFacts, AnswerFacts, AwaitingCall,
       ClientFacts, Unanswered, ContextFacts, Open, Shape, CallsType, Calls,
       ClientType, ResultType, ErrorsOrOk, Fresh, FreshPoints
  <2>11. CASE DeniedCommitReturns
    BY <2>11 DEF DeniedCommitReturns, IInv, RejectFacts, PointFacts,
       AnswerFacts, AwaitingCall, ClientFacts, Unanswered, ContextFacts, Open,
       Shape, CallsType, Calls, ClientType, ResultType, ErrorsOrOk
  <2>12. CASE Authenticated
    BY <2>12, ConstantsAssumption DEF Authenticated, WithSession, Decide,
       Prepared, IInv, RejectFacts, PointFacts, AnswerFacts, AwaitingCall,
       ClientFacts, Unanswered, ContextFacts, Open, Shape, CallsType, Calls,
       ClientType, ResultType, ErrorsOrOk, Fresh, FreshPoints
  <2> QED BY <1>1, <2>1, <2>2, <2>3, <2>4, <2>5, <2>6, <2>7, <2>8, <2>9,
    <2>10, <2>11, <2>12 DEF RequestFilter
<1>2. CASE ForwardRequest
  BY <1>2 DEF ForwardRequest, InnerQueuesResponse, InnerWritesDirectly,
     ForwardFails, ForwardHandled, ForwardProxied, ForwardQueued, AppHeader,
     StillUnwritten, IInv, RejectFacts, PointFacts, AnswerFacts, AwaitingCall,
     ClientFacts, Unanswered, ContextFacts, Open, Shape, CallsType, Calls,
     ClientType, ResultType, ErrorsOrOk
<1>3. CASE Upstream
  BY <1>3 DEF Upstream, CacheHit, AppHeader, UpstreamRequestFilter,
     UpstreamInterim, UpstreamResponds, UpstreamFails, IInv, RejectFacts,
     PointFacts, AnswerFacts, AwaitingCall, ClientFacts, Unanswered,
     ContextFacts, Open, Shape, CallsType, Calls, ClientType, ResultType,
     ErrorsOrOk
<1>4. CASE ResponseFilter
  <2>1. CASE InnerResponseFilter
    BY <2>1 DEF InnerResponseFilter, Discard, NoHeader, IInv, RejectFacts,
       PointFacts, AnswerFacts, AwaitingCall, ClientFacts, Unanswered,
       ContextFacts, Open, Shape, CallsType, Calls, ClientType, ResultType,
       ErrorsOrOk
  <2>2. CASE FinalizeSkips
    BY <2>2 DEF FinalizeSkips, PassesUntouched, IInv, RejectFacts, PointFacts,
       AnswerFacts, AwaitingCall, ClientFacts, Unanswered, ContextFacts, Open,
       Shape, CallsType, Calls, ClientType, ResultType, ErrorsOrOk
  <2>3. CASE FinalizeClaims
    BY <2>3, ConstantsAssumption DEF FinalizeClaims, PassesUntouched, Drained,
       EndsSession, SavesSession, SessionCall, WithCookies, IInv, RejectFacts,
       PointFacts, AnswerFacts, AwaitingCall, ClientFacts, Unanswered,
       ContextFacts, Open, Shape, CallsType, Calls, ClientType, ResultType,
       ErrorsOrOk, StateType, LoadFacts, HeaderType
  <2>4. CASE TerminateReturns
    BY <2>4 DEF TerminateReturns, WithCookies, ClearsFor, IInv, RejectFacts,
       PointFacts, AnswerFacts, AwaitingCall, ClientFacts, Unanswered,
       ContextFacts, Open, Shape, CallsType, Calls, ClientType, ResultType,
       ErrorsOrOk, CallFacts
  <2>5. CASE CommitSucceeds
    BY <2>5, ConstantsAssumption DEF CommitSucceeds, WithCookies, IInv,
       RejectFacts, PointFacts, AnswerFacts, AwaitingCall, ClientFacts,
       Unanswered, ContextFacts, Open, Shape, CallsType, Calls, ClientType,
       ResultType, ErrorsOrOk
  <2>6. CASE CommitFails
    BY <2>6 DEF CommitFails, PolicyRejects, Discard, NoHeader, IInv,
       RejectFacts, PointFacts, AnswerFacts, AwaitingCall, ClientFacts,
       Unanswered, ContextFacts, Open, Shape, CallsType, Calls, ClientType,
       ResultType, ErrorsOrOk
  <2>7. CASE RepeatFinalHeader
    BY <2>7 DEF RepeatFinalHeader, IInv, RejectFacts, PointFacts, AnswerFacts,
       AwaitingCall, ClientFacts, Unanswered, ContextFacts, Open, Shape,
       CallsType, Calls, ClientType, ResultType, ErrorsOrOk
  <2> QED BY <1>4, <2>1, <2>2, <2>3, <2>4, <2>5, <2>6, <2>7 DEF ResponseFilter
<1>5. CASE Write
  BY <1>5 DEF Write, WriteInterim, NoHeader, WriteHeader, WriteHeaderFails,
     Discard, WriteBody, FailToProxy, IInv, RejectFacts, PointFacts,
     AnswerFacts, AwaitingCall, ClientFacts, Unanswered, ContextFacts, Open,
     Shape, CallsType, Calls, ClientType, ResultType, ErrorsOrOk
<1>6. CASE Logging
  <2>1. CASE LoggingSkips
    BY <2>1 DEF LoggingSkips, IInv, RejectFacts, PointFacts, AnswerFacts,
       AwaitingCall, ClientFacts, Unanswered, ContextFacts, Open, Shape,
       CallsType, Calls, ClientType, ResultType, ErrorsOrOk
  <2>2. CASE LoggingClaims
    BY <2>2 DEF LoggingClaims, Stranded, Drained, EndsSession, SavesSession,
       SessionCall, IInv, RejectFacts, PointFacts, AnswerFacts, AwaitingCall,
       ClientFacts, Unanswered, ContextFacts, Open, Shape, CallsType, Calls,
       ClientType, ResultType, ErrorsOrOk
  <2>3. CASE LoggingTerminateReturns
    BY <2>3 DEF LoggingTerminateReturns, ProducedTooLate, Stranded, ClearsFor,
       IInv, RejectFacts, PointFacts, AnswerFacts, AwaitingCall, ClientFacts,
       Unanswered, ContextFacts, Open, Shape, CallsType, Calls, ClientType,
       ResultType, ErrorsOrOk
  <2>4. CASE LoggingCommitReturns
    BY <2>4 DEF LoggingCommitReturns, ProducedTooLate, Stranded, IInv,
       RejectFacts, PointFacts, AnswerFacts, AwaitingCall, ClientFacts,
       Unanswered, ContextFacts, Open, Shape, CallsType, Calls, ClientType,
       ResultType, ErrorsOrOk
  <2>5. CASE InnerLogging
    BY <2>5 DEF InnerLogging, IInv, RejectFacts, PointFacts, AnswerFacts,
       AwaitingCall, ClientFacts, Unanswered, ContextFacts, Open, Shape,
       CallsType, Calls, ClientType, ResultType, ErrorsOrOk
  <2> QED BY <1>6, <2>1, <2>2, <2>3, <2>4, <2>5 DEF Logging
<1>7. CASE InnerRequestsTermination \/ Abort \/ Ended \/ UNCHANGED vars
  BY <1>7 DEF InnerRequestsTermination, Abort, Ended, vars, IInv, RejectFacts,
     PointFacts, AnswerFacts, AwaitingCall, ClientFacts, Unanswered,
     ContextFacts, Open, Shape, CallsType, Calls, ClientType, ResultType,
     ErrorsOrOk
<1> QED BY <1>1, <1>2, <1>3, <1>4, <1>5, <1>6, <1>7 DEF Next, Progress

\* Each decision and each entry into finalization is counted where the other
\* could not have been.
LEMMA TallyStep ==
    ASSUME IInv, [Next]_vars
    PROVE  TallyFacts'
<1>1. CASE RequestFilter
  <2>1. CASE RouteDenied
    BY <2>1 DEF RouteDenied, Decide, EngineHeader, IInv, TallyFacts,
       FreshPoints, Shape, TallyType, StateType
  <2>2. CASE Preflight
    BY <2>2 DEF Preflight, ForwardUnloaded, Decide, IInv, TallyFacts,
       FreshPoints, Shape, TallyType, StateType
  <2>3. CASE PublicRoute
    BY <2>3 DEF PublicRoute, ForwardUnloaded, Decide, IInv, TallyFacts,
       FreshPoints, Shape, TallyType, StateType
  <2>4. CASE LoginRoute
    BY <2>4 DEF LoginRoute, Decide, EngineHeader, IInv, TallyFacts,
       FreshPoints, Shape, TallyType, StateType
  <2>5. CASE LoadSession
    BY <2>5 DEF LoadSession, IInv, TallyFacts, FreshPoints, Shape, TallyType,
       StateType
  <2>6. CASE LoadFailed
    BY <2>6 DEF LoadFailed, LoadRefused, Decide, EngineHeader, NotLoaded,
       IInv, TallyFacts, FreshPoints, Shape, TallyType, StateType
  <2>7. CASE RefreshUnavailable
    BY <2>7 DEF RefreshUnavailable, LoadRefused, Decide, EngineHeader,
       NotLoaded, IInv, TallyFacts, FreshPoints, Shape, TallyType, StateType
  <2>8. CASE Unauthenticated
    BY <2>8 DEF Unauthenticated, Sessionless, NotLoaded, Decide, EngineHeader,
       IInv, TallyFacts, FreshPoints, Shape, TallyType, StateType
  <2>9. CASE Anonymous
    BY <2>9, ConstantsAssumption DEF Anonymous, Sessionless, NotLoaded,
       Decide, Prepared, IInv, TallyFacts, FreshPoints, Shape, TallyType,
       StateType, Fresh, DefaultState
  <2>10. CASE Forbidden
    BY <2>10 DEF Forbidden, WithSession, Decide, EngineHeader, IInv,
       TallyFacts, FreshPoints, Shape, TallyType, StateType
  <2>11. CASE DeniedCommitReturns
    BY <2>11 DEF DeniedCommitReturns, IInv, TallyFacts, FreshPoints, Shape,
       TallyType, StateType
  <2>12. CASE Authenticated
    BY <2>12, ConstantsAssumption DEF Authenticated, WithSession, Decide,
       Prepared, IInv, TallyFacts, FreshPoints, Shape, TallyType, StateType,
       Fresh, DefaultState, NotLoaded
  <2> QED BY <1>1, <2>1, <2>2, <2>3, <2>4, <2>5, <2>6, <2>7, <2>8, <2>9,
    <2>10, <2>11, <2>12 DEF RequestFilter
<1>2. CASE ForwardRequest
  BY <1>2 DEF ForwardRequest, InnerQueuesResponse, InnerWritesDirectly,
     ForwardFails, ForwardHandled, ForwardProxied, ForwardQueued, AppHeader,
     StillUnwritten, IInv, TallyFacts, FreshPoints, Shape, TallyType,
     StateType
<1>3. CASE Upstream
  BY <1>3 DEF Upstream, CacheHit, AppHeader, UpstreamRequestFilter,
     UpstreamInterim, UpstreamResponds, UpstreamFails, IInv, TallyFacts,
     FreshPoints, Shape, TallyType, StateType
<1>4. CASE ResponseFilter
  <2>1. CASE InnerResponseFilter
    BY <2>1 DEF InnerResponseFilter, Discard, NoHeader, IInv, TallyFacts,
       FreshPoints, Shape, TallyType, StateType
  <2>2. CASE FinalizeSkips
    BY <2>2 DEF FinalizeSkips, PassesUntouched, IInv, TallyFacts, FreshPoints,
       Shape, TallyType, StateType
  <2>3. CASE FinalizeClaims
    BY <2>3 DEF FinalizeClaims, PassesUntouched, Drained, EndsSession,
       SavesSession, SessionCall, WithCookies, IInv, TallyFacts, FreshPoints,
       Shape, TallyType, StateType
  <2>4. CASE TerminateReturns
    BY <2>4 DEF TerminateReturns, WithCookies, ClearsFor, IInv, TallyFacts,
       FreshPoints, Shape, TallyType, StateType
  <2>5. CASE CommitSucceeds
    BY <2>5 DEF CommitSucceeds, WithCookies, IInv, TallyFacts, FreshPoints,
       Shape, TallyType, StateType
  <2>6. CASE CommitFails
    BY <2>6 DEF CommitFails, PolicyRejects, Discard, NoHeader, IInv,
       TallyFacts, FreshPoints, Shape, TallyType, StateType
  <2>7. CASE RepeatFinalHeader
    BY <2>7 DEF RepeatFinalHeader, IInv, TallyFacts, FreshPoints, Shape,
       TallyType, StateType
  <2> QED BY <1>4, <2>1, <2>2, <2>3, <2>4, <2>5, <2>6, <2>7 DEF ResponseFilter
<1>5. CASE Write
  BY <1>5 DEF Write, WriteInterim, NoHeader, WriteHeader, WriteHeaderFails,
     Discard, WriteBody, FailToProxy, IInv, TallyFacts, FreshPoints, Shape,
     TallyType, StateType
<1>6. CASE Logging
  <2>1. CASE LoggingSkips
    BY <2>1 DEF LoggingSkips, IInv, TallyFacts, FreshPoints, Shape, TallyType,
       StateType
  <2>2. CASE LoggingClaims
    BY <2>2 DEF LoggingClaims, Stranded, Drained, EndsSession, SavesSession,
       SessionCall, IInv, TallyFacts, FreshPoints, Shape, TallyType, StateType
  <2>3. CASE LoggingTerminateReturns
    BY <2>3 DEF LoggingTerminateReturns, ProducedTooLate, Stranded, ClearsFor,
       IInv, TallyFacts, FreshPoints, Shape, TallyType, StateType
  <2>4. CASE LoggingCommitReturns
    BY <2>4 DEF LoggingCommitReturns, ProducedTooLate, Stranded, IInv,
       TallyFacts, FreshPoints, Shape, TallyType, StateType
  <2>5. CASE InnerLogging
    BY <2>5 DEF InnerLogging, IInv, TallyFacts, FreshPoints, Shape, TallyType,
       StateType
  <2> QED BY <1>6, <2>1, <2>2, <2>3, <2>4, <2>5 DEF Logging
<1>7. CASE InnerRequestsTermination \/ Abort \/ Ended \/ UNCHANGED vars
  BY <1>7 DEF InnerRequestsTermination, Abort, Ended, vars, IInv, TallyFacts,
     FreshPoints, Shape, TallyType, StateType
<1> QED BY <1>1, <1>2, <1>3, <1>4, <1>5, <1>6, <1>7 DEF Next, Progress

\* A request reaches the inner proxy only as its route and load admit.
LEMMA AdmissionStep ==
    ASSUME IInv, [Next]_vars
    PROVE  AdmissionFacts'
<1>1. CASE RequestFilter
  <2>1. CASE RouteDenied
    BY <2>1 DEF RouteDenied, Decide, EngineHeader, IInv, AdmissionFacts,
       Admitted, Forwarded, IsPassedPreflight, Fresh, FreshPoints, Shape,
       HeaderType, ClientType, UpstreamType, NoHeader
  <2>2. CASE Preflight
    BY <2>2 DEF Preflight, ForwardUnloaded, Decide, IInv, AdmissionFacts,
       Admitted, Forwarded, IsPassedPreflight, Fresh, FreshPoints, Shape,
       HeaderType, ClientType, UpstreamType, NoHeader
  <2>3. CASE PublicRoute
    BY <2>3, ConstantsAssumption DEF PublicRoute, ForwardUnloaded, Decide,
       IInv, AdmissionFacts, Admitted, Forwarded, IsPassedPreflight, Fresh,
       FreshPoints, Shape, HeaderType, ClientType, UpstreamType, NoHeader,
       NotLoaded
  <2>4. CASE LoginRoute
    BY <2>4 DEF LoginRoute, Decide, EngineHeader, IInv, AdmissionFacts,
       Admitted, Forwarded, IsPassedPreflight, Fresh, FreshPoints, Shape,
       HeaderType, ClientType, UpstreamType, NoHeader
  <2>5. CASE LoadSession
    BY <2>5 DEF LoadSession, IInv, AdmissionFacts, Admitted, Forwarded,
       IsPassedPreflight, Fresh, FreshPoints, Shape, HeaderType, ClientType,
       UpstreamType, NoHeader
  <2>6. CASE LoadFailed
    BY <2>6 DEF LoadFailed, LoadRefused, Decide, EngineHeader, NotLoaded,
       IInv, AdmissionFacts, Admitted, Forwarded, IsPassedPreflight, Fresh,
       FreshPoints, Shape, HeaderType, ClientType, UpstreamType, NoHeader
  <2>7. CASE RefreshUnavailable
    BY <2>7 DEF RefreshUnavailable, LoadRefused, Decide, EngineHeader,
       NotLoaded, IInv, AdmissionFacts, Admitted, Forwarded,
       IsPassedPreflight, Fresh, FreshPoints, Shape, HeaderType, ClientType,
       UpstreamType, NoHeader
  <2>8. CASE Unauthenticated
    BY <2>8 DEF Unauthenticated, Sessionless, NotLoaded, Decide, EngineHeader,
       IInv, AdmissionFacts, Admitted, Forwarded, IsPassedPreflight, Fresh,
       FreshPoints, Shape, HeaderType, ClientType, UpstreamType, NoHeader
  <2>9. CASE Anonymous
    BY <2>9 DEF Anonymous, Sessionless, NotLoaded, Decide, Prepared, IInv,
       AdmissionFacts, Admitted, Forwarded, IsPassedPreflight, Fresh,
       FreshPoints, Shape, HeaderType, ClientType, UpstreamType, NoHeader
  <2>10. CASE Forbidden
    BY <2>10 DEF Forbidden, WithSession, Decide, EngineHeader, IInv,
       AdmissionFacts, Admitted, Forwarded, IsPassedPreflight, Fresh,
       FreshPoints, Shape, HeaderType, ClientType, UpstreamType, NoHeader
  <2>11. CASE DeniedCommitReturns
    BY <2>11 DEF DeniedCommitReturns, IInv, AdmissionFacts, Admitted,
       Forwarded, IsPassedPreflight, Fresh, FreshPoints, Shape, HeaderType,
       ClientType, UpstreamType, NoHeader
  <2>12. CASE Authenticated
    BY <2>12, ConstantsAssumption DEF Authenticated, WithSession, Decide,
       Prepared, IInv, AdmissionFacts, Admitted, Forwarded, IsPassedPreflight,
       Fresh, FreshPoints, Shape, HeaderType, ClientType, UpstreamType,
       NoHeader, NotLoaded, Requests
  <2> QED BY <1>1, <2>1, <2>2, <2>3, <2>4, <2>5, <2>6, <2>7, <2>8, <2>9,
    <2>10, <2>11, <2>12 DEF RequestFilter
<1>2. CASE ForwardRequest
  BY <1>2 DEF ForwardRequest, InnerQueuesResponse, InnerWritesDirectly,
     ForwardFails, ForwardHandled, ForwardProxied, ForwardQueued, AppHeader,
     StillUnwritten, IInv, AdmissionFacts, Admitted, Forwarded,
     IsPassedPreflight, Fresh, FreshPoints, Shape, HeaderType, ClientType,
     UpstreamType, NoHeader
<1>3. CASE Upstream
  <2>1. CASE CacheHit
    BY <2>1 DEF CacheHit, AppHeader, IInv, AdmissionFacts, Admitted,
       Forwarded, IsPassedPreflight, Fresh, FreshPoints, Shape, HeaderType,
       ClientType, UpstreamType, NoHeader
  <2>2. CASE UpstreamRequestFilter
    BY <2>2 DEF UpstreamRequestFilter, IInv, AdmissionFacts, Admitted,
       Forwarded, IsPassedPreflight, Fresh, FreshPoints, Shape, HeaderType,
       ClientType, UpstreamType, NoHeader
  <2>3. CASE UpstreamInterim
    BY <2>3 DEF UpstreamInterim, AppHeader, IInv, AdmissionFacts, Admitted,
       Forwarded, IsPassedPreflight, Fresh, FreshPoints, Shape, HeaderType,
       ClientType, UpstreamType, NoHeader
  <2>4. CASE UpstreamResponds
    BY <2>4 DEF UpstreamResponds, AppHeader, IInv, AdmissionFacts, Admitted,
       Forwarded, IsPassedPreflight, Fresh, FreshPoints, Shape, HeaderType,
       ClientType, UpstreamType, NoHeader
  <2>5. CASE UpstreamFails
    BY <2>5 DEF UpstreamFails, IInv, AdmissionFacts, Admitted, Forwarded,
       IsPassedPreflight, Fresh, FreshPoints, Shape, HeaderType, ClientType,
       UpstreamType, NoHeader
  <2> QED BY <1>3, <2>1, <2>2, <2>3, <2>4, <2>5 DEF Upstream
<1>4. CASE ResponseFilter
  <2>1. CASE InnerResponseFilter
    BY <2>1 DEF InnerResponseFilter, Discard, NoHeader, IInv, AdmissionFacts,
       Admitted, Forwarded, IsPassedPreflight, Fresh, FreshPoints, Shape,
       HeaderType, ClientType, UpstreamType
  <2>2. CASE FinalizeSkips
    BY <2>2 DEF FinalizeSkips, PassesUntouched, IInv, AdmissionFacts,
       Admitted, Forwarded, IsPassedPreflight, Fresh, FreshPoints, Shape,
       HeaderType, ClientType, UpstreamType, NoHeader
  <2>3. CASE FinalizeClaims
    BY <2>3 DEF FinalizeClaims, PassesUntouched, Drained, EndsSession,
       SavesSession, SessionCall, WithCookies, IInv, AdmissionFacts, Admitted,
       Forwarded, IsPassedPreflight, Fresh, FreshPoints, Shape, HeaderType,
       ClientType, UpstreamType, NoHeader
  <2>4. CASE TerminateReturns
    BY <2>4 DEF TerminateReturns, WithCookies, ClearsFor, IInv,
       AdmissionFacts, Admitted, Forwarded, IsPassedPreflight, Fresh,
       FreshPoints, Shape, HeaderType, ClientType, UpstreamType, NoHeader
  <2>5. CASE CommitSucceeds
    BY <2>5 DEF CommitSucceeds, WithCookies, IInv, AdmissionFacts, Admitted,
       Forwarded, IsPassedPreflight, Fresh, FreshPoints, Shape, HeaderType,
       ClientType, UpstreamType, NoHeader
  <2>6. CASE CommitFails
    BY <2>6 DEF CommitFails, PolicyRejects, Discard, NoHeader, IInv,
       AdmissionFacts, Admitted, Forwarded, IsPassedPreflight, Fresh,
       FreshPoints, Shape, HeaderType, ClientType, UpstreamType
  <2>7. CASE RepeatFinalHeader
    BY <2>7 DEF RepeatFinalHeader, IInv, AdmissionFacts, Admitted, Forwarded,
       IsPassedPreflight, Fresh, FreshPoints, Shape, HeaderType, ClientType,
       UpstreamType, NoHeader
  <2> QED BY <1>4, <2>1, <2>2, <2>3, <2>4, <2>5, <2>6, <2>7 DEF ResponseFilter
<1>5. CASE Write
  <2>1. CASE WriteInterim
    BY <2>1 DEF WriteInterim, NoHeader, IInv, AdmissionFacts, Admitted,
       Forwarded, IsPassedPreflight, Fresh, FreshPoints, Shape, HeaderType,
       ClientType, UpstreamType, PointFacts, AnswerFacts
  <2>2. CASE WriteHeader
    BY <2>2 DEF WriteHeader, NoHeader, IInv, AdmissionFacts, Admitted,
       Forwarded, IsPassedPreflight, Fresh, FreshPoints, Shape, HeaderType,
       ClientType, UpstreamType, PointFacts, AnswerFacts, PlaceFacts
  <2>3. CASE WriteHeaderFails
    BY <2>3 DEF WriteHeaderFails, Discard, NoHeader, IInv, AdmissionFacts,
       Admitted, Forwarded, IsPassedPreflight, Fresh, FreshPoints, Shape,
       HeaderType, ClientType, UpstreamType
  <2>4. CASE WriteBody
    BY <2>4 DEF WriteBody, IInv, AdmissionFacts, Admitted, Forwarded,
       IsPassedPreflight, Fresh, FreshPoints, Shape, HeaderType, ClientType,
       UpstreamType, NoHeader
  <2>5. CASE FailToProxy
    BY <2>5 DEF FailToProxy, IInv, AdmissionFacts, Admitted, Forwarded,
       IsPassedPreflight, Fresh, FreshPoints, Shape, HeaderType, ClientType,
       UpstreamType, NoHeader
  <2> QED BY <1>5, <2>1, <2>2, <2>3, <2>4, <2>5 DEF Write
<1>6. CASE Logging
  BY <1>6 DEF Logging, LoggingSkips, LoggingClaims, Stranded, Drained,
     EndsSession, SavesSession, SessionCall, LoggingTerminateReturns,
     ProducedTooLate, ClearsFor, LoggingCommitReturns, InnerLogging, IInv,
     AdmissionFacts, Admitted, Forwarded, IsPassedPreflight, Fresh,
     FreshPoints, Shape, HeaderType, ClientType, UpstreamType, NoHeader
<1>7. CASE InnerRequestsTermination \/ Abort \/ Ended \/ UNCHANGED vars
  BY <1>7 DEF InnerRequestsTermination, Abort, Ended, vars, IInv,
     AdmissionFacts, Admitted, Forwarded, IsPassedPreflight, Fresh,
     FreshPoints, Shape, HeaderType, ClientType, UpstreamType, NoHeader
<1> QED BY <1>1, <1>2, <1>3, <1>4, <1>5, <1>6, <1>7 DEF Next, Progress

\* The initial states satisfy the inductive invariant.
LEMMA InitIInv ==
    ASSUME Init
    PROVE  IInv
<1>1. Shape
  <2>1. request \in Requests /\ loaded \in LoadedSession
    BY DEF Init, LoadedSession, NotLoaded
  <2>2. state \in StateType /\ header \in HeaderType
    BY DEF Init, DefaultState, StateType, NoHeader, HeaderType, BundleLists
  <2>3. upstream \in UpstreamType /\ client \in ClientType
          /\ ledger \in LedgerType /\ tally \in TallyType
    BY ConstantsAssumption DEF Init, UpstreamType, ClientType, LedgerType,
       TallyType, BundleLists
  <2> QED
    BY <2>1, <2>2, <2>3 DEF Init, Shape, AllPoints, AwaitPoints, CallsType,
       ResultType
<1>2. Fresh /\ LoadFacts /\ ContextFacts /\ CallFacts
  BY ConstantsAssumption DEF Init, Fresh, LoadFacts, ContextFacts, CallFacts,
     Open, Deferred, NotLoaded, DefaultState
<1>3. Bundle = <<>>
  BY Concatenated DEF Init, NotLoaded, Bundle, BundleLists
<1>4. Conserved /\ PlaceFacts /\ PointFacts /\ AnswerFacts
  BY <1>3 DEF Init, Conserved, Places, PlaceFacts, PointFacts, AnswerFacts,
     NoHeader, DefaultState, UnclaimedPoints, FilterPoints, AwaitingCall
<1>5. ClientFacts /\ RejectFacts /\ TallyFacts /\ AdmissionFacts
  BY ConstantsAssumption DEF Init, ClientFacts, RejectFacts, TallyFacts,
     AdmissionFacts, Forwarded, NoHeader, DefaultState, Open, FreshPoints
<1> QED BY <1>1, <1>2, <1>4, <1>5 DEF IInv

-----------------------------------------------------------------------------
(* The properties.  Each follows from the inductive invariant IInv of       *)
(* LoginInduction.                                                          *)

\* The invariant is inductive, and so it holds throughout every request.
THEOREM Invariance == Spec => []IInv
<1>1. Init => IInv
  BY InitIInv
<1>2. IInv /\ [Next]_vars => IInv'
  BY ShapeStep, FreshStep, ContextStep, CallStep, ConservedStep, PointStep,
     AnswerStep, PlaceStep, ClientStep, RejectStep, TallyStep, AdmissionStep
     DEF IInv
<1> QED BY <1>1, <1>2, PTL DEF Spec

\* Lists of at most one element.
LEMMA Singletons ==
    ASSUME NEW S
    PROVE  \A q \in {<<>>} \cup {<<x>> : x \in S} :
              q \in Seq(S) /\ Len(q) <= 1 /\ (q # <<>> => Len(q) = 1)
<1>1. <<>> \in Seq(S) /\ Len(<<>>) = 0
  BY EmptySeq
<1>2. \A x \in S : <<x>> \in Seq(S) /\ Len(<<x>>) = 1
  OBVIOUS
<1>3. \A x \in S : <<x>> \in Seq(S) /\ Len(<<x>>) <= 1 /\ Len(<<x>>) = 1
  BY <1>2
<1>4. <<>> \in Seq(S) /\ Len(<<>>) <= 1
  BY <1>1
<1> QED BY <1>3, <1>4, Zenon

\* Type correctness, with no bundle twice in a header, at the client or among
\* the stranded ones.
THEOREM TypeCorrect == Spec => []TypeOK
<1>1. IInv => TypeOK
  <2> SUFFICES ASSUME IInv PROVE TypeOK
    OBVIOUS
  <2>1. calls \in Seq(Calls)
    <3>1. calls \in {<<>>} \cup {<<c>> : c \in Calls}
      BY DEF IInv, Shape, CallsType
    <3> QED BY <3>1, Singletons
  <2>2. tally.decisions \in Seq(Outcomes) /\ tally.finalizations \in Nat
    <3>1. /\ tally.decisions \in {<<>>} \cup {<<o>> : o \in Outcomes}
          /\ tally.finalizations \in {0, 1}
      BY DEF IInv, Shape, TallyType
    <3> QED BY <3>1, Singletons
  <2>3. ledger \in [produced : BundleLists, stranded : BundleLists,
                   discarded : BundleLists]
    BY DEF IInv, Shape, LedgerType, BundleLists
  <2> QED
    BY <2>1, <2>2, <2>3 DEF IInv, Shape, TypeOK, AllPoints, HeaderType,
       ResultType, UpstreamType, ClientType
<1> QED BY <1>1, Invariance, PTL

\* However hooks, retries, repeated callbacks, failures and cleanup interleave,
\* the engine is called at most once for what the request owes.
THEOREM SingleSessionCall == Spec => []AtMostOneSessionCall
<1>1. IInv => AtMostOneSessionCall
    BY Singletons DEF IInv, Shape, CallsType, AtMostOneSessionCall
<1> QED BY <1>1, Invariance, PTL

\* A request that ran to its end made exactly the call it owed.
THEOREM ObligationsAreMet == Spec => []ObligationsMet
<1>1. IInv => ObligationsMet
  <2> SUFFICES ASSUME IInv, pc = "done" PROVE ObligationsMet
    BY DEF ObligationsMet
  <2>1. state.finalized /\ ~Open
    BY DEF IInv, PointFacts, Open
  <2>2. wanted \/ Deferred => calls # <<>>
    BY <2>1 DEF IInv, ContextFacts
  <2>3. calls # <<>> => Len(calls) = 1
    BY DEF IInv, Shape, CallsType
  <2> QED BY <2>2, <2>3 DEF IInv, CallFacts, ObligationsMet
<1> QED BY <1>1, Invariance, PTL

\* A response sent through the adapter carries all the request's cookies.
THEOREM ResponsesCarryBundle == Spec => []ResponseCarriesBundle
<1>1. IInv => ResponseCarriesBundle
    BY DEF IInv, PlaceFacts, ClientFacts, ResponseCarriesBundle,
       NoStoreMatchesCookies
<1> QED BY <1>1, Invariance, PTL

\* No cookie is lost silently, and none is sent and reported as stranded.
THEOREM CookiesAreAccountedFor == Spec => []CookiesAccountedFor
<1>1. IInv => CookiesAccountedFor
  <2> SUFFICES ASSUME IInv, pc = "done" PROVE CookiesAccountedFor
    BY DEF CookiesAccountedFor
  <2>1. state.set_cookies = <<>> /\ header.cookies = <<>>
    BY DEF IInv, PointFacts, ContextFacts, Open, PlaceFacts, FilterPoints,
       NoHeader
  <2>2. \/ client.cookies = Bundle /\ ledger.stranded = <<>>
             /\ ledger.discarded = <<>>
        \/ client.cookies = <<>> /\ ledger.stranded = Bundle
             /\ ledger.discarded = <<>>
        \/ client.cookies = <<>> /\ ledger.stranded = <<>>
             /\ ledger.discarded = Bundle
    BY <2>1 DEF IInv, Conserved, Places
  <2>3. Bundle \in BundleLists
    BY BundleCases
  <2>4. client.cookies \o ledger.stranded \o ledger.discarded = Bundle
    BY <2>2, <2>3, Concatenated DEF BundleLists
  <2> QED BY <2>4 DEF IInv, ClientFacts, CookiesAccountedFor
<1> QED BY <1>1, Invariance, PTL

\* A response that ended the session clears it after everything else it sets.
THEOREM ClearsComeLast == Spec => []TerminationClearsLast
<1>1. IInv => TerminationClearsLast
  <2> SUFFICES ASSUME IInv, client.kind = "application", calls # <<>>,
                        calls[1].op = "revoke"
               PROVE  client.cookies # <<>>
                        /\ client.cookies[Len(client.cookies)] = "clear"
    BY DEF TerminationClearsLast
  <2>1. wanted
    BY DEF IInv, CallFacts
  <2>2. ledger.produced = <<"clear">> /\ client.cookies = Bundle
    BY <2>1 DEF IInv, ClientFacts, PlaceFacts
  <2>3. Bundle \in {<<"clear">>, <<"load", "clear">>}
    BY <2>2, BundleCases, Concatenated DEF Bundle
  <2>4. \A b \in {<<"clear">>, <<"load", "clear">>} : b # <<>>
          /\ b[Len(b)] = "clear"
    OBVIOUS
  <2> QED BY <2>2, <2>3, <2>4
<1> QED BY <1>1, Invariance, PTL

\* After a refused commit the application's response never leaves.
THEOREM RejectedCommitsHidden == Spec => []RejectedCommitNeverServed
<1>1. IInv => RejectedCommitNeverServed
    BY DEF IInv, RejectFacts, PlaceFacts, RejectedCommitNeverServed
<1> QED BY <1>1, Invariance, PTL

\* Inner proxy, cache and upstream see admitted requests only.
THEOREM ForwardedOnlyIfAdmitted == Spec => []OnlyAdmittedForwarded
<1>1. IInv => OnlyAdmittedForwarded
    BY DEF IInv, AdmissionFacts, Admitted, OnlyAdmittedForwarded
<1> QED BY <1>1, Invariance, PTL

\* Every request counts one decision and one finalization.
THEOREM TelemetryCountsOnce == Spec => []CountedOnce
<1>1. IInv => CountedOnce
  <2> SUFFICES ASSUME IInv PROVE CountedOnce
    OBVIOUS
  <2>1. tally.decisions \in {<<>>} \cup {<<o>> : o \in Outcomes}
    BY DEF IInv, Shape, TallyType
  <2>2. Len(tally.decisions) <= 1 /\ (tally.decisions # <<>>
          => Len(tally.decisions) = 1)
    BY <2>1, Singletons
  <2>3. tally.finalizations <= 1
    BY DEF IInv, Shape, TallyType
  <2> QED
    BY <2>2, <2>3 DEF IInv, TallyFacts, PointFacts, FreshPoints, CountedOnce
<1> QED BY <1>1, Invariance, PTL

\* What is owed stays in the context until the claim, and nothing after it.
THEOREM OwedStaysUntilClaimed == Spec => []OwedUntilClaimed
<1>1. IInv => OwedUntilClaimed
  <2> SUFFICES ASSUME IInv PROVE OwedUntilClaimed
    OBVIOUS
  <2>1. CASE Open
    <3>1. state.set_cookies = Bundle
      BY <2>1, BundleCases DEF IInv, ContextFacts
    <3>2. header.cookies = <<>>
      BY <3>1 DEF IInv, Conserved, Places
    <3> QED BY <2>1, <3>2 DEF IInv, ContextFacts, Open, OwedUntilClaimed
  <2>2. CASE ~Open
    BY <2>2 DEF IInv, ContextFacts, Open, OwedUntilClaimed
  <2> QED BY <2>1, <2>2
<1> QED BY <1>1, Invariance, PTL

\* The session in the context outlives finalization, termination and cleanup.
THEOREM SnapshotIsPreserved == Spec => SnapshotPreserved
<1>1. IInv /\ [Next]_vars =>
        [state.session # NoSession => state'.session = state.session]_vars
  <2> SUFFICES ASSUME IInv, Next, state.session # NoSession
               PROVE state'.session = state.session
    BY DEF vars
  <2>1. CASE RequestFilter
    <3>1. pc \in FreshPoints => FALSE
      BY DEF IInv, Fresh, DefaultState
    <3> QED
      BY <2>1, <3>1 DEF RequestFilter, FreshPoints, RouteDenied, Preflight,
         PublicRoute, ForwardUnloaded, LoginRoute, LoadSession, LoadFailed,
         RefreshUnavailable, LoadRefused, Unauthenticated, Anonymous,
           Forbidden,
         DeniedCommitReturns, Authenticated
  <2>2. CASE ForwardRequest
    BY <2>2 DEF ForwardRequest, InnerQueuesResponse, InnerWritesDirectly,
       ForwardFails, ForwardHandled, ForwardProxied, ForwardQueued, IInv,
         Shape,
       StateType
  <2>3. CASE Upstream \/ Write
    BY <2>3 DEF Upstream, CacheHit, UpstreamRequestFilter, UpstreamInterim,
       UpstreamResponds, UpstreamFails, Write, WriteInterim, WriteHeader,
       WriteHeaderFails, WriteBody, FailToProxy
  <2>4. CASE ResponseFilter
    BY <2>4 DEF ResponseFilter, InnerResponseFilter, FinalizeSkips,
       FinalizeClaims, Drained, TerminateReturns, CommitSucceeds, CommitFails,
       RepeatFinalHeader, IInv, Shape, StateType
  <2>5. CASE Logging
    BY <2>5 DEF Logging, LoggingSkips, LoggingClaims, Drained,
       LoggingTerminateReturns, LoggingCommitReturns, InnerLogging, IInv,
         Shape,
       StateType
  <2>6. CASE InnerRequestsTermination \/ Abort \/ Ended
    BY <2>6 DEF InnerRequestsTermination, Abort, Ended, vars, IInv, Shape,
       StateType
  <2> QED BY <2>1, <2>2, <2>3, <2>4, <2>5, <2>6 DEF Next, Progress
<1> QED BY <1>1, Invariance, PTL DEF Spec, SnapshotPreserved

\* Once a header went out no later path writes another or adds cookies.
THEOREM ResponseIsFinal == Spec => OneResponse
<1>1. IInv /\ [Next]_vars =>
        [client.kind # "none" =>
             client'.kind = client.kind
               /\ client'.cookies = client.cookies]_vars
  <2> SUFFICES ASSUME IInv, Next, client.kind # "none"
               PROVE client'.kind = client.kind
                       /\ client'.cookies = client.cookies
    BY DEF vars
  <2>1. CASE RequestFilter
    BY <2>1 DEF RequestFilter, RouteDenied, Preflight, PublicRoute,
       ForwardUnloaded, LoginRoute, LoadSession, LoadFailed,
         RefreshUnavailable,
       LoadRefused, Unauthenticated, Anonymous, Forbidden,
         DeniedCommitReturns,
       Authenticated
  <2>2. CASE ForwardRequest
    BY <2>2 DEF ForwardRequest, InnerQueuesResponse, InnerWritesDirectly,
       ForwardFails, ForwardHandled, ForwardProxied, ForwardQueued
  <2>3. CASE Upstream \/ ResponseFilter
    BY <2>3 DEF Upstream, CacheHit, UpstreamRequestFilter, UpstreamInterim,
       UpstreamResponds, UpstreamFails, ResponseFilter, InnerResponseFilter,
       FinalizeSkips, FinalizeClaims, TerminateReturns, CommitSucceeds,
       CommitFails, RepeatFinalHeader
  <2>4. CASE Write
    <3>1. pc # "write_header"
      BY DEF IInv, ClientFacts, Unanswered
    <3> QED
      BY <2>4, <3>1 DEF Write, WriteInterim, WriteHeader, WriteHeaderFails,
         WriteBody, FailToProxy, IInv, Shape, ClientType
  <2>5. CASE Logging \/ InnerRequestsTermination \/ Abort \/ Ended
    BY <2>5 DEF Logging, LoggingSkips, LoggingClaims, LoggingTerminateReturns,
       LoggingCommitReturns, InnerLogging, InnerRequestsTermination, Abort,
       Ended, vars
  <2> QED BY <2>1, <2>2, <2>3, <2>4, <2>5 DEF Next, Progress
<1> QED BY <1>1, Invariance, PTL DEF Spec, OneResponse

\* Neither the client's response nor the inner hooks' session is replaced.
THEOREM NothingIsTakenBack == Spec => NothingTakenBack
BY ResponseIsFinal, SnapshotIsPreserved DEF NothingTakenBack

-----------------------------------------------------------------------------
(* The contract.  RInv adds to IInv what the hooks do not look at: whether  *)
(* the request was refused or let through.                                  *)

Decided == tally.decisions # <<>>

\* The adapter answers this request itself.
Refused == Decided /\ tally.decisions[1] \in Refusals

\* A refused request never reaches the inner proxy and prepares no context.
RefusedFacts ==
    Refused /\ pc # "aborted" =>
      /\ pc \in {"denied_commit", "write_header", "write_body", "fail_to_proxy",
                 "logging", "inner_logging", "done"}
      /\ state.session = NoSession /\ ~wanted
      /\ pc = "write_header" => header.source = "engine"
      /\ client.kind \in {"none", "engine"}
      /\ pc = "fail_to_proxy" => client.gone

\* One that was let through gets no response of the engine, and calls only
\* after the claim.
AdmittedFacts ==
    Decided /\ ~Refused /\ pc # "aborted" =>
      /\ pc # "denied_commit"
      /\ header.source # "engine" /\ client.kind # "engine"
      /\ calls # <<>> => state.finalized

\* A call has an outcome as soon as nothing awaits it, and belongs to its phase.
OutcomeFacts ==
    /\ calls # <<>> /\ pc \notin AwaitingCall \cup {"aborted"} =>
         result # "none"
    /\ calls # <<>> /\ calls[1].phase = "denied" => Refused
    /\ calls # <<>> /\ calls[1].phase = "logging" =>
         pc \in {"logging_commit", "logging_terminate", "inner_logging", "done",
                 "aborted"}

RInv == RefusedFacts /\ AdmittedFacts /\ OutcomeFacts

-----------------------------------------------------------------------------
\* The decision is counted once, when routing or the load has answered.
LEMMA Decides ==
    ASSUME IInv, pc \in FreshPoints, NEW outcome, Decide(outcome)
    PROVE  Decided' /\ (Refused' <=> outcome \in Refusals)
<1>1. tally.decisions = <<>> /\ tally \in TallyType
  BY DEF IInv, TallyFacts, Shape
<1>2. tally'.decisions = <<outcome>>
  BY <1>1, Appended DEF Decide, TallyType
<1> QED BY <1>2 DEF Decided, Refused

\* Every other step keeps it.
LEMMA DecisionKept ==
    tally'.decisions = tally.decisions
      => (Decided' <=> Decided) /\ (Refused' <=> Refused)
  BY DEF Decided, Refused

\* Before the decision the task is at the points that take it.
LEMMA UndecidedPoints ==
    IInv => (Decided \/ pc \in FreshPoints \cup {"aborted"})
            /\ (pc \in FreshPoints => ~Decided)
  BY DEF IInv, TallyFacts, Decided

LEMMA RefusedByFilter ==
    ASSUME IInv, RInv, RequestFilter
    PROVE  RefusedFacts' /\ AdmittedFacts'
<1>1. CASE LoadSession
  BY <1>1, DecisionKept, UndecidedPoints DEF LoadSession, FreshPoints,
     RefusedFacts, AdmittedFacts, Refused
<1>2. CASE RouteDenied \/ LoginRoute
  <2>1. /\ pc \in FreshPoints /\ pc' = "write_header"
        /\ header' = EngineHeader(<<>>)
        /\ UNCHANGED <<state, wanted, client>>
        /\ Decide("denied_route") \/ Decide("login_route")
    BY <1>2 DEF RouteDenied, LoginRoute, FreshPoints
  <2>2. Decided' /\ Refused'
    BY <2>1, Decides DEF Refusals
  <2> QED
    BY <2>1, <2>2 DEF IInv, Fresh, DefaultState, EngineHeader, RefusedFacts,
       AdmittedFacts
<1>3. CASE LoadFailed \/ RefreshUnavailable \/ Unauthenticated \/ Forbidden
  <2>1. /\ pc \in FreshPoints /\ pc' \in {"write_header", "denied_commit"}
        /\ header' = EngineHeader(loaded'.set_cookies)
        /\ UNCHANGED <<state, wanted, client>>
        /\ \/ Decide("server_error") \/ Decide("refresh_unavailable")
           \/ Decide("unauthenticated") \/ Decide("forbidden")
    BY <1>3 DEF LoadFailed, RefreshUnavailable, LoadRefused, NotLoaded,
       Unauthenticated, Forbidden, FreshPoints
  <2>2. Decided' /\ Refused'
    BY <2>1, Decides DEF Refusals
  <2> QED
    BY <2>1, <2>2 DEF IInv, Fresh, DefaultState, EngineHeader, RefusedFacts,
       AdmittedFacts
<1>4. CASE Preflight \/ PublicRoute \/ Anonymous \/ Authenticated
  <2>1. /\ pc \in FreshPoints /\ pc' = "inner_request_filter"
        /\ UNCHANGED <<header, calls, client>>
        /\ \/ Decide("preflight") \/ Decide("public")
           \/ Decide("anonymous") \/ Decide("authenticated")
    BY <1>4 DEF Preflight, PublicRoute, ForwardUnloaded, Anonymous,
       Authenticated, FreshPoints
  <2>2. Decided' /\ ~Refused'
    BY <2>1, Decides DEF Refusals
  <2> QED
    BY <2>1, <2>2 DEF IInv, Fresh, NoHeader, RefusedFacts, AdmittedFacts
<1>5. CASE DeniedCommitReturns
  <2>1. /\ pc = "denied_commit" /\ pc' = "write_header"
        /\ header'.source = header.source
        /\ UNCHANGED <<state, wanted, client, tally>>
    BY <1>5 DEF DeniedCommitReturns, IInv, Shape, HeaderType
  <2>2. Refused /\ header.source = "engine"
    BY <2>1, UndecidedPoints DEF RInv, AdmittedFacts, IInv, PointFacts,
       FreshPoints
  <2>3. Refused'
    BY <2>1, <2>2, DecisionKept
  <2> QED BY <2>1, <2>2, <2>3 DEF RInv, RefusedFacts, AdmittedFacts
<1> QED BY <1>1, <1>2, <1>3, <1>4, <1>5 DEF RequestFilter

\* The decision decides for good who answers the request.
LEMMA RefusedStep ==
    ASSUME IInv, RInv, [Next]_vars
    PROVE  RefusedFacts' /\ AdmittedFacts'
<1>1. CASE RequestFilter
  BY <1>1, RefusedByFilter
<1>2. CASE ForwardRequest
  <2>1. pc = "inner_request_filter" /\ UNCHANGED <<tally, calls>>
    BY <1>2 DEF ForwardRequest, InnerQueuesResponse, InnerWritesDirectly,
       ForwardFails, ForwardHandled, ForwardProxied, ForwardQueued
  <2>2. Decided /\ ~Refused
    BY <2>1, UndecidedPoints DEF RInv, RefusedFacts, FreshPoints
  <2>3. Decided' /\ ~Refused'
    BY <2>1, <2>2, DecisionKept
  <2> QED
    BY <1>2, <2>2, <2>3 DEF ForwardRequest, InnerQueuesResponse,
       InnerWritesDirectly, ForwardFails, ForwardHandled, ForwardProxied,
       ForwardQueued, AppHeader, RInv, RefusedFacts, AdmittedFacts, IInv,
       Shape, ClientType, StateType
<1>3. CASE Upstream
  <2>1. pc \in {"cache_lookup", "connect", "upstream"} /\ UNCHANGED tally
    BY <1>3 DEF Upstream, CacheHit, UpstreamRequestFilter, UpstreamInterim,
       UpstreamResponds, UpstreamFails
  <2>2. Decided /\ ~Refused
    BY <2>1, UndecidedPoints DEF RInv, RefusedFacts, FreshPoints
  <2>3. Decided' /\ ~Refused'
    BY <2>1, <2>2, DecisionKept
  <2> QED
    BY <1>3, <2>2, <2>3 DEF Upstream, CacheHit, UpstreamRequestFilter,
       UpstreamInterim, UpstreamResponds, UpstreamFails, AppHeader, RInv,
       RefusedFacts, AdmittedFacts
<1>4. CASE ResponseFilter
  <2>1. /\ \/ pc \in {"response_filter", "finalize_response", "commit",
                      "terminate"}
           \/ pc = "write_header" /\ header.source # "engine"
        /\ tally'.decisions = tally.decisions
    BY <1>4 DEF ResponseFilter, InnerResponseFilter, FinalizeSkips,
       FinalizeClaims, TerminateReturns, CommitSucceeds, CommitFails,
       RepeatFinalHeader, IInv, Shape, TallyType
  <2>2. Decided /\ ~Refused
    BY <2>1, UndecidedPoints DEF RInv, RefusedFacts, FreshPoints
  <2>3. Decided' /\ ~Refused'
    BY <2>1, <2>2, DecisionKept
  <2>4. /\ pc' # "denied_commit" /\ client' = client
        /\ header'.source \in {header.source, "none"}
        /\ \/ UNCHANGED <<calls, state>>
           \/ state'.finalized
    <3>1. CASE InnerResponseFilter \/ FinalizeSkips \/ RepeatFinalHeader
      BY <3>1 DEF InnerResponseFilter, NoHeader, FinalizeSkips,
         RepeatFinalHeader
    <3>2. CASE FinalizeClaims
      <4>1. state \in StateType /\ header \in HeaderType
        BY DEF IInv, Shape
      <4>2. state'.finalized /\ pc' # "denied_commit" /\ client' = client
        BY <3>2, <4>1 DEF FinalizeClaims, Drained, StateType
      <4>3. header'.source = header.source
        BY <3>2, <4>1 DEF FinalizeClaims, WithCookies, HeaderType
      <4> QED BY <4>2, <4>3
    <3>3. CASE TerminateReturns \/ CommitSucceeds
      <4>1. header \in HeaderType
        BY DEF IInv, Shape
      <4>2. PICK cookies : header' = WithCookies(header, cookies)
        BY <3>3 DEF TerminateReturns, CommitSucceeds
      <4>3. header'.source = header.source
        BY <4>1, <4>2 DEF WithCookies, HeaderType
      <4> QED BY <3>3, <4>3 DEF TerminateReturns, CommitSucceeds
    <3>4. CASE CommitFails
      BY <3>4 DEF CommitFails, NoHeader
    <3> QED BY <1>4, <3>1, <3>2, <3>3, <3>4 DEF ResponseFilter
  <2> QED
    BY <2>2, <2>3, <2>4, <2>1 DEF RInv, RefusedFacts, AdmittedFacts
<1>5. CASE Write
  <2>1. UNCHANGED tally /\ pc \in {"write_header", "write_body", "fail_to_proxy"}
    BY <1>5 DEF Write, WriteInterim, WriteHeader, WriteHeaderFails, WriteBody,
       FailToProxy
  <2>2. Decided /\ Decided' /\ (Refused' <=> Refused)
    BY <2>1, UndecidedPoints, DecisionKept DEF FreshPoints
  <2>3. pc = "write_header" =>
          /\ client \in ClientType
          /\ header.kind = "interim" => header.source # "engine"
    BY DEF IInv, Shape, PointFacts
  <2>4. CASE WriteInterim
    BY <2>2, <2>3, <2>4 DEF WriteInterim, NoHeader, RInv, RefusedFacts,
       AdmittedFacts
  <2>5. CASE WriteHeader
    <3>1. client'.kind = IF header.source = "engine" THEN "engine"
                         ELSE "application"
      BY <2>5 DEF WriteHeader, IInv, Shape, ClientType
    <3> QED
      BY <2>2, <2>5, <3>1 DEF WriteHeader, NoHeader, RInv, RefusedFacts,
         AdmittedFacts
  <2>6. CASE WriteHeaderFails
    <3>1. client'.kind = client.kind /\ client'.gone
      BY <2>6 DEF WriteHeaderFails, IInv, Shape, ClientType
    <3> QED
      BY <2>2, <2>6, <3>1 DEF WriteHeaderFails, NoHeader, RInv, RefusedFacts,
         AdmittedFacts
  <2>7. CASE WriteBody
    <3>1. client'.kind = client.kind /\ (pc' = "logging" \/ client'.gone)
      BY <2>7 DEF WriteBody, IInv, Shape, ClientType
    <3> QED
      BY <2>2, <2>7, <3>1 DEF WriteBody, RInv, RefusedFacts, AdmittedFacts
  <2>8. CASE FailToProxy
    <3>1. client'.kind = IF client.kind = "none" /\ ~client.gone THEN "error"
                         ELSE client.kind
      BY <2>8 DEF FailToProxy, IInv, Shape, ClientType
    <3> QED
      BY <2>2, <2>8, <3>1 DEF FailToProxy, RInv, RefusedFacts, AdmittedFacts
  <2> QED BY <1>5, <2>4, <2>5, <2>6, <2>7, <2>8 DEF Write
<1>6. CASE Logging
  <2>1. /\ tally'.decisions = tally.decisions
        /\ pc \notin FreshPoints \cup {"aborted"}
    BY <1>6 DEF Logging, LoggingSkips, LoggingClaims, LoggingTerminateReturns,
       LoggingCommitReturns, InnerLogging, FreshPoints, IInv, Shape, TallyType
  <2>2. Decided /\ Decided' /\ (Refused' <=> Refused)
    BY <2>1, UndecidedPoints, DecisionKept
  <2>3. /\ pc' # "denied_commit" /\ UNCHANGED <<header, client, wanted>>
        /\ UNCHANGED <<calls, state>> \/ state'.finalized
    BY <1>6 DEF Logging, LoggingSkips, LoggingClaims, Drained,
       LoggingTerminateReturns, LoggingCommitReturns, InnerLogging, IInv,
       Shape, StateType
  <2>4. CASE Refused
    <3>1. pc \in {"logging", "inner_logging"} /\ state.session = NoSession
      BY <1>6, <2>4 DEF Logging, LoggingSkips, LoggingClaims,
         LoggingTerminateReturns, LoggingCommitReturns, InnerLogging, RInv,
         RefusedFacts
    <3>2. pc' \in {"inner_logging", "done"} /\ state'.session = NoSession
      BY <1>6, <3>1 DEF Logging, LoggingSkips, LoggingClaims, EndsSession,
         SavesSession, LoggingTerminateReturns, LoggingCommitReturns,
         InnerLogging, IInv, Shape, StateType
    <3> QED
      BY <2>1, <2>2, <2>3, <2>4, <3>2 DEF RInv, RefusedFacts, AdmittedFacts
  <2>5. CASE ~Refused
    BY <2>1, <2>2, <2>3, <2>5 DEF RInv, RefusedFacts, AdmittedFacts
  <2> QED BY <2>4, <2>5
<1>7. CASE InnerRequestsTermination
  BY <1>7, DecisionKept DEF InnerRequestsTermination, RInv, RefusedFacts,
     AdmittedFacts, IInv, Shape, StateType
<1>8. CASE Abort \/ Ended \/ UNCHANGED vars
  BY <1>8, DecisionKept DEF Abort, Ended, vars, RInv, RefusedFacts,
     AdmittedFacts
<1> QED BY <1>1, <1>2, <1>3, <1>4, <1>5, <1>6, <1>7, <1>8 DEF Next, Progress

\* The calls before the claim: none, where something is owed.
LEMMA ClaimsAreFirst ==
    IInv /\ ~state.finalized /\ (EndsSession \/ SavesSession) => calls = <<>>
  BY DEF IInv, ContextFacts, Open, EndsSession, SavesSession

\* A claim makes one call in its phase, or none.
LEMMA ClaimedCall ==
    ASSUME IInv, ~state.finalized, NEW phase,
           \/ /\ EndsSession
              /\ calls' = Append(calls, SessionCall("revoke", phase, state.session))
              /\ pc' = IF phase = "logging" THEN "logging_terminate" ELSE "terminate"
           \/ /\ SavesSession
              /\ calls' = Append(calls, SessionCall("persist", phase, state.pending))
              /\ pc' = IF phase = "logging" THEN "logging_commit" ELSE "commit"
    PROVE  calls' # <<>> /\ calls'[1].phase = phase /\ pc' \in AwaitingCall
<1>1. calls = <<>>
  BY ClaimsAreFirst
<1>2. PICK call \in {SessionCall("revoke", phase, state.session),
                     SessionCall("persist", phase, state.pending)} :
        calls' = Append(calls, call)
  OBVIOUS
<1>3. calls' = <<call>>
  BY <1>1, <1>2, Appended
<1> QED BY <1>2, <1>3 DEF SessionCall, AwaitingCall

LEMMA OutcomeStep ==
    ASSUME IInv, RInv, [Next]_vars
    PROVE  OutcomeFacts'
<1>1. CASE pc \in FreshPoints /\ UNCHANGED calls
  BY <1>1 DEF IInv, Fresh, OutcomeFacts
<1>2. CASE Forbidden /\ ~UNCHANGED calls
  <2>1. pc \in FreshPoints /\ calls = <<>> /\ Decide("forbidden")
    BY <1>2 DEF Forbidden, IInv, Fresh, FreshPoints
  <2>2. Refused'
    BY <2>1, Decides DEF Refusals
  <2>3. pc' = "denied_commit" /\ calls' # <<>> /\ calls'[1].phase = "denied"
    BY <1>2, <2>1, Appended DEF Forbidden
  <2> QED BY <2>2, <2>3 DEF OutcomeFacts, AwaitingCall
<1>3. CASE /\ pc \notin AwaitingCall \cup {"aborted", "inner_logging", "done"}
           /\ pc' # "aborted"
           /\ UNCHANGED <<calls, result>> /\ (Refused' <=> Refused)
  BY <1>3 DEF RInv, OutcomeFacts, AwaitingCall
<1>4. CASE /\ pc \in AwaitingCall /\ UNCHANGED calls
           /\ result' # "none" /\ (Refused' <=> Refused)
           /\ pc \in {"logging_commit", "logging_terminate"} =>
                pc' = "inner_logging"
  BY <1>4 DEF RInv, OutcomeFacts, IInv, AnswerFacts, AwaitingCall
<1>5. CASE /\ FinalizeClaims \/ LoggingClaims
           /\ EndsSession \/ SavesSession
  <2>1. ~state.finalized /\ tally'.decisions = tally.decisions
    BY <1>5 DEF FinalizeClaims, LoggingClaims, PassesUntouched, IInv, Shape,
       TallyType
  <2>2. /\ calls' # <<>> /\ pc' \in AwaitingCall
        /\ calls'[1].phase = IF pc = "logging" THEN "logging" ELSE "response"
        /\ calls'[1].phase = "logging" =>
             pc' \in {"logging_commit", "logging_terminate"}
    <3>1. CASE FinalizeClaims
      BY <2>1, <1>5, <3>1, ClaimedCall DEF FinalizeClaims
    <3>2. CASE LoggingClaims
      BY <2>1, <1>5, <3>2, ClaimedCall DEF LoggingClaims
    <3> QED BY <1>5, <3>1, <3>2
  <2> QED BY <2>2 DEF OutcomeFacts
<1>6. CASE pc' = "aborted" /\ UNCHANGED <<calls, result, tally>>
  BY <1>6, DecisionKept DEF RInv, OutcomeFacts
<1>7. CASE InnerLogging \/ InnerRequestsTermination \/ Ended \/ UNCHANGED vars
  BY <1>7, DecisionKept DEF InnerLogging, InnerRequestsTermination, Ended, vars,
     RInv, OutcomeFacts, AwaitingCall
<1>8. CASE Upstream \/ ForwardRequest \/ Write
  <2>1. /\ pc \notin AwaitingCall \cup {"aborted", "inner_logging", "done"}
        /\ pc' # "aborted" /\ UNCHANGED <<calls, result, tally>>
    BY <1>8 DEF Upstream, CacheHit, UpstreamRequestFilter, UpstreamInterim,
       UpstreamResponds, UpstreamFails, ForwardRequest, InnerQueuesResponse,
       InnerWritesDirectly, ForwardFails, ForwardHandled, ForwardProxied,
       ForwardQueued, Write, WriteInterim, WriteHeader, WriteHeaderFails,
       WriteBody, FailToProxy, AwaitingCall
  <2> QED BY <1>3, <2>1, DecisionKept
<1>9. CASE ResponseFilter /\ ~(FinalizeClaims /\ (EndsSession \/ SavesSession))
  <2>1. CASE InnerResponseFilter \/ FinalizeSkips \/ RepeatFinalHeader
             \/ FinalizeClaims
    <3>1. /\ pc \notin AwaitingCall \cup {"aborted", "inner_logging", "done"}
          /\ pc' # "aborted" /\ UNCHANGED <<calls, result>>
          /\ tally'.decisions = tally.decisions
      BY <1>9, <2>1 DEF InnerResponseFilter, FinalizeSkips, RepeatFinalHeader,
         FinalizeClaims, AwaitingCall, IInv, Shape, TallyType
    <3> QED BY <1>3, <3>1, DecisionKept
  <2>2. CASE TerminateReturns \/ CommitSucceeds \/ CommitFails
    <3>1. /\ pc \in {"commit", "terminate"} /\ UNCHANGED <<calls, tally>>
          /\ result' # "none"
      BY <2>2, ConstantsAssumption DEF TerminateReturns, CommitSucceeds,
         CommitFails
    <3> QED BY <1>4, <3>1, DecisionKept DEF AwaitingCall
  <2> QED BY <1>9, <2>1, <2>2 DEF ResponseFilter
<1>10. CASE Logging /\ ~InnerLogging /\ ~(LoggingClaims /\ (EndsSession \/ SavesSession))
  <2>1. CASE LoggingSkips \/ LoggingClaims
    <3>1. /\ pc = "logging" /\ pc' = "inner_logging" /\ UNCHANGED <<calls, result>>
          /\ tally'.decisions = tally.decisions
      BY <1>10, <2>1 DEF LoggingSkips, LoggingClaims, IInv, Shape, TallyType
    <3> QED BY <1>3, <3>1, DecisionKept DEF AwaitingCall
  <2>2. CASE LoggingTerminateReturns \/ LoggingCommitReturns
    <3>1. /\ pc \in {"logging_commit", "logging_terminate"}
          /\ UNCHANGED <<calls, tally>> /\ pc' = "inner_logging"
          /\ result' # "none"
      BY <2>2, ConstantsAssumption DEF LoggingTerminateReturns,
         LoggingCommitReturns
    <3> QED BY <1>4, <3>1, DecisionKept DEF AwaitingCall
  <2> QED BY <1>10, <2>1, <2>2 DEF Logging
<1>11. CASE RequestFilter
  <2>1. CASE DeniedCommitReturns
    <3>1. /\ pc = "denied_commit" /\ UNCHANGED <<calls, tally>>
          /\ result' # "none"
      BY <2>1, ConstantsAssumption DEF DeniedCommitReturns
    <3> QED BY <1>4, <3>1, DecisionKept DEF AwaitingCall
  <2>2. CASE ~DeniedCommitReturns /\ ~(Forbidden /\ ~UNCHANGED calls)
    <3>1. pc \in FreshPoints /\ UNCHANGED calls
      BY <1>11, <2>2 DEF RequestFilter, RouteDenied, Preflight, PublicRoute,
         ForwardUnloaded, LoginRoute, LoadSession, LoadFailed, LoadRefused,
         RefreshUnavailable, Unauthenticated, Anonymous, Forbidden,
         Authenticated, FreshPoints
    <3> QED BY <1>1, <3>1
  <2> QED BY <1>2, <2>1, <2>2
<1>12. CASE Abort
  BY <1>6, <1>12 DEF Abort
<1> QED
  BY <1>5, <1>7, <1>8, <1>9, <1>10, <1>11, <1>12 DEF Next, Progress,
     ResponseFilter, Logging

\* RInv holds throughout.
LEMMA RInvInvariant == Spec => []RInv
<1>1. Init => RInv
  BY DEF Init, RInv, RefusedFacts, AdmittedFacts, OutcomeFacts, Decided, Refused
<1>2. IInv /\ RInv /\ [Next]_vars => RInv'
  BY RefusedStep, OutcomeStep DEF RInv
<1> QED BY <1>1, <1>2, Invariance, PTL DEF Spec

-----------------------------------------------------------------------------
(* The mapping, read off the invariants. *)

StageFacts ==
    /\ pc = "aborted" => ContractStage = "dropped"
    /\ pc = "done" => ContractStage = "ended"
    /\ pc \notin {"aborted", "done"} =>
         /\ ~Decided => ContractStage = "arriving"
         /\ Refused => ContractStage = "refused"
         /\ Decided /\ ~Refused =>
              ContractStage = IF state.finalized THEN "claimed" ELSE "open"

LEMMA Stages == StageFacts /\ StageFacts'
  BY DEF StageFacts, ContractStage, Decided, Refused

\* What the contract takes for no step.
LEMMA Stutter ==
    ASSUME UNCHANGED <<loaded, calls, result, wanted>>,
           tally'.decisions = tally.decisions, client'.kind = client.kind,
           pc \notin {"aborted", "done"}, pc' \notin {"aborted", "done"},
           state'.finalized = state.finalized \/ Refused
    PROVE  UNCHANGED Contract!contractVars
<1>1. (Decided' <=> Decided) /\ (Refused' <=> Refused)
  BY DecisionKept
<1>2. Refused => Decided
  BY DEF Refused
<1>3. ContractStage' = ContractStage
  <2>1. CASE ~Decided
    BY <1>1, <2>1, Stages DEF StageFacts
  <2>2. CASE Refused
    BY <1>1, <2>2, Stages DEF StageFacts
  <2>3. CASE Decided /\ ~Refused
    BY <1>1, <2>3, Stages DEF StageFacts
  <2> QED BY <2>1, <2>2, <2>3
<1>4. ContractOwes' = ContractOwes /\ ContractMade' = ContractMade
  BY DEF ContractOwes, ContractMade, Deferred
<1>5. ContractResponse' = ContractResponse
  BY DEF ContractResponse
<1> QED BY <1>3, <1>4, <1>5 DEF Contract!contractVars

\* The call that was made is the one that the contract finds owed.
LEMMA CallIsOwed ==
    ASSUME IInv, calls # <<>>
    PROVE  /\ ContractOwes = ContractCall(calls[1].op, calls[1].session)
           /\ ContractMade = [op |-> calls[1].op, session |-> calls[1].session,
                              result |-> result]
           /\ calls[1].op \in {"persist", "revoke"}
<1>1. PICK c \in Calls : calls = <<c>>
  BY DEF IInv, Shape, CallsType
<1>2. calls[1] = c
  BY <1>1
<1>3. c.op \in {"persist", "revoke"}
  BY <1>1 DEF Calls
<1>4. /\ calls[1].session = loaded.session
      /\ calls[1].op = IF wanted THEN "revoke" ELSE "persist"
      /\ wanted \/ Deferred
  BY DEF IInv, CallFacts
<1> QED
  BY <1>2, <1>3, <1>4 DEF ContractOwes, ContractMade, ContractCall

\* Once nothing awaits it, no call is outstanding.
LEMMA NothingOutstanding ==
    IInv /\ RInv /\ pc \notin AwaitingCall \cup {"aborted"}
      => ~Contract!Outstanding
<1> SUFFICES ASSUME IInv, RInv, pc \notin AwaitingCall \cup {"aborted"}
             PROVE  ~(ContractMade.op # "none" /\ ContractMade.result = "none")
  BY DEF Contract!Outstanding
<1>1. CASE calls = <<>>
  BY <1>1 DEF ContractMade
<1>2. CASE calls # <<>>
  BY <1>2, CallIsOwed DEF RInv, OutcomeFacts
<1> QED BY <1>1, <1>2

-----------------------------------------------------------------------------
(* The steps of the contract. *)

LEMMA ReturnStep ==
    ASSUME IInv, RInv, pc \in AwaitingCall, pc' \notin {"aborted", "done"},
           UNCHANGED <<loaded, state, calls, client, tally, wanted>>,
           result' \in ErrorsOrOk
    PROVE  Contract!Return
<1>1. calls # <<>> /\ result = "none"
  BY DEF IInv, AnswerFacts
<1>2. /\ ContractMade.op # "none" /\ ContractMade.result = "none"
      /\ ContractOwes = ContractCall(calls[1].op, calls[1].session)
  BY <1>1, CallIsOwed
<1>3. ContractMade' = [op |-> calls[1].op, session |-> calls[1].session,
                       result |-> result']
  BY <1>1 DEF ContractMade
<1>4. ContractMade' \in {Contract!Made(ContractOwes, r) : r \in ErrorsOrOk}
  BY <1>2, <1>3 DEF ContractCall, Contract!Made
<1>5. ContractStage \in {"claimed", "refused"} /\ ContractStage' = ContractStage
  <2>1. Decided /\ Decided' /\ (Refused' <=> Refused)
    BY UndecidedPoints, DecisionKept DEF AwaitingCall, FreshPoints
  <2>2. Refused \/ state.finalized
    BY <2>1 DEF IInv, PointFacts, AwaitingCall, RInv, AdmittedFacts
  <2> QED BY <2>1, <2>2, Stages DEF StageFacts, AwaitingCall
<1>6. ContractOwes' = ContractOwes /\ ContractResponse' = ContractResponse
  BY DEF ContractOwes, ContractResponse, Deferred
<1> QED
  BY <1>2, <1>4, <1>5, <1>6 DEF Contract!Return, Contract!Outstanding, ErrorsOrOk

LEMMA AdmitStep ==
    ASSUME IInv, Preflight \/ PublicRoute \/ Anonymous \/ Authenticated
    PROVE  Contract!Admit
<1>1. /\ pc \in FreshPoints /\ pc' = "inner_request_filter"
      /\ UNCHANGED <<calls, result, client, wanted>>
      /\ \/ Decide("preflight") \/ Decide("public")
         \/ Decide("anonymous") \/ Decide("authenticated")
      /\ ~state'.finalized
  <2>1. pc \in FreshPoints
    BY DEF Preflight, PublicRoute, ForwardUnloaded, Anonymous, Authenticated,
       FreshPoints
  <2>2. state = DefaultState
    BY <2>1 DEF IInv, Fresh
  <2>3. \/ state' = state
        \/ \E s, p, c : state' = Prepared(s, p, c)
    BY DEF Preflight, PublicRoute, ForwardUnloaded, Anonymous, Authenticated
  <2>4. ~state'.finalized
    <3>1. CASE state' = state
      BY <2>2, <3>1 DEF DefaultState
    <3>2. ASSUME NEW s, NEW p, NEW c, state' = Prepared(s, p, c)
          PROVE  ~state'.finalized
      <4>1. DOMAIN state = DOMAIN DefaultState
        BY <2>2
      <4>2. "finalized" \in DOMAIN state
        BY <4>1 DEF DefaultState
      <4> QED BY <3>2, <4>2 DEF Prepared
    <3> QED BY <2>3, <3>1, <3>2
  <2> QED
    BY <2>1, <2>4 DEF Preflight, PublicRoute, ForwardUnloaded, Anonymous,
       Authenticated
<1>2. loaded' \in {NotLoaded("unasked", <<>>)} \cup Sessionless \cup WithSession
  BY <1>1 DEF Preflight, PublicRoute, ForwardUnloaded, Anonymous, Authenticated,
     IInv, Fresh
<1>3. /\ loaded'.session \in Sessions \cup {NoSession}
      /\ loaded'.kind = "pending" => loaded'.session # NoSession
  BY <1>2, ConstantsAssumption DEF NotLoaded, Sessionless, WithSession
<1>4. /\ ContractStage = "arriving" /\ ContractStage' = "open"
  <2>1. Decided' /\ ~Refused'
    BY <1>1, Decides DEF Refusals
  <2> QED BY <1>1, <2>1, Stages, UndecidedPoints DEF StageFacts, FreshPoints
<1>5. ~wanted' /\ calls = <<>>
  BY <1>1 DEF IInv, Fresh
<1>6. ContractOwes' = IF loaded'.kind = "pending"
                      THEN Contract!Persist(loaded'.session) ELSE Contract!NoCall
  BY <1>5 DEF ContractOwes, ContractCall, Deferred, Contract!Persist,
     Contract!NoCall
<1>7. ContractMade' = ContractMade /\ ContractResponse' = ContractResponse
  BY <1>1 DEF ContractMade, ContractResponse
<1> QED BY <1>3, <1>4, <1>6, <1>7 DEF Contract!Admit

LEMMA RefuseStep ==
    ASSUME IInv, RouteDenied \/ LoginRoute \/ LoadFailed \/ RefreshUnavailable
                 \/ Unauthenticated \/ Forbidden
    PROVE  Contract!Refuse
<1>1. /\ pc \in FreshPoints /\ pc' \in {"write_header", "denied_commit"}
      /\ UNCHANGED <<result, client, wanted>>
      /\ \/ Decide("denied_route") \/ Decide("login_route")
         \/ Decide("server_error") \/ Decide("refresh_unavailable")
         \/ Decide("unauthenticated") \/ Decide("forbidden")
  BY DEF RouteDenied, LoginRoute, LoadFailed, RefreshUnavailable, LoadRefused,
     Unauthenticated, Forbidden, FreshPoints
<1>2. calls = <<>> /\ result = "none" /\ ~wanted
      /\ loaded = NotLoaded("unasked", <<>>)
  BY <1>1 DEF IInv, Fresh
<1>3. /\ loaded'.session \in Sessions \cup {NoSession}
      /\ loaded'.kind = "pending" => loaded'.session # NoSession
      /\ calls' = IF loaded'.kind = "pending"
                  THEN <<[op |-> "persist", phase |-> "denied",
                          session |-> loaded'.session, headers |-> TRUE]>>
                  ELSE <<>>
  <2>1. CASE ~Forbidden
    <3>1. UNCHANGED calls
      BY <2>1 DEF RouteDenied, LoginRoute, LoadFailed, RefreshUnavailable,
         LoadRefused, Unauthenticated
    <3>2. \/ loaded' \in Sessionless \/ UNCHANGED loaded
          \/ loaded' = NotLoaded("error", <<>>)
          \/ loaded' = NotLoaded("unavailable", <<>>)
      BY <2>1 DEF RouteDenied, LoginRoute, LoadFailed, RefreshUnavailable,
         LoadRefused, Unauthenticated
    <3> QED BY <1>2, <3>1, <3>2 DEF NotLoaded, Sessionless
  <2>2. CASE Forbidden
    <3>1. /\ loaded'.session \in Sessions
          /\ loaded'.kind \in {"active", "pending"}
      BY <2>2 DEF Forbidden, WithSession
    <3>2. /\ loaded'.session # NoSession
          /\ Owed(loaded') = IF loaded'.kind = "pending" THEN loaded'.session
                             ELSE NoSession
      BY <3>1, ConstantsAssumption DEF Owed
    <3> QED
      BY <1>2, <2>2, <3>1, <3>2, Appended DEF Forbidden
  <2> QED BY <2>1, <2>2
<1>4. ContractStage = "arriving" /\ ContractStage' = "refused"
  <2>1. Decided' /\ Refused'
    BY <1>1, Decides DEF Refusals
  <2> QED BY <1>1, <2>1, Stages, UndecidedPoints DEF StageFacts, FreshPoints
<1>5. ContractOwes' = IF loaded'.kind = "pending"
                      THEN Contract!Persist(loaded'.session) ELSE Contract!NoCall
  BY <1>1, <1>2 DEF ContractOwes, ContractCall, Deferred, Contract!Persist,
     Contract!NoCall
<1>6. ContractMade' = Contract!Made(ContractOwes', "none")
  BY <1>1, <1>2, <1>3, <1>5 DEF ContractMade, Contract!Made, Contract!Persist,
     Contract!NoCall
<1>7. ContractResponse' = ContractResponse
  BY <1>1 DEF ContractResponse
<1> QED BY <1>3, <1>4, <1>5, <1>6, <1>7 DEF Contract!Refuse

\* A claim of either phase makes the call that is owed.
LEMMA ClaimStep ==
    ASSUME IInv, RInv, ~Refused, FinalizeClaims \/ LoggingClaims
    PROVE  Contract!Claim
<1>1. /\ pc \in {"finalize_response", "logging"} /\ ~state.finalized
      /\ pc' \notin {"aborted", "done"}
      /\ UNCHANGED <<loaded, result, client, wanted>>
      /\ tally'.decisions = tally.decisions
      /\ state'.finalized
  BY DEF FinalizeClaims, LoggingClaims, PassesUntouched, Drained, IInv, Shape,
     TallyType, StateType
<1>2. Decided /\ Decided' /\ ~Refused'
  BY <1>1, UndecidedPoints, DecisionKept DEF FreshPoints
<1>3. ContractStage = "open" /\ ContractStage' = "claimed"
  BY <1>1, <1>2, Stages DEF StageFacts
<1>4. calls = <<>>
  BY <1>1, <1>2 DEF RInv, AdmittedFacts
<1>5. UNCHANGED <<ContractOwes, ContractResponse>>
  BY <1>1 DEF ContractOwes, ContractResponse, Deferred
<1>6. ContractMade' = Contract!Made(ContractOwes, "none")
  <2>1. CASE EndsSession
    <3>1. state.session = loaded.session /\ wanted /\ result = "none"
      BY <1>1, <2>1 DEF EndsSession, IInv, ContextFacts, Open
    <3>2. PICK phase : calls' = <<SessionCall("revoke", phase, state.session)>>
      BY <1>4, <2>1, Appended DEF FinalizeClaims, LoggingClaims, EndsSession,
         SavesSession
    <3> QED
      BY <1>1, <3>1, <3>2 DEF ContractMade, ContractOwes, ContractCall,
         Contract!Made, SessionCall
  <2>2. CASE SavesSession
    <3>1. Open /\ result = "none" /\ ~wanted /\ state.pending = Owed(loaded)
      BY <1>1, <2>2 DEF SavesSession, IInv, ContextFacts, Open
    <3>2. state.pending = loaded.session /\ Deferred
      BY <2>2, <3>1 DEF SavesSession, Owed, Deferred
    <3>3. PICK phase : calls' = <<SessionCall("persist", phase, state.pending)>>
      BY <1>4, <2>2, Appended DEF FinalizeClaims, LoggingClaims, EndsSession,
         SavesSession
    <3> QED
      BY <1>1, <3>1, <3>2, <3>3 DEF ContractMade, ContractOwes, ContractCall,
         Contract!Made, SessionCall
  <2>3. CASE ~EndsSession /\ ~SavesSession
    <3>1. calls' = <<>>
      BY <1>4, <2>3 DEF FinalizeClaims, LoggingClaims
    <3>2. ~wanted /\ ~Deferred
      BY <1>1, <1>4, <2>3 DEF EndsSession, SavesSession, IInv, ContextFacts,
         LoadFacts, Open, Owed, Deferred
    <3> QED
      BY <3>1, <3>2 DEF ContractMade, ContractOwes, ContractCall, Contract!Made
  <2> QED BY <2>1, <2>2, <2>3
<1> QED BY <1>1, <1>3, <1>5, <1>6 DEF Contract!Claim

LEMMA RespondStep ==
    ASSUME IInv, RInv, WriteHeader
    PROVE  Contract!RespondApplication \/ Contract!RespondRefusal
<1>1. /\ pc = "write_header" /\ header.kind # "interim"
      /\ pc' \in {"write_body", "logging"}
      /\ UNCHANGED <<loaded, state, calls, result, tally, wanted>>
      /\ client'.kind = IF header.source = "engine" THEN "engine"
                        ELSE "application"
  BY DEF WriteHeader, IInv, Shape, ClientType
<1>2. Decided /\ Decided' /\ (Refused' <=> Refused)
  BY <1>1, UndecidedPoints, DecisionKept DEF FreshPoints
<1>3. UNCHANGED <<loaded.session, ContractOwes, ContractMade>>
  BY <1>1 DEF ContractOwes, ContractMade, Deferred
<1>4. ContractResponse = "none"
  BY <1>1 DEF IInv, ClientFacts, Unanswered, ContractResponse
<1>5. ~Contract!Outstanding
  BY <1>1, NothingOutstanding DEF AwaitingCall
<1>6. CASE Refused
  <2>1. ContractStage = "refused" /\ ContractStage' = "refused"
    BY <1>1, <1>2, <1>6, Stages DEF StageFacts
  <2>2. ContractResponse' = "refusal"
    BY <1>1, <1>6 DEF RInv, RefusedFacts, ContractResponse
  <2> QED BY <1>3, <1>4, <1>5, <2>1, <2>2 DEF Contract!RespondRefusal
<1>7. CASE ~Refused
  <2>1. state.finalized /\ header.source # "engine"
    BY <1>1, <1>2, <1>7 DEF RInv, AdmittedFacts, IInv, PointFacts
  <2>2. ContractStage = "claimed" /\ ContractStage' = "claimed"
    BY <1>1, <1>2, <1>7, <2>1, Stages DEF StageFacts
  <2>3. ContractResponse' = "application"
    BY <1>1, <2>1 DEF ContractResponse
  <2>4. ContractMade.op = "persist" => ContractMade.result \in PermittedErrors \cup {"ok"}
    <3>1. CASE calls = <<>>
      BY <3>1 DEF ContractMade
    <3>2. CASE calls # <<>>
      <4>1. PICK c \in Calls : calls = <<c>>
        BY <3>2 DEF IInv, Shape, CallsType
      <4>2. calls[1].phase \in {"denied", "response", "logging"}
        BY <4>1 DEF Calls
      <4>3. calls[1].phase = "response"
        BY <1>1, <1>7, <3>2, <4>2 DEF RInv, OutcomeFacts
      <4>4. result # "none" /\ result \in ErrorsOrOk \cup {"none"}
        BY <1>1, <3>2 DEF RInv, OutcomeFacts, AwaitingCall, IInv, Shape,
           ResultType
      <4>5. calls[1].op = "persist" => result \notin SessionErrors \ PermittedErrors
        BY <1>1, <3>2, <4>3 DEF IInv, RejectFacts
      <4> QED BY <3>2, <4>4, <4>5, CallIsOwed DEF ErrorsOrOk
    <3> QED BY <3>1, <3>2
  <2> QED BY <1>3, <1>4, <1>5, <2>2, <2>3, <2>4 DEF Contract!RespondApplication
<1> QED BY <1>6, <1>7

\* The inner proxy's own write, and the runner's error response.
LEMMA BareStep ==
    ASSUME IInv, RInv, pc \in {"inner_request_filter", "fail_to_proxy"},
           client.kind = "none", client'.kind \in {"direct", "error"},
           pc = "fail_to_proxy" => ~client.gone,
           UNCHANGED <<loaded, state, calls, result, tally, wanted>>,
           pc' \notin {"aborted", "done"}
    PROVE  Contract!RespondBare
<1>1. Decided /\ Decided' /\ (Refused' <=> Refused)
  BY UndecidedPoints, DecisionKept DEF FreshPoints
<1>2. ~Refused
  BY DEF RInv, RefusedFacts
<1>3. ContractStage \in {"open", "claimed"} /\ ContractStage' = ContractStage
  BY <1>1, <1>2, Stages DEF StageFacts
<1>4. /\ ContractOwes' = ContractOwes /\ ContractMade' = ContractMade
      /\ ContractResponse = "none" /\ ContractResponse' = "bare"
  BY DEF ContractOwes, ContractMade, Deferred, ContractResponse
<1> QED BY <1>3, <1>4 DEF Contract!RespondBare

LEMMA EndStep ==
    ASSUME IInv, RInv, InnerLogging
    PROVE  Contract!End
<1>1. pc = "inner_logging" /\ pc' = "done"
  BY DEF InnerLogging
<1>2. ContractStage \in {"claimed", "refused"} /\ ContractStage' = "ended"
  BY <1>1, UndecidedPoints, Stages DEF StageFacts, FreshPoints, IInv, PointFacts
<1>3. UNCHANGED <<ContractOwes, ContractMade, ContractResponse>>
  BY DEF InnerLogging, ContractOwes, ContractMade, Deferred, ContractResponse
<1>4. ~Contract!Outstanding
  BY <1>1, NothingOutstanding DEF AwaitingCall
<1> QED BY <1>2, <1>3, <1>4 DEF Contract!End, InnerLogging

LEMMA DropStep == Abort => Contract!Drop
<1> SUFFICES ASSUME Abort PROVE Contract!Drop
  OBVIOUS
<1>1. pc \in AwaitPoints /\ pc' = "aborted"
  BY DEF Abort
<1>2. ContractStage # "ended" /\ ContractStage' = "dropped"
  <2>1. ContractStage' = "dropped"
    BY <1>1, Stages DEF StageFacts
  <2>2. pc \notin {"aborted", "done"} /\ (Refused => Decided)
    BY <1>1 DEF AwaitPoints, Refused
  <2>3. ContractStage \in {"arriving", "refused", "claimed", "open"}
    BY <2>2, Stages DEF StageFacts
  <2> QED BY <2>1, <2>3
<1>3. UNCHANGED <<ContractOwes, ContractMade, ContractResponse>>
  BY DEF Abort, ContractOwes, ContractMade, Deferred, ContractResponse
<1> QED BY <1>2, <1>3 DEF Contract!Drop, Abort

\* In time, the wish to end the session is a step; too late, it is none.
LEMMA AskStep ==
    ASSUME IInv, RInv, InnerRequestsTermination
    PROVE  Contract!AskTermination \/ UNCHANGED Contract!contractVars
<1>1. /\ pc \notin FreshPoints \cup {"aborted", "done"} /\ pc' = pc
      /\ UNCHANGED <<loaded, calls, result, client, tally>>
      /\ state'.finalized = state.finalized
      /\ wanted' = (wanted \/ (~state.finalized /\ state.session # NoSession))
  BY DEF InnerRequestsTermination, InnerHooks, FreshPoints, IInv,
         Shape, StateType
<1>2. CASE wanted' = wanted
  BY <1>1, <1>2, Stutter
<1>3. CASE wanted' # wanted
  <2>1. wanted' /\ ~state.finalized /\ state.session # NoSession
    BY <1>1, <1>3 DEF IInv, Shape
  <2>2. Decided /\ ~Refused /\ Decided' /\ ~Refused'
    BY <1>1, <2>1, UndecidedPoints, DecisionKept DEF RInv, RefusedFacts
  <2>3. ContractStage = "open" /\ ContractStage' = "open"
    BY <1>1, <2>1, <2>2, Stages DEF StageFacts
  <2>4. loaded.session = state.session
    BY <2>1 DEF IInv, ContextFacts
  <2>5. /\ ContractOwes' = Contract!Revoke(loaded.session)
        /\ UNCHANGED <<ContractMade, ContractResponse>>
    BY <1>1, <2>1 DEF ContractOwes, ContractCall, Contract!Revoke, ContractMade,
       ContractResponse
  <2> QED BY <1>1, <2>1, <2>3, <2>4, <2>5 DEF Contract!AskTermination
<1> QED BY <1>2, <1>3

-----------------------------------------------------------------------------
\* Every step of the proxy is one step of the contract, or none.
LEMMA StepOfContract ==
    ASSUME IInv, RInv, [Next]_vars
    PROVE  [Contract!ContractNext]_(Contract!contractVars)
<1> DEFINE Step == Contract!ContractNext \/ UNCHANGED Contract!contractVars
<1> SUFFICES Step
  OBVIOUS
<1>1. CASE RequestFilter
  <2>1. CASE LoadSession
    BY <2>1, Stutter DEF LoadSession
  <2>2. CASE DeniedCommitReturns
    BY <2>2, ReturnStep DEF DeniedCommitReturns, AwaitingCall, ErrorsOrOk,
       Contract!ContractNext
  <2> QED
    BY <1>1, <2>1, <2>2, AdmitStep, RefuseStep DEF RequestFilter,
       Contract!ContractNext
<1>2. CASE ForwardRequest
  <2>1. CASE InnerWritesDirectly
    BY <2>1, BareStep DEF InnerWritesDirectly, IInv, Shape, ClientType,
       Contract!ContractNext
  <2>2. CASE ~InnerWritesDirectly
    <3>1. /\ pc \notin {"aborted", "done"} /\ pc' \notin {"aborted", "done"}
          /\ UNCHANGED <<loaded, calls, result, wanted, tally, client>>
          /\ state'.finalized = state.finalized
      BY <1>2, <2>2 DEF ForwardRequest, InnerQueuesResponse, ForwardFails,
         ForwardHandled, ForwardProxied, ForwardQueued, IInv, Shape, StateType
    <3> QED BY <3>1, Stutter
  <2> QED BY <2>1, <2>2
<1>3. CASE Upstream
  <2>1. /\ pc \notin {"aborted", "done"} /\ pc' \notin {"aborted", "done"}
        /\ UNCHANGED <<loaded, calls, result, wanted, tally, client, state>>
    BY <1>3 DEF Upstream, CacheHit, UpstreamRequestFilter, UpstreamInterim,
       UpstreamResponds, UpstreamFails
  <2> QED BY <2>1, Stutter
<1>4. CASE ResponseFilter
  <2>1. CASE InnerResponseFilter \/ FinalizeSkips \/ RepeatFinalHeader
    BY <2>1, Stutter DEF InnerResponseFilter, FinalizeSkips, RepeatFinalHeader
  <2>2. CASE FinalizeClaims
    <3>1. ~Refused
      BY <2>2 DEF FinalizeClaims, RInv, RefusedFacts
    <3> QED BY <2>2, <3>1, ClaimStep DEF Contract!ContractNext
  <2>3. CASE TerminateReturns \/ CommitSucceeds \/ CommitFails
    BY <2>3, ReturnStep DEF TerminateReturns, CommitSucceeds, CommitFails,
       AwaitingCall, ErrorsOrOk, Contract!ContractNext
  <2> QED BY <1>4, <2>1, <2>2, <2>3 DEF ResponseFilter
<1>5. CASE Write
  <2>1. CASE WriteHeader
    BY <2>1, RespondStep DEF Contract!ContractNext
  <2>2. CASE FailToProxy /\ client.kind = "none" /\ ~client.gone
    <3>1. client'.kind = "error"
      BY <2>2 DEF FailToProxy, IInv, Shape, ClientType
    <3> QED BY <2>2, <3>1, BareStep DEF FailToProxy, Contract!ContractNext
  <2>3. CASE ~WriteHeader /\ ~(FailToProxy /\ client.kind = "none" /\ ~client.gone)
    <3>1. /\ pc \notin {"aborted", "done"} /\ pc' \notin {"aborted", "done"}
          /\ UNCHANGED <<loaded, calls, result, wanted, tally, state>>
          /\ client'.kind = client.kind
      BY <1>5, <2>3 DEF Write, WriteInterim, WriteHeaderFails, WriteBody,
         FailToProxy, IInv, Shape, ClientType
    <3> QED BY <3>1, Stutter
  <2> QED BY <2>1, <2>2, <2>3
<1>6. CASE Logging
  <2>1. CASE LoggingSkips
    BY <2>1, Stutter DEF LoggingSkips
  <2>2. CASE LoggingClaims /\ ~Refused
    BY <2>2, ClaimStep DEF Contract!ContractNext
  <2>3. CASE LoggingClaims /\ Refused
    <3>1. state.session = NoSession
      BY <2>3 DEF LoggingClaims, RInv, RefusedFacts
    <3>2. /\ pc = "logging" /\ pc' = "inner_logging"
          /\ UNCHANGED <<loaded, calls, result, client, wanted>>
          /\ tally'.decisions = tally.decisions
      BY <2>3, <3>1 DEF LoggingClaims, EndsSession, SavesSession, IInv, Shape,
         TallyType
    <3> QED BY <2>3, <3>2, Stutter
  <2>4. CASE LoggingTerminateReturns \/ LoggingCommitReturns
    BY <2>4, ReturnStep DEF LoggingTerminateReturns, LoggingCommitReturns,
       AwaitingCall, ErrorsOrOk, Contract!ContractNext
  <2>5. CASE InnerLogging
    BY <2>5, EndStep DEF Contract!ContractNext
  <2> QED BY <1>6, <2>1, <2>2, <2>3, <2>4, <2>5 DEF Logging
<1>7. CASE InnerRequestsTermination
  BY <1>7, AskStep DEF Contract!ContractNext
<1>8. CASE Abort
  BY <1>8, DropStep DEF Contract!ContractNext
<1>9. CASE Ended \/ UNCHANGED vars
  <2>1. UNCHANGED vars
    BY <1>9 DEF Ended
  <2> QED
    BY <2>1 DEF vars, Contract!contractVars, ContractStage, ContractOwes,
       ContractMade, ContractResponse, Deferred
<1> QED
  BY <1>1, <1>2, <1>3, <1>4, <1>5, <1>6, <1>7, <1>8, <1>9 DEF Next, Progress

\* Whatever hooks, upstream and client do, and wherever calls fail or the task
\* is dropped, one request through LoginProxy keeps the contract: the call that
\* it owes is the call that it makes, once, and no response of the application
\* leaves before it or after a commit that the policy refuses to overlook.
THEOREM ContractIsKept == Spec => ImplementsContract
<1>1. Init => Contract!ContractInit
  BY DEF Init, Contract!ContractInit, ContractStage, ContractOwes, ContractMade,
     ContractResponse, Deferred, NotLoaded, ContractCall, Contract!NoCall,
     Contract!Made
<1>2. IInv /\ RInv /\ [Next]_vars
        => [Contract!ContractNext]_(Contract!contractVars)
  BY StepOfContract
<1> QED
  BY <1>1, <1>2, Invariance, RInvInvariant, PTL
  DEF Spec, ImplementsContract, Contract!ContractSpec
=============================================================================
