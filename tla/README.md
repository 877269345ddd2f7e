# A TLA+ development for huskarl-pingora

huskarl-pingora puts two proxies in front of a Pingora service: `LoginProxy`,
which keeps browser sessions, and `AuthProxy` / `ProtectedResourceProxy`, which
ask for access tokens. Both are middlewares: Pingora calls their hooks for every
request, they call an engine or a validator that belongs to another crate, and
they delegate to an inner proxy. What is hard about them is not an algorithm. It
is that one request passes a dozen await points, at each of which a call may
fail, the upstream may be retried, the client may leave or the task may be
dropped, and that cookies, commits, revocations, nonces and decisions must
nevertheless be handled exactly once and in the right order. Around the proxies
there are builders that turn an application's rules into tables, and these must
enforce or refuse everything that was asked of them.

The modules are translated from the Rust source. Where a document of the
repository (`docs/reference/login_invariants.md`) names an obligation, the
property that states it for the code carries its letter: F1-F4, C1, C3, C4, E1-E3.

## 1. Inventory

| Part | State it keeps | Operations | What makes it correct |
|---|---|---|---|
| `LoginProxy` (`login/proxy/mod.rs`) | none of its own; works on `LoginState` | `request_filter`, `upstream_request_filter`, `response_filter`, `logging`; `finalize_response`, `forward_request` | an owed commit or termination is attempted once; cookies reach the one final header or are reported; only admitted requests are forwarded |
| `LoginState` (`login/ctx.rs`) | session snapshot, pending commit, request headers, queued cookies, `terminate_requested`, `finalized`, queued response | `prepare_forward`, `request_session_termination`, `respond` | obligations stay whole until claimed; the snapshot is never taken |
| The session's record (engine, external) | version, deleted or not | load with refresh, save, revoke | several requests of one session leave it consistent: no request conflicts with itself, a sign-out is final |
| `LoginRule`, `LoginProxyBuilder` (`login/rule.rs`, `login/proxy/mod.rs`) | rule being written, routes, default | `public`/`optional`/`required`, `check`, `method`, `route`, `subtree`, `blob_subtree`, `default`, `build` | what was asked of a rule is enforced for the requests it decides, or `build` fails |
| Login diagnostics, counters | counters | samples | one decision and one finalization sample per request |
| `Guard` (`resource/guard/mod.rs`) | configuration only | `check_for_proxy`, `check_rule`, denials | forward exactly what binding, route, rule and token permit; a refusal says enough and no more |
| `AuthProxy`, `ProtectedResourceProxy` (`resource/proxy.rs`) | `HasAuthState` in the context: token, nonce, strip flag | `request_filter` (`authorize`), `upstream_request_filter`, `response_filter`, `write_challenge_response` | no token of a rejected request, credentials stripped on each attempt, the nonce on the last header |
| Error bodies (`resource/error_body.rs`, `error.rs`), writers (`response.rs`) | none | `ErrorDetails`, renderer, header and body | header, body and framing agree |
| `Rule`, `ResourcePolicy` (`resource/rule.rs`, `policy.rs`) | rule being written, routes, default | `audiences`, `scopes`, `check`, `strip_credentials`, `build`, `scopes_supported` | as for the login rules; hints and advertised scopes are those enforced |
| `ResourceAssembly` (`resource/assembly.rs`) | branches, endpoints, then a router | `register`, `register_bound`, `assemble`, `select` | each path has one owner; nothing is served half registered |
| `ResourceMetadataProxy`, `BoundResource` (`resource/proxy.rs`, `bound.rs`) | published endpoints; a definition with its guard and mapping | `publish`, `request_filter`; binding | distinct endpoints of one origin, public for every caller; what is advertised is what is served |
| Example servers (`examples/publication_proxy.rs`, `login_proxy.rs`) | a router of their own; a table of pages | `build_router`, `upstream_request_filter` | mounts guarded; the upstream sees the session's subject, never the client's claim |

How they interact. Pingora owns the task: it calls `request_filter`; on
`Ok(false)` it chooses a peer and runs `upstream_request_filter` for every
attempt, `response_filter` for every header (interim ones included, sometimes
twice for one header), `fail_to_proxy` after an error and `logging` at the end.
The per-request context is the only state that hooks share, also with the inner
proxy. There is no lock and no state shared between requests in this crate; what
requests of one session do share is the record in the session store behind the
engine, which each reads when it is loaded and writes when it is finalized, with
awaits in between. A server composes the parts at its router: a
`ResourceAssembly`, or a router written by the application, leads to
`ProtectedResourceProxy` branches, to the public metadata publisher or to a
fallback.

Hard behaviours: hooks that run out of the usual order (a direct write of the
inner proxy skips `response_filter`); a claim made before an await; a failure
after a part of the work is done; repeated callbacks and retried attempts;
interim headers, and `101`, which is informational and final; a client that
leaves between header and body; two requests that refresh, commit and revoke one
session; builder calls in any order; rounding and saturation of `Retry-After`;
overlapping path reservations, and public paths that a mapping turns into others.
`PROJECT.json` lists each hazard at its line with the properties that cover it.

## 2. Modules

```
LoginProxy ── LoginInvariants ─┬─ ContractRefinement ── MCLoginProxy           (login)
                               │     └ INSTANCE LoginContract
                               └─ LoginInduction
                                  ContractRefinement, LoginInduction ── LoginProxyProofs
LoginSessions ── SessionInvariants ─┬─ MCLoginSessions   (sessions_safety, sessions_contract)
                   └ INSTANCE LoginContract, one per request
                                    └─ SessionProofs
AuthProxy ── AuthInvariants ─┬─ MCAuthProxy                (auth_decision, auth_lifecycle)
                             └─ AuthInduction ── AuthProxyProofs
AccessRule ── GuardExchange ── GuardExchangeInvariants ─┬─ MCGuardExchange     (guard)
                                                        └─ GuardExchangeProofs
UrlPaths, MethodMatch ── RouteTable
RouteTable ── LoginPolicy ── LoginPolicyInvariants ── MCLoginPolicy (login_policy, login_default)
RouteTable, AccessRule ── ResourcePolicy ── ResourcePolicyInvariants ── MCResourcePolicy (resource_policy)
RouteTable ── LoginApplication ── ApplicationInvariants ── MCLoginApplication  (application)
UrlPaths ── ResourcePublication ─┬─ ResourceAssembly ── AssemblyInvariants ── MCResourceAssembly (assembly)
                                 ├─ PublicationServer ── PublicationInvariants ── MCPublicationServer (publication)
                                 └─ UrlPathProofs
UrlPathProofs, AssemblyInvariants ── AssemblyProofs
UrlPathProofs, LoginPolicyInvariants, ApplicationInvariants ── LoginRoutingProofs
UrlPathProofs, ResourcePolicyInvariants, PublicationInvariants ── ResourceServerProofs
```

Each specification module also has operators named `Fault...`. They are not part
of the model; each is a slip that an edit of the code could make, and with it in
place of the definition it varies, TLC finds a property of section 4 violated.

### LoginProxy

One request, from `request_filter` to `logging`. `pc` is the point the task is
at: an await, or `finalize_response` and `logging`, which run on to their next
await. `state` is `LoginState`, field by field. `request` and `loaded` hold what
routing, the rule's check and `load_session` answered. A `Set-Cookie` bundle is
one token, by its origin: `load` (clears or re-sealed cookies of the load),
`commit`, `clear`. `header` is the response header in flight, with its bundles
in the order of `append_header`.
`calls`, `result`, `client`, `ledger`, `tally` and `wanted` are what an observer
of the engine, the connection, the diagnostics and the metrics would see; the
code does not read them.

| Code | Actions |
|---|---|
| `request_filter` | `Preflight`, `RouteDenied`, `LoginRoute`, `PublicRoute`, `LoadSession`, `LoadFailed`, `RefreshUnavailable`, `Unauthenticated`, `Anonymous`, `Forbidden`, `Authenticated`, `DeniedCommitReturns` |
| `forward_request` and the queued response | `ForwardRequest` and its parts, through the whole `response_filter` before the write |
| `upstream_request_filter`, the exchange, Pingora's cache | the parts of `Upstream` |
| `response_filter`, `finalize_response` | the parts of `ResponseFilter`: interim headers, repeated callbacks, claims, the awaited call's return, the failure policy |
| writing to the client, `fail_to_proxy` | the parts of `Write` |
| `logging` | `LoggingSkips`, `LoggingClaims`, `LoggingTerminateReturns`, `LoggingCommitReturns`, `InnerLogging` |
| `terminate_requested` set by an inner hook | `InnerRequestsTermination`, at the points of `InnerHooks`: `request_filter`, cache, peer and connection, upstream request, response and body filters, `fail_to_proxy`, `logging` |
| the future is dropped | `Abort`, at every await |

`LoginContract` is the promise without hooks: which call a request owes, that it
is made once and when which kind of response may leave. `ContractRefinement`
reads its five variables off those of `LoginProxy`.

### LoginSessions

Several requests that carry the cookie of one stored session. Each is known only
by the contract: `stage`, `session`, `made` and `response` are the contract's
variables for that request, `pending` and `asked` are what its context owes.
They meet in `record`, the store's record, which has a version for each write
and may be deleted. `ReadRecord` is the engine's read within `load_session`; the
actions `LoadActive`, `LoadPending`, `LoadSaved`, `LoadNothing` and `LoadFails`
are its return, so that other requests may write in between. `Claim` is the
moment `finalize_response` or `logging` takes the obligation, `Execute` the
store's work, and `Return` the end of the await: the store may have done what
the caller is told it could not, and it may do so after the task was dropped.
Two facts about the store are taken from
`docs/reference/login_finalization.md`: a save is guarded by the version the
session was loaded at, and it does not recreate a deleted record.

### AuthProxy

One request through `AuthProxy` (`binding = NoBinding`) or
`ProtectedResourceProxy`. `request` holds what the URL mapping, the resource
check, the route table and the selected rule make of it. `answer` is the
validator's answer, `ctx` the `HasAuthState` fields, `counters` the samples of
the guard and of the authorization counter. `CheckRule`, `Judged` and
`FromValidation` are `check_rule`, the tail of `check_request_categorized` and
`CheckOutcome::from_validation`. `Permitted`, in `AuthInvariants`, states when a
request may pass, without the order of the guard's tests: the properties compare
the two.

### GuardExchange

What a refusal says, and what a client can do about it. `AuthProxy` abstracts a
rejection to its nonce and its cooldown; here it is a status, a set of
challenges, the `ErrorDetails` for the renderer (`told`), the renderer's page and
the bytes written (`response`). `route` and `config` are one route and one
binding, chosen at the start and fixed. One client keeps asking: it takes a nonce
that it is given, gets a token with the scopes a challenge names, waits when told
to, and stops when nothing it could do would help. `refusals` is the history of
reasons. Failures are bounded by `faults`.

### LoginPolicy, ResourcePolicy, RouteTable

The builders as state machines: `draft` is the rule that the author's calls have
made so far, together with what they asked for in their own terms; `routes` and
`default` are the builder's fields, and `Build` is `build`, with its error or its
success as `outcome`. A rule is made by a constructor and restricted by `method()`
to one method (`Construct`, `RestrictTo`); `LoginRule` is a public enum, and its
variants may also be written out with a list of none or several methods
(`WriteOut`). `RouteTable` is the router of `huskarl-route-guard`
(external), as far as `routing.rs` and the builders use it: lowering of exact
routes, subtrees and exclusive subtrees into patterns, exact before catch-all,
longer before shorter, and a pattern with a wrong method denies. `UrlPaths` has
the paths: a path is the sequence of its segments, so that `/a`, `/a/` and `/ab`
differ as they do for the router. `MethodMatch` has the sets of methods.

### ResourceAssembly, PublicationServer

The life of an assembly and then any number of requests, one at a time.
`InstallRoutes` builds the patterns of `assemble` and `Resolve` chooses among
them. `ResourceRegistry` is relied on for one thing, disjoint mounts, and may
refuse anything else. The URL mapping is taken to reconstruct every path of a
mount; that it may fail is modelled in `AuthProxy`.

`PublicationServer` is the server of `examples/publication_proxy.rs`, which uses
the same publisher (`ResourcePublication`) but binds resources itself
(`BoundResource`, with the metadata URL that a validator was configured with) and
writes its own router, with a `security.txt` and a mapping from public to
incoming paths.

### LoginApplication

The server of `examples/login_proxy.rs` with a browser and a provider: `jar` is
the browser's cookie, `mapping` the public base and the incoming prefix, `Forward`,
`Unauthenticated`, `CallbackRoute` and `LogoutRoute` are the proxy's answers,
`Attempt` is the example's `upstream_request_filter`. It fails before anything is
written to the upstream when the subject is no value of a header
(`AttemptRefused`, for the subjects in `Unsendable`).

## 3. Runs

| Run | Bounds | Distinct states | Question |
|---|---|---|---|
| `login` | 2 sessions, 2 errors of which the policy permits one, 2 attempts, 2 interim headers, 1 repeated callback | 122,640 | cookies, calls, contract, and whether what is owed is attempted |
| `sessions_safety` | 3 requests, 2 of them at a time, responses left out | 1,980,945 | do requests of one session undo each other's work? |
| `sessions_contract` | 2 requests with responses | 241,883 | does each keep its contract among the others, and are debts settled? |
| `auth_decision` | 2 audiences, 1 scope, 4 bindings, every rule and answer, 1 attempt | 728,680 | what passes, and how is it counted? |
| `auth_lifecycle` | 1 audience, 2 attempts, 2 interim headers, 3 nanoseconds to a second, at most 2 seconds | 141,808 | nonce, credentials, `Retry-After`, one answer |
| `guard` | 1 audience, 2 scopes, 2 bindings, 2 pages, GET and HEAD, 6 requests, 1 fault | 1,610,088 | what does a refusal say, and does following it help? |
| `login_policy` | 2 checks, 2 methods, 4 patterns, 2 rules, 6 request paths | 1,041,065 | is all that was asked of a rule enforced or refused? |
| `login_default` | as `login_policy` | until violated | is a rule with one method applied to that method alone? |
| `resource_policy` | 1 audience, 2 scopes, 1 check, 2 patterns, 2 rules | 832,984 | the same for resource rules, and the scopes they advertise |
| `assembly` | 10 definitions, up to 3 registered, 19 paths, 2 queries, 3 methods | 20,700 | who answers which path? |
| `publication` | 9 definitions, up to 3 bound, 19 paths, 2 queries, 3 methods | 16,900 | is what a guard advertises what the router serves? |
| `application` | 2 mappings, 7 pages, 3 subjects of which one is no header value, forged headers, 2 attempts | 38,514 | what does the upstream see, and do redirects end? |

`login_default` is the one run that must find a violation.
`LoginRule::method` is documented to restrict "this rule to a single HTTP
method" (`login/rule.rs:235`), but the builder hands the router the default rule
without its method (`login/proxy/mod.rs:243`). The trace makes a rule with a
constructor, restricts it with `method()` to one method, sets it as the default
and builds: unmatched requests of every method are decided by it. For rules on
routes the claim holds (`RoutesKeepToTheirMethods`, a part of
`RoutesDecideTheirPaths`).

Two more divergences of the same kind follow from the model and have no run of
their own. A variant of `LoginRule` that is written out with no method and set as
the default is accepted, although `MethodMatch::OneOf` is documented with "An
empty set is a configuration error." (`method.rs:10`); the router refuses it on a
route. And the resource policy treats its default in the same way
(`resource/policy.rs:81`, against `resource/rule.rs:174`), so that
`ConstraintsHoldOrAreRefused` is about tokens, audiences, scopes and checks and
says nothing of a default's method.

Why the bounds are enough. The login code compares no two sessions, it hands on
the one it loaded; two session values show a mix-up. Errors are told apart only
by the policy, hence one of each kind. A retry, an interim header or a repeated
callback reads only flags that the first one set, so the second shows what any
later one does. A race over the record needs two requests under way and one that
arrives later; `SessionProofs` has any number. In the guard, two audiences
separate equal, disjoint, overlapping and empty lists, which are
`SUBSET Audiences`; scopes are tested one by one, and two of them let a challenge
name less, the same or more than the token has. Six requests are one more than
the different reasons that one client can be refused for in turn when it does
what it is told, so the last one shows a repetition. Two rules in a policy show
every interaction of a route with another and with the default; a third would
only be the bystander, and rules are judged one by one. A second of three
nanoseconds has an exact value, a fraction above and one below the next second,
and `MaxSeconds = 2` reaches the saturation. The definitions of the assembly and
of the server are chosen for what could collide: a root mount and children, a
directory mount, an endpoint in place of a mount, one inside another resource's
mount, two endpoints that differ by their query alone, equal endpoints of
different mounts, another origin, braces and an unmappable endpoint; two
definitions can conflict, the third is the bystander.

Symmetry is used where values are only compared: for the requests in
`sessions_safety` and the scopes in `resource_policy`. Runs with a temporal
property use none. Deadlock is checked everywhere but in the two session runs,
where nothing is left to do once all requests have ended or were dropped; the
other models have a stuttering end or never end.

Fairness, in the runs with a liveness property:

- `login`: `WF_vars(Progress)`: if the task can go on it does, as under an
  executor that keeps polling when every awaited call returns. The inner proxy's
  wish to end a session is not covered, nor is `Abort`: a future may always be
  dropped and never must be.
- `sessions_contract`: weak fairness of each request's load, of the store's
  work, of the call's return and of logging. Again no drop.
- `guard`: weak fairness of the proxy, and of the client's sending and reacting;
  the failures of validator and token are bounded by `MaxFaults`.
- `application`: weak fairness of the browser that follows a redirect, of the
  provider that returns, and of the proxy and upstream for a request under way.

So the liveness properties speak of requests that are not dropped, in line with
the repository's own limits on progress guarantees.

## 4. Properties

Login, one request (`LoginInvariants`): `AtMostOneSessionCall` (F1, F3, E3),
`ObligationsMet` (F1, F3), `ResponseCarriesBundle` (C1, C3),
`CookiesAccountedFor` (C1, C4), `TerminationClearsLast` (E2, F3),
`OnlyAdmittedForwarded`, `NothingTakenBack` (F4, C4: neither the snapshot nor a
sent response is replaced), and under fairness `OwedIsAttempted`.
`ImplementsContract` adds E1: a response whose commit was rejected does not leave
as the application's. `OwedUntilClaimed` (F2), `RejectedCommitNeverServed` (E1),
`CountedOnce` are not in a run's list of their own; they are proved.

Login, several requests (`SessionInvariants`): `ConflictsAreWithOthers`,
`SignedOutStaysOut`, `EachKeepsContract` and, under fairness, `DebtsAreSettled`.

Guard and AuthProxy (`AuthInvariants`): `OnlyPermittedReachInner` and
`OnlyRefusedAreChallenged` together say that the guard is exact, and the first
that hooks find the accepted token only. `CredentialsFollowRule` is about what
the upstream sees, `NonceOnTerminalResponse`, `RetryAfterCoversCooldown` and
`AnsweredOnce` about the order and the content of headers, `OneSamplePerDecision`
about what an operator sees; `DecisionStands` is proved only.

Refusals (`GuardExchangeInvariants`): `RefusalsTellNoMore` (server faults tell
nothing, rules that were never applied stay hidden), `AnswersAgree` (status,
challenges, body and framing of one answer), `NoFutileRetry` and
`ObedientClientIsForwarded` (what a challenge asks for is enough).

Builders: `ChecksRunOrAreRefused` and `RoutesDecideTheirPaths`
(`LoginPolicyInvariants`), `ConstraintsHoldOrAreRefused` and `HintsAreExact`
(`ResourcePolicyInvariants`).

Assembly (`AssemblyInvariants`): `MetadataAnsweredPublicly` and
`ProtectedPathsAreGuarded` together assign every path of every assembly to one
owner; `PublicationsDistinct` and `ServedArePublished` are about construction.

Servers: `AdvertisedMetadataIsServed`, `MountsAreGuarded`
(`PublicationInvariants`); `SessionDecides`, `SignOutLeavesNoSession`,
`RedirectsEnd` (`ApplicationInvariants`).

## 5. Proofs

Every safety and action property that a passing run checks is a theorem here. The
theorems are about the specification of their module (`Spec`, `AppSpec` of
`LoginApplication`, `ServerSpec` of `PublicationServer`), for every value of the
constants that satisfies the module's named assumption: any sessions and errors,
any policy, any number of requests, audiences, scopes, rules, definitions, paths
and all bounds. The assumptions say no more than the code does: values that stand
for "none" are not among the real ones, what an index or a name identifies is
unique (`DefinitionsAssumption`, `ServerAssumption`: a router target is an index
in the code), and a path has at least one segment, since it begins with a slash
(`PathsAssumption`, `FaultsAssumption`). `LoginSessions` assumes nothing. Hardly
any property is inductive as it stands; each module has its strengthening, which
TLC found to hold within the bounds of section 3 before it was proved.

**One login request** (`LoginProxyProofs`). Every safety and action property of
`LoginInvariants`. That a commit is made once depends
on `finalized` having been set by everyone who made one; that a header carries its
bundle when it is written depends on what `finalize_response` had drained before
it awaited. `LoginInduction` has `IInv`:

- `Shape`: types, with the call list and the counters bounded to what they hold;
- `Fresh`, `LoadFacts`, `ContextFacts`: before routing and the load have
  answered nothing is set; the context is either open and equal to what the load
  returned, or claimed and empty;
- `CallFacts`: whether a call was made is a function of `finalized`, of the
  denial path and of what was owed;
- `Conserved`, `PlaceFacts`: every bundle handed over is in exactly one of the
  context, the header in flight, the client's response and the ledger;
- `PointFacts`, `AnswerFacts`: what each await point implies, and which results
  have come back there;
- `ClientFacts`, `RejectFacts`, `TallyFacts`, `AdmissionFacts`: what was sent,
  which errors remain after a rejected commit, the counters, the admission.

One lemma for each action says that it keeps `Shape`, another that it keeps the
other parts; the theorems combine them.

**The contract** (`LoginProxyProofs`). `ContractIsKept` proves
`Spec => ImplementsContract`: initial states map to initial states, and every step
maps to a step of `LoginContract` or a stutter. Beside `IInv` it needs `RInv`,
which ties the observer's `tally` to the control: a refused request has no context
and never gets a response of the application, an admitted one calls only after
its claim, and a call has an outcome as soon as nothing awaits it. One lemma for
each step of the contract then says which steps of the hooks are that step.

**Several requests** (`SessionProofs`). `SignOutIsFinal`,
`NobodyConflictsWithItself` and `ContractAmongOthers`, for any number of requests
and interleavings. The invariant has for each request `Staged` (what its stage
implies), `Called` (a call is made and answered once, and is the one owed),
`Recorded` (its version, its call's outcome and its writes agree with the record)
and `Denied` (a sign-out that was over before a request arrived leaves it without
a session). Together with `ContractIsKept`, which justifies knowing a request by
its contract, this carries the result from the hooks to the shared record.

**The guard and its proxy** (`AuthProxyProofs`). Exactness in both directions,
the credentials, the nonce, the samples, `Retry-After` for every width of a
second and every saturation bound, and that a second final header or a changed
decision never occurs. `AuthInduction` divides a request's life at the decision:
`Undecided`, `Validating`, then `Verdict` with either `Refused` or `Admitted`, and
`Answered`.

**Refusals** (`GuardExchangeProofs`). `RefusalsAreDiscreet`,
`AnswersAreConsistent`, `RetriesAreNotFutile`, for any rules, bindings and tokens
and any number of requests. That no client is refused twice for one reason while
it does what it is told is a statement about a history, so the invariant has
to say what became of each reason: `Cures` says that an answer names what
mends the reason, `Cured` that a test can no longer fail for it, and
`LessonsLearnt` that for a client who could be admitted the last answer cures
its reason and every earlier reason is cured already. `OneAudience`
keeps every token of the client to the audience it was told of.
`ClientDenialsAreSound`, `EarlyDenialsAreSound` and `ServerDenialsAreSound` say for
each category of denial what its answer has, and `RefuseKeeps` needs no more
than that.

**Paths** (`UrlPathProofs`, lemmas only). What the three modules below rest on:
two mounts with a common descendant contain one another (`MountsAreComparable`);
the pattern that a path selects lies beneath every mount that the path lies
beneath (`SelectedBeneath`), so a router with patterns for each mount and its
subtree leads every path beneath the mount, unless it is public, to that mount
(`MountIsSelected`), and a branch finds the paths of its mount to be
in its resource (`MountIsInResource`), for paths of any length and any set of patterns. `Segment`
is `STRING` with the few literal names that the models use: the provers do not
know that a literal is in `STRING`.

**Builders** (`LoginRoutingProofs`, `ResourceServerProofs`). `ChecksAreNotLost`,
`ConstraintsAreNotLost` and `HintsAreTrue` hold after any sequence of builder calls.
The invariant says that the draft, each route and the default hold all that was
asked of them, or remember that they cannot (`Coherent`), and that the outcome is
what `build` makes of these (`OutcomeIsOfBuild`): the error of the first misplaced
check, or else the router's. `RoutesDecideWhatTheyName` says of the table that a
subtree has no gap, an exclusive subtree one rule throughout, and that no route
decides a request with another method than its own.

**The assembly** (`AssemblyProofs`). Types, `PublicationsDistinct`,
`ServedArePublished`, `MetadataAnsweredPublicly` and `ProtectedPathsAreGuarded`,
for any definitions and mapping. The invariant: endpoints and branches correspond
one to one (`Aligned`), what is published is a prefix of what was registered, the
table is the one built from them (`Phases`), and a request's answer is its
selected branch's (`Routed`). `MountsStayApart` adds that no two mounts overlap,
from which `MountIsSelected` gives each protected path its one owner
(`MountsAreProtected`).

**The publication server** (`ResourceServerProofs`). `AdvertisementsAreServed` and
`GuardsKeepTheirMounts`. `ServerIInv`: what has been published is, index by index,
what the bound resources ask for (`Collected`), the mounts are apart, endpoints
differ, also from `security.txt` (`EndpointsDiffer`, `SecurityIsApart`), the
table is there from `serving` on and not before (`Stages`), and each answer is
that of the selected target (`RequestIsRouted`).

**The login example** (`LoginRoutingProofs`). `SessionsDecide` and
`SigningOutEnds`. `LevelOfPage` computes what the table of registrations says of
each page, under any incoming prefix; `AppIInv` then has that whoever was let
through to a page had the session its level wants (`Admitted`), and that a
sign-out under way has already lost the cookie (`SigningOut`).

Only model-checked: the liveness properties `OwedIsAttempted`, `DebtsAreSettled`,
`ObedientClientIsForwarded` and `RedirectsEnd`, since reasoning under fairness is
beyond the provers used. `RulesKeepToTheirMethods` is false, which `login_default`
shows.

## 6. What is not modelled

- `Guard::check` and `check_request`, when an application calls them itself
  outside of a proxy.
- That cookies stay out of Pingora's cache (C2): it is a matter of Pingora's
  hook order, which the model takes over; a cached header enters without cookies.
- The engine's own routes (callback, logout) beyond their answers, token
  validation, the registry's checks, path confusion and pattern syntax: they are
  other crates', and appear as choices at the calls made to them.
- The wording of bodies, challenge parameters and log lines; metric labels.
- Inner hooks that write the authentication state or the managed login fields:
  the repository excludes them. An answer that an inner `request_filter` writes
  itself, or Pingora's error page, carries no nonce; `NonceOnTerminalResponse`
  does not claim it.
- An inner `request_filter` that writes a response and yet returns `Ok(false)`:
  `forward_request` looks at what is queued and not at what is written, and
  Pingora would go on to the upstream. Pingora's contract is `Ok(true)` after a
  write, and `docs/reference/login_finalization.md` tells an inner proxy to queue
  its response and return `Ok(false)` without writing (`ForwardProxied`).
- The inner proxy's `early_request_filter`. A termination that it asks for is
  reset by `prepare_forward`, or finds no session where that is not called. A
  response that it queues is sent if the request is forwarded, as if
  `request_filter` had queued it, and is dropped with a denial.
- Counters are taken to be enabled (they are behind a feature).
- `strip_credentials` and other builder arguments that are only stored are left
  out of the builders' models; where they take effect, they are in `AuthProxy`.
- The other examples only wire the library. Re-exports, fixtures and unit tests
  have no behaviour over time.

## 7. Plan

Done: the login core, its contract and the refinement proof; several requests of
one session; the guard with `AuthProxy`; refusals and the clients that follow
them; both builders; the assembly; the publication server and the login example;
proofs of all their safety properties. What is left:

1. `LoginProxy` around `AuthProxy` on one context: the order of their hooks, and
   an error of the inner one after the outer has claimed;
2. an abstract specification of a router with owners, implemented by both the
   assembly and the publication server, in place of their two separate
   properties;
3. the guard's exactness carried from `AuthProxy` to `GuardExchange`: the two
   describe one decision at different depths.
