--------------------------- MODULE PublicationServer ---------------------------
(***************************************************************************)
(* A server that composes its own router from bound resources              *)
(* (src/examples/publication_proxy.rs): resources are bound to their       *)
(* definitions (BoundResource, Guard::for_resource), collected by          *)
(* build_router together with a security.txt of the application, and       *)
(* requests are selected and served.                                       *)
(*                                                                         *)
(* ResourceDefinition, ResourceRegistry, PublicUrlMapping and the pattern  *)
(* router are other crates.  A definition's metadata URL is public; what   *)
(* the client sends there reaches this process at the Incoming path.       *)
(***************************************************************************)
EXTENDS ResourcePublication

CONSTANTS
    Definitions,     \* the resource definitions
    ValidatorUrls,   \* the metadata URL a validator is configured with
    NoUrl,           \* none
    Incoming,        \* the metadata mapping, from public to incoming paths
    Literal,         \* the paths without braces
    SecurityPath,    \* the public path of security.txt
    Paths, Queries,  \* of requests
    MaxResources     \* bound: resources of the server

Url(d) == [origin |-> d.origin, path |-> d.public, query |-> d.query]

\* The name is the definition's; "publisher" and the like are other targets.  A
\* path begins with a slash: it has a segment.
ASSUME ServerAssumption ==
    /\ \A d \in Definitions :
         /\ DOMAIN d = {"name", "origin", "mount", "resource", "public",
                        "query", "parses"}
         /\ d.mount \in Seq(STRING) /\ d.mount # <<>>
         /\ d.resource \in Seq(STRING) /\ d.resource # <<>>
         /\ d.name \notin {"publisher", "security_txt", "fallback"}
         /\ \A e \in Definitions : d.name = e.name => d = e
    /\ \A p, q \in DOMAIN Incoming : Incoming[p] = Incoming[q] => p = q
    /\ \A p \in DOMAIN Incoming : Incoming[p] \in Seq(STRING) \ {<<>>}
    /\ \A path \in Paths : path \in Seq(STRING) /\ path # <<>>
    /\ MaxResources \in Nat

VARIABLES
    phase,       \* binding, collecting, serving or rejected
    bound,       \* the bound resources
    published,   \* the publisher's endpoints, one for each collected resource
    security,    \* the incoming path of security.txt, as a set
    table,       \* the router's patterns and where they lead
    request      \* the last request and its answer

server_vars == <<phase, bound, published, security, table, request>>

Methods == {"GET", "HEAD", "POST"}

NoRequest ==
    [path |-> <<"">>, query |-> "none", method |-> "none",
     answer |-> Answer("none", "none")]

ServerInit ==
    /\ phase = "binding"
    /\ bound = <<>> /\ published = <<>>
    /\ security = {} /\ table = {}
    /\ request = NoRequest

-----------------------------------------------------------------------------
(* Binding.                                                                 *)

\* split_resource_metadata: at first the endpoint is expected where it is
\* published.
Endpoint(d) ==
    [origin |-> d.origin, path |-> d.public, query |-> d.query,
     name |-> d.name]

(* Faulty variants of the definitions below: none is part of the model.     *)

FaultAnyUrl(d, url) == d.parses

-----------------------------------------------------------------------------

\* Guard::for_resource: the identifier must be a URI, and a validator with a
\* metadata URL of its own must mean this resource's.  prepare may fail.
Bindable(d, url) == d.parses /\ url \in {NoUrl, Url(d)}

\* ProtectedResourceProxy::new.  The guard's challenges name the metadata URL
\* of the definition.
BoundProxy(d, url) ==
    [definition |-> d, endpoint |-> Endpoint(d),
     advertised |-> IF url = NoUrl THEN Url(d) ELSE url]

\* BoundResource::new: definition, branch and endpoint stay together.
Bind(d, url) ==
    /\ phase = "binding" /\ Len(bound) < MaxResources
    /\ \/ /\ Bindable(d, url)
          /\ bound' = Append(bound, BoundProxy(d, url))
          /\ UNCHANGED phase
       \/ phase' = "rejected" /\ UNCHANGED bound
    /\ UNCHANGED <<published, security, table, request>>

BuildRouter ==
    /\ phase = "binding"
    /\ phase' = "collecting"
    /\ UNCHANGED <<bound, published, security, table, request>>

-----------------------------------------------------------------------------
(* build_router.                                                            *)

\* ResourceMetadataEndpoint::with_mapping.
WithMapping(e) == [e EXCEPT !.path = Incoming[e.path]]

NextResource == bound[Len(published) + 1]

\* What ResourceRegistry::register can be relied on to refuse: a mount that
\* overlaps one of before, an endpoint that the mapping does not represent.
Refused(d) ==
    \/ d.public \notin DOMAIN Incoming
    \/ \E i \in DOMAIN published :
         \/ Beneath(bound[i].definition.mount, d.mount)
         \/ Beneath(d.mount, bound[i].definition.mount)

Collectable(d) ==
    /\ ~Refused(d)
    /\ d.mount \in Literal /\ Incoming[d.public] \in Literal

Collect ==
    /\ phase = "collecting" /\ Len(published) < Len(bound)
    /\ \/ /\ Collectable(NextResource.definition)
          /\ ~PublishConflict(published, WithMapping(NextResource.endpoint))
          /\ published' = Append(published, WithMapping(NextResource.endpoint))
          /\ UNCHANGED phase
       \/ phase' = "rejected" /\ UNCHANGED published
    /\ UNCHANGED <<bound, security, table, request>>

MetadataPaths == {published[i].path : i \in DOMAIN published}

\* The mapping, the braces and the registered paths stand in the way.
SecurityConflict ==
    \/ SecurityPath \notin DOMAIN Incoming
    \/ Incoming[SecurityPath] \notin Literal
    \/ Incoming[SecurityPath] \in MetadataPaths

\* A server may have no security.txt.
AddSecurityTxt ==
    /\ phase = "collecting" /\ Len(published) = Len(bound) /\ security = {}
    /\ IF SecurityConflict THEN phase' = "rejected" /\ UNCHANGED security
       ELSE security' = {Incoming[SecurityPath]} /\ UNCHANGED phase
    /\ UNCHANGED <<bound, published, table, request>>

MetadataRoutes(paths) ==
    {[path |-> p, rest |-> FALSE, target |-> "publisher"] : p \in paths}

SecurityRoutes ==
    {[path |-> p, rest |-> FALSE, target |-> "security_txt"] : p \in security}

MountRoutes(d) ==
    {[path |-> p.path, rest |-> p.rest, target |-> d.name] :
       p \in MountPatterns(d.mount, MetadataPaths \cup security)}

InstallRoutes ==
    /\ phase = "collecting" /\ Len(published) = Len(bound)
    /\ LET all == MetadataRoutes(MetadataPaths) \cup SecurityRoutes
                  \cup UNION {MountRoutes(bound[i].definition) :
                                i \in DOMAIN bound}
       IN \/ /\ \A r, s \in all : r.path = s.path /\ r.rest = s.rest => r = s
             /\ phase' = "serving" /\ table' = all
          \/ phase' = "rejected" /\ UNCHANGED table
    /\ UNCHANGED <<bound, published, security, request>>

-----------------------------------------------------------------------------
(* Serving.                                                                 *)

\* ServerRoutes::select, when the guard does not deny the path.
Select(path) ==
    IF Selected(table, path) = {} THEN "fallback"
    ELSE (CHOOSE r \in Selected(table, path) : TRUE).target

\* SecurityTxt::request_filter.
SecurityAnswer(method) ==
    Answer(IF method \in {"GET", "HEAD"} THEN "security_txt" ELSE "not_allowed",
           "none")

DefinitionOf(name) ==
    (CHOOSE b \in {bound[i] : i \in DOMAIN bound} :
       b.definition.name = name).definition

\* The request_filter of the selected route; the fallback is NotFound.
AnswerFor(target, path, query, method) ==
    CASE target = "publisher" ->
           PublisherAnswer(published, path, query, method)
      [] target = "security_txt" -> SecurityAnswer(method)
      [] target = "fallback" -> Answer("fallback", "none")
      [] target \in {bound[i].definition.name : i \in DOMAIN bound} ->
           BranchAnswer(DefinitionOf(target), path)
      [] OTHER -> Answer("lost", "none")

Serve(path, query, method) ==
    /\ phase = "serving"
    /\ \E answer \in {AnswerFor(Select(path), path, query, method),
                      Answer("denied", "none")} :
         request' = [path |-> path, query |-> query, method |-> method,
                     answer |-> answer]
    /\ UNCHANGED <<phase, bound, published, security, table>>

Rejected == phase = "rejected" /\ UNCHANGED server_vars

ServerNext ==
    \/ \E d \in Definitions, url \in ValidatorUrls \cup {NoUrl} : Bind(d, url)
    \/ BuildRouter \/ Collect \/ AddSecurityTxt \/ InstallRoutes
    \/ \E path \in Paths, query \in Queries, method \in Methods :
         Serve(path, query, method)
    \/ Rejected

ServerSpec == ServerInit /\ [][ServerNext]_server_vars
=============================================================================
