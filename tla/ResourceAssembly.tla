--------------------------- MODULE ResourceAssembly ---------------------------
(***************************************************************************)
(* The life of a ResourceAssembly (src/src/resource/assembly.rs): resources *)
(* are registered, the metadata publisher (src/src/resource/proxy.rs) and  *)
(* the router are built, and requests are routed to a resource, to the     *)
(* publisher or to the fallback.                                           *)
(*                                                                         *)
(* The resource registry, the URL mappings, the path guard and the pattern *)
(* router belong to other crates.  Of the registry only the disjointness   *)
(* of mounts is relied on, and it may refuse more; the guard may deny any  *)
(* path.                                                                   *)
(***************************************************************************)
EXTENDS ResourcePublication

CONSTANTS
    Definitions,    \* the resource definitions that may be registered
    Paths,          \* the paths of requests
    Queries,        \* the queries of metadata endpoints and requests
    Fallback,       \* the fallback route
    Publisher,      \* the route to the metadata publisher
    MaxResources    \* bound: resources registered

\* "mount", "path" and "query" (the endpoint's) are incoming coordinates,
\* "resource" is the public path; "literal" says that neither mount nor path
\* has a brace, "mapped" that the mapping can represent the endpoint.  The name
\* is the definition's.  A path begins with a slash: it has a segment.
ASSUME DefinitionsAssumption ==
    \A d \in Definitions :
      /\ DOMAIN d = {"name", "origin", "mount", "resource", "path", "query",
                     "literal", "mapped"}
      /\ d.mount \in Seq(STRING) /\ d.mount # <<>>
      /\ d.resource \in Seq(STRING) /\ d.resource # <<>>
      /\ d.path \in Paths /\ d.query \in Queries
      /\ d.literal \in BOOLEAN /\ d.mapped \in BOOLEAN
      /\ d.name \notin {Publisher, Fallback, "none"}
      /\ \A e \in Definitions : d.name = e.name => d = e

ASSUME PathsAssumption ==
    \A path \in Paths : path \in Seq(STRING) /\ path # <<>>

ASSUME TargetsAssumption ==
    Publisher # Fallback /\ "none" \notin {Publisher, Fallback}

ASSUME BoundAssumption == MaxResources \in Nat

VARIABLES
    phase,       \* registering, publishing, serving, or rejected
    branches,    \* ResourceAssembly::branches
    endpoints,   \* ResourceAssembly::endpoints
    publisher,   \* ResourceMetadataProxy::endpoints
    routes,      \* the patterns of the router and where they lead
    request      \* the request being served

vars == <<phase, branches, endpoints, publisher, routes, request>>

Methods == {"GET", "HEAD", "POST"}

NoAnswer == Answer("none", "none")

NoRequest ==
    [path |-> <<"">>, query |-> "none", method |-> "none",
     selected |-> "none", answer |-> NoAnswer]

Init ==
    /\ phase = "registering"
    /\ branches = <<>> /\ endpoints = <<>>
    /\ publisher = <<>>
    /\ routes = {}
    /\ request = NoRequest

-----------------------------------------------------------------------------
(* Faulty variants of the definitions below: none is part of the model. Each *)
(* is a slip an edit of the code could make; replacing the definition by it  *)
(* must break a property, which shows that the property is about the code.   *)

FaultMappingOptional(d) == d.literal

\* The whole subtree of a metadata path is reserved.
FaultReservesSubtree(reserved) ==
    {[path |-> p, rest |-> FALSE, target |-> Publisher] : p \in reserved}
    \cup {[path |-> Slash(p), rest |-> TRUE, target |-> Publisher] :
           p \in reserved}

\* An endpoint that conflicts is dropped, and the assembly goes on.
FaultPublishSkipsConflicts ==
    LET next == endpoints[Len(publisher) + 1]
        duplicate == \E i \in DOMAIN publisher :
                       publisher[i].path = next.path
                       /\ publisher[i].query = next.query
    IN /\ phase = "publishing" /\ Len(publisher) < Len(endpoints)
       /\ IF duplicate
          THEN /\ endpoints' = Seqs!RemoveAt(endpoints, Len(publisher) + 1)
               /\ UNCHANGED publisher
          ELSE publisher' = Append(publisher, next) /\ UNCHANGED endpoints
       /\ UNCHANGED <<phase, branches, routes, request>>

-----------------------------------------------------------------------------
(* Registration.                                                            *)

\* What ResourceRegistry::register can be relied on to refuse.
Disjoint(d) ==
    \A i \in DOMAIN branches :
      /\ ~Beneath(branches[i].mount, d.mount)
      /\ ~Beneath(d.mount, branches[i].mount)

\* The adapter's own conditions on a registration.
Registrable(d) == d.literal /\ d.mapped

Endpoint(d) ==
    [origin |-> d.origin, path |-> d.path, query |-> d.query, name |-> d.name]

RegisterBound(d) ==
    /\ phase = "registering" /\ Len(branches) < MaxResources
    /\ Disjoint(d) /\ Registrable(d)
    /\ branches' = Append(branches, d)
    /\ endpoints' = Append(endpoints, Endpoint(d))
    /\ UNCHANGED <<phase, publisher, routes, request>>

\* An error consumes the assembly: there is nothing left to register with.
RegisterFails(d) ==
    /\ phase = "registering" /\ Len(branches) < MaxResources
    /\ phase' = "rejected"
    /\ UNCHANGED <<branches, endpoints, publisher, routes, request>>

-----------------------------------------------------------------------------
(* assemble.                                                                *)

Assemble ==
    /\ phase = "registering"
    /\ phase' = "publishing"
    /\ UNCHANGED <<branches, endpoints, publisher, routes, request>>

NextEndpoint == endpoints[Len(publisher) + 1]

Publish ==
    /\ phase = "publishing" /\ Len(publisher) < Len(endpoints)
    /\ IF PublishConflict(publisher, NextEndpoint)
       THEN phase' = "rejected" /\ UNCHANGED publisher
       ELSE publisher' = Append(publisher, NextEndpoint) /\ UNCHANGED phase
    /\ UNCHANGED <<branches, endpoints, routes, request>>

Reserved == {publisher[i].path : i \in DOMAIN publisher}

PublisherRoutes(reserved) ==
    {[path |-> p, rest |-> FALSE, target |-> Publisher] : p \in reserved}

BranchRoutes(d) ==
    {[path |-> p.path, rest |-> p.rest, target |-> d.name] :
       p \in MountPatterns(d.mount, Reserved)}

\* The router accepts a pattern once; it refuses patterns that its guard does
\* not find canonical.
InstallRoutes ==
    /\ phase = "publishing" /\ Len(publisher) = Len(endpoints)
    /\ LET table == PublisherRoutes(Reserved)
                    \cup UNION {BranchRoutes(branches[i]) :
                                  i \in DOMAIN branches}
       IN \/ /\ \A r, s \in table : r.path = s.path /\ r.rest = s.rest => r = s
             /\ phase' = "serving" /\ routes' = table
          \/ phase' = "rejected" /\ UNCHANGED routes
    /\ UNCHANGED <<branches, endpoints, publisher, request>>

-----------------------------------------------------------------------------
(* Serving.                                                                 *)

\* The target of the pattern that the path selects.
Resolve(path) ==
    IF Selected(routes, path) = {} THEN Fallback
    ELSE (CHOOSE r \in Selected(routes, path) : TRUE).target

\* ResourceSelector::select, in the router's early phase.  A denied path
\* reaches no branch at all.
Select ==
    /\ phase = "serving"
    /\ request = NoRequest \/ request.answer # NoAnswer
    /\ \E path \in Paths, query \in Queries, method \in Methods :
         \/ request' = [path |-> path, query |-> query, method |-> method,
                        selected |-> Resolve(path), answer |-> NoAnswer]
         \/ request' = [path |-> path, query |-> query, method |-> method,
                        selected |-> "none",
                        answer |-> Answer("denied", "none")]
    /\ UNCHANGED <<phase, branches, endpoints, publisher, routes>>

Branch(name) ==
    branches[CHOOSE i \in DOMAIN branches : branches[i].name = name]

Serve ==
    /\ request.selected # "none" /\ request.answer = NoAnswer
    /\ request' = [request EXCEPT !.answer =
         CASE request.selected = Publisher ->
                PublisherAnswer(publisher, request.path, request.query,
                                request.method)
           [] request.selected = Fallback ->
                Answer("fallback", "none")
           [] OTHER -> BranchAnswer(Branch(request.selected), request.path)]
    /\ UNCHANGED <<phase, branches, endpoints, publisher, routes>>

Rejected == phase = "rejected" /\ UNCHANGED vars

Next ==
    \/ \E d \in Definitions : RegisterBound(d) \/ RegisterFails(d)
    \/ Assemble \/ Publish \/ InstallRoutes
    \/ Select \/ Serve \/ Rejected

Spec == Init /\ [][Next]_vars
=============================================================================
