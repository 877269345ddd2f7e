------------------------- MODULE ResourcePublication -------------------------
(***************************************************************************)
(* What resource servers are put together from: the publisher of metadata  *)
(* (ResourceMetadataProxy, src/src/resource/proxy.rs), the routes of a     *)
(* mount, and the check of a protected resource on its own requests.  Used *)
(* by ResourceAssembly and by PublicationServer.                           *)
(***************************************************************************)
EXTENDS UrlPaths

-----------------------------------------------------------------------------
(* Faulty variants of the definitions below: none is part of the model. Each *)
(* is a slip an edit of the code could make; replacing the definition by it  *)
(* must break a property, which shows that the property is about the code.   *)

FaultNoOriginCheck(published, e) ==
    \E i \in DOMAIN published :
      published[i].path = e.path /\ published[i].query = e.query

FaultPathOnlyMatch(endpoint, path, query) == endpoint.path = path

\* The resource's own path, and nothing beneath it.
FaultExactResource(resource_path, path) == resource_path = path

-----------------------------------------------------------------------------
(* ResourceMetadataProxy, with the endpoints that it has published.         *)

\* publish refuses another origin than the first endpoint's, and a path and
\* query that it already serves.
PublishConflict(published, e) ==
    \/ published # <<>> /\ published[1].origin # e.origin
    \/ \E i \in DOMAIN published :
         published[i].path = e.path /\ published[i].query = e.query

\* ResourceMetadataEndpoint::matches.
Matches(endpoint, path, query) ==
    endpoint.path = path /\ endpoint.query = query

Answer(kind, name) == [kind |-> kind, name |-> name]

\* request_filter: the first endpoint that matches; the wrapped proxy of both
\* servers, MetadataNotFound and NotFound, answers 404.
PublisherAnswer(published, path, query, method) ==
    LET matching == {i \in DOMAIN published :
                       Matches(published[i], path, query)} IN
    CASE matching = {} -> Answer("not_found", "none")
      [] matching # {} /\ method \in {"GET", "HEAD"} ->
           Answer("document",
                  published[CHOOSE i \in matching :
                              \A j \in matching : i <= j].name)
      [] OTHER -> Answer("not_allowed", "none")

-----------------------------------------------------------------------------
(* The branch of a resource.                                                *)

\* The patterns of a mount: a public path replaces an exact one.
MountPatterns(mount, public) ==
    {p \in {ExactPattern(mount)} \cup SubtreePatterns(Slash(mount)) :
       ~p.rest => p.path \notin public}

\* The public path of a request to a mount.
PublicPath(d, path) ==
    IF path = d.mount THEN d.resource
    ELSE Stem(Slash(d.resource))
         \o SubSeq(path, Len(Stem(Slash(d.mount))) + 1, Len(path))

\* resource_path_matches.
ResourcePathMatches(resource_path, path) ==
    \/ resource_path = <<"">> \/ resource_path = path
    \/ IF IsDirectory(resource_path)
       THEN Seqs!IsStrictPrefix(Stem(resource_path), path)
       ELSE Seqs!IsStrictPrefix(resource_path, path)

\* ProtectedResourceProxy::request_filter, up to the guard.
BranchAnswer(d, path) ==
    Answer(IF ResourcePathMatches(d.resource, PublicPath(d, path))
           THEN "authorize" ELSE "outside_resource", d.name)
=============================================================================
