-------------------------- MODULE AssemblyInvariants --------------------------
(***************************************************************************)
(* What a server built by ResourceAssembly promises of every request.      *)
(***************************************************************************)
EXTENDS ResourceAssembly

Names == {d.name : d \in Definitions}

EndpointsOf(definitions) == {Endpoint(d) : d \in definitions}

\* The types of the variables; what is mounted or published was registrable.
TypeOK ==
    LET accepted == {d \in Definitions : d.literal /\ d.mapped} IN
    /\ phase \in {"registering", "publishing", "serving", "rejected"}
    /\ branches \in Seq(accepted)
    /\ endpoints \in Seq(EndpointsOf(accepted))
    /\ publisher \in Seq(EndpointsOf(accepted))
    /\ \A r \in routes : r.target \in Names \cup {Publisher}
    /\ request.selected \in Names \cup {Publisher, Fallback, "none"}
    /\ request.answer.name \in Names \cup {"none"}

-----------------------------------------------------------------------------
\* The router chose a branch for the request and the branch has answered.
Answered == request.answer.kind \notin {"none", "denied"}

OnEndpointPath == \E i \in DOMAIN endpoints : endpoints[i].path = request.path

Owners == {i \in DOMAIN branches : Beneath(branches[i].mount, request.path)}

\* A registered metadata path belongs to the publisher for every method and
\* query, also inside a protected mount or in place of one: the registered
\* query gives that resource's own document, an unknown one 404, and never
\* the fallback or a branch that asks for a token.
MetadataAnsweredPublicly ==
    Answered /\ OnEndpointPath =>
      IF \E i \in DOMAIN endpoints : endpoints[i].path = request.path
                                    /\ endpoints[i].query = request.query
      THEN IF request.method \in {"GET", "HEAD"}
           THEN \E i \in DOMAIN endpoints :
                  /\ endpoints[i].path = request.path
                  /\ endpoints[i].query = request.query
                  /\ request.answer = [kind |-> "document",
                                       name |-> endpoints[i].name]
           ELSE request.answer.kind = "not_allowed"
      ELSE request.answer.kind = "not_found"

\* No two of the published endpoints would answer the same request, and all
\* speak for one public origin.
PublicationsDistinct ==
    \A i, j \in DOMAIN publisher :
      /\ publisher[i].origin = publisher[j].origin
      /\ publisher[i].path = publisher[j].path
         /\ publisher[i].query = publisher[j].query => i = j

\* A resource's guard is asked only about requests in its own mount, which no
\* other resource shares, and never about a metadata path.
BranchesConfined ==
    request.answer.kind = "authorize" =>
      /\ \A i \in Owners : branches[i].name = request.answer.name
      /\ Owners # {} /\ ~OnEndpointPath

\* Every other path of a mount goes to that resource's guard: descendants of a
\* reserved path are not exempt, nothing in a mount falls to the fallback, and
\* the branch's own resource check never turns away what the router gave it.
ProtectedPathsAreGuarded ==
    /\ BranchesConfined
    /\ Answered /\ ~OnEndpointPath =>
         IF Owners = {} THEN request.answer.kind = "fallback"
         ELSE request.answer.kind = "authorize"

\* What is mounted is published: a server never starts with a protected branch
\* whose metadata is missing, or with metadata of no branch.
ServedArePublished ==
    phase = "serving" =>
      /\ publisher = endpoints
      /\ Len(branches) = Len(publisher)
      /\ \A i \in DOMAIN branches : branches[i].name = publisher[i].name
=============================================================================
