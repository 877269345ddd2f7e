---------------------------- MODULE AssemblyProofs ----------------------------
(***************************************************************************)
(* The theorems about ResourceAssembly, for every set of definitions, paths *)
(* and queries and every number of resources.                              *)
(***************************************************************************)
EXTENDS AssemblyInvariants, UrlPathProofs

Accepted == {d \in Definitions : d.literal /\ d.mapped}

EndpointType == EndpointsOf(Accepted)

\* The table that InstallRoutes builds.
Table ==
    PublisherRoutes(Reserved)
    \cup UNION {BranchRoutes(branches[i]) : i \in DOMAIN branches}

AnswerType ==
    [kind : {"none", "denied", "document", "not_allowed", "not_found",
             "fallback", "authorize", "outside_resource"},
     name : Names \cup {"none"}]

RequestType ==
    [path : Paths, query : Queries, method : Methods,
     selected : Names \cup {Publisher, Fallback, "none"},
     answer : AnswerType]

Typed ==
    /\ phase \in {"registering", "publishing", "serving", "rejected"}
    /\ branches \in Seq(Accepted)
    /\ endpoints \in Seq(EndpointType)
    /\ publisher \in Seq(EndpointType)
    /\ request \in RequestType \cup {NoRequest}

\* Branches and endpoints grow together, and what is published is a prefix of
\* what was registered.
Aligned ==
    /\ Len(endpoints) = Len(branches)
    /\ \A i \in 1 .. Len(branches) : endpoints[i] = Endpoint(branches[i])
    /\ Len(publisher) <= Len(endpoints)
    /\ \A i \in 1 .. Len(publisher) : publisher[i] = endpoints[i]

\* What exists in which phase.
Phases ==
    /\ phase = "registering" => publisher = <<>>
    /\ phase = "serving" => Len(publisher) = Len(endpoints) /\ routes = Table
    /\ phase # "serving" => routes = {} /\ request = NoRequest

\* A request is denied, or it has the branch that its path resolves to and no
\* answer but that branch's.
Served(selected, path, query, method) ==
    CASE selected = Publisher -> PublisherAnswer(publisher, path, query, method)
      [] selected = Fallback -> Answer("fallback", "none")
      [] OTHER -> BranchAnswer(Branch(selected), path)

Routed ==
    request # NoRequest =>
      \/ request.selected = "none" /\ request.answer = Answer("denied", "none")
      \/ /\ request.selected = Resolve(request.path)
         /\ request.selected # "none"
         /\ \/ request.answer = NoAnswer
            \/ request.answer = Served(request.selected, request.path,
                                       request.query, request.method)

IInv == Typed /\ Aligned /\ Phases /\ PublicationsDistinct /\ Routed

-----------------------------------------------------------------------------
(* Facts about the sequences and the table.                                 *)

\* An accepted definition and its endpoint.
LEMMA AcceptedFacts ==
    ASSUME NEW d \in Accepted
    PROVE  /\ Endpoint(d) \in EndpointType
           /\ d.name \in Names /\ d.name \notin {Publisher, Fallback, "none"}
           /\ Endpoint(d).name = d.name
BY DefinitionsAssumption DEF Accepted, EndpointType, EndpointsOf, Names, Endpoint

LEMMA EndpointFacts ==
    ASSUME NEW e \in EndpointType
    PROVE  e.name \in Names
BY AcceptedFacts DEF EndpointType, EndpointsOf

\* A sequence with one more element.
LEMMA Appended ==
    ASSUME NEW S, NEW q \in Seq(S), NEW e \in S
    PROVE  /\ Append(q, e) \in Seq(S)
           /\ Len(Append(q, e)) = Len(q) + 1
           /\ \A i \in 1 .. Len(q) : Append(q, e)[i] = q[i]
           /\ Append(q, e)[Len(q) + 1] = e
OBVIOUS

\* Where a path of the table leads, while the server runs.
LEMMA Targets ==
    ASSUME IInv, phase = "serving", NEW r \in routes
    PROVE  \/ r.target = Publisher /\ ~r.rest /\ r.path \in Reserved
           \/ /\ \E i \in DOMAIN branches : r.target = branches[i].name
              /\ ~r.rest => r.path \notin Reserved
<1>1. r \in Table
  BY DEF IInv, Phases
<1>2. CASE r \in PublisherRoutes(Reserved)
  BY <1>2 DEF PublisherRoutes
<1>3. CASE \E i \in DOMAIN branches : r \in BranchRoutes(branches[i])
  BY <1>3 DEF BranchRoutes, MountPatterns
<1> QED BY <1>1, <1>2, <1>3 DEF Table

\* A path resolves to the publisher, the fallback or the name of a branch, and
\* a metadata path to the publisher.
LEMMA Resolved ==
    ASSUME IInv, phase = "serving", NEW path
    PROVE  /\ \/ Resolve(path) \in {Publisher, Fallback}
              \/ \E i \in DOMAIN branches : Resolve(path) = branches[i].name
           /\ path \in Reserved => Resolve(path) = Publisher
<1>1. CASE Selected(routes, path) = {}
  <2>1. Resolve(path) = Fallback
    BY <1>1 DEF Resolve
  <2>2. path \notin Reserved
    <3> SUFFICES ASSUME path \in Reserved PROVE FALSE
      OBVIOUS
    <3> DEFINE r == [path |-> path, rest |-> FALSE, target |-> Publisher]
    <3>1. r \in routes
      BY DEF IInv, Phases, Table, PublisherRoutes
    <3>2. r \in Selected(routes, path)
      BY <3>1 DEF Selected, PatternMatches, AtLeastAsSpecific
    <3> QED BY <1>1, <3>2
  <2> QED BY <2>1, <2>2
<1>2. CASE Selected(routes, path) # {}
  <2>1. PICK r \in Selected(routes, path) : Resolve(path) = r.target
    BY <1>2 DEF Resolve
  <2>2. r \in routes /\ PatternMatches(r, path)
    BY <2>1 DEF Selected
  <2>3. path \in Reserved => ~r.rest /\ r.path = path
    <3> SUFFICES ASSUME path \in Reserved PROVE ~r.rest /\ r.path = path
      OBVIOUS
    <3> DEFINE s == [path |-> path, rest |-> FALSE, target |-> Publisher]
    <3>1. s \in routes
      BY DEF IInv, Phases, Table, PublisherRoutes
    <3>2. PatternMatches(s, path)
      BY DEF PatternMatches
    <3>3. AtLeastAsSpecific(r, s)
      BY <2>1, <3>1, <3>2 DEF Selected
    <3>4. ~r.rest
      BY <3>3 DEF AtLeastAsSpecific
    <3> QED BY <2>2, <3>4 DEF PatternMatches
  <2> QED BY <2>1, <2>2, <2>3, Targets
<1> QED BY <1>1, <1>2

-----------------------------------------------------------------------------
(* Every step keeps the invariant.                                          *)

LEMMA InitIInv == Init => IInv
<1> SUFFICES ASSUME Init PROVE IInv
  OBVIOUS
<1>1. \A S : <<>> \in Seq(S) /\ Len(<<>>) = 0 /\ DOMAIN <<>> = {}
  BY EmptySeq
<1> QED
  BY <1>1 DEF Init, IInv, Typed, Aligned, Phases, PublicationsDistinct, Routed

LEMMA RegisterBoundStep ==
    ASSUME IInv, NEW d \in Definitions, RegisterBound(d)
    PROVE  IInv'
<1>1. d \in Accepted /\ Endpoint(d) \in EndpointType
  BY AcceptedFacts DEF RegisterBound, Registrable, Accepted
<1>2. /\ branches \in Seq(Accepted) /\ endpoints \in Seq(EndpointType)
      /\ Len(endpoints) = Len(branches)
      /\ publisher = <<>> /\ phase = "registering"
      /\ \A i \in 1 .. Len(branches) : endpoints[i] = Endpoint(branches[i])
  BY DEF IInv, Typed, Aligned, Phases, RegisterBound
<1>3. /\ branches' = Append(branches, d)
      /\ endpoints' = Append(endpoints, Endpoint(d))
      /\ UNCHANGED <<phase, publisher, routes, request>>
  BY DEF RegisterBound
<1>4. /\ branches' \in Seq(Accepted) /\ Len(branches') = Len(branches) + 1
      /\ \A i \in 1 .. Len(branches) : branches'[i] = branches[i]
      /\ branches'[Len(branches) + 1] = d
  BY <1>1, <1>2, <1>3, Appended
<1>5. /\ endpoints' \in Seq(EndpointType) /\ Len(endpoints') = Len(branches) + 1
      /\ \A i \in 1 .. Len(branches) : endpoints'[i] = endpoints[i]
      /\ endpoints'[Len(branches) + 1] = Endpoint(d)
  BY <1>1, <1>2, <1>3, Appended
<1>6. Len(branches) \in Nat /\ Len(publisher') = 0
  BY <1>2, <1>3, LenProperties, EmptySeq
<1>7. \A i \in 1 .. Len(branches') : endpoints'[i] = Endpoint(branches'[i])
  <2> TAKE i \in 1 .. Len(branches')
  <2>1. CASE i = Len(branches) + 1
    BY <1>4, <1>5, <2>1
  <2>2. CASE i \in 1 .. Len(branches)
    BY <1>2, <1>4, <1>5, <2>2
  <2> QED BY <1>4, <1>6, <2>1, <2>2
<1>8. Typed' /\ Aligned'
  BY <1>3, <1>4, <1>5, <1>6, <1>7 DEF IInv, Typed, Aligned
<1>9. request' = NoRequest /\ Phases' /\ PublicationsDistinct'
  BY <1>2, <1>3 DEF IInv, Phases, PublicationsDistinct
<1> QED BY <1>8, <1>9 DEF IInv, Routed

\* The assembly is consumed by an error, or goes on to its next stage.
LEMMA PhaseStep ==
    ASSUME IInv, phase \in {"registering", "publishing"},
           phase' \in {"publishing", "rejected"},
           UNCHANGED <<branches, endpoints, publisher, routes, request>>
    PROVE  IInv'
<1>1. request = NoRequest /\ routes = {}
  BY DEF IInv, Phases
<1> QED
  BY <1>1 DEF IInv, Typed, Aligned, Phases, PublicationsDistinct, Routed

LEMMA PublishStep ==
    ASSUME IInv, Publish
    PROVE  IInv'
<1>1. CASE PublishConflict(publisher, NextEndpoint)
  BY <1>1, PhaseStep DEF Publish
<1>2. CASE ~PublishConflict(publisher, NextEndpoint)
  <2> DEFINE n == Len(publisher)
  <2>1. /\ phase = "publishing" /\ publisher' = Append(publisher, NextEndpoint)
        /\ UNCHANGED <<phase, branches, endpoints, routes, request>>
        /\ n < Len(endpoints)
    BY <1>2 DEF Publish
  <2>2. /\ publisher \in Seq(EndpointType) /\ endpoints \in Seq(EndpointType)
        /\ n \in Nat /\ DOMAIN publisher = 1 .. n
        /\ Len(endpoints) \in Nat
        /\ \A i \in 1 .. n : publisher[i] = endpoints[i]
    BY LenProperties DEF IInv, Typed, Aligned
  <2>3. NextEndpoint = endpoints[n + 1] /\ NextEndpoint \in EndpointType
    <3>1. n + 1 \in 1 .. Len(endpoints)
      BY <2>1, <2>2
    <3> QED BY <2>2, <3>1, ElementOfSeq DEF NextEndpoint
  <2>4. /\ publisher' \in Seq(EndpointType) /\ Len(publisher') = n + 1
        /\ \A i \in 1 .. n : publisher'[i] = publisher[i]
        /\ publisher'[n + 1] = NextEndpoint
    BY <2>1, <2>2, <2>3, Appended
  <2>5. DOMAIN publisher' = 1 .. n + 1
    BY <2>4, LenProperties
  <2>6. \A i \in 1 .. Len(publisher') : publisher'[i] = endpoints'[i]
    BY <2>1, <2>2, <2>3, <2>4
  <2> HIDE DEF n
  <2>7. PublicationsDistinct'
    <3>1. \A i \in 1 .. n :
             /\ publisher[i].origin = NextEndpoint.origin
             /\ ~(publisher[i].path = NextEndpoint.path
                    /\ publisher[i].query = NextEndpoint.query)
      <4> SUFFICES ASSUME NEW i \in 1 .. n
                   PROVE  /\ publisher[i].origin = NextEndpoint.origin
                          /\ ~(publisher[i].path = NextEndpoint.path
                                 /\ publisher[i].query = NextEndpoint.query)
        OBVIOUS
      <4>1. 1 \in 1 .. n /\ publisher # <<>>
        BY <2>2, EmptySeq DEF n
      <4>2. publisher[1].origin = NextEndpoint.origin
        BY <1>2, <4>1 DEF PublishConflict
      <4>3. publisher[i].origin = publisher[1].origin
        BY <2>2, <4>1 DEF IInv, PublicationsDistinct
      <4> QED BY <1>2, <2>2, <4>2, <4>3 DEF PublishConflict
    <3>2. \A i, j \in 1 .. n :
             /\ publisher[i].origin = publisher[j].origin
             /\ publisher[i].path = publisher[j].path
                /\ publisher[i].query = publisher[j].query => i = j
      BY <2>2 DEF IInv, PublicationsDistinct
    <3>3. \A i \in 1 .. n + 1 : i \in 1 .. n \/ i = n + 1
      BY <2>2
    <3> QED BY <2>4, <2>5, <3>1, <3>2, <3>3 DEF PublicationsDistinct
  <2>8. Typed' /\ Aligned'
    BY <2>1, <2>2, <2>4, <2>6 DEF IInv, Typed, Aligned
  <2>9. Phases' /\ request' = NoRequest
    BY <2>1 DEF IInv, Phases
  <2> QED BY <2>7, <2>8, <2>9 DEF IInv, Routed
<1> QED BY <1>1, <1>2

LEMMA InstallRoutesStep ==
    ASSUME IInv, InstallRoutes
    PROVE  IInv'
<1>1. CASE phase' = "rejected" /\ UNCHANGED routes
  BY <1>1, PhaseStep DEF InstallRoutes
<1>2. CASE phase' = "serving" /\ routes' = Table
  <2>1. /\ UNCHANGED <<branches, endpoints, publisher, request>>
        /\ Len(publisher) = Len(endpoints) /\ request = NoRequest
    BY DEF InstallRoutes, IInv, Phases
  <2>2. Table' = Table
    BY <2>1 DEF Table, PublisherRoutes, BranchRoutes, Reserved
  <2> QED
    BY <1>2, <2>1, <2>2 DEF IInv, Typed, Aligned, Phases, PublicationsDistinct,
       Routed
<1> QED BY <1>1, <1>2 DEF InstallRoutes, Table

\* While the server runs nothing but its request changes.
LEMMA ServingFrame ==
    ASSUME IInv, phase = "serving", request' \in RequestType, Routed',
           UNCHANGED <<phase, branches, endpoints, publisher, routes>>
    PROVE  IInv'
<1>1. Table' = Table
  BY DEF Table, PublisherRoutes, BranchRoutes, Reserved
<1> QED BY <1>1 DEF IInv, Typed, Aligned, Phases, PublicationsDistinct

LEMMA BranchNames ==
    ASSUME IInv, NEW i \in DOMAIN branches
    PROVE  /\ branches[i] \in Accepted /\ branches[i].name \in Names
           /\ branches[i].name \notin {Publisher, Fallback, "none"}
<1>1. branches \in Seq(Accepted) /\ i \in 1 .. Len(branches)
  BY LenProperties DEF IInv, Typed
<1>2. branches[i] \in Accepted
  BY <1>1, ElementOfSeq
<1> QED BY <1>2, AcceptedFacts

LEMMA SelectStep ==
    ASSUME IInv, Select
    PROVE  IInv'
<1>1. /\ phase = "serving"
      /\ UNCHANGED <<phase, branches, endpoints, publisher, routes>>
  BY DEF Select
<1>2. PICK path \in Paths, query \in Queries, method \in Methods :
         \/ request' = [path |-> path, query |-> query, method |-> method,
                        selected |-> Resolve(path), answer |-> NoAnswer]
         \/ request' = [path |-> path, query |-> query, method |-> method,
                        selected |-> "none",
                        answer |-> Answer("denied", "none")]
  BY DEF Select
<1>3. Resolve(path) \in Names \cup {Publisher, Fallback}
        /\ Resolve(path) # "none"
  BY <1>1, Resolved, BranchNames, TargetsAssumption
<1>4. request' \in RequestType
  BY <1>2, <1>3 DEF RequestType, AnswerType, NoAnswer, Answer
<1>5. Routed'
  <2>1. CASE request' = [path |-> path, query |-> query, method |-> method,
                         selected |-> Resolve(path), answer |-> NoAnswer]
    <3>1. /\ request'.path = path /\ request'.selected = Resolve(path)
          /\ request'.answer = NoAnswer
      BY <2>1
    <3>2. Resolve(request.path)' = Resolve(path)
      BY <1>1, <3>1 DEF Resolve
    <3> QED BY <1>3, <3>1, <3>2 DEF Routed
  <2>2. CASE request' = [path |-> path, query |-> query, method |-> method,
                         selected |-> "none",
                         answer |-> Answer("denied", "none")]
    BY <2>2 DEF Routed
  <2> QED BY <1>2, <2>1, <2>2
<1> QED BY <1>1, <1>4, <1>5, ServingFrame

\* The publisher's answer names a published endpoint.
LEMMA PublishedAnswer ==
    ASSUME IInv, NEW path, NEW query, NEW method
    PROVE  PublisherAnswer(publisher, path, query, method) \in AnswerType
<1> DEFINE matching == {i \in DOMAIN publisher :
                          Matches(publisher[i], path, query)}
           first == CHOOSE i \in matching : \A j \in matching : i <= j
<1>1. CASE matching = {} \/ method \notin {"GET", "HEAD"}
  BY <1>1 DEF PublisherAnswer, Answer, AnswerType
<1>2. CASE matching # {} /\ method \in {"GET", "HEAD"}
  <2>1. PublisherAnswer(publisher, path, query, method)
          = Answer("document", publisher[first].name)
    BY <1>2 DEF PublisherAnswer
  <2>2. PICK k \in matching : TRUE
    BY <1>2
  <2>3. publisher \in Seq(EndpointType) /\ DOMAIN publisher = 1 .. Len(publisher)
    BY LenProperties DEF IInv, Typed
  <2>4. \A j \in matching : j = k
    BY <2>2 DEF Matches, IInv, PublicationsDistinct
  <2>5. k \in Int
    BY <2>2, <2>3, LenProperties
  <2>6. first \in matching
    BY <2>2, <2>4, <2>5
  <2> HIDE DEF first
  <2>7. publisher[first] \in EndpointType
    BY <2>3, <2>6, ElementOfSeq
  <2>8. publisher[first].name \in Names
    BY <2>7, EndpointFacts
  <2> QED BY <2>1, <2>8 DEF Answer, AnswerType
<1> QED BY <1>1, <1>2

\* A request that a name was chosen for has that branch.
LEMMA ChosenBranch ==
    ASSUME IInv, NEW i \in DOMAIN branches
    PROVE  Branch(branches[i].name).name = branches[i].name
BY DEF Branch

LEMMA ServeStep ==
    ASSUME IInv, Serve
    PROVE  IInv'
<1>1. /\ request.selected # "none" /\ request.answer = NoAnswer
      /\ UNCHANGED <<phase, branches, endpoints, publisher, routes>>
      /\ request' = [request EXCEPT !.answer =
                       Served(request.selected, request.path, request.query,
                              request.method)]
  BY DEF Serve, Served
<1>2. request # NoRequest /\ request \in RequestType /\ phase = "serving"
  <2>1. NoRequest.selected = "none"
    BY DEF NoRequest
  <2>2. request # NoRequest
    BY <1>1, <2>1
  <2> QED BY <2>2 DEF IInv, Typed, Phases
<1>3. request.selected = Resolve(request.path)
  BY <1>1, <1>2 DEF IInv, Routed
<1> DEFINE answer == Served(request.selected, request.path, request.query,
                            request.method)
<1>4. answer \in AnswerType
  <2>1. CASE request.selected = Publisher
    BY <2>1, PublishedAnswer, TargetsAssumption DEF Served
  <2>2. CASE request.selected = Fallback /\ request.selected # Publisher
    BY <2>2 DEF Served, Answer, AnswerType
  <2>3. CASE request.selected \notin {Publisher, Fallback}
    <3>1. PICK i \in DOMAIN branches : request.selected = branches[i].name
      BY <1>2, <1>3, <2>3, Resolved
    <3>2. Branch(request.selected).name \in Names
      BY <3>1, ChosenBranch, BranchNames
    <3>3. answer = BranchAnswer(Branch(request.selected), request.path)
      BY <2>3 DEF Served
    <3> QED BY <3>2, <3>3 DEF BranchAnswer, Answer, AnswerType
  <2> QED BY <2>1, <2>2, <2>3
<1>5. request' \in RequestType
  BY <1>1, <1>2, <1>4 DEF RequestType
<1>6. /\ request'.path = request.path /\ request'.query = request.query
      /\ request'.method = request.method
      /\ request'.selected = request.selected /\ request'.answer = answer
  BY <1>1, <1>2 DEF RequestType
<1>7. Routed'
  <2>1. Resolve(request.path)' = Resolve(request.path)
    BY <1>1, <1>6 DEF Resolve
  <2>2. Served(request.selected, request.path, request.query, request.method)'
          = answer
    BY <1>1, <1>6 DEF Served, Branch
  <2> QED BY <1>1, <1>3, <1>6, <2>1, <2>2 DEF Routed
<1> QED BY <1>1, <1>2, <1>5, <1>7, ServingFrame

-----------------------------------------------------------------------------
(* The theorems.                                                            *)

\* The inductive invariant: whatever is registered, in any order and with any
\* failure, the table that serves requests is the one built from branches and
\* endpoints that correspond one to one.
THEOREM Invariance == Spec => []IInv
<1>1. IInv /\ [Next]_vars => IInv'
  <2> SUFFICES ASSUME IInv, [Next]_vars PROVE IInv'
    OBVIOUS
  <2>1. CASE \E d \in Definitions : RegisterBound(d)
    BY <2>1, RegisterBoundStep
  <2>2. CASE \E d \in Definitions : RegisterFails(d)
    BY <2>2, PhaseStep DEF RegisterFails
  <2>3. CASE Assemble
    BY <2>3, PhaseStep DEF Assemble
  <2>4. CASE Publish
    BY <2>4, PublishStep
  <2>5. CASE InstallRoutes
    BY <2>5, InstallRoutesStep
  <2>6. CASE Select
    BY <2>6, SelectStep
  <2>7. CASE Serve
    BY <2>7, ServeStep
  <2>8. CASE UNCHANGED vars
    <3>1. UNCHANGED <<phase, branches, endpoints, publisher, routes, request>>
      BY <2>8 DEF vars
    <3>2. Table' = Table
      BY <3>1 DEF Table, PublisherRoutes, BranchRoutes, Reserved
    <3>3. Resolve(request.path)' = Resolve(request.path)
      BY <3>1 DEF Resolve
    <3>4. Served(request.selected, request.path, request.query, request.method)'
            = Served(request.selected, request.path, request.query, request.method)
      BY <3>1 DEF Served, Branch
    <3> QED
      BY <3>1, <3>2, <3>3, <3>4 DEF IInv, Typed, Aligned, Phases,
         PublicationsDistinct, Routed
  <2> QED
    BY <2>1, <2>2, <2>3, <2>4, <2>5, <2>6, <2>7, <2>8 DEF Next, Rejected
<1> QED BY <1>1, InitIInv, PTL DEF Spec

\* The types, with every branch and endpoint registrable and every route
\* leading to a branch or the publisher.
THEOREM TypeCorrect == Spec => []TypeOK
<1>1. IInv => TypeOK
  <2> SUFFICES ASSUME IInv PROVE TypeOK
    OBVIOUS
  <2>1. \A r \in routes : r.target \in Names \cup {Publisher}
    <3> SUFFICES ASSUME NEW r \in routes
                 PROVE  r.target \in Names \cup {Publisher}
      OBVIOUS
    <3>1. phase = "serving"
      BY DEF IInv, Phases
    <3> QED BY <3>1, Targets, BranchNames
  <2>2. /\ request.selected \in Names \cup {Publisher, Fallback, "none"}
        /\ request.answer.name \in Names \cup {"none"}
    <3>1. CASE request = NoRequest
      BY <3>1 DEF NoRequest, NoAnswer, Answer
    <3>2. CASE request \in RequestType
      BY <3>2 DEF RequestType, AnswerType
    <3> QED BY <3>1, <3>2 DEF IInv, Typed
  <2> QED
    BY <2>1, <2>2 DEF IInv, Typed, TypeOK, Accepted, EndpointType
<1> QED BY <1>1, Invariance, PTL

\* No two published endpoints answer the same request, and all have the same
\* origin, whichever are registered (publish, proxy.rs).
THEOREM PublicationsAreDistinct == Spec => []PublicationsDistinct
<1>1. IInv => PublicationsDistinct
  BY DEF IInv
<1> QED BY <1>1, Invariance, PTL

\* A server that runs publishes exactly what it mounts.
THEOREM ServedAreAllPublished == Spec => []ServedArePublished
<1>1. IInv => ServedArePublished
  <2> SUFFICES ASSUME IInv, phase = "serving"
               PROVE  /\ publisher = endpoints
                      /\ Len(branches) = Len(publisher)
                      /\ \A i \in DOMAIN branches :
                           branches[i].name = publisher[i].name
    BY DEF ServedArePublished
  <2>1. /\ publisher \in Seq(EndpointType) /\ endpoints \in Seq(EndpointType)
        /\ branches \in Seq(Accepted)
        /\ Len(publisher) = Len(endpoints) /\ Len(endpoints) = Len(branches)
        /\ \A i \in 1 .. Len(publisher) : publisher[i] = endpoints[i]
        /\ \A i \in 1 .. Len(branches) : endpoints[i] = Endpoint(branches[i])
    BY DEF IInv, Typed, Aligned, Phases
  <2>2. publisher = endpoints
    BY <2>1, SeqEqual
  <2>3. ASSUME NEW i \in DOMAIN branches
        PROVE  branches[i].name = publisher[i].name
    <3>1. i \in 1 .. Len(branches)
      BY <2>1, LenProperties
    <3>2. publisher[i] = Endpoint(branches[i])
      BY <2>1, <2>2, <3>1
    <3> QED BY <3>2 DEF Endpoint
  <2> QED BY <2>1, <2>2, <2>3
<1> QED BY <1>1, Invariance, PTL

\* A metadata path is answered by the publisher for every method and query,
\* with the registered resource's own document, whatever mount it lies in.
THEOREM MetadataIsPublic == Spec => []MetadataAnsweredPublicly
<1>1. IInv => MetadataAnsweredPublicly
  <2> SUFFICES ASSUME IInv, Answered, OnEndpointPath
               PROVE  MetadataAnsweredPublicly
    BY DEF MetadataAnsweredPublicly
  <2>1. request # NoRequest /\ request.answer # NoAnswer
          /\ request.answer # Answer("denied", "none")
    <3>1. /\ NoRequest.answer.kind = "none" /\ NoAnswer.kind = "none"
          /\ Answer("denied", "none").kind = "denied"
      BY DEF NoRequest, NoAnswer, Answer
    <3> QED BY <3>1 DEF Answered
  <2>2. phase = "serving"
    BY <2>1 DEF IInv, Phases
  <2>3. publisher = endpoints
    <3>1. /\ publisher \in Seq(EndpointType) /\ endpoints \in Seq(EndpointType)
          /\ Len(publisher) = Len(endpoints)
          /\ \A i \in 1 .. Len(publisher) : publisher[i] = endpoints[i]
      BY <2>2 DEF IInv, Typed, Aligned, Phases
    <3> QED BY <3>1, SeqEqual
  <2>4. Resolve(request.path) = Publisher
    BY <2>2, <2>3, Resolved DEF OnEndpointPath, Reserved
  <2>5. request.answer = PublisherAnswer(publisher, request.path, request.query,
                                         request.method)
    <3>1. /\ request.selected = Publisher
          /\ request.answer = Served(request.selected, request.path,
                                     request.query, request.method)
      BY <2>1, <2>4 DEF IInv, Routed
    <3> QED BY <3>1, TargetsAssumption DEF Served
  <2> DEFINE matching == {i \in DOMAIN publisher :
                            Matches(publisher[i], request.path, request.query)}
             first == CHOOSE i \in matching : \A j \in matching : i <= j
  <2>6. CASE matching = {}
    BY <2>3, <2>5, <2>6 DEF PublisherAnswer, Matches, Answer,
       MetadataAnsweredPublicly
  <2>7. CASE matching # {} /\ request.method \notin {"GET", "HEAD"}
    <3>1. request.answer.kind = "not_allowed"
      BY <2>5, <2>7 DEF PublisherAnswer, Answer
    <3>2. \E i \in DOMAIN endpoints : endpoints[i].path = request.path
                                     /\ endpoints[i].query = request.query
      BY <2>3, <2>7 DEF Matches
    <3> QED BY <2>7, <3>1, <3>2 DEF MetadataAnsweredPublicly
  <2>8. CASE matching # {} /\ request.method \in {"GET", "HEAD"}
    <3>1. request.answer = [kind |-> "document", name |-> publisher[first].name]
      BY <2>5, <2>8 DEF PublisherAnswer, Answer
    <3>2. first \in matching
      <4>1. PICK k \in matching : TRUE
        BY <2>8
      <4>2. \A j \in matching : j = k
        BY <4>1 DEF Matches, IInv, PublicationsDistinct
      <4>3. k \in Int
        <5>1. publisher \in Seq(EndpointType)
          BY DEF IInv, Typed
        <5> QED BY <4>1, <5>1, LenProperties
      <4> QED BY <4>1, <4>2, <4>3
    <3> HIDE DEF first
    <3>3. /\ first \in DOMAIN endpoints /\ endpoints[first].path = request.path
          /\ endpoints[first].query = request.query
      BY <2>3, <3>2 DEF Matches
    <3> QED BY <2>3, <2>8, <3>1, <3>3 DEF MetadataAnsweredPublicly
  <2> QED BY <2>6, <2>7, <2>8
<1> QED BY <1>1, Invariance, PTL

-----------------------------------------------------------------------------
(* Mounts.                                                                  *)

Mounts == [i \in DOMAIN branches |-> branches[i].mount]

NamesOfMounts == [i \in DOMAIN branches |-> branches[i].name]

LEMMA DisjointStep ==
    ASSUME IInv, Apart(Mounts), [Next]_vars
    PROVE  Apart(Mounts)'
<1>1. ASSUME NEW d \in Definitions, RegisterBound(d)
      PROVE  Apart(Mounts)'
  <2>1. branches \in Seq(Accepted) /\ d \in Accepted
    BY <1>1 DEF IInv, Typed, RegisterBound, Registrable, Accepted
  <2>2. branches' = Append(branches, d)
    BY <1>1 DEF RegisterBound
  <2>3. /\ DOMAIN branches = 1 .. Len(branches) /\ Len(branches) \in Nat
        /\ DOMAIN branches' = 1 .. Len(branches) + 1
        /\ \A i \in 1 .. Len(branches) : branches'[i] = branches[i]
        /\ branches'[Len(branches) + 1] = d
    BY <2>1, <2>2, Appended, LenProperties
  <2>4. \A i \in 1 .. Len(branches) :
          /\ ~Beneath(branches[i].mount, d.mount)
          /\ ~Beneath(d.mount, branches[i].mount)
    BY <1>1, <2>3 DEF RegisterBound, Disjoint
  <2>5. \A i \in DOMAIN branches' :
          i \in 1 .. Len(branches) \/ i = Len(branches) + 1
    BY <2>3
  <2> QED  BY <2>3, <2>4, <2>5 DEF Apart, Mounts
<1>2. ASSUME UNCHANGED branches
      PROVE  Apart(Mounts)'
  BY <1>2 DEF Apart, Mounts
<1>3. (\E d \in Definitions : RegisterBound(d)) \/ UNCHANGED branches
  BY DEF Next, RegisterFails, Assemble, Publish, InstallRoutes, Select, Serve,
         Rejected, vars
<1> QED  BY <1>1, <1>2, <1>3

\* Registration keeps mounts apart (ResourceRegistry::register).
THEOREM MountsStayApart == Spec => []Apart(Mounts)
<1>1. Init => Apart(Mounts)
  BY DEF Init, Apart, Mounts
<1>2. IInv /\ Apart(Mounts) /\ [Next]_vars => Apart(Mounts)'
  BY DisjointStep
<1> QED  BY <1>1, <1>2, Invariance, PTL DEF Spec

LEMMA PathsAreUrlPaths ==
    /\ Paths \subseteq UrlPath
    /\ \A d \in Definitions : d.mount \in UrlPath /\ d.resource \in UrlPath
<1>1. Seq(STRING) \subseteq Seq(Segment)
  BY SeqMonotonic DEF Segment
<1> QED  BY <1>1, PathsAssumption, DefinitionsAssumption DEF UrlPath

\* The metadata paths are paths.
LEMMA ReservedFacts ==
    ASSUME IInv
    PROVE  Reserved \subseteq UrlPath
<1>1. \A e \in EndpointType : e.path \in UrlPath
  BY DefinitionsAssumption, PathsAreUrlPaths
    DEF EndpointType, EndpointsOf, Endpoint, Accepted
<1>2. \A i \in DOMAIN publisher : publisher[i] \in EndpointType
  BY LenProperties, ElementOfSeq DEF IInv, Typed
<1> QED  BY <1>1, <1>2 DEF Reserved

\* The router's table is one of mounts and metadata paths.
LEMMA TableOfMounts ==
    ASSUME IInv, phase = "serving"
    PROVE  IsMountTable(routes, Reserved, Mounts, NamesOfMounts)
<1>1. routes = Table
  BY DEF IInv, Phases
<1>2. Reserved \subseteq UrlPath
  BY ReservedFacts
<1>3. \A i \in DOMAIN Mounts : Mounts[i] \in UrlPath
  BY BranchNames, PathsAreUrlPaths DEF Accepted, Mounts
<1>4. ASSUME NEW r \in routes
      PROVE  \/ \E path \in Reserved :
                  ~r.rest /\ r.rest \in BOOLEAN /\ r.path = path
             \/ \E i \in DOMAIN Mounts :
                  /\ r.target = NamesOfMounts[i]
                  /\ \E p \in MountPatterns(Mounts[i], Reserved) :
                       r.path = p.path /\ r.rest = p.rest
  <2>1. CASE r \in PublisherRoutes(Reserved)
    <3>1. PICK p \in Reserved :
            r = [path |-> p, rest |-> FALSE, target |-> Publisher]
      BY <2>1 DEF PublisherRoutes
    <3> QED  BY <3>1
  <2>2. CASE \E i \in DOMAIN branches : r \in BranchRoutes(branches[i])
    BY <2>2 DEF BranchRoutes, Mounts, NamesOfMounts
  <2> QED  BY <1>1, <2>1, <2>2 DEF Table
<1>5. ASSUME NEW path \in Reserved
      PROVE  \E r \in routes : ~r.rest /\ r.path = path
  <2>1. [path |-> path, rest |-> FALSE, target |-> Publisher]
          \in PublisherRoutes(Reserved)
    BY DEF PublisherRoutes
  <2>2. [path |-> path, rest |-> FALSE, target |-> Publisher] \in routes
    BY <1>1, <2>1 DEF Table
  <2> QED  BY <2>2
<1>6. ASSUME NEW i \in DOMAIN Mounts,
             NEW p \in MountPatterns(Mounts[i], Reserved)
      PROVE  \E r \in routes : r.path = p.path /\ r.rest = p.rest
  <2>1. i \in DOMAIN branches /\ Mounts[i] = branches[i].mount
    BY DEF Mounts
  <2>2. [path |-> p.path, rest |-> p.rest, target |-> branches[i].name]
          \in BranchRoutes(branches[i])
    BY <2>1 DEF BranchRoutes
  <2>3. [path |-> p.path, rest |-> p.rest, target |-> branches[i].name]
          \in routes
    BY <1>1, <2>1, <2>2 DEF Table
  <2> QED  BY <2>3
<1> QED  BY <1>2, <1>3, <1>4, <1>5, <1>6 DEF IsMountTable

\* A path that is nobody's metadata path leads to the branch in whose mount it
\* lies, and to the fallback if it lies in none.
LEMMA ResolvedToOwner ==
    ASSUME IInv, Apart(Mounts), phase = "serving",
           NEW path \in Paths, path \notin Reserved
    PROVE  /\ \A i \in DOMAIN branches :
                Beneath(branches[i].mount, path) =>
                  Resolve(path) = branches[i].name
           /\ (\A i \in DOMAIN branches :
                 ~Beneath(branches[i].mount, path)) => Resolve(path) = Fallback
<1>1. path \in UrlPath
  BY PathsAreUrlPaths
<1>2. /\ \A i \in DOMAIN Mounts :
           Beneath(Mounts[i], path) =>
             /\ Selected(routes, path) # {}
             /\ \A r \in Selected(routes, path) : r.target = NamesOfMounts[i]
      /\ (\A i \in DOMAIN Mounts : ~Beneath(Mounts[i], path)) =>
           Selected(routes, path) = {}
  BY <1>1, TableOfMounts, MountIsSelected
<1>3. ASSUME NEW i \in DOMAIN branches, Beneath(branches[i].mount, path)
      PROVE  Resolve(path) = branches[i].name
  <2>1. /\ Selected(routes, path) # {}
        /\ \A r \in Selected(routes, path) : r.target = branches[i].name
    BY <1>2, <1>3 DEF Mounts, NamesOfMounts
  <2>2. PICK r \in Selected(routes, path) : Resolve(path) = r.target
    BY <2>1 DEF Resolve
  <2> QED  BY <2>1, <2>2
<1>4. ASSUME \A i \in DOMAIN branches : ~Beneath(branches[i].mount, path)
      PROVE  Resolve(path) = Fallback
  <2>1. Selected(routes, path) = {}
    BY <1>2, <1>4 DEF Mounts
  <2> QED  BY <2>1 DEF Resolve
<1> QED  BY <1>3, <1>4

\* The branch that a name stands for.
LEMMA NamedBranch ==
    ASSUME IInv, NEW i \in DOMAIN branches
    PROVE  Branch(branches[i].name) = branches[i]
<1> DEFINE k == CHOOSE j \in DOMAIN branches :
                  branches[j].name = branches[i].name
<1>1. k \in DOMAIN branches /\ branches[k].name = branches[i].name
  OBVIOUS
<1> HIDE DEF k
<1>2. branches[k] \in Definitions /\ branches[i] \in Definitions
  BY <1>1, BranchNames DEF Accepted
<1>3. branches[k] = branches[i]
  BY <1>1, <1>2, DefinitionsAssumption
<1> QED  BY <1>3 DEF Branch, k

\* The answer to a request that was not denied.
LEMMA AnswerOfOwner ==
    ASSUME IInv, Apart(Mounts), Answered
    PROVE  /\ OnEndpointPath => request.answer.kind # "authorize"
           /\ ~OnEndpointPath /\ Owners = {} =>
                request.answer.kind = "fallback"
           /\ ~OnEndpointPath =>
                \A i \in Owners :
                  request.answer = Answer("authorize", branches[i].name)
<1>1. /\ request # NoRequest /\ request.answer # NoAnswer
      /\ request.answer # Answer("denied", "none")
  <2>1. /\ NoRequest.answer.kind = "none" /\ NoAnswer.kind = "none"
        /\ Answer("denied", "none").kind = "denied"
    BY DEF NoRequest, NoAnswer, Answer
  <2> QED  BY <2>1 DEF Answered
<1>2. phase = "serving" /\ request \in RequestType
  BY <1>1 DEF IInv, Phases, Typed
<1>3. request.path \in Paths /\ request.path \in UrlPath
  BY <1>2, PathsAreUrlPaths DEF RequestType
<1>4. /\ request.selected = Resolve(request.path)
      /\ request.answer = Served(request.selected, request.path,
                                 request.query, request.method)
  BY <1>1 DEF IInv, Routed
<1>5. OnEndpointPath <=> request.path \in Reserved
  <2>1. /\ DOMAIN publisher = DOMAIN endpoints
        /\ \A i \in DOMAIN publisher : publisher[i] = endpoints[i]
    BY <1>2, LenProperties DEF IInv, Typed, Aligned, Phases
  <2> QED  BY <2>1 DEF OnEndpointPath, Reserved
<1>6. ASSUME OnEndpointPath
      PROVE  request.answer.kind # "authorize"
  <2>1. request.selected = Publisher
    BY <1>2, <1>4, <1>5, <1>6, Resolved
  <2>2. request.answer = PublisherAnswer(publisher, request.path,
                                         request.query, request.method)
    BY <1>4, <2>1, TargetsAssumption DEF Served
  <2> QED  BY <2>2 DEF PublisherAnswer, Answer
<1>7. ASSUME ~OnEndpointPath, Owners = {}
      PROVE  request.answer.kind = "fallback"
  <2>1. request.selected = Fallback
    BY <1>2, <1>3, <1>4, <1>5, <1>7, ResolvedToOwner DEF Owners
  <2> QED  BY <1>4, <2>1, TargetsAssumption DEF Served, Answer
<1>8. ASSUME ~OnEndpointPath, NEW i \in Owners
      PROVE  request.answer = Answer("authorize", branches[i].name)
  <2>1. i \in DOMAIN branches /\ Beneath(branches[i].mount, request.path)
    BY DEF Owners
  <2>2. request.selected = branches[i].name
    BY <1>2, <1>3, <1>4, <1>5, <1>8, <2>1, ResolvedToOwner
  <2>3. /\ request.selected \notin {Publisher, Fallback}
        /\ branches[i] \in Definitions
    BY <2>1, <2>2, BranchNames DEF Accepted
  <2>4. request.answer = BranchAnswer(branches[i], request.path)
    BY <1>4, <2>1, <2>2, <2>3, NamedBranch DEF Served
  <2>5. branches[i].mount \in UrlPath /\ branches[i].resource \in UrlPath
    BY <2>3, PathsAreUrlPaths
  <2>6. BranchAnswer(branches[i], request.path)
          = Answer("authorize", branches[i].name)
    BY <1>3, <2>1, <2>5, MountIsInResource
  <2> QED  BY <2>4, <2>6
<1> QED  BY <1>6, <1>7, <1>8

\* Every path of a mount that is nobody's metadata path goes to that resource's
\* guard and to no other, also beneath a metadata path; a path of no mount goes
\* to the fallback, and no branch turns away what the router gave it.
THEOREM MountsAreProtected == Spec => []ProtectedPathsAreGuarded
<1>1. IInv /\ Apart(Mounts) => ProtectedPathsAreGuarded
  <2> SUFFICES ASSUME IInv, Apart(Mounts)
               PROVE  ProtectedPathsAreGuarded
    OBVIOUS
  <2>1. ASSUME request.answer.kind = "authorize"
        PROVE  /\ \A i \in Owners : branches[i].name = request.answer.name
               /\ Owners # {} /\ ~OnEndpointPath
    <3>1. Answered
      BY <2>1 DEF Answered
    <3>2. ~OnEndpointPath
      BY <2>1, <3>1, AnswerOfOwner
    <3>3. Owners # {}
      BY <2>1, <3>1, <3>2, AnswerOfOwner
    <3>4. ASSUME NEW i \in Owners
          PROVE  branches[i].name = request.answer.name
      <4>1. request.answer = Answer("authorize", branches[i].name)
        BY <3>1, <3>2, AnswerOfOwner
      <4> QED  BY <4>1 DEF Answer
    <3> QED  BY <3>2, <3>3, <3>4
  <2>2. ASSUME Answered, ~OnEndpointPath
        PROVE  IF Owners = {} THEN request.answer.kind = "fallback"
               ELSE request.answer.kind = "authorize"
    <3>1. CASE Owners = {}
      BY <2>2, <3>1, AnswerOfOwner
    <3>2. CASE Owners # {}
      <4>1. PICK i \in Owners : TRUE
        BY <3>2
      <4>2. request.answer = Answer("authorize", branches[i].name)
        BY <2>2, AnswerOfOwner
      <4> QED  BY <3>2, <4>2 DEF Answer
    <3> QED  BY <3>1, <3>2
  <2> QED  BY <2>1, <2>2 DEF ProtectedPathsAreGuarded, BranchesConfined
<1> QED BY <1>1, Invariance, MountsStayApart, PTL
=============================================================================
