------------------------ MODULE PublicationInvariants ------------------------
(***************************************************************************)
(* What a server promises that publishes what its resources advertise.     *)
(***************************************************************************)
EXTENDS PublicationServer

-----------------------------------------------------------------------------
Answered == request.answer.kind \notin {"none", "denied"}

\* The client's request for a public URL, as it arrives here.
Asks(url) ==
    /\ url.path \in DOMAIN Incoming
    /\ request.path = Incoming[url.path] /\ request.query = url.query

\* A client that is refused by a resource and follows the URL that the
\* challenge names finds that resource's document: what a guard advertises and
\* what the router serves are two derivations of one fact, through a mapping of
\* its own.
AdvertisedMetadataIsServed ==
    Answered =>
      \A i \in DOMAIN bound :
        Asks(bound[i].advertised) =>
          request.answer =
            IF request.method \in {"GET", "HEAD"}
            THEN Answer("document", bound[i].definition.name)
            ELSE Answer("not_allowed", "none")

\* The application's own file is served at its public URL, for any query, and
\* neither a resource's mount nor its metadata takes it over.
SecurityTxtIsServed ==
    Answered /\ security # {} /\ request.path = Incoming[SecurityPath] =>
      request.answer.kind =
        IF request.method \in {"GET", "HEAD"} THEN "security_txt"
        ELSE "not_allowed"

PublicPaths == {published[i].path : i \in DOMAIN published} \cup security

Owners ==
    {i \in DOMAIN bound : Beneath(bound[i].definition.mount, request.path)}

\* Every path of a mount that is not public goes to that resource's guard,
\* descendants of public paths included; a public path never reaches a guard or
\* the fallback; nothing reaches a guard from outside its mount.
MountsAreGuarded ==
    Answered =>
      /\ SecurityTxtIsServed
      /\ request.path \in PublicPaths =>
           request.answer.kind \notin {"authorize", "outside_resource",
                                       "fallback"}
      /\ request.path \notin PublicPaths =>
           IF Owners = {} THEN request.answer.kind = "fallback"
           ELSE \E i \in Owners :
                  request.answer = Answer("authorize", bound[i].definition.name)
=============================================================================
