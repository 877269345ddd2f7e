------------------------ MODULE GuardExchangeInvariants ------------------------
(***************************************************************************)
(* What the refusals of the resource side promise a client.                *)
(***************************************************************************)
EXTENDS GuardExchange

-----------------------------------------------------------------------------
Refused == pc = "answered"

Latest == refusals[Len(refusals)]

\* A failure of the server itself tells the renderer nothing but the status,
\* and challenges nobody: the client is not sent for another token, and is told
\* how long to wait only then.
ServerFaultsTellNothing ==
    Refused =>
      /\ Latest \in {"server_error", "internal"} =>
           told = NoDetails /\ response.challenges = {}
      /\ response.status >= 500 <=> Latest \in {"server_error", "internal"}
      /\ response.retry_after => Latest = "server_error"

\* A request that was turned away before a rule could be trusted, for its
\* path, its URI or its resource, is told nothing of any rule: the answer is
\* the one that a rule without scopes would give.
UntrustedRuleStaysHidden ==
    Refused /\ Latest \in {"outside_resource", "invalid_input",
                           "invalid_request", "policy_denied", "internal"} =>
      /\ told.scopes = NoScope
      /\ \A c \in response.challenges : c.scope = NoScope

\* Who reads the body and who reads the header learns the same: where the
\* renderer is given a code, every challenge has that code and the scopes that
\* the renderer was given; where it is not, no challenge has a code.
BodyAgreesWithHeader ==
    Refused =>
      \A c \in response.challenges :
        /\ c.code = told.code
        /\ told.code # "none" => c.scope = told.scopes

\* A 401 always says how to authenticate, whichever test was failed.
UnauthorizedIsChallenged ==
    Refused => (response.status = 401 => response.challenges # {})

\* The header ends the message exactly when no byte follows, what follows is
\* what Content-Length announced, and HEAD gets the length that GET would get
\* and no byte; a refusal is not to be stored.
FramingAgrees ==
    response # NoResponse =>
      /\ response.ended <=> response.sent = 0
      /\ response.sent = IF client.method = "HEAD" THEN 0 ELSE response.length
      /\ Refused => response.length = page.length
      /\ response.cached => response.status = 200 /\ response.challenges = {}

\* No refusal tells more than its reason: neither of the server's failures nor
\* of rules that the request was never judged by.
RefusalsTellNoMore == ServerFaultsTellNothing /\ UntrustedRuleStaysHidden

\* Status, challenges, body and framing of one refusal agree, though the guard,
\* the renderer and the writer make them apart from each other.
AnswersAgree ==
    BodyAgreesWithHeader /\ UnauthorizedIsChallenged /\ FramingAgrees

-----------------------------------------------------------------------------
\* The token that the client's authorization server issues can satisfy the
\* rule, and the rule leaves nothing to the application's own check.
Admissible ==
    /\ route.resolves = "rule" /\ route.reconstructs
    /\ Bound => route.inside /\ config.binding \cap client.aud # {}
    /\ route.rule.audiences # {} => route.rule.audiences \cap client.aud # {}
    /\ route.rule.check = NoCheck

Occurrences(category) == {i \in DOMAIN refusals : refusals[i] = category}

\* A client that does what the challenges say is not refused twice for one
\* reason, unless its token expires or the validator fails, if its server can
\* issue a good token at all: the nonce that a refusal brings and the scopes
\* that it names are enough for its test to pass from then on.
NoFutileRetry ==
    Admissible =>
      \A i, j \in DOMAIN refusals :
        i # j /\ refusals[i] = refusals[j] =>
          refusals[i] \in {"expired", "server_error"}

\* Such a client is let through in the end.
ObedientClientIsForwarded == Admissible ~> pc = "forwarded"
=============================================================================
