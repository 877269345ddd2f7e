------------------------ MODULE ApplicationInvariants ------------------------
(***************************************************************************)
(* What the example application promises its upstream and its users,       *)
(* wherever it is mounted.  The tutorial is docs/tutorial/browser_login.md.*)
(***************************************************************************)
EXTENDS LoginApplication

\* On every attempt the upstream is told the subject of the session whose
\* cookie came with the request, or nothing, and never what the client wrote
\* in the header: "The example removes any incoming X-Authenticated-Subject
\* header and sets it from the loaded session."  A request whose subject no
\* header can hold does not go there without one.
UpstreamSeesTheSession ==
    pc = "answered" =>
      LET named == {jar} \cap Subjects IN
      upstream.subjects =
        IF request.preflight \/ request.name \in {Health, SignedOut} THEN {}
        ELSE named

\* Only the liveness probe, the signed-out page and the landing page are served
\* to a visitor without a session, at whatever prefix they are received.
OnlyOpenPagesAreOpen ==
    pc = "answered" /\ jar = NoSession /\ ~request.preflight =>
      request.name \in {Health, SignedOut, Home}

\* What is served, and to whom the upstream believes it is served, follows from
\* the session alone, on every attempt and at every prefix.
SessionDecides == UpstreamSeesTheSession /\ OnlyOpenPagesAreOpen

\* Signing out ends outside of the application: where the redirect leads, no
\* session is asked for, and so none is made.
SignOutLeavesNoSession ==
    /\ origin.name = Logout /\ origin.method = "POST" /\ ~origin.preflight
    /\ pc = "idle" /\ ~IsRedirect /\ answer.name # Logout
    => jar = NoSession /\ answer.name = SignedOut

\* A browser that follows its redirects arrives: login leads back to the page
\* and not to the provider again.
RedirectsEnd == IsRedirect ~> ~IsRedirect
=============================================================================
