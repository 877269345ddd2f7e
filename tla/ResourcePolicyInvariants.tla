----------------------- MODULE ResourcePolicyInvariants -----------------------
(***************************************************************************)
(* What a ResourcePolicy that was built promises about its rules, and what *)
(* a refusal to build it says.                                             *)
(***************************************************************************)
EXTENDS ResourcePolicy

CONSTANT RequestPaths   \* the paths of requests

-----------------------------------------------------------------------------
\* The rules whose author asked for what the guard would never look at.
Misplaced(asked) ==
    asked.token = "none" /\ (\/ asked.audiences # {} \/ asked.scopes # {}
                             \/ asked.check # NoCheck)

\* Whatever request a built policy lets a rule decide, that rule asks for all
\* that its author asked for in however many calls, and the guard will look at
\* it: a public rule, for which the validator is not called, was asked for
\* nothing.
AskedIsEnforced ==
    IsBuilt =>
      \A path \in RequestPaths, method \in RequestMethods :
        LET given == Governing(path, method) IN
        given # NoRule =>
          /\ given.rule.token = given.asked.token
          /\ given.rule.audiences = given.asked.audiences
          /\ given.rule.scopes = given.asked.scopes
          /\ given.rule.check = given.asked.check
          /\ ~Misplaced(given.asked)

\* The scope parameter of a rejection names every scope that the request will
\* be held to, and none besides: a client that comes back with a token of
\* exactly these scopes passes the scope test.  It is absent when there is no
\* such test.
HintSuffices ==
    IsBuilt =>
      \A path \in RequestPaths, method \in RequestMethods :
        LET given == Governing(path, method) IN
        given # NoRule =>
          IF given.asked.scopes = {} THEN given.rule.scope_param = NoScope
          ELSE given.rule.scope_param = given.asked.scopes

\* The policy's own list of scopes, which the metadata document advertises if
\* the resource's definition brings no list to replace it, has every scope that
\* a rejection can name, and no scope that no rule asks for.
HintsAreAdvertised ==
    IsBuilt =>
      /\ \A path \in RequestPaths, method \in RequestMethods :
           LET given == Governing(path, method) IN
           given # NoRule /\ given.rule.scope_param # NoScope =>
             given.rule.scope_param \subseteq scopes_supported
      /\ \A s \in scopes_supported :
           \/ s \in Fallback.asked.scopes
           \/ \E i \in DOMAIN routes : s \in routes[i].asked.scopes

\* Building fails for a public rule with constraints whatever else is wrong,
\* and names the first of the routes with one, or the default if it is the
\* only one.
FirstMisplacedRuleIsNamed ==
    outcome.kind = "refused" =>
      LET offenders == {i \in DOMAIN routes : Misplaced(routes[i].asked)} IN
      IF offenders # {}
      THEN outcome = PublicRuleWithConstraints(
             routes[CHOOSE i \in offenders :
                      \A j \in offenders : i <= j].pattern)
      ELSE outcome.error = "PublicRuleWithConstraints" <=>
             Misplaced(Fallback.asked) /\ outcome.pattern = DefaultName

\* What an author asked of a rule is asked of every request that the rule
\* decides, or the policy is not built and the error says which rule.
ConstraintsHoldOrAreRefused == AskedIsEnforced /\ FirstMisplacedRuleIsNamed

\* Rules, rejections and the policy's list of scopes agree: a client that asks
\* for what it is told can pass, and is told of nothing else.
HintsAreExact == HintSuffices /\ HintsAreAdvertised

=============================================================================
