------------------------ MODULE LoginPolicyInvariants ------------------------
(***************************************************************************)
(* What a LoginProxy that was built promises about its rules, and what a   *)
(* refusal to build it says.                                               *)
(***************************************************************************)
EXTENDS LoginPolicy

CONSTANT RequestPaths   \* the paths of requests

\* A path begins with a slash: it has a segment.
ASSUME PathsAssumption ==
    \A path \in RequestPaths : path \in Seq(STRING) /\ path # <<>>

-----------------------------------------------------------------------------
\* The check that request_filter runs under a rule: none without a session.
CheckThatRuns(rule) == IF rule.level = "public" THEN NoCheck ELSE rule.check

\* Whatever request a built proxy lets a rule decide, that rule has the level
\* its author chose and runs the check that was attached last, in whichever
\* order the calls were made: none is ever silently unenforced.
AskedIsEnforced ==
    IsBuilt =>
      \A path \in RequestPaths, method \in RequestMethods :
        LET given == Governing(path, method) IN
        given # NoRule => /\ given.rule.level = given.asked.level
                          /\ CheckThatRuns(given.rule) = given.asked.check

\* The rules whose author attached a check where none can run.
Misplaced(asked) == asked.level = "public" /\ asked.check # NoCheck

\* Building fails for a misplaced check whatever else is wrong, and names the
\* first of the routes with one, or the default if it is the only one.
FirstMisplacedCheckIsNamed ==
    outcome.kind = "refused" =>
      LET offenders == {i \in DOMAIN routes : Misplaced(routes[i].asked)} IN
      IF offenders # {}
      THEN outcome = PublicRuleWithCheck(
             routes[CHOOSE i \in offenders :
                      \A j \in offenders : i <= j].pattern)
      ELSE outcome.error = "PublicRuleWithCheck" <=>
             Misplaced(Fallback.asked) /\ outcome.pattern = DefaultName

\* A check that an author attached runs for every request its rule decides, or
\* the proxy is not built and the error says where the check is.
ChecksRunOrAreRefused == AskedIsEnforced /\ FirstMisplacedCheckIsNamed

-----------------------------------------------------------------------------
\* Under a subtree no request falls through to the default rule or to a broader
\* subtree: it is decided at a pattern inside the subtree, or denied there
\* because of its method.
SubtreesLeaveNoGap ==
    IsBuilt =>
      \A i \in DOMAIN routes, path \in RequestPaths, method \in RequestMethods :
        routes[i].kind # "Exact" /\ Beneath(routes[i].pattern, path) =>
          LET verdict == Resolve(Registrations, path, method) IN
          /\ verdict.kind # "default"
          /\ verdict.kind = "rule" =>
               \E p \in Lowered(Registrations[verdict.index]) :
                 PatternMatches(p, path) /\ Beneath(routes[i].pattern, p.path)

\* In an exclusive subtree every path has the same rules, so a path that the
\* upstream reads differently is not judged by another rule.
BlobsAreUniform ==
    IsBuilt =>
      \A i \in DOMAIN routes, method \in RequestMethods :
        routes[i].kind = "Blob" =>
          \A p, q \in {p \in RequestPaths : Beneath(routes[i].pattern, p)} :
            Resolve(Registrations, p, method)
              = Resolve(Registrations, q, method)

\* A route for some methods decides no request with another method, also when
\* that means to deny it although the default or a broader subtree is public.
RoutesKeepToTheirMethods ==
    IsBuilt =>
      \A path \in RequestPaths, method \in RequestMethods :
        LET verdict == Resolve(Registrations, path, method) IN
        verdict.kind = "rule" =>
          routes[verdict.index].asked.method = AnyMethod
          \/ method \in routes[verdict.index].asked.method

\* The patterns and methods that a route is lowered to decide the requests that
\* the route was written for: without gaps, without exceptions in an exclusive
\* subtree, and no others.
RoutesDecideTheirPaths ==
    SubtreesLeaveNoGap /\ BlobsAreUniform /\ RoutesKeepToTheirMethods

\* Of every rule, the default included, the documentation of
\* LoginRule::method says: "Restricts this rule to a single HTTP method."  A
\* rule with one method decides no request with another.
RulesKeepToTheirMethods ==
    IsBuilt =>
      \A path \in RequestPaths, method, named \in RequestMethods :
        LET given == Governing(path, method) IN
        given # NoRule /\ given.asked.method = {named} => method = named
=============================================================================
