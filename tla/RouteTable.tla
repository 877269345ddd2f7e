------------------------------ MODULE RouteTable ------------------------------
(***************************************************************************)
(* Route registrations, shared by the login and the resource builder       *)
(* (src/src/routing.rs), and the pattern router they are handed to.  The   *)
(* router is huskarl_route_guard's RuleRouter: of it the model keeps what  *)
(* the builders' documentation and the guard's tests rely on, the refusals *)
(* at build time, the choice of the most specific pattern, and the method  *)
(* axis at that pattern.                                                   *)
(***************************************************************************)
EXTENDS UrlPaths, MethodMatch

CONSTANT PatternFaults   \* the router's verdict on a pattern, by its path

ASSUME FaultsAssumption ==
    \A path \in DOMAIN PatternFaults :
      /\ path \in Seq(STRING) /\ path # <<>>
      /\ PatternFaults[path] \in {"none", "Route", "NonCanonical",
                                  "NonCanonicalCase"}

Kinds == {"Exact", "Subtree", "Blob"}

-----------------------------------------------------------------------------
(* Faulty variants of the definitions below: none is part of the model.     *)

FaultSubtreeIsExact(kind, pattern, method) ==
    [lowering |-> IF kind = "Blob" THEN "exclusive_subtree" ELSE "path",
     pattern |-> pattern, methods |-> method]

-----------------------------------------------------------------------------

\* RouteKind::registration.
Registration(kind, pattern, method) ==
    [lowering |-> CASE kind = "Exact" -> "path"
                    [] kind = "Subtree" -> "subtree"
                    [] kind = "Blob" -> "exclusive_subtree",
     pattern |-> pattern, methods |-> method]

\* The patterns that cover a registration.  "/a/" leaves the bare "/a" out.
Lowered(r) ==
    {ExactPattern(r.pattern)}
    \cup IF r.lowering = "path" THEN {}
         ELSE SubtreePatterns(Slash(r.pattern))

MethodKeys(r) == IF r.methods = AnyMethod THEN {AnyMethod} ELSE r.methods

\* A route that would give a part of an exclusive subtree rules of its own.
Overrides(r, s) ==
    /\ s.lowering = "exclusive_subtree" /\ Lowered(r) # Lowered(s)
    /\ \E p \in Lowered(r) : Beneath(s.pattern, p.path)

\* Two rules for one method of one pattern, or an override.
Collide(r, s) ==
    \/ Lowered(r) \cap Lowered(s) # {} /\ MethodKeys(r) \cap MethodKeys(s) # {}
    \/ Overrides(r, s) \/ Overrides(s, r)

RouterError(kind, pattern) == [kind |-> kind, pattern |-> pattern]

\* Why RuleRouter::from_registrations refuses the registrations; it returns
\* one of these, and accepts what has none.
RouterErrors(registrations) ==
    {RouterError(PatternFaults[registrations[i].pattern],
                 registrations[i].pattern) :
       i \in {i \in DOMAIN registrations :
                PatternFaults[registrations[i].pattern] # "none"}}
    \cup {RouterError("EmptyMethodSet", registrations[i].pattern) :
            i \in {i \in DOMAIN registrations :
                     registrations[i].methods = {}}}
    \cup {RouterError("Route", registrations[j].pattern) :
            j \in {j \in DOMAIN registrations :
                     \E i \in 1 .. j - 1 :
                       Collide(registrations[i], registrations[j])}}

AllPatterns(registrations) ==
    UNION {Lowered(registrations[i]) : i \in DOMAIN registrations}

\* The registrations at the pattern that the path selects.
AtSelected(registrations, path) ==
    LET selected == Selected(AllPatterns(registrations), path) IN
    {i \in DOMAIN registrations :
       selected \cap Lowered(registrations[i]) # {}}

\* RuleRouter::resolve: the rule registered for the method at the selected
\* pattern, or else that pattern's rule for every method; nothing is inherited
\* from a broader pattern.  The default is for paths that no pattern matches.
Resolve(registrations, path, method) ==
    LET here == AtSelected(registrations, path)
        choice(key) == {i \in here : key \in MethodKeys(registrations[i])}
        verdict(kind, index) == [kind |-> kind, index |-> index]
    IN CASE here = {} -> verdict("default", 0)
         [] choice(method) # {} ->
              verdict("rule", CHOOSE i \in choice(method) : TRUE)
         [] choice(method) = {} /\ choice(AnyMethod) # {} ->
              verdict("rule", CHOOSE i \in choice(AnyMethod) : TRUE)
         [] OTHER -> verdict("policy_denied", 0)
=============================================================================
