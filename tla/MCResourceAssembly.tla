-------------------------- MODULE MCResourceAssembly --------------------------
(* A small instance of ResourceAssembly for TLC.  "wk" stands for            *)
(* .well-known/oauth-protected-resource.                                     *)
EXTENDS AssemblyInvariants

Definition(name, mount, resource, path, query) ==
    [name |-> name, origin |-> "here", mount |-> mount, resource |-> resource,
     path |-> path, query |-> query, literal |-> TRUE, mapped |-> TRUE]

Root == Definition("root", <<"">>, <<"">>, <<"wk">>, "none")
App == Definition("app", <<"a">>, <<"a">>, <<"wk", "a">>, "none")
Child == Definition("child", <<"a", "x">>, <<"a", "x">>, <<"wk", "x">>, "none")
\* The metadata mapping puts the endpoint in place of the mount.
OnMount == Definition("onmount", <<"e", "a">>, <<"a">>, <<"e", "a">>, "none")
Directory == Definition("directory", <<"b", "">>, <<"c", "">>, <<"wk", "c">>,
                        "none")
\* It differs from App's endpoint by its query alone.
Query == Definition("query", <<"b">>, <<"b">>, <<"wk", "a">>, "q")
Duplicate == Definition("duplicate", <<"b">>, <<"">>, <<"wk", "a">>, "none")
Foreign == [Definition("foreign", <<"b">>, <<"b">>, <<"wk", "b">>, "none")
              EXCEPT !.origin = "elsewhere"]
Braces == [Definition("braces", <<"t">>, <<"t">>, <<"wk", "x">>, "none")
             EXCEPT !.literal = FALSE]
Unmapped == [Definition("unmapped", <<"t">>, <<"t">>, <<"wk", "x">>, "none")
               EXCEPT !.mapped = FALSE]

MCDefinitions ==
    {Root, App, Child, OnMount, Directory, Query, Duplicate, Foreign, Braces,
     Unmapped}

MCPaths ==
    {<<"">>, <<"a">>, <<"a", "">>, <<"a", "x">>, <<"ab">>, <<"b">>,
     <<"b", "">>, <<"b", "x">>, <<"e">>, <<"e", "a">>, <<"e", "a", "">>,
     <<"e", "a", "x">>, <<"wk">>, <<"wk", "">>, <<"wk", "a">>,
     <<"wk", "a", "x">>, <<"wk", "b">>, <<"wk", "c">>, <<"wk", "x">>}

MCQueries == {"none", "q"}
=============================================================================
