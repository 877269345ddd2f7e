------------------------- MODULE MCPublicationServer -------------------------
(* A small instance of PublicationServer for TLC.  "wk" stands for           *)
(* .well-known; the ingress puts everything public beneath "in".             *)
EXTENDS PublicationInvariants, TLC

Definition(name, mount, resource, public, query) ==
    [name |-> name, origin |-> "here", mount |-> mount, resource |-> resource,
     public |-> public, query |-> query, parses |-> TRUE]

App == Definition("app", <<"in", "a">>, <<"a">>, <<"wk", "a">>, "none")
Pay == Definition("pay", <<"in", "p", "">>, <<"p", "">>, <<"wk", "p">>, "none")
\* All the server's public paths are in this resource's mount.
Whole == Definition("whole", <<"in">>, <<"">>, <<"wk", "r">>, "none")
\* Its endpoint differs from App's by its query alone.
Query == Definition("query", <<"in", "q">>, <<"q">>, <<"wk", "a">>, "q")
\* Its endpoint is where security.txt is.
Taken == Definition("taken", <<"in", "t">>, <<"t">>, <<"wk", "s">>, "none")
Foreign == [Definition("foreign", <<"in", "f">>, <<"f">>, <<"wk", "f">>, "none")
              EXCEPT !.origin = "elsewhere"]
Unmapped == Definition("unmapped", <<"u">>, <<"u">>, <<"x", "u">>, "none")
Braces == Definition("braces", <<"in", "{b}">>, <<"b">>, <<"wk", "f">>, "none")
NoUri == [Definition("nouri", <<"in", "n">>, <<"n">>, <<"wk", "f">>, "none")
            EXCEPT !.parses = FALSE]

MCDefinitions ==
    {App, Pay, Whole, Query, Taken, Foreign, Unmapped, Braces, NoUri}

MCValidatorUrls == {Url(App), Url(Pay)}

MCSecurityPath == <<"wk", "s">>

MCPublic == {<<"wk", "a">>, <<"wk", "p">>, <<"wk", "r">>, <<"wk", "s">>,
             <<"wk", "f">>}

MCIncoming == [p \in MCPublic |-> <<"in">> \o p]

MCPaths ==
    {<<"">>, <<"wk", "a">>, <<"in">>, <<"in", "">>, <<"in", "a">>,
     <<"in", "a", "">>, <<"in", "a", "x">>, <<"in", "p">>, <<"in", "p", "">>,
     <<"in", "p", "x">>, <<"in", "q">>, <<"in", "wk">>, <<"in", "wk", "a">>,
     <<"in", "wk", "a", "x">>, <<"in", "wk", "p">>, <<"in", "wk", "r">>,
     <<"in", "wk", "s">>, <<"in", "wk", "s", "x">>, <<"in", "wk", "f">>}

MCLiteral == MCPaths \cup {<<"in", "t">>, <<"in", "f">>, <<"in", "n">>, <<"u">>}

MCQueries == {"none", "q"}
=============================================================================
