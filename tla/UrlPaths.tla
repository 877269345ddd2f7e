------------------------------- MODULE UrlPaths -------------------------------
(***************************************************************************)
(* Paths of requests and the patterns of the pattern router.  A path is    *)
(* the sequence of its segments: "/" is <<"">>, "/a" is <<"a">> and "/a/"  *)
(* is <<"a", "">>.  A pattern with "rest" stands for its path, which ends  *)
(* in a slash, followed by {*rest}.                                        *)
(***************************************************************************)
EXTENDS Naturals, Sequences

Seqs == INSTANCE SequencesExt

IsDirectory(path) == Seqs!Last(path) = ""

\* The path with one trailing slash.
Slash(path) == IF IsDirectory(path) THEN path ELSE Append(path, "")

\* Everything before the last slash of a directory.
Stem(directory) == Seqs!Front(directory)

\* The path is the mount or in its subtree, as the patterns mount, mount/ and
\* mount/{*rest} cover it.
Beneath(mount, path) ==
    path = mount \/ Seqs!IsStrictPrefix(Stem(Slash(mount)), path)

ExactPattern(path) == [path |-> path, rest |-> FALSE]

\* What the router accepts for a directory and everything in it.
SubtreePatterns(directory) ==
    {ExactPattern(directory), [path |-> directory, rest |-> TRUE]}

\* A catch-all needs at least one character to match.
PatternMatches(p, path) ==
    IF p.rest THEN path # p.path /\ Seqs!IsStrictPrefix(Stem(p.path), path)
    ELSE p.path = path

\* An exact pattern goes before a catch-all, a long catch-all before a short.
AtLeastAsSpecific(p, q) == ~p.rest \/ (q.rest /\ Len(q.path) <= Len(p.path))

\* The one pattern that a path selects, as a set: empty if none matches.
Selected(patterns, path) ==
    LET matching == {p \in patterns : PatternMatches(p, path)} IN
    {p \in matching : \A q \in matching : AtLeastAsSpecific(p, q)}
=============================================================================
