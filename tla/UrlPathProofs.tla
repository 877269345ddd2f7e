----------------------------- MODULE UrlPathProofs -----------------------------
(***************************************************************************)
(* Lemmas about UrlPaths and ResourcePublication: what lies beneath a      *)
(* mount, which pattern a path selects, and where a table of mounts and    *)
(* public paths leads, for paths of any length and any set of patterns.    *)
(***************************************************************************)
EXTENDS ResourcePublication, SequenceTheorems, WellFoundedInduction, TLAPS

\* The empty segment and the names that the login example fixes are strings
\* like the others: the provers do not know.
Segment ==
    STRING \cup {"", "dashboard", "health", "signed-out", "logout", "callback"}

\* A path has at least one segment, since it begins with a slash.
UrlPath == Seq(Segment) \ {<<>>}

\* A pattern of the router; what else the record holds does not matter here.
\* A catch-all follows a slash.
IsPattern(p) ==
    /\ p.path \in UrlPath /\ p.rest \in BOOLEAN
    /\ p.rest => IsDirectory(p.path)

\* The patterns hold those of the mount and of its subtree.
Covers(patterns, mount) ==
    /\ \E p \in patterns : ~p.rest /\ p.path = mount
    /\ \E p \in patterns : ~p.rest /\ p.path = Slash(mount)
    /\ \E p \in patterns : p.rest /\ p.path = Slash(mount)

-----------------------------------------------------------------------------
(* Segments.                                                                *)

\* The slash is added where there is none.
LEMMA SlashIsDirectory ==
  ASSUME NEW path \in UrlPath
  PROVE  /\ Slash(path) \in UrlPath
         /\ IsDirectory(Slash(path))
         /\ Len(path) \in Nat \ {0}
         /\ Len(Slash(path)) = IF IsDirectory(path) THEN Len(path)
                               ELSE Len(path) + 1
         /\ \A i \in 1 .. Len(path) : Slash(path)[i] = path[i]
<1>1. path \in Seq(Segment) /\ path # <<>> /\ Len(path) \in Nat \ {0}
  BY DEF UrlPath
<1>2. CASE IsDirectory(path)
  BY <1>1, <1>2 DEF Slash, UrlPath
<1>3. CASE ~IsDirectory(path)
  <2>0. "" \in Segment
    BY DEF Segment
  <2>1. path \in Seq(Segment)
    BY <1>1
  <2>2. /\ Append(path, "") \in Seq(Segment)
        /\ Append(path, "") # <<>>
        /\ Len(Append(path, "")) = Len(path) + 1
        /\ \A i \in 1 .. Len(path) : Append(path, "")[i] = path[i]
        /\ Append(path, "")[Len(path) + 1] = ""
    BY <2>0, <2>1, AppendProperties, Zenon
  <2> QED  BY <1>1, <1>3, <2>1, <2>2 DEF Slash, IsDirectory, Seqs!Last, UrlPath
<1> QED  BY <1>2, <1>3

LEMMA Shortened ==
  ASSUME NEW S, NEW s \in Seq(S), NEW n \in 0 .. Len(s)
  PROVE  /\ SubSeq(s, 1, n) \in Seq(S)
         /\ Len(SubSeq(s, 1, n)) = n
         /\ \A i \in 1 .. n : SubSeq(s, 1, n)[i] = s[i]
OBVIOUS

\* All segments but the last.
LEMMA StemSegments ==
  ASSUME NEW directory \in UrlPath
  PROVE  /\ Stem(directory) \in Seq(Segment)
         /\ Len(Stem(directory)) = Len(directory) - 1
         /\ \A i \in 1 .. Len(directory) - 1 :
              Stem(directory)[i] = directory[i]
<1>1. directory \in Seq(Segment) /\ Len(directory) \in Nat \ {0}
  BY DEF UrlPath
<1>2. Len(directory) - 1 \in 0 .. Len(directory)
  BY <1>1
<1> QED  BY <1>1, <1>2, Shortened DEF Stem, Seqs!Front

\* The slash that was added is taken away.
LEMMA StemOfSlash ==
  ASSUME NEW path \in UrlPath, ~IsDirectory(path)
  PROVE  Stem(Slash(path)) = path
<1>1. /\ path \in Seq(Segment) /\ Slash(path) \in UrlPath
      /\ Len(Slash(path)) = Len(path) + 1 /\ Len(path) \in Nat
      /\ \A i \in 1 .. Len(path) : Slash(path)[i] = path[i]
  BY SlashIsDirectory DEF UrlPath
<1>2. /\ Stem(Slash(path)) \in Seq(Segment)
      /\ Len(Stem(Slash(path))) = Len(path)
      /\ \A i \in 1 .. Len(path) : Stem(Slash(path))[i] = path[i]
  BY <1>1, StemSegments
<1> QED  BY <1>1, <1>2, SeqEqual

\* A strict prefix is shorter, and agrees segment by segment.
LEMMA StrictPrefix ==
  ASSUME NEW s \in Seq(Segment), NEW t \in Seq(Segment)
  PROVE  Seqs!IsStrictPrefix(s, t) <=>
           Len(s) < Len(t) /\ \A i \in 1 .. Len(s) : s[i] = t[i]
<1>1. SubSeq(s, 1, Len(s)) = s /\ Len(s) \in Nat /\ Len(t) \in Nat
  OBVIOUS
<1>2. ASSUME Len(s) <= Len(t)
      PROVE  /\ SubSeq(t, 1, Len(s)) \in Seq(Segment)
             /\ Len(SubSeq(t, 1, Len(s))) = Len(s)
             /\ \A i \in 1 .. Len(s) : SubSeq(t, 1, Len(s))[i] = t[i]
  BY <1>1, <1>2
<1>3. ASSUME Seqs!IsStrictPrefix(s, t)
      PROVE  Len(s) < Len(t) /\ \A i \in 1 .. Len(s) : s[i] = t[i]
  <2>1. Len(s) <= Len(t) /\ s = SubSeq(t, 1, Len(s)) /\ s # t
    BY <1>1, <1>3 DEF Seqs!IsStrictPrefix, Seqs!IsPrefix
  <2>2. Len(s) # Len(t)
    <3> SUFFICES ASSUME Len(s) = Len(t) PROVE FALSE
      OBVIOUS
    <3>1. SubSeq(t, 1, Len(t)) = t
      OBVIOUS
    <3> QED  BY <2>1, <3>1
  <2> QED  BY <1>1, <1>2, <2>1, <2>2
<1>4. ASSUME Len(s) < Len(t), \A i \in 1 .. Len(s) : s[i] = t[i]
      PROVE  Seqs!IsStrictPrefix(s, t)
  <2>1. s = SubSeq(t, 1, Len(s))
    BY <1>1, <1>2, <1>4, SeqEqual
  <2> QED  BY <1>1, <1>4, <2>1 DEF Seqs!IsStrictPrefix, Seqs!IsPrefix
<1> QED  BY <1>3, <1>4

\* What lies in the directory of d, segment by segment.
LEMMA InDirectory ==
  ASSUME NEW directory \in UrlPath, NEW path \in UrlPath
  PROVE  Seqs!IsStrictPrefix(Stem(directory), path) <=>
           /\ Len(directory) <= Len(path)
           /\ \A i \in 1 .. Len(directory) - 1 : directory[i] = path[i]
<1>1. /\ Len(directory) \in Nat \ {0} /\ Len(path) \in Nat
      /\ path \in Seq(Segment)
  BY DEF UrlPath
<1> DEFINE stem == Stem(directory)
<1>2. /\ stem \in Seq(Segment)
      /\ Len(stem) = Len(directory) - 1
      /\ \A i \in 1 .. Len(directory) - 1 : stem[i] = directory[i]
  BY StemSegments
<1>3. Seqs!IsStrictPrefix(stem, path) <=>
        Len(stem) < Len(path) /\ \A i \in 1 .. Len(stem) : stem[i] = path[i]
  BY <1>1, <1>2, StrictPrefix
<1> HIDE DEF stem
<1>4. Seqs!IsStrictPrefix(stem, path) <=>
        /\ Len(directory) <= Len(path)
        /\ \A i \in 1 .. Len(directory) - 1 : directory[i] = path[i]
  BY <1>1, <1>2, <1>3
<1> QED  BY <1>4 DEF stem

\* A mount's own directory is beneath it.
LEMMA SlashIsBeneath ==
  ASSUME NEW mount \in UrlPath
  PROVE  Beneath(mount, mount) /\ Beneath(mount, Slash(mount))
<1>1. Slash(mount) \in UrlPath /\ Len(Slash(mount)) \in Nat
  BY SlashIsDirectory
<1>2. Seqs!IsStrictPrefix(Stem(Slash(mount)), Slash(mount))
  BY <1>1, InDirectory
<1> QED  BY <1>2 DEF Beneath

\* What is beneath something beneath a mount is beneath the mount.
LEMMA BeneathIsTransitive ==
  ASSUME NEW a \in UrlPath, NEW b \in UrlPath, NEW c \in UrlPath,
         Beneath(a, b), Beneath(b, c)
  PROVE  Beneath(a, c)
<1>1. CASE a = b \/ b = c
  BY <1>1
<1>2. CASE a # b /\ b # c
  <2>1. /\ Slash(a) \in UrlPath /\ Slash(b) \in UrlPath
        /\ Len(Slash(a)) \in Nat /\ Len(Slash(b)) \in Nat
        /\ Len(b) \in Nat /\ Len(c) \in Nat
        /\ Len(b) <= Len(Slash(b)) /\ Len(Slash(b)) <= Len(b) + 1
        /\ \A i \in 1 .. Len(b) : Slash(b)[i] = b[i]
    BY SlashIsDirectory
  <2>2. /\ Len(Slash(a)) <= Len(b)
        /\ \A i \in 1 .. Len(Slash(a)) - 1 : Slash(a)[i] = b[i]
    BY <1>2, <2>1, InDirectory DEF Beneath
  <2>3. /\ Len(Slash(b)) <= Len(c)
        /\ \A i \in 1 .. Len(Slash(b)) - 1 : Slash(b)[i] = c[i]
    BY <1>2, <2>1, InDirectory DEF Beneath
  <2>4. \A i \in 1 .. Len(Slash(a)) - 1 : Slash(a)[i] = c[i]
    BY <2>1, <2>2, <2>3
  <2> QED  BY <2>1, <2>2, <2>3, <2>4, InDirectory DEF Beneath
<1> QED  BY <1>1, <1>2

\* The mounts that a path is beneath are beneath one another.
LEMMA MountsAreComparable ==
  ASSUME NEW a \in UrlPath, NEW b \in UrlPath, NEW path \in UrlPath,
         Beneath(a, path), Beneath(b, path)
  PROVE  Beneath(a, b) \/ Beneath(b, a)
<1>1. CASE path = a \/ path = b
  BY <1>1
<1>2. CASE path # a /\ path # b
  <2>1. /\ Slash(a) \in UrlPath /\ Slash(b) \in UrlPath
        /\ Len(Slash(a)) \in Nat \ {0} /\ Len(Slash(b)) \in Nat \ {0}
        /\ Len(a) \in Nat \ {0} /\ Len(b) \in Nat \ {0}
    BY SlashIsDirectory
  <2>2. /\ \A i \in 1 .. Len(Slash(a)) - 1 : Slash(a)[i] = path[i]
        /\ \A i \in 1 .. Len(Slash(b)) - 1 : Slash(b)[i] = path[i]
    BY <1>2, <2>1, InDirectory DEF Beneath
  <2>3. CASE Len(Slash(a)) <= Len(b)
    <3>1. \A i \in 1 .. Len(Slash(a)) - 1 : Slash(a)[i] = b[i]
      BY <2>1, <2>2, <2>3, SlashIsDirectory
    <3> QED  BY <2>1, <2>3, <3>1, InDirectory DEF Beneath
  <2>4. CASE Len(Slash(b)) <= Len(a)
    <3>1. \A i \in 1 .. Len(Slash(b)) - 1 : Slash(b)[i] = a[i]
      BY <2>1, <2>2, <2>4, SlashIsDirectory
    <3> QED  BY <2>1, <2>4, <3>1, InDirectory DEF Beneath
  <2>5. CASE Len(b) < Len(Slash(a)) /\ Len(a) < Len(Slash(b))
    <3>1. /\ Len(a) = Len(b)
          /\ Len(Slash(a)) - 1 = Len(a) /\ Len(Slash(b)) - 1 = Len(b)
      BY <2>1, <2>5, SlashIsDirectory
    <3>2. \A i \in 1 .. Len(a) : a[i] = path[i]
      BY <2>1, <2>2, <3>1, SlashIsDirectory
    <3>3. \A i \in 1 .. Len(b) : b[i] = path[i]
      BY <2>1, <2>2, <3>1, SlashIsDirectory
    <3>4. a = b
      BY <3>1, <3>2, <3>3, SeqEqual DEF UrlPath
    <3> QED  BY <3>4 DEF Beneath
  <2> QED  BY <2>1, <2>3, <2>4, <2>5
<1> QED  BY <1>1, <1>2

-----------------------------------------------------------------------------
(* Patterns.                                                                *)

\* A catch-all that is as long as the directory of a mount, and matches a path
\* beneath it, is a pattern beneath the mount.
LEMMA NarrowPatternIsBeneath ==
  ASSUME NEW mount \in UrlPath, NEW directory \in UrlPath,
         IsDirectory(directory), NEW path \in UrlPath,
         Seqs!IsStrictPrefix(Stem(Slash(mount)), path),
         Seqs!IsStrictPrefix(Stem(directory), path),
         Len(Slash(mount)) <= Len(directory)
  PROVE  Beneath(mount, directory)
<1>1. /\ Slash(mount) \in UrlPath
      /\ Len(Slash(mount)) \in Nat /\ Len(directory) \in Nat
  BY SlashIsDirectory
<1>2. /\ \A i \in 1 .. Len(Slash(mount)) - 1 : Slash(mount)[i] = path[i]
      /\ \A i \in 1 .. Len(directory) - 1 : directory[i] = path[i]
  BY <1>1, InDirectory
<1>3. \A i \in 1 .. Len(Slash(mount)) - 1 : Slash(mount)[i] = directory[i]
  BY <1>1, <1>2
<1> QED  BY <1>1, <1>3, InDirectory DEF Beneath

\* The least-number principle, for a set.
LEMMA LeastNatural ==
  ASSUME NEW S \in SUBSET Nat, S # {}
  PROVE  \E n \in S : \A m \in S : n <= m
<1>1. S \subseteq Nat
  OBVIOUS
<1>2. \E n \in S : \A m \in S : ~(<<m, n>> \in OpToRel(<, Nat))
  BY <1>1, NatLessThanWellFounded, WFMin, Zenon
<1>3. \A m, n \in Nat : <<m, n>> \in OpToRel(<, Nat) <=> m < n
  BY DEF OpToRel
<1>4. PICK n \in S : \A m \in S : ~(<<m, n>> \in OpToRel(<, Nat))
  BY <1>2
<1>5. ASSUME NEW m \in S
      PROVE  n <= m
  <2>1. m \in Nat /\ n \in Nat
    BY <1>1
  <2>2. ~(m < n)
    BY <1>3, <1>4, <2>1, Zenon
  <2> QED  BY <2>1, <2>2
<1> QED  BY <1>5

\* What a path can select: an exact pattern that matches, and of the catch-alls
\* a longest one.
LEMMA SelectedPattern ==
  ASSUME NEW patterns, \A p \in patterns : IsPattern(p), NEW path \in UrlPath,
         NEW p \in Selected(patterns, path)
  PROVE  /\ p \in patterns /\ PatternMatches(p, path)
         /\ \A q \in patterns :
              PatternMatches(q, path) => AtLeastAsSpecific(p, q)
BY DEF Selected

\* A path that any pattern matches selects one.
LEMMA SomePatternIsSelected ==
  ASSUME NEW patterns, \A p \in patterns : IsPattern(p), NEW path \in UrlPath,
         NEW match \in patterns, PatternMatches(match, path)
  PROVE  Selected(patterns, path) # {}
<1> DEFINE matching == {p \in patterns : PatternMatches(p, path)}
           left(p) == Len(path) - Len(p.path)
<1>1. CASE \E p \in matching : ~p.rest
  BY <1>1 DEF Selected, AtLeastAsSpecific
<1>2. CASE \A p \in matching : p.rest
  <2>1. ASSUME NEW p \in matching
        PROVE  left(p) \in Nat /\ Len(p.path) \in Nat /\ Len(path) \in Nat
    <3>1. p.path \in UrlPath /\ p.rest
      BY <1>2 DEF IsPattern
    <3>2. Len(p.path) \in Nat /\ Len(path) \in Nat
      BY <3>1, SlashIsDirectory
    <3>3. Len(p.path) <= Len(path)
      BY <3>1, InDirectory DEF PatternMatches
    <3> QED  BY <3>2, <3>3
  <2> DEFINE lefts == {left(p) : p \in matching}
  <2>2. lefts \subseteq Nat /\ lefts # {}
    BY <2>1
  <2>3. PICK least \in lefts : \A n \in lefts : least <= n
    <3> HIDE DEF lefts
    <3> QED  BY <2>2, LeastNatural
  <2>4. PICK p \in matching : left(p) = least
    OBVIOUS
  <2>5. ASSUME NEW q \in matching
        PROVE  AtLeastAsSpecific(p, q)
    <3>1. left(p) <= left(q)
      BY <2>3, <2>4
    <3>2. Len(q.path) <= Len(p.path)
      BY <2>1, <3>1
    <3> QED  BY <1>2, <3>2 DEF AtLeastAsSpecific
  <2> QED  BY <2>5 DEF Selected
<1> QED  BY <1>1, <1>2

\* The pattern that a path beneath a mount selects is itself beneath the mount,
\* if the patterns of the mount's subtree are among those to select from.
LEMMA SelectedBeneath ==
  ASSUME NEW patterns, \A p \in patterns : IsPattern(p),
         NEW mount \in UrlPath, Covers(patterns, mount),
         NEW path \in UrlPath, Beneath(mount, path)
  PROVE  /\ Selected(patterns, path) # {}
         /\ \A p \in Selected(patterns, path) :
              p \in patterns /\ PatternMatches(p, path)
              /\ Beneath(mount, p.path)
<1> DEFINE directory == Slash(mount)
<1>1. directory \in UrlPath /\ Len(directory) \in Nat
  BY SlashIsDirectory
<1>2. CASE path = mount \/ path = directory
  <2>1. PICK exact \in patterns : ~exact.rest /\ exact.path = path
    BY <1>2 DEF Covers
  <2>2. PatternMatches(exact, path)
    BY <2>1 DEF PatternMatches
  <2>3. ASSUME NEW p \in Selected(patterns, path)
        PROVE  p \in patterns /\ PatternMatches(p, path) /\ p.path = path
    <3>1. /\ p \in patterns /\ PatternMatches(p, path)
          /\ AtLeastAsSpecific(p, exact)
      BY <2>2, SelectedPattern
    <3> QED  BY <2>1, <3>1 DEF AtLeastAsSpecific, PatternMatches
  <2> QED  BY <2>2, <2>3, SomePatternIsSelected
<1>3. CASE path # mount /\ path # directory
  <2>1. Seqs!IsStrictPrefix(Stem(directory), path)
    BY <1>3 DEF Beneath
  <2>2. PICK all \in patterns : all.rest /\ all.path = directory
    BY DEF Covers
  <2>3. PatternMatches(all, path)
    BY <1>3, <2>1, <2>2 DEF PatternMatches
  <2>4. ASSUME NEW p \in Selected(patterns, path)
        PROVE  /\ p \in patterns /\ PatternMatches(p, path)
               /\ Beneath(mount, p.path)
    <3>1. /\ p \in patterns /\ IsPattern(p) /\ PatternMatches(p, path)
          /\ AtLeastAsSpecific(p, all)
      BY <2>3, SelectedPattern
    <3>2. CASE ~p.rest
      BY <3>1, <3>2 DEF PatternMatches
    <3>3. CASE p.rest
      <4>1. Len(directory) <= Len(p.path)
        BY <2>2, <3>1, <3>3 DEF AtLeastAsSpecific
      <4>2. /\ p.path \in UrlPath /\ IsDirectory(p.path)
            /\ Seqs!IsStrictPrefix(Stem(p.path), path)
        BY <3>1, <3>3 DEF IsPattern, PatternMatches
      <4> QED  BY <2>1, <3>1, <4>1, <4>2, NarrowPatternIsBeneath
    <3> QED  BY <3>2, <3>3
  <2> QED  BY <2>3, <2>4, SomePatternIsSelected
<1> QED  BY <1>2, <1>3

-----------------------------------------------------------------------------
(* Mounts of resources.                                                     *)

\* A mount's patterns are beneath it, and so is what they match.
LEMMA MountPatternFacts ==
  ASSUME NEW mount \in UrlPath, NEW public,
         NEW p \in MountPatterns(mount, public)
  PROVE  /\ IsPattern(p) /\ Beneath(mount, p.path)
         /\ ~p.rest => p.path \notin public
         /\ \A path \in UrlPath :
              PatternMatches(p, path) => Beneath(mount, path)
<1> DEFINE directory == Slash(mount)
<1>1. /\ directory \in UrlPath /\ IsDirectory(directory)
      /\ Beneath(mount, mount) /\ Beneath(mount, directory)
  BY SlashIsDirectory, SlashIsBeneath
<1>2. CASE p = ExactPattern(mount)
  BY <1>1, <1>2 DEF ExactPattern, IsPattern, PatternMatches, MountPatterns
<1>3. CASE p = ExactPattern(directory)
  <2>1. ~p.rest => p.path \notin public
    BY DEF MountPatterns
  <2> HIDE DEF directory
  <2> QED  BY <1>1, <1>3, <2>1 DEF ExactPattern, IsPattern, PatternMatches
<1>4. CASE p = [path |-> directory, rest |-> TRUE]
  <2>1. IsPattern(p) /\ Beneath(mount, p.path) /\ p.rest /\ p.path = directory
    <3> HIDE DEF directory
    <3> QED  BY <1>1, <1>4 DEF IsPattern
  <2> QED  BY <2>1 DEF PatternMatches, Beneath
<1> QED  BY <1>2, <1>3, <1>4 DEF MountPatterns, SubtreePatterns

\* The table of a server: an exact pattern for each public path, and the
\* patterns of each mount, which lead where its name says.
IsMountTable(table, public, mounts, names) ==
    /\ public \subseteq UrlPath
    /\ \A i \in DOMAIN mounts : mounts[i] \in UrlPath
    /\ \A r \in table :
         \/ \E path \in public : ~r.rest /\ r.rest \in BOOLEAN /\ r.path = path
         \/ \E i \in DOMAIN mounts :
              /\ r.target = names[i]
              /\ \E p \in MountPatterns(mounts[i], public) :
                   r.path = p.path /\ r.rest = p.rest
    /\ \A path \in public : \E r \in table : ~r.rest /\ r.path = path
    /\ \A i \in DOMAIN mounts :
         \A p \in MountPatterns(mounts[i], public) :
           \E r \in table : r.path = p.path /\ r.rest = p.rest

\* No mount lies in another's subtree.
Apart(mounts) ==
    \A i, j \in DOMAIN mounts : i # j => ~Beneath(mounts[i], mounts[j])

LEMMA TableRoutes ==
  ASSUME NEW table, NEW public, NEW mounts, NEW names,
         IsMountTable(table, public, mounts, names), NEW r \in table
  PROVE  /\ IsPattern(r)
         /\ \/ ~r.rest /\ r.path \in public
            \/ /\ ~r.rest => r.path \notin public
               /\ \E i \in DOMAIN mounts :
                    /\ r.target = names[i] /\ Beneath(mounts[i], r.path)
                    /\ \A path \in UrlPath :
                         PatternMatches(r, path) => Beneath(mounts[i], path)
<1>1. CASE \E path \in public : /\ ~r.rest /\ r.rest \in BOOLEAN
                              /\ r.path = path
  BY <1>1 DEF IsMountTable, IsPattern
<1>2. CASE \E i \in DOMAIN mounts :
             /\ r.target = names[i]
             /\ \E p \in MountPatterns(mounts[i], public) :
                  r.path = p.path /\ r.rest = p.rest
  <2>1. PICK i \in DOMAIN mounts :
          /\ r.target = names[i]
          /\ \E p \in MountPatterns(mounts[i], public) :
               r.path = p.path /\ r.rest = p.rest
    BY <1>2
  <2>2. PICK p \in MountPatterns(mounts[i], public) :
          r.path = p.path /\ r.rest = p.rest
    BY <2>1
  <2>3. mounts[i] \in UrlPath
    BY DEF IsMountTable
  <2>4. /\ IsPattern(p) /\ Beneath(mounts[i], p.path)
        /\ ~p.rest => p.path \notin public
        /\ \A path \in UrlPath :
             PatternMatches(p, path) => Beneath(mounts[i], path)
    BY <2>3, MountPatternFacts
  <2>5. /\ IsPattern(r)
        /\ \A path : PatternMatches(r, path) <=> PatternMatches(p, path)
    BY <2>2, <2>4 DEF IsPattern, PatternMatches
  <2> QED  BY <2>1, <2>2, <2>4, <2>5
<1> QED  BY <1>1, <1>2 DEF IsMountTable

\* A mount's subtree is covered, if need be by the public paths in it.
LEMMA MountIsCovered ==
  ASSUME NEW table, NEW public, NEW mounts, NEW names,
         IsMountTable(table, public, mounts, names), NEW i \in DOMAIN mounts
  PROVE  Covers(table, mounts[i])
<1> DEFINE mount == mounts[i]
           directory == Slash(mount)
<1>1. \A p \in MountPatterns(mount, public) :
        \E r \in table : r.path = p.path /\ r.rest = p.rest
  BY DEF IsMountTable
<1>2. ASSUME NEW path \in {mount, directory}
      PROVE  \E r \in table : ~r.rest /\ r.path = path
  <2>1. CASE path \in public
    BY <2>1 DEF IsMountTable
  <2>2. CASE path \notin public
    <3>1. ExactPattern(path) \in MountPatterns(mount, public)
      BY <2>2 DEF MountPatterns, SubtreePatterns, ExactPattern
    <3> QED  BY <1>1, <3>1 DEF ExactPattern
  <2> QED  BY <2>1, <2>2
<1>3. \E r \in table : r.rest /\ r.path = directory
  <2>1. [path |-> directory, rest |-> TRUE] \in MountPatterns(mount, public)
    BY DEF MountPatterns, SubtreePatterns
  <2> QED  BY <1>1, <2>1
<1> QED  BY <1>2, <1>3 DEF Covers

\* A public path selects its own patterns.
LEMMA PublicPathIsSelected ==
  ASSUME NEW table, NEW public, NEW mounts, NEW names,
         IsMountTable(table, public, mounts, names), NEW path \in public
  PROVE  /\ Selected(table, path) # {}
         /\ \A r \in Selected(table, path) :
              r \in table /\ ~r.rest /\ r.path = path
<1>1. PICK exact \in table : ~exact.rest /\ exact.path = path
  BY DEF IsMountTable
<1>2. PatternMatches(exact, path)
  BY <1>1 DEF PatternMatches
<1>3. path \in UrlPath /\ \A r \in table : IsPattern(r)
  <2>1. path \in UrlPath
    BY DEF IsMountTable
  <2> QED  BY <2>1, TableRoutes
<1>4. ASSUME NEW r \in Selected(table, path)
      PROVE  r \in table /\ ~r.rest /\ r.path = path
  <2>1. /\ r \in table /\ PatternMatches(r, path)
        /\ AtLeastAsSpecific(r, exact)
    BY <1>2, <1>3, SelectedPattern
  <2> QED  BY <1>1, <2>1 DEF AtLeastAsSpecific, PatternMatches
<1> QED  BY <1>2, <1>3, <1>4, SomePatternIsSelected

\* Any other path selects a pattern of the mount in which it lies, if mounts
\* are apart, and none if it lies in no mount.
LEMMA MountIsSelected ==
  ASSUME NEW table, NEW public, NEW mounts, NEW names,
         IsMountTable(table, public, mounts, names), Apart(mounts),
         NEW path \in UrlPath, path \notin public
  PROVE  /\ \A i \in DOMAIN mounts :
              Beneath(mounts[i], path) =>
                /\ Selected(table, path) # {}
                /\ \A r \in Selected(table, path) : r.target = names[i]
         /\ (\A i \in DOMAIN mounts : ~Beneath(mounts[i], path)) =>
              Selected(table, path) = {}
<1>1. \A r \in table : IsPattern(r)
  BY TableRoutes
<1>2. \A i \in DOMAIN mounts : mounts[i] \in UrlPath
  BY DEF IsMountTable
<1>3. ASSUME NEW i \in DOMAIN mounts, Beneath(mounts[i], path)
      PROVE  /\ Selected(table, path) # {}
             /\ \A r \in Selected(table, path) : r.target = names[i]
  <2>1. /\ Selected(table, path) # {}
        /\ \A r \in Selected(table, path) :
             r \in table /\ PatternMatches(r, path)
             /\ Beneath(mounts[i], r.path)
    BY <1>1, <1>2, <1>3, MountIsCovered, SelectedBeneath
  <2>2. ASSUME NEW r \in Selected(table, path)
        PROVE  r.target = names[i]
    <3>1. /\ r \in table /\ PatternMatches(r, path)
          /\ Beneath(mounts[i], r.path)
      BY <2>1
    <3>2. ~(~r.rest /\ r.path \in public)
      BY <3>1 DEF PatternMatches
    <3>3. PICK j \in DOMAIN mounts :
            r.target = names[j] /\ Beneath(mounts[j], r.path)
      BY <3>1, <3>2, TableRoutes
    <3>4. r.path \in UrlPath
      BY <1>1, <3>1 DEF IsPattern
    <3>5. Beneath(mounts[i], mounts[j]) \/ Beneath(mounts[j], mounts[i])
      BY <1>2, <3>1, <3>3, <3>4, MountsAreComparable
    <3>6. i = j
      BY <3>5 DEF Apart
    <3> QED  BY <3>3, <3>6
  <2> QED  BY <2>1, <2>2
<1>4. ASSUME \A i \in DOMAIN mounts : ~Beneath(mounts[i], path),
             NEW r \in Selected(table, path)
      PROVE  FALSE
  <2>1. r \in table /\ PatternMatches(r, path)
    BY DEF Selected
  <2>2. ~(~r.rest /\ r.path \in public)
    BY <2>1 DEF PatternMatches
  <2> QED  BY <1>4, <2>1, <2>2, TableRoutes
<1> QED  BY <1>3, <1>4

\* What is added to a path lies beneath it.
LEMMA ExtendedPath ==
  ASSUME NEW s \in Seq(Segment), NEW t \in Seq(Segment), t # <<>>
  PROVE  Seqs!IsStrictPrefix(s, s \o t)
<1> DEFINE st == s \o t
<1>1. /\ st \in Seq(Segment) /\ Len(st) = Len(s) + Len(t)
      /\ \A i \in 1 .. Len(s) : st[i] = s[i]
      /\ Len(s) \in Nat /\ Len(t) \in Nat
  BY ConcatProperties
<1>2. Len(t) > 0
  BY <1>1, EmptySeq
<1> HIDE DEF st
<1>3. Len(s) < Len(st) /\ \A i \in 1 .. Len(s) : s[i] = st[i]
  BY <1>1, <1>2
<1>4. Seqs!IsStrictPrefix(s, st)
  BY <1>1, <1>3, StrictPrefix
<1> QED  BY <1>4 DEF st

\* A branch finds that the requests of its mount are in its resource.
LEMMA MountIsInResource ==
  ASSUME NEW d, d.mount \in UrlPath, d.resource \in UrlPath,
         NEW path \in UrlPath, Beneath(d.mount, path)
  PROVE  BranchAnswer(d, path) = Answer("authorize", d.name)
<1> SUFFICES ResourcePathMatches(d.resource, PublicPath(d, path))
  BY DEF BranchAnswer
<1>2. CASE path = d.mount
  BY <1>2 DEF ResourcePathMatches, PublicPath
<1>3. CASE path # d.mount
  <2> DEFINE n == Len(Stem(Slash(d.mount)))
             rest == SubSeq(path, n + 1, Len(path))
             stem == Stem(Slash(d.resource))
  <2>1. PublicPath(d, path) = stem \o rest
    BY <1>3 DEF PublicPath
  <2>2. /\ n \in Nat /\ n < Len(path) /\ Len(path) \in Nat
        /\ path \in Seq(Segment)
    <3>1. Seqs!IsStrictPrefix(Stem(Slash(d.mount)), path)
      BY <1>3 DEF Beneath
    <3>2. Slash(d.mount) \in UrlPath
      BY SlashIsDirectory
    <3>3. Stem(Slash(d.mount)) \in Seq(Segment) /\ path \in Seq(Segment)
      BY <3>2, StemSegments DEF UrlPath
    <3> QED  BY <3>1, <3>3, StrictPrefix, LenProperties
  <2> HIDE DEF n
  <2>3. rest \in Seq(Segment) /\ rest # <<>>
    <3>1. n + 1 \in 1 .. Len(path) + 1 /\ n + 1 <= Len(path)
      BY <2>2
    <3>2. rest \in Seq(Segment) /\ Len(rest) = Len(path) - (n + 1) + 1
      BY <2>2, <3>1, SubSeqProperties
    <3>3. Len(rest) # 0
      BY <2>2, <3>2
    <3> QED  BY <3>2, <3>3, EmptySeq
  <2>4. stem \in Seq(Segment) /\ Slash(d.resource) \in UrlPath
    BY SlashIsDirectory, StemSegments
  <2> HIDE DEF rest
  <2>5. Seqs!IsStrictPrefix(stem, stem \o rest)
    <3> HIDE DEF stem
    <3> QED  BY <2>3, <2>4, ExtendedPath
  <2>6. CASE IsDirectory(d.resource)
    BY <2>1, <2>5, <2>6 DEF ResourcePathMatches, Slash
  <2>7. CASE ~IsDirectory(d.resource)
    <3>1. stem = d.resource
      BY <2>7, StemOfSlash
    <3> QED  BY <2>1, <2>5, <2>7, <3>1 DEF ResourcePathMatches
  <2> QED  BY <2>6, <2>7
<1> QED  BY <1>2, <1>3
=============================================================================
