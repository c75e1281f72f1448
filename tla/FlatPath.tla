------------------------------ MODULE FlatPath ------------------------------
(***************************************************************************)
(* flat_path of c++/utils/file_path_flat/filesys.cc, on paths of at most   *)
(* 255 characters without spaces.  A path is a sequence of characters.     *)
(***************************************************************************)
EXTENDS Arrays

Throws == <<"path_incorrect_exception">>

\* What is left of p when only some places are kept
Kept(p, places) == FlattenSeq([i \in DOMAIN p |-> IF i \in places THEN <<p[i]>> ELSE <<>>])

\* Every run of "/" becomes one; a first "/" is not counted to any run.
FormatPath(p) == Kept(p, {i \in DOMAIN p :
                              ~(/\ i > 1 /\ p[i] = "/" /\ p[i - 1] = "/"
                                /\ i > 2 \/ p[1] # "/")})

Reads(p, i, s) == i + Len(s) - 1 <= Len(p) /\ SubSeq(p, i, i + Len(s) - 1) = s
Parent == <<"/", ".", ".">>

\* The matches <<first, last>> of "[^/]+/../" and of "/[^/]+/.."
NamesBefore(p, first) == {last \in first .. Len(p) : /\ \A k \in first .. last : p[k] # "/"
                                                     /\ Reads(p, last + 1, Parent)}
NameParentSlash(p) == {<<i, j + 4>> : <<i, j>> \in
                          {m \in (1 .. Len(p)) \X (1 .. Len(p)) :
                              m[2] \in NamesBefore(p, m[1]) /\ Reads(p, m[2] + 1, Append(Parent, "/"))}}
SlashNameParent(p) == {<<i - 1, j + 3>> : <<i, j>> \in
                          {m \in (2 .. Len(p)) \X (2 .. Len(p)) :
                              p[m[1] - 1] = "/" /\ m[2] \in NamesBefore(p, m[1])}}

\* The first of the matches is cut out.
CutFirst(p, matches) == LET m == CHOOSE m \in matches : \A o \in matches : m[1] <= o[1]
                        IN  SubSeq(p, 1, m[1] - 1) \o SubSeq(p, m[2] + 1, Len(p))

\* A parent is cut with whatever stands before it, "." and ".." included.
RECURSIVE CutParents(_)
CutParents(p) ==
    IF p = Throws \/ ~\E i \in 1 .. Len(p) - 1 : Reads(p, i, <<".", ".">>) THEN p
    ELSE IF NameParentSlash(p) # {} THEN CutParents(CutFirst(p, NameParentSlash(p)))
    ELSE IF SlashNameParent(p) # {} THEN CutParents(CutFirst(p, SlashNameParent(p)))
    ELSE Throws

\* All of the pairs s are cut out.
CutAll(p, s) == Kept(p, {i \in DOMAIN p : ~Reads(p, i, s) /\ ~(i > 1 /\ Reads(p, i - 1, s))})

RECURSIVE CutDots(_)
CutDots(p) ==
    IF p = Throws \/ "." \notin Range(p) THEN p
    ELSE IF CutAll(p, <<"/", ".">>) # p THEN CutDots(CutAll(p, <<"/", ".">>))
    ELSE IF CutAll(p, <<".", "/">>) # p THEN CutDots(CutAll(p, <<".", "/">>))
    ELSE Throws

FlatPathOf(p) == CutDots(CutParents(FormatPath(p)))
=============================================================================
