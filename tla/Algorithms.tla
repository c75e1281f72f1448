----------------------------- MODULE Algorithms -----------------------------
(***************************************************************************)
(* The sequential code of the repository against reference definitions:    *)
(* a step picks an input, small and otherwise arbitrary, or gives an MD5    *)
(* object the next piece of its message, and each property compares what   *)
(* the code makes of it with what it should be.                            *)
(***************************************************************************)
EXTENDS Sorts, Heaps, SearchTree, Routes, Texts, FlatPath, JsonParser, Digests

CONSTANTS
    Numbers, MaxLength,     \* arrays to sort
    MaxValue, MaxLists,     \* values in lists, heaps and trees; lists merged
    MaxMessage,             \* the longest message to digest
    Weights                 \* of edges and roads, all less than INF

ASSUME WeightsAssumption == \A w \in Weights : 0 < w /\ 3 * w < INF

VARIABLES topic, input
vars == <<topic, input, md5Vars>>

Values == 1 .. MaxValue
Ascending(s) == \A i \in 1 .. Len(s) - 1 : s[i] <= s[i + 1]
SortedLists == {s \in SeqsOf(Values, 1, 3) : Ascending(s)}

Graphs3 == {g \in [1 .. 3 -> [1 .. 3 -> Weights \cup {0, INF}]] :
                \A i, j \in 1 .. 3 : i = j <=> g[i][j] = 0}

\* Four roads between four places, the lightest first
Roads == {r \in [1 .. 4 -> [a : 1 .. 4, b : 1 .. 4, w : Weights]] :
              \A i \in 1 .. 4 : r[i].a < r[i].b /\ (i < 4 => r[i].w <= r[i + 1].w)}

Component == {<<"a">>, <<"b">>, <<".">>, <<".", ".">>}

\* Small JSON values; the texts are a bare one and a quoted one.
Bare == [kind |-> "text", value |-> <<"n">>, bare |-> TRUE]
Quoted == [kind |-> "text", value |-> <<"s">>, bare |-> FALSE]
Lists(S) == {List(l) : l \in SeqsOf(S, 0, 2)}
Objects(S) == {Object({})} \cup {Object({<<<<"k">>, v>>}) : v \in S}
              \cup {Object({<<<<"k">>, v>>, <<<<"l">>, w>>}) : v, w \in S}
Simple == {Bare, Quoted}
Documents == Objects(Simple \cup Lists(Simple) \cup Objects(Simple))

Init == topic = "none" /\ input = <<>> /\ Md5Init

Pick(t, inputs) == topic = "none" /\ topic' = t /\ input' \in inputs /\ UNCHANGED md5Vars

\* The next n numbers go to an MD5 object.  Bound: MaxMessage.
Feed(n) == /\ topic \in {"none", "digest"} /\ topic' = "digest"
           /\ Len(message) + n <= MaxMessage
           /\ Md5Update(Up(Len(message) + 1, Len(message) + n))
           /\ UNCHANGED input

Next == \/ \E n \in 0 .. 2 * Block + 1 : Feed(n)
        \/ Pick("sort", SeqsOf(Numbers, 1, MaxLength))
        \/ Pick("merge", SeqsOf(SortedLists, 1, MaxLists))
        \/ Pick("heap", (1 .. 3) \X SeqsOf(Values, 1, MaxLength))
        \/ Pick("tree", SeqsOf(1 .. 5, 1, 5) \X (1 .. 5))
        \/ Pick("graph", Graphs3)
        \/ Pick("roads", Roads)
        \/ Pick("search", SeqsOf({"a", "b"}, 0, 6) \X SeqsOf({"a", "b"}, 1, 4))
        \/ Pick("bytes", SeqsOf({"a", "b", High}, 1, MaxLength))
        \/ Pick("utf8", SeqsOf({"a", " ", "tab", "lead2", "lead3", "cont", "rare"}, 0, MaxLength - 1))
        \/ Pick("path", {<<>>, <<"/">>} \X SeqsOf(Component, 1, MaxLength) \X (1 .. 2))
        \/ Pick("json", Documents \X BOOLEAN)

Spec == Init /\ [][Next]_vars

-----------------------------------------------------------------------------
(* Properties *)

\* Every sort returns the sorted array, whatever the array's order and
\* however often a number is in it.
SortsSort == topic = "sort" => Sorted(input) = {SortSeq(input, <)}

\* The merge prints every element of every list.  When a list has ended the
\* next insert into a CustomHeap finds it below its capacity and only fills it
\* up: the root it should replace is printed once more.  A CustomMaxHeap prints
\* every element once.  Either fix_heap keeps the order of two lists, not of
\* three.
Occurrences(s, v) == Cardinality({i \in DOMAIN s : s[i] = v})

MergeLosesNothing ==
    topic = "merge" =>
        LET out == MergeLists(input, FALSE)
            max == MergeLists(input, TRUE)
            all == FlattenSeq(input)
        IN  /\ \A v \in Values : /\ Occurrences(out, v) >= Occurrences(all, v)
                                 /\ Occurrences(max, v) = Occurrences(all, v)
            /\ Len(input) < 3 => Ascending(out) /\ Ascending(max) /\ Len(out) < Len(all) + Len(input)

\* A MinHeap of at most three items holds the largest ones; build_heap makes
\* no heap of more.
KeepsLargest ==
    topic = "heap" =>
        LET n    == Len(input[2])
            kept == IF n < input[1] THEN n ELSE input[1]
        IN  SortSeq(Largest(input[2], input[1]), <) = SubSeq(SortSeq(input[2], <), n - kept + 1, n)

\* The tree of any values lists them in order and finds exactly them, and so
\* does what is left of it when a node with two children is deleted, without a
\* node being freed.  Any other node that is deleted is freed, and no other;
\* what the tree is then is not claimed, since its parent still points to it.
TreeKeepsOrder ==
    topic = "tree" =>
        LET t == BSTCreate(input[1])
            d == input[2]
            x == BSTSearch(t, t.root, d)
            u == BSTDelete(t, d)
            values == ToSet(input[1])
        IN  /\ InOrder(t, t.root) = SetToSortSeq(values, <)
            /\ x # 0 <=> d \in values
            /\ IF x = 0 THEN u = t
               ELSE IF t.left[x] # 0 /\ t.right[x] # 0
               THEN u.freed = {} /\ InOrder(u, u.root) = SetToSortSeq(values \ {d}, <)
               ELSE u.freed = {x}

\* The heaps and the search tree, together
TreesKeep == MergeLosesNothing /\ KeepsLargest /\ TreeKeepsOrder

\* Dijkstra, from a vertex with an edge, and Floyd find the least weight of a
\* path, and their path arrays lead along such a path.
Weight(g, p) == FoldLeft(LAMBDA w, i : w + g[p[i]][p[i + 1]], 0, Up(1, Len(p) - 1))
Shortest(g, i, j) == Min({INF} \cup {Weight(g, <<i>> \o p \o <<j>>) : p \in SeqsOf(Vertices(g), 0, Len(g) - 2)})

RoutesAgree ==
    topic = "graph" =>
        /\ LET f == Floyd(input)
           IN  \A i, j \in Vertices(input) :
                   /\ f.A[i][j] = Shortest(input, i, j)
                   /\ LET k == f.Path[i][j] IN k # -1 => f.A[i][j] = f.A[i][k] + f.A[k][j]
        /\ \A v \in {u \in Vertices(input) : Starts(input, u)} :
               LET d == Dijkstra(input, v)
               IN  \A j \in Vertices(input) \ {v} :
                       /\ d.dist[j] = Shortest(input, v, j)
                       /\ d.dist[j] < INF => d.dist[j] = d.dist[d.path[j]] + input[d.path[j]][j]

\* Kruskal's sum is the least weight of a spanning tree when its caller has
\* made every place its own root, sorted the roads, and the first n - 1 roads
\* are one.  Of any other call nothing is claimed.
Spans(roads) == \A S \in SUBSET (1 .. 4) \ {{}, 1 .. 4} :
                    \E i \in DOMAIN roads : roads[i].a \in S <=> roads[i].b \notin S

SpanningWeights(roads) ==
    {roads[s[1]].w + roads[s[2]].w + roads[s[3]].w :
         s \in {q \in [1 .. 3 -> 1 .. 4] : Spans([i \in 1 .. 3 |-> roads[q[i]]])}}

OwnRoots == [i \in 1 .. 4 |-> i]

KruskalSpans ==
    topic = "roads" /\ Spans(SubSeq(input, 1, 3)) =>
        Kruskal(OwnRoots, 4, input).sum = Min(SpanningWeights(input))

\* The searches in graphs, together
GraphsAgree == RoutesAgree /\ KruskalSpans

\* Both searches find the first place of the pattern.
Occurs(s, t, i) == SubSeq(s, i + 1, i + Len(t)) = t
SearchFindsFirst ==
    topic = "search" =>
        LET s == input[1]
            t == input[2]
            places == {i \in 0 .. Len(s) - Len(t) : Occurs(s, t, i)}
            first  == IF places = {} THEN -1 ELSE Min(places)
        IN  KmpSearch(s, t) = first /\ CharactorSearch(s, t) = first

\* Text of bytes below 0x80 is read as itself, one character a byte, although
\* each byte is held until the next one is seen.  Of text with other bytes
\* nothing is claimed.
GbkReadsAscii ==
    topic = "bytes" /\ High \notin ToSet(input) =>
        PreProcessGBK(input) = [valid |-> TRUE, chars |-> [i \in DOMAIN input |-> <<input[i]>>]]

\* Exactly the texts, not empty, of whole characters of at most three bytes
\* that GBK has are encoded, each character once, and of the result everything
\* behind the first white space other than " " is lost.  One character that
\* GBK has not, or that is cut off, makes the whole text refused.
Characters == {<<"a">>, <<" ">>, <<"tab">>, <<"lead2", "cont">>, <<"lead3", "cont", "cont">>}
Encoded(ch) == CASE ch = <<" ">> -> "%20" [] Len(ch) > 1 -> "%gbk" [] OTHER -> ch[1]

EncodesCharacters ==
    topic = "utf8" =>
        LET r == ConvertToEncode(input)
            texts == {t \in SeqsOf(Characters, 1, Len(input)) : FlattenSeq(t) = input}
        IN  /\ r.ret <=> texts # {}
            /\ \A t \in texts :
                   LET e == [i \in DOMAIN t |-> Encoded(t[i])]
                   IN  IF "tab" \notin Range(e) THEN r.dst = e ELSE Len(r.dst) < Len(e) /\ "tab" \notin Range(r.dst)

\* A path whose names have no "." in them is flattened to its normal form if
\* that has a name and never climbs above where the path begins.  A "." before
\* a parent is left out: the parent is cut with it.
Above == << <<>> >>
Normal(comps) == FoldLeft(LAMBDA s, c : IF s = Above \/ c = <<".">> THEN s
                                        ELSE IF c # <<".", ".">> THEN Append(s, c)
                                        ELSE IF s = <<>> THEN Above ELSE Front(s), <<>>, comps)

Joined(comps, slashes) == FlattenSeq([i \in DOMAIN comps |->
                              (IF i = 1 THEN <<>> ELSE [k \in 1 .. slashes |-> "/"]) \o comps[i]])

FlatIsNormal ==
    topic = "path" =>
        LET root  == input[1]
            comps == input[2]
            DotThenParent == \E i, j \in DOMAIN comps : i < j /\ comps[i] = <<".">> /\ comps[j] = <<".", ".">>
        IN  Normal(comps) \notin {<<>>, Above} /\ ~DotThenParent
                => FlatPathOf(root \o Joined(comps, input[3])) = root \o Joined(Normal(comps), 1)

\* A document is parsed to what was written, if every bare text in it is
\* followed by a space.
RECURSIVE Written(_, _), Meant(_), HasBare(_)
Between(parts) == FlattenSeq([i \in DOMAIN parts |-> (IF i = 1 THEN <<>> ELSE <<",">>) \o parts[i]])
Written(v, spaced) ==
    CASE v.kind = "text" -> IF ~v.bare THEN <<"quote">> \o v.value \o <<"quote">>
                            ELSE IF spaced THEN Append(v.value, " ") ELSE v.value
      [] v.kind = "list" -> <<"[">> \o Between([i \in DOMAIN v.value |-> Written(v.value[i], spaced)]) \o <<"]">>
      [] OTHER -> LET es == SetToSeq(v.value)
                  IN  <<"{">> \o Between([i \in DOMAIN es |-> <<"quote">> \o es[i][1] \o <<"quote", ":">>
                                                              \o Written(es[i][2], spaced)]) \o <<"}">>
Meant(v) == CASE v.kind = "text" -> Text(v.value)
              [] v.kind = "list" -> List([i \in DOMAIN v.value |-> Meant(v.value[i])])
              [] OTHER -> Object({<<e[1], Meant(e[2])>> : e \in v.value})
HasBare(v) == CASE v.kind = "text" -> v.bare
                [] v.kind = "list" -> \E i \in DOMAIN v.value : HasBare(v.value[i])
                [] OTHER -> \E e \in v.value : HasBare(e[2])

JsonReadsSpaced ==
    topic = "json" =>
        LET v == input[1]
            spaced == input[2]
        IN  spaced \/ ~HasBare(v) => ParseJson(Written(v, spaced)).value = Meant(v)

\* MD5 is fed the padded message.  SHA1 is fed the same, up to the order of
\* the bytes of the length; when the length does not fit behind the rest of
\* the message this is claimed of all blocks but the last.
Sha1Padded == Padded(message, Reverse(Encode(HighWord(message))) \o Reverse(Encode(LowWord(message))))

DigestsPad ==
    /\ Md5Pads
    /\ IF Len(message) % Block < Block - 2 * WordBytes
       THEN Sha1Blocks(message) = Sha1Padded
       ELSE Front(Sha1Blocks(message)) = Front(Sha1Padded)

\* Between the mark and the length that PadMessage appends there are only
\* zeros, as sha1.cpp:227-236 says, also when the length takes a second block.
Sha1Pads == Sha1Blocks(message) = Sha1Padded

\* What is said of texts and messages, together
TextsAgree == SearchFindsFirst /\ GbkReadsAscii /\ EncodesCharacters
              /\ FlatIsNormal /\ JsonReadsSpaced /\ DigestsPad

=============================================================================
