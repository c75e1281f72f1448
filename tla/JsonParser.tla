------------------------------ MODULE JsonParser ------------------------------
(***************************************************************************)
(* java/JsonParser.java.  A text is a sequence of characters; a value of   *)
(* the parser is the text of a token, a sequence or a map of values.  An   *)
(* exit with an error and an index past the last token are both `Failed'.  *)
(***************************************************************************)
EXTENDS Arrays

Reserved == ("{" :> "BRACESO") @@ ("}" :> "BRACESC") @@ ("[" :> "BRACKETO") @@ ("]" :> "BRACKETC")
            @@ (":" :> "COLON") @@ ("," :> "COMMA") @@ ("quote" :> "STRING")

Token(text, type) == [text |-> text, type |-> type]

\* GetToken at place j, with its variables i, foundBeginner and type.  A
\* reserved character that follows a bare token at once is not a token: it
\* only moves i, which loses the bare token too.
RECURSIVE TokensFrom(_, _, _, _, _)
TokensFrom(s, j, i, found, type) ==
    IF j > Len(s) THEN <<>>
    ELSE IF s[j] = " "
    THEN (IF found THEN <<Token(SubSeq(s, i, j - 1), "NORMAL")>> ELSE <<>>)
         \o TokensFrom(s, j + 1, i, FALSE, IF found THEN "INIT" ELSE type)
    ELSE IF s[j] \notin DOMAIN Reserved
    THEN IF found THEN TokensFrom(s, j + 1, i, TRUE, type) ELSE TokensFrom(s, j + 1, j, TRUE, "NORMAL")
    ELSE IF s[j] # "quote"
    THEN IF type = "INIT" THEN <<Token(<<s[j]>>, Reserved[s[j]])>> \o TokensFrom(s, j + 1, i, found, type)
         ELSE TokensFrom(s, j + 1, j, found, type)
    ELSE LET before == IF type = "NORMAL" THEN <<Token(SubSeq(s, i, j - 1), "NORMAL")>> ELSE <<>>
             close  == SelectInSubSeq(s, j + 1, Len(s), LAMBDA c : c = "quote")
         IN  IF j = Len(s) THEN before
             ELSE IF close = 0 THEN <<Token(<<>>, "exit")>>
             ELSE before \o <<Token(SubSeq(s, j + 1, close - 1), "STRING")>>
                  \o TokensFrom(s, close + 1, close, found, "INIT")

GetToken(s) == TokensFrom(s, 1, 1, FALSE, "INIT")

\* What GetObject and GetArray return: a value, and the place of its last token.
Text(t)   == [kind |-> "text", value |-> t]
List(l)   == [kind |-> "list", value |-> l]
Object(m) == [kind |-> "object", value |-> m]
Failed    == [at |-> 0, value |-> Text(<<>>)]

MapPut(m, k, v) == {e \in m : e[1] # k} \cup {<<k, v>>}

RECURSIVE ObjectFrom(_, _, _), ArrayFrom(_, _, _), ValueAt(_, _)

ValueAt(ts, i) ==
    IF i > Len(ts) THEN Failed
    ELSE CASE ts[i].type = "BRACESO" /\ i < Len(ts)    -> ObjectFrom(ts, i + 1, {})
           [] ts[i].type = "BRACKETO" /\ i < Len(ts)   -> ArrayFrom(ts, i + 1, <<>>)
           [] ts[i].type \in {"STRING", "NORMAL"}      -> [at |-> i, value |-> Text(ts[i].text)]
           [] OTHER                                    -> Failed

ObjectFrom(ts, i, m) ==
    IF i > Len(ts) THEN Failed
    ELSE CASE ts[i].type = "BRACESC" -> [at |-> i, value |-> Object(m)]
           [] ts[i].type = "COMMA"   -> ObjectFrom(ts, i + 1, m)
           [] ts[i].type = "STRING" /\ i + 1 <= Len(ts) /\ ts[i + 1].type = "COLON" ->
                LET r == ValueAt(ts, i + 2)
                IN  IF r.at = 0 THEN Failed ELSE ObjectFrom(ts, r.at + 1, MapPut(m, ts[i].text, r.value))
           [] OTHER -> Failed

ArrayFrom(ts, i, l) ==
    IF i > Len(ts) THEN Failed
    ELSE CASE ts[i].type = "BRACKETC" -> [at |-> i, value |-> List(l)]
           [] ts[i].type = "COMMA"    -> ArrayFrom(ts, i + 1, l)
           [] OTHER -> LET r == ValueAt(ts, i)
                       IN  IF r.at = 0 THEN Failed ELSE ArrayFrom(ts, r.at + 1, Append(l, r.value))

\* The first token is taken for "{" whatever it is.
ParseJson(s) == LET ts == GetToken(s)
                IN  IF Len(ts) < 2 \/ \E i \in DOMAIN ts : ts[i].type = "exit" THEN Failed
                    ELSE ObjectFrom(ts, 2, {})
=============================================================================
