-------------------------------- MODULE Texts --------------------------------
(***************************************************************************)
(* kmp.cpp and dumpKMP of c++/algos: the search for a pattern in a         *)
(* sequence of characters, and how dumpKMP splits bytes into characters;   *)
(* convert_to_encoded.cpp: text in UTF-8 encoded for an URL.  Positions    *)
(* count from 0 as in the code.                                            *)
(***************************************************************************)
EXTENDS Arrays

\* get_nextval of kmp.cpp, and getNextVal of dumpKMP, which does not look at
\* whether the next characters are equal; nextval[j] is the member j + 1.
RECURSIVE NextWhile(_, _, _, _, _)
NextWhile(t, j, k, nextval, looks) ==
    IF j >= Len(t) - 1 THEN nextval
    ELSE IF k = -1 \/ t[j + 1] = t[k + 1]
         THEN NextWhile(t, j + 1, k + 1,
                        Append(nextval, IF looks /\ t[j + 2] = t[k + 2] THEN nextval[k + 2] ELSE k + 1),
                        looks)
         ELSE NextWhile(t, j, nextval[k + 1], nextval, looks)

NextVal(t, looks) == NextWhile(t, 0, -1, <<-1>>, looks)

\* The loop of kmp_search and of KMPSearch; it ends at <<i, j>>.
RECURSIVE KmpWhile(_, _, _, _, _)
KmpWhile(s, t, nextval, i, j) ==
    IF i = Len(s) \/ j = Len(t) THEN <<i, j>>
    ELSE IF j = -1 THEN KmpWhile(s, t, nextval, i + 1, 0)
    ELSE IF Len(s) - i < Len(t) - j THEN <<i, j>>
    ELSE IF s[i + 1] = t[j + 1] THEN KmpWhile(s, t, nextval, i + 1, j + 1)
    ELSE KmpWhile(s, t, nextval, i, nextval[j + 1])

\* Where t, which is not empty, begins in s, or -1
Found(t, end) == IF end[2] > 0 /\ end[2] = Len(t) THEN end[1] - end[2] ELSE -1
KmpSearch(s, t) == Found(t, KmpWhile(s, t, NextVal(t, TRUE), 0, 0))
CharactorSearch(s, t) == Found(t, KmpWhile(s, t, NextVal(t, FALSE), 0, 0))

-----------------------------------------------------------------------------
(* preProcessGBK on a little-endian machine.  A byte below 0x80 is held     *)
(* until the next one is seen, which is then looked at again; a byte that   *)
(* is not below 0x80 must follow a held one and makes a character with it.  *)
High == "high"      \* any byte from 0x80 on; every other one is below

RECURSIVE GbkWhile(_, _, _)
GbkWhile(bytes, held, chars) ==
    IF bytes = <<>> THEN [valid |-> TRUE, chars |-> chars \o (IF held = <<>> THEN <<>> ELSE <<held>>)]
    ELSE IF held = <<>>
         THEN IF Head(bytes) = High THEN [valid |-> FALSE, chars |-> chars]
              ELSE GbkWhile(Tail(bytes), <<Head(bytes)>>, chars)
         ELSE IF Head(bytes) = High THEN GbkWhile(Tail(bytes), <<>>, Append(chars, held \o <<High>>))
              ELSE GbkWhile(bytes, <<>>, Append(chars, held))

PreProcessGBK(bytes) == GbkWhile(bytes, <<>>, <<>>)

-----------------------------------------------------------------------------
(* convertToEncode where char is signed.  Bytes are " ", "tab" for any other *)
(* white space, other ASCII, the lead bytes of characters of two and three  *)
(* bytes, and the bytes that follow them: "cont", or "rare" in a character  *)
(* that UTF-8 has and GBK has not.                                          *)
Ascii == {" ", "tab", "a"}
Follow(b) == CASE b = "lead2" -> 1 [] b = "lead3" -> 2 [] OTHER -> 0

\* iconv from UTF-8 to GBK accepts one whole character that GBK has, which
\* urlEncode then writes as "%" and the digits of its bytes; of any other
\* bytes it returns -1, and convertCore false.
Converts(bytes) == /\ Follow(Head(bytes)) = Len(bytes) - 1
                   /\ \A i \in 2 .. Len(bytes) : bytes[i] = "cont"

\* encodeSub asks whether there are enough bytes left, and returns false with
\* convertCore; the text is then refused.
RECURSIVE EncodeFrom(_, _)
EncodeFrom(s, ss) ==
    LET n == Follow(Head(s)) + 1
    IN  IF s = <<>> THEN [ret |-> TRUE, ss |-> ss]
        ELSE IF Head(s) \in Ascii THEN EncodeFrom(Tail(s), Append(ss, IF Head(s) = " " THEN "%20" ELSE Head(s)))
        ELSE IF n > 1 /\ n <= Len(s) /\ Converts(SubSeq(s, 1, n))
             THEN EncodeFrom(SubSeq(s, n + 1, Len(s)), Append(ss, "%gbk"))
        ELSE [ret |-> FALSE, ss |-> <<>>]

\* ss >> dstStr takes the first word only.
FirstWord(ss) == LET begins == SelectInSubSeq(ss, 1, Len(ss), LAMBDA x : x # "tab")
                     ends   == SelectInSubSeq(ss, begins, Len(ss), LAMBDA x : x = "tab")
                 IN  IF begins = 0 THEN <<>> ELSE SubSeq(ss, begins, IF ends = 0 THEN Len(ss) ELSE ends - 1)

ConvertToEncode(s) == LET e == EncodeFrom(s, <<>>)
                      IN  [ret |-> e.ret /\ s # <<>>, dst |-> FirstWord(e.ss)]
=============================================================================
