------------------------------- MODULE Digests -------------------------------
(***************************************************************************)
(* How md5.cpp and sha1.cpp of c++/utils/hash cut a message into blocks,   *)
(* pad it and count its bits.  What a block does to the digest is left     *)
(* out: a context has the sequence of the blocks it was fed.  The length   *)
(* of the message, two words, takes the last bytes of a block.             *)
(***************************************************************************)
EXTENDS Arrays

CONSTANTS
    Block,      \* bytes in a block, 64 in the code
    Word,       \* values of a word of the counter, 2^32 in the code
    WordBytes   \* bytes in a word of the counter, 4 in the code

ASSUME BlockAssumption == Block \in Nat /\ Block > 2
ASSUME WordAssumption == \E u \in 1 .. Word : Word = 8 * (Block * u)
ASSUME LengthAssumption == WordBytes \in Nat /\ 2 * WordBytes < Block

Mark == 128             \* the byte 0x80
Zeros(n) == [i \in 1 .. n |-> 0]

\* The bytes of a word, the lowest first
Encode(word) == [i \in 1 .. WordBytes |-> (word \div 256 ^ (i - 1)) % 256]

\* memcpy(&a[index], s, Len(s))
CopyTo(a, index, s) == [i \in DOMAIN a |-> IF i - index \in DOMAIN s THEN s[i - index] ELSE a[i]]

\* The counter after n more bytes: a sum less than what was added has wrapped.
Count(c, n) ==
    LET bits == (8 * n) % Word
        sum  == (c.low + bits) % Word
    IN  [c EXCEPT !.low = sum,
                  !.high = (@ + (IF sum < bits THEN 1 ELSE 0) + (n \div (Word \div 8))) % Word]

(* MD5 *)
New == [blocks |-> <<>>, buffer |-> Zeros(Block), low |-> 0, high |-> 0]

Index(c) == (c.low \div 8) % Block

Update(c, input) ==
    LET first == Block - Index(c)
        more  == (Len(input) - first) \div Block
        i     == first + more * Block
    IN  IF Len(input) < first
        THEN [Count(c, Len(input)) EXCEPT !.buffer = CopyTo(@, Index(c), input)]
        ELSE [Count(c, Len(input)) EXCEPT
                 !.blocks = @ \o <<CopyTo(c.buffer, Index(c), SubSeq(input, 1, first))>>
                              \o [k \in 1 .. more |-> SubSeq(input, first + (k - 1) * Block + 1, first + k * Block)],
                 !.buffer = CopyTo(CopyTo(@, Index(c), SubSeq(input, 1, first)),
                                   0, SubSeq(input, i + 1, Len(input)))]

Finalize_OneLate(c) ==
    LET end    == Block - 2 * WordBytes
        padLen == IF Index(c) <= end THEN end - Index(c) ELSE end + Block - Index(c)
    IN  Update(Update(c, SubSeq(<<Mark>> \o Zeros(padLen), 1, padLen)), Encode(c.low) \o Encode(c.high)).blocks
Finalize(c) ==
    LET end    == Block - 2 * WordBytes
        padLen == IF Index(c) < end THEN end - Index(c) ELSE end + Block - Index(c)
    IN  Update(Update(c, <<Mark>> \o Zeros(padLen - 1)), Encode(c.low) \o Encode(c.high)).blocks

VARIABLES
    context,    \* of an MD5 object
    message     \* what the object was given so far
md5Vars == <<context, message>>

Md5Init == context = New /\ message = <<>>
Md5Update(input) == context' = Update(context, input) /\ message' = message \o input
Md5Spec == Md5Init /\ [][\E input \in Seq(Nat) : Md5Update(input)]_md5Vars

(* SHA1 *)
\* The index is not reset after the first of two blocks, so the second keeps
\* what was in the first up to the length.
PadMessage(c, n) ==
    LET end    == Block - 2 * WordBytes
        marked == CopyTo(c.buffer, n, <<Mark>> \o Zeros(Block - n - 1))
        blocks == IF n >= end THEN Append(c.blocks, marked) ELSE c.blocks
    IN  Append(blocks, CopyTo(marked, end, Reverse(Encode(c.high)) \o Reverse(Encode(c.low))))

Sha1Blocks(data) ==
    LET n    == Len(data)
        Whole(c, k) == [Count(c, Block) EXCEPT !.blocks = Append(@, SubSeq(data, (k - 1) * Block + 1, k * Block))]
        done == FoldLeft(Whole, New, Up(1, n \div Block))
        rest == SubSeq(data, (n \div Block) * Block + 1, n)
    IN  PadMessage([Count(done, Len(rest)) EXCEPT !.buffer = CopyTo(Zeros(Block), 0, rest)], Len(rest))

-----------------------------------------------------------------------------
BlocksOf(m) == [k \in 1 .. Len(m) \div Block |-> SubSeq(m, (k - 1) * Block + 1, k * Block)]

Padded(m, length) ==
    LET zeros == CHOOSE z \in 0 .. Block - 1 : (Len(m) + 1 + Len(length) + z) % Block = 0
    IN  BlocksOf(m \o <<Mark>> \o Zeros(zeros) \o length)

LowWord(m)  == (8 * Len(m)) % Word
HighWord(m) == ((8 * Len(m)) \div Word) % Word

\* However a message is cut into updates, MD5 is fed the padded message, with
\* its length in bits over both words.
Md5Pads == Finalize(context) = Padded(message, Encode(LowWord(message)) \o Encode(HighWord(message)))
=============================================================================
