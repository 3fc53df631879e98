----------------------------- MODULE ThinkFilter -----------------------------
(***************************************************************************)
(* orchestration/chat.py, _ThinkFilter: the spans between an opening and a *)
(* closing tag are taken out of a stream that arrives in arbitrary pieces. *)
(* Text is a sequence of characters.  feed()'s loop takes one step per     *)
(* iteration.                                                              *)
(***************************************************************************)
EXTENDS Integers, SequencesExt

CONSTANTS
    Chars,
    OpenTag, CloseTag,
    MaxInput,       \* bound on the text of a stream
    MaxPiece        \* bound on one piece of it

ASSUME ConstantsAssumption ==
    /\ OpenTag \in Seq(Chars) \ {<<>>} /\ CloseTag \in Seq(Chars) \ {<<>>}
    /\ MaxInput \in Nat /\ MaxPiece \in Nat

Drop(s, n) == SubSeq(s, n + 1, Len(s))

VARIABLES
    input,          \* the text received so far
    buf,            \* self._buf
    inside,         \* self._inside
    out,            \* the text made visible so far
    feeding         \* feed() has not returned

vars == <<input, buf, inside, out, feeding>>

TypeOK ==
    /\ input \in Seq(Chars) /\ Len(input) <= MaxInput
    /\ buf \in Seq(Chars) /\ out \in Seq(Chars)
    /\ inside \in BOOLEAN /\ feeding \in BOOLEAN
    /\ Len(out) + Len(buf) <= Len(input)    \* nothing is shown twice

Init ==
    /\ input = <<>> /\ buf = <<>> /\ out = <<>>
    /\ inside = FALSE /\ feeding = FALSE

-----------------------------------------------------------------------------
Feed(piece) ==
    /\ ~feeding
    /\ Len(input) + Len(piece) <= MaxInput
    /\ input' = input \o piece
    /\ buf' = buf \o piece
    /\ feeding' = TRUE
    /\ UNCHANGED <<inside, out>>

Tag == IF inside THEN CloseTag ELSE OpenTag

\* str.find, counted from 1; 0 when there is none.
Find(text, tag) ==
    LET found == {i \in 1..(Len(text) - Len(tag) + 1) :
                    SubSeq(text, i, i + Len(tag) - 1) = tag}
    IN IF found = {} THEN 0 ELSE Min(found)

\* WRONG: only whole tags are looked for.
WrongOverlap(text, tag) == 0

\* The longest suffix of the text that is a proper prefix of the tag.
SuffixOverlap(text, tag) ==
    Max({k \in 0..(Len(tag) - 1) : IsSuffix(SubSeq(tag, 1, k), text)})

\* A tag is found: the text before it is shown, or skipped, and the tag taken.
AtTag ==
    LET i == Find(buf, Tag) IN
    /\ feeding /\ buf # <<>> /\ i > 0
    /\ out' = IF inside THEN out ELSE out \o SubSeq(buf, 1, i - 1)
    /\ buf' = Drop(buf, i + Len(Tag) - 1)
    /\ inside' = ~inside
    /\ UNCHANGED <<input, feeding>>

\* WRONG: the loop goes on as long as anything is held back.
WrongNoTag ==
    LET cut == Len(buf) - SuffixOverlap(buf, Tag) IN
    /\ feeding /\ buf # <<>> /\ Find(buf, Tag) = 0
    /\ out' = IF inside THEN out ELSE out \o SubSeq(buf, 1, cut)
    /\ buf' = Drop(buf, cut)
    /\ UNCHANGED <<input, inside, feeding>>

\* WRONG: from the first character of a tag on, everything is kept.
WrongNoTagGreedy ==
    LET first == Find(buf, SubSeq(Tag, 1, 1))
        cut == IF first = 0 THEN Len(buf) ELSE first - 1
    IN
    /\ feeding /\ buf # <<>> /\ Find(buf, Tag) = 0
    /\ out' = IF inside THEN out ELSE out \o SubSeq(buf, 1, cut)
    /\ buf' = Drop(buf, cut)
    /\ feeding' = FALSE
    /\ UNCHANGED <<input, inside>>

\* None is found: what may be the start of one is kept, and feed returns.
NoTag ==
    LET cut == Len(buf) - SuffixOverlap(buf, Tag) IN
    /\ feeding /\ buf # <<>> /\ Find(buf, Tag) = 0
    /\ out' = IF inside THEN out ELSE out \o SubSeq(buf, 1, cut)
    /\ buf' = Drop(buf, cut)
    /\ feeding' = FALSE
    /\ UNCHANGED <<input, inside>>

Exhausted ==
    /\ feeding /\ buf = <<>>
    /\ feeding' = FALSE
    /\ UNCHANGED <<input, buf, inside, out>>

\* flush(), at the end of the stream.
Flush == IF inside THEN <<>> ELSE buf

Iterate == AtTag \/ NoTag \/ Exhausted

-----------------------------------------------------------------------------
(* What the filter is to compute, on the whole text at once                *)

At(tag, text, i) == IsPrefix(tag, Drop(text, i - 1))

\* What is visible of the text from its i-th character on, in a span or not, when
\* rest says so of the characters after it.
VisibleFrom(text, rest, i, hidden) ==
    IF i > Len(text) THEN <<>>
    ELSE IF ~hidden /\ At(OpenTag, text, i) THEN rest[<<i + Len(OpenTag), TRUE>>]
    ELSE IF hidden /\ At(CloseTag, text, i) THEN rest[<<i + Len(CloseTag), FALSE>>]
    ELSE (IF hidden THEN <<>> ELSE <<text[i]>>) \o rest[<<i + 1, hidden>>]

Visible(text) ==
    LET rest[p \in (1..(Len(text) + 1)) \X BOOLEAN] == VisibleFrom(text, rest, p[1], p[2])
    IN rest

\* The text without its spans, its end closing an open one.
Strip(text) == Visible(text)[<<1, FALSE>>]

\* No text waits that can be shown: only the beginning of a tag is held.
HoldsOnlyATag == ~feeding => IsStrictPrefix(buf, Tag)

\* feed returns, whatever it is given.
FeedReturns == feeding ~> ~feeding
=============================================================================
