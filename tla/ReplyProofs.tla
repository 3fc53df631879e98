----------------------------- MODULE ReplyProofs -----------------------------
(***************************************************************************)
(* The stream filter computes the stripped text, for any two tags, any     *)
(* text and however it is cut into pieces; and a reply is counted once.    *)
(*                                                                         *)
(* What the reference function Visible says of a text is proved by         *)
(* induction on its positions.  Induction is used in the form of a set of  *)
(* naturals: no fact with an operator parameter is needed.                 *)
(***************************************************************************)
EXTENDS Reply, SequenceTheorems, WellFoundedInduction, TLAPS

-----------------------------------------------------------------------------
(* Naturals                                                                *)

LEMMA LeastExists ==
    ASSUME NEW S \in SUBSET Nat, S # {}
    PROVE  \E x \in S : \A y \in S : x <= y
<1> DEFINE R == OpToRel(<, Nat)
<1>1. R = {ss \in Nat \X Nat : ss[1] < ss[2]}
  BY DEF OpToRel
<1>2. IsWellFoundedOn(R, Nat)
  BY NatLessThanWellFounded
<1>3. \A x, y \in Nat : <<y, x>> \in R <=> y < x
  BY <1>1
<1> HIDE DEF R
<1>4. PICK x \in S : \A y \in S : ~ (<<y, x>> \in R)
  BY <1>2, WFMin
<1>5. ASSUME NEW y \in S PROVE x <= y
  <2>1. ~ (y < x)
    BY <1>3, <1>4
  <2> QED BY <2>1
<1> QED BY <1>5

LEMMA SetInduction ==
    ASSUME NEW T \in SUBSET Nat, 0 \in T, \A n \in T : n + 1 \in T
    PROVE  T = Nat
<1>1. ASSUME NEW x \in Nat \ T, \A y \in Nat \ T : x <= y
      PROVE  FALSE
  <2>1. x - 1 \in T
    BY <1>1
  <2> QED BY <1>1, <2>1
<1> QED BY <1>1, LeastExists

\* The least of a set of naturals, and the greatest of a bounded one.
LEMMA MinIs ==
    ASSUME NEW S \in SUBSET Nat, S # {}
    PROVE  Min(S) \in S /\ \A y \in S : Min(S) <= y
  BY LeastExists DEF Min

LEMMA MaxIs ==
    ASSUME NEW n \in Nat, NEW S \in SUBSET (0..n), S # {}
    PROVE  Max(S) \in S /\ \A y \in S : y <= Max(S)
<1> DEFINE T == {n - y : y \in S}
<1>1. T \in SUBSET Nat /\ T # {}
  <2>1. \A y \in S : n - y \in Nat
    OBVIOUS
  <2> QED BY <2>1
<1>2. PICK x \in T : \A y \in T : x <= y
  BY <1>1, LeastExists
<1>3. PICK z \in S : x = n - z
  BY <1>2
<1>4. \A y \in S : z >= y
  <2> TAKE y \in S
  <2>1. n - z <= n - y
    BY <1>2, <1>3
  <2> QED BY <2>1
<1> QED BY <1>4 DEF Max

-----------------------------------------------------------------------------
(* Texts                                                                   *)

LEMMA Dropped ==
    ASSUME NEW s \in Seq(Chars), NEW n \in 0..Len(s)
    PROVE  /\ Drop(s, n) \in Seq(Chars)
           /\ Len(Drop(s, n)) = Len(s) - n
           /\ \A k \in 1..(Len(s) - n) : Drop(s, n)[k] = s[n + k]
<1>1. \A k \in (n + 1)..Len(s) : s[k] \in Chars
  BY LenProperties, ElementOfSeq
<1> QED BY <1>1, SubSeqProperties DEF Drop

LEMMA PrefixIs ==
    ASSUME NEW s \in Seq(Chars), NEW t \in Seq(Chars)
    PROVE  IsPrefix(s, t) <=> Len(s) <= Len(t) /\ \A k \in 1..Len(s) : s[k] = t[k]
<1>1. SubSeq(s, 1, Len(s)) = s
  BY SubSeqFull
<1>2. ASSUME Len(s) <= Len(t)
      PROVE  /\ SubSeq(t, 1, Len(s)) \in Seq(Chars)
             /\ Len(SubSeq(t, 1, Len(s))) = Len(s)
             /\ \A k \in 1..Len(s) : SubSeq(t, 1, Len(s))[k] = t[k]
  <2>1. \A k \in 1..Len(s) : t[k] \in Chars
    BY <1>2, LenProperties, ElementOfSeq
  <2> QED BY <2>1, LenProperties, SubSeqProperties
<1>3. ASSUME Len(s) <= Len(t), \A k \in 1..Len(s) : s[k] = t[k]
      PROVE  s = SubSeq(t, 1, Len(s))
  BY <1>2, <1>3, SeqEqual
<1> QED BY <1>1, <1>2, <1>3 DEF IsPrefix

\* A tag stands at a position when it fits there and its characters do.
LEMMA AtIs ==
    ASSUME NEW tag \in Seq(Chars), NEW text \in Seq(Chars), NEW i \in 1..(Len(text) + 1)
    PROVE  At(tag, text, i) <=> /\ i + Len(tag) - 1 <= Len(text)
                                /\ \A k \in 1..Len(tag) : text[i + k - 1] = tag[k]
<1> DEFINE d == Drop(text, i - 1)
<1>3. Len(tag) \in Nat /\ Len(text) \in Nat
  BY LenProperties
<1>0. i - 1 \in 0..Len(text)
  BY <1>3
<1>1. d \in Seq(Chars) /\ Len(d) = Len(text) - (i - 1) /\ \A k \in 1..Len(d) : d[k] = text[(i - 1) + k]
  BY <1>0, Dropped
<1>2. At(tag, text, i) <=> Len(tag) <= Len(d) /\ \A k \in 1..Len(tag) : tag[k] = d[k]
  BY <1>1, PrefixIs DEF At
<1> HIDE DEF d
<1>4. ASSUME Len(tag) <= Len(d)
      PROVE  \A k \in 1..Len(tag) : d[k] = text[i + k - 1]
  <2> TAKE k \in 1..Len(tag)
  <2>1. k \in 1..Len(d) /\ (i - 1) + k = i + k - 1
    BY <1>1, <1>3, <1>4
  <2> QED BY <1>1, <2>1
<1> QED BY <1>1, <1>2, <1>3, <1>4

\* str.find finds the first place where the tag stands, or that there is none.
LEMMA FindIs ==
    ASSUME NEW tag \in Seq(Chars), tag # <<>>, NEW text \in Seq(Chars)
    PROVE  LET i == Find(text, tag) IN
           /\ i = 0 => \A j \in 1..Len(text) : ~ At(tag, text, j)
           /\ i # 0 => /\ i \in 1..Len(text) /\ At(tag, text, i)
                       /\ \A j \in 1..(i - 1) : ~ At(tag, text, j)
<1> DEFINE found == {i \in 1..(Len(text) - Len(tag) + 1) : SubSeq(text, i, i + Len(tag) - 1) = tag}
<1>1. Len(tag) \in Nat \ {0} /\ Len(text) \in Nat
  BY EmptySeq, LenProperties
<1>2. ASSUME NEW i \in 1..(Len(text) - Len(tag) + 1)
      PROVE  SubSeq(text, i, i + Len(tag) - 1) = tag <=> At(tag, text, i)
  <2> DEFINE piece == SubSeq(text, i, i + Len(tag) - 1)
  <2>1. \A k \in i..(i + Len(tag) - 1) : text[k] \in Chars
    BY <1>1, LenProperties, ElementOfSeq
  <2>2. /\ piece \in Seq(Chars) /\ Len(piece) = Len(tag)
        /\ \A k \in 1..Len(tag) : piece[k] = text[i + k - 1]
    BY <1>1, <2>1, SubSeqProperties
  <2> HIDE DEF piece
  <2>3. piece = tag <=> \A k \in 1..Len(tag) : piece[k] = tag[k]
    BY <2>2, SeqEqual
  <2>4. i \in 1..(Len(text) + 1) /\ i + Len(tag) - 1 <= Len(text)
    BY <1>1
  <2>5. piece = tag <=> At(tag, text, i)
    BY <2>2, <2>3, <2>4, AtIs
  <2> QED BY <2>5 DEF piece
<1>3. \A i \in 1..Len(text) : At(tag, text, i) => i \in 1..(Len(text) - Len(tag) + 1)
  BY <1>1, AtIs
<1>4. \A i \in 1..Len(text) : i \in found <=> At(tag, text, i)
  BY <1>2, <1>3
<1>5. found \in SUBSET Nat /\ found \subseteq 1..Len(text) /\ 0 \notin found
  BY <1>1
<1>6. Find(text, tag) = IF found = {} THEN 0 ELSE Min(found)
  BY DEF Find
<1> HIDE DEF found
<1>7. CASE found = {}
  BY <1>4, <1>6, <1>7
<1>8. CASE found # {}
  <2> DEFINE i == Min(found)
  <2>1. i \in found /\ \A j \in found : i <= j
    BY <1>5, <1>8, MinIs
  <2>2. Find(text, tag) = i
    BY <1>6, <1>8
  <2> HIDE DEF i
  <2>3. i \in 1..Len(text) /\ i # 0
    BY <1>5, <2>1
  <2>4. \A j \in 1..(i - 1) : j \in 1..Len(text) /\ ~ (i <= j)
    BY <1>1, <2>3
  <2> QED BY <1>4, <2>1, <2>2, <2>3, <2>4
<1> QED BY <1>7, <1>8

LEMMA SuffixIs ==
    ASSUME NEW s \in Seq(Chars), NEW t \in Seq(Chars)
    PROVE  IsSuffix(s, t) <=>
              /\ Len(s) <= Len(t)
              /\ \A k \in 1..Len(s) : s[k] = t[Len(t) - Len(s) + k]
<1>1. Len(s) \in Nat /\ Len(t) \in Nat
  BY LenProperties
<1>2. ASSUME NEW u \in Seq(Chars)
      PROVE  /\ Reverse(u) \in Seq(Chars) /\ Len(Reverse(u)) = Len(u)
             /\ \A k \in 1..Len(u) : Reverse(u)[k] = u[(Len(u) - k) + 1]
  <2>1. Len(u) \in Nat /\ \A k \in 1..Len(u) : u[(Len(u) - k) + 1] \in Chars
    BY LenProperties, ElementOfSeq
  <2>2. Reverse(u) \in [1..Len(u) -> Chars]
    BY <2>1 DEF Reverse
  <2>3. Reverse(u) \in Seq(Chars)
    BY <2>1, <2>2, SeqDef, SMTT(60)
  <2>4. Len(Reverse(u)) = Len(u)
    BY <2>1, <2>2, <2>3, LenProperties
  <2> QED BY <2>1, <2>3, <2>4, SMTT(60) DEF Reverse
<1>3. IsSuffix(s, t) <=> Len(s) <= Len(t) /\ \A k \in 1..Len(s) : Reverse(s)[k] = Reverse(t)[k]
  BY <1>2, PrefixIs DEF IsSuffix
<1>4. ASSUME Len(s) <= Len(t), \A k \in 1..Len(s) : Reverse(s)[k] = Reverse(t)[k], NEW k \in 1..Len(s)
      PROVE  s[k] = t[Len(t) - Len(s) + k]
  <2> DEFINE m == Len(s) - k + 1
  <2>1. m \in 1..Len(s) /\ m \in 1..Len(t)
        /\ (Len(s) - m) + 1 = k /\ (Len(t) - m) + 1 = Len(t) - Len(s) + k
    BY <1>1, <1>4
  <2> HIDE DEF m
  <2>2. Reverse(s)[m] = s[k] /\ Reverse(t)[m] = t[Len(t) - Len(s) + k]
    BY <1>2, <2>1
  <2> QED BY <1>4, <2>1, <2>2
<1>5. ASSUME Len(s) <= Len(t), \A k \in 1..Len(s) : s[k] = t[Len(t) - Len(s) + k], NEW m \in 1..Len(s)
      PROVE  Reverse(s)[m] = Reverse(t)[m]
  <2> DEFINE k == Len(s) - m + 1
  <2>1. k \in 1..Len(s) /\ m \in 1..Len(t)
        /\ (Len(s) - m) + 1 = k /\ (Len(t) - m) + 1 = Len(t) - Len(s) + k
    BY <1>1, <1>5
  <2> HIDE DEF k
  <2>2. Reverse(s)[m] = s[k] /\ Reverse(t)[m] = t[Len(t) - Len(s) + k]
    BY <1>2, <2>1
  <2> QED BY <1>5, <2>1, <2>2
<1> QED BY <1>3, <1>4, <1>5

\* What is kept of a text is the longest end of it that a tag begins with.
LEMMA OverlapIs ==
    ASSUME NEW tag \in Seq(Chars), tag # <<>>, NEW text \in Seq(Chars)
    PROVE  LET k == SuffixOverlap(text, tag) IN
           /\ k \in 0..(Len(tag) - 1) /\ k <= Len(text)
           /\ \A j \in 1..k : text[Len(text) - k + j] = tag[j]
           /\ \A m \in 0..(Len(tag) - 1) :
                 m <= Len(text) /\ (\A j \in 1..m : text[Len(text) - m + j] = tag[j]) => m <= k
<1> DEFINE ends == {k \in 0..(Len(tag) - 1) : IsSuffix(SubSeq(tag, 1, k), text)}
<1>1. Len(tag) \in Nat \ {0} /\ Len(text) \in Nat
  BY EmptySeq, LenProperties
<1>2. ASSUME NEW k \in 0..(Len(tag) - 1)
      PROVE  k \in ends <=> k <= Len(text) /\ \A j \in 1..k : text[Len(text) - k + j] = tag[j]
  <2> DEFINE s == SubSeq(tag, 1, k)
  <2>1. \A j \in 1..k : tag[j] \in Chars
    BY <1>1, LenProperties, ElementOfSeq
  <2>2. s \in Seq(Chars) /\ Len(s) = k /\ \A j \in 1..k : s[j] = tag[j]
    BY <2>1, SubSeqProperties
  <2>3. k \in ends <=> IsSuffix(s, text)
    OBVIOUS
  <2> HIDE DEF s
  <2>4. IsSuffix(s, text) <=> k <= Len(text) /\ \A j \in 1..k : s[j] = text[Len(text) - k + j]
    BY <2>2, SuffixIs
  <2> QED BY <2>2, <2>3, <2>4
<1>3. ends \in SUBSET (0..(Len(tag) - 1)) /\ SuffixOverlap(text, tag) = Max(ends)
  BY DEF SuffixOverlap
<1> HIDE DEF ends
<1>4. 0 \in ends
  BY <1>1, <1>2
<1>5. Max(ends) \in ends /\ \A m \in ends : m <= Max(ends)
  <2>1. Len(tag) - 1 \in Nat
    BY <1>1
  <2> QED BY <1>3, <1>4, <2>1, MaxIs
<1> QED BY <1>2, <1>3, <1>5

-----------------------------------------------------------------------------
(* The reference function                                                  *)

\* The tag that is looked for in a span, and out of one.
TagOf(hidden) == IF hidden THEN CloseTag ELSE OpenTag

LEMMA Tags ==
    ASSUME NEW h \in BOOLEAN
    PROVE  /\ TagOf(h) \in Seq(Chars) /\ TagOf(h) # <<>>
           /\ Len(TagOf(h)) \in Nat \ {0}
  BY ConstantsAssumption, EmptySeq, LenProperties DEF TagOf

\* What a character adds to what is visible.
Seen(text, i, hidden) == IF hidden THEN <<>> ELSE <<text[i]>>

\* One step of it, for either tag.
LEMMA OneStep ==
    ASSUME NEW text \in Seq(Chars), NEW f, NEW i \in 1..(Len(text) + 1), NEW h \in BOOLEAN
    PROVE  /\ i = Len(text) + 1 => VisibleFrom(text, f, i, h) = <<>>
           /\ i # Len(text) + 1 /\ At(TagOf(h), text, i) =>
                 VisibleFrom(text, f, i, h) = f[<<i + Len(TagOf(h)), ~h>>]
           /\ i # Len(text) + 1 /\ ~ At(TagOf(h), text, i) =>
                 VisibleFrom(text, f, i, h) = Seen(text, i, h) \o f[<<i + 1, h>>]
<1>1. i > Len(text) <=> i = Len(text) + 1
  BY LenProperties
<1>2. CASE h
  BY <1>1, <1>2 DEF VisibleFrom, TagOf, Seen
<1>3. CASE ~h
  BY <1>1, <1>3 DEF VisibleFrom, TagOf, Seen
<1> QED BY <1>2, <1>3

\* It looks only at the positions after the one it is asked for.
LEMMA LooksAhead ==
    ASSUME NEW text \in Seq(Chars), NEW f, NEW g, NEW i \in 1..(Len(text) + 1), NEW h \in BOOLEAN,
           \A j \in (i + 1)..(Len(text) + 1), hidden \in BOOLEAN : f[<<j, hidden>>] = g[<<j, hidden>>]
    PROVE  VisibleFrom(text, f, i, h) = VisibleFrom(text, g, i, h)
<1>1. Len(text) \in Nat /\ Len(TagOf(h)) \in Nat \ {0} /\ TagOf(h) \in Seq(Chars)
  BY LenProperties, Tags
<1>2. CASE i = Len(text) + 1
  <2>1. VisibleFrom(text, f, i, h) = <<>>
    BY <1>2, OneStep
  <2>2. VisibleFrom(text, g, i, h) = <<>>
    BY <1>2, OneStep
  <2> QED BY <2>1, <2>2
<1>3. CASE i # Len(text) + 1 /\ At(TagOf(h), text, i)
  <2>1. i + Len(TagOf(h)) \in (i + 1)..(Len(text) + 1)
    BY <1>1, <1>3, AtIs
  <2>2. f[<<i + Len(TagOf(h)), ~h>>] = g[<<i + Len(TagOf(h)), ~h>>]
    BY <2>1
  <2>3. VisibleFrom(text, f, i, h) = f[<<i + Len(TagOf(h)), ~h>>]
    BY <1>3, OneStep
  <2>4. VisibleFrom(text, g, i, h) = g[<<i + Len(TagOf(h)), ~h>>]
    BY <1>3, OneStep
  <2> QED BY <2>2, <2>3, <2>4
<1>4. CASE i # Len(text) + 1 /\ ~ At(TagOf(h), text, i)
  <2>1. f[<<i + 1, h>>] = g[<<i + 1, h>>]
    BY <1>1, <1>4
  <2>2. VisibleFrom(text, f, i, h) = Seen(text, i, h) \o f[<<i + 1, h>>]
    BY <1>4, OneStep
  <2>3. VisibleFrom(text, g, i, h) = Seen(text, i, h) \o g[<<i + 1, h>>]
    BY <1>4, OneStep
  <2> QED BY <2>1, <2>2, <2>3
<1> QED BY <1>1, <1>2, <1>3, <1>4

\* The function on the last n + 1 positions.
Cells(text, n) == ((Len(text) + 1 - n)..(Len(text) + 1)) \X BOOLEAN
Built(text, f, n) == f = [p \in Cells(text, n) |-> VisibleFrom(text, f, p[1], p[2])]

LEMMA BuiltFrom ==
    ASSUME NEW text \in Seq(Chars), NEW n \in Nat, n + 1 <= Len(text), NEW f, Built(text, f, n)
    PROVE  \E g : Built(text, g, n + 1)
<1> DEFINE L == Len(text)
           g == [p \in Cells(text, n + 1) |->
                    IF p \in Cells(text, n) THEN f[p] ELSE VisibleFrom(text, f, p[1], p[2])]
<1>1. L \in Nat
  BY LenProperties
<1>2. ASSUME NEW p \in Cells(text, n + 1) PROVE g[p] = VisibleFrom(text, g, p[1], p[2])
  <2>1. p[1] \in 1..(L + 1) /\ p[1] >= L - n /\ p[2] \in BOOLEAN
    BY <1>1 DEF Cells
  <2>2. \A j \in (p[1] + 1)..(L + 1), h \in BOOLEAN :
           <<j, h>> \in Cells(text, n) /\ <<j, h>> \in Cells(text, n + 1)
    BY <1>1, <2>1 DEF Cells
  <2>3. \A j \in (p[1] + 1)..(L + 1), h \in BOOLEAN : f[<<j, h>>] = g[<<j, h>>]
    BY <2>2
  <2>4. g[p] = VisibleFrom(text, f, p[1], p[2])
    BY DEF Built
  <2> HIDE DEF g
  <2>5. VisibleFrom(text, f, p[1], p[2]) = VisibleFrom(text, g, p[1], p[2])
    BY <2>1, <2>3, LooksAhead
  <2> QED BY <2>4, <2>5
<1>3. g = [p \in Cells(text, n + 1) |-> VisibleFrom(text, g, p[1], p[2])]
  BY <1>2
<1>4. Built(text, g, n + 1)
  <2> HIDE DEF g
  <2> QED BY <1>3 DEF Built
<1> HIDE DEF g
<1> QED BY <1>4

\* The function exists: it is built from the end of the text to its beginning.
LEMMA VisibleExists ==
    ASSUME NEW text \in Seq(Chars)
    PROVE  \E f : f = [p \in (1..(Len(text) + 1)) \X BOOLEAN |-> VisibleFrom(text, f, p[1], p[2])]
<1> DEFINE L == Len(text)
           T == {n \in Nat : n <= L => \E f : Built(text, f, n)}
<1>1. L \in Nat
  BY LenProperties
<1>2. 0 \in T
  <2> DEFINE f == [p \in Cells(text, 0) |-> <<>>]
  <2>1. ASSUME NEW p \in Cells(text, 0) PROVE VisibleFrom(text, f, p[1], p[2]) = <<>>
    <3>1. p[1] = L + 1 /\ p[2] \in BOOLEAN /\ L + 1 \in 1..(L + 1)
      BY <1>1 DEF Cells
    <3> HIDE DEF f
    <3> QED BY <3>1, OneStep
  <2>2. Built(text, f, 0)
    BY <2>1 DEF Built
  <2> HIDE DEF f
  <2> QED BY <2>2
<1>3. ASSUME NEW n \in T PROVE n + 1 \in T
  <2>1. CASE n + 1 <= L
    <3>1. PICK f : Built(text, f, n)
      BY <1>1, <2>1
    <3>2. \E g : Built(text, g, n + 1)
      BY <2>1, <3>1, BuiltFrom
    <3> QED BY <3>2
  <2>2. CASE ~ (n + 1 <= L)
    BY <2>2
  <2> QED BY <2>1, <2>2
<1>4. L \in T
  <2> HIDE DEF T
  <2> QED BY <1>1, <1>2, <1>3, SetInduction DEF T
<1>5. PICK f : Built(text, f, L)
  BY <1>1, <1>4
<1>6. Cells(text, L) = (1..(Len(text) + 1)) \X BOOLEAN
  BY <1>1 DEF Cells
<1> QED BY <1>5, <1>6 DEF Built

\* Its equation, in the three cases.
LEMMA Unfold ==
    ASSUME NEW text \in Seq(Chars), NEW i \in 1..(Len(text) + 1), NEW h \in BOOLEAN
    PROVE  /\ i = Len(text) + 1 => Visible(text)[<<i, h>>] = <<>>
           /\ i # Len(text) + 1 /\ At(TagOf(h), text, i) =>
                 Visible(text)[<<i, h>>] = Visible(text)[<<i + Len(TagOf(h)), ~h>>]
           /\ i # Len(text) + 1 /\ ~ At(TagOf(h), text, i) =>
                 Visible(text)[<<i, h>>] = Seen(text, i, h) \o Visible(text)[<<i + 1, h>>]
<1> DEFINE f == Visible(text)
<1>1. f = [p \in (1..(Len(text) + 1)) \X BOOLEAN |-> VisibleFrom(text, f, p[1], p[2])]
  BY VisibleExists DEF Visible
<1> HIDE DEF f
<1>2. f[<<i, h>>] = VisibleFrom(text, f, i, h)
  BY <1>1
<1> QED BY <1>2, OneStep DEF f

LEMMA VisibleType ==
    ASSUME NEW text \in Seq(Chars), NEW i \in 1..(Len(text) + 1), NEW h \in BOOLEAN
    PROVE  Visible(text)[<<i, h>>] \in Seq(Chars)
<1> DEFINE L == Len(text)
           f == Visible(text)
           Fits(k) == \A hidden \in BOOLEAN : f[<<k, hidden>>] \in Seq(Chars)
           T == {n \in Nat : \A k \in 1..(L + 1) : L + 1 - n <= k => Fits(k)}
<1>1. L \in Nat
  BY LenProperties
<1>0. ASSUME NEW hidden \in BOOLEAN PROVE f[<<L + 1, hidden>>] \in Seq(Chars)
  <2>1. L + 1 \in 1..(L + 1)
    BY <1>1
  <2>2. f[<<L + 1, hidden>>] = <<>>
    BY <2>1, Unfold
  <2> QED BY <2>2, EmptySeq
<1>2. 0 \in T
  <2>1. \A k \in 1..(L + 1) : L + 1 - 0 <= k => k = L + 1
    BY <1>1
  <2> HIDE DEF f
  <2> QED BY <1>0, <2>1
<1>3. ASSUME NEW n \in T PROVE n + 1 \in T
  <2> SUFFICES ASSUME NEW k \in 1..(L + 1), L + 1 - (n + 1) <= k, NEW hidden \in BOOLEAN
               PROVE  f[<<k, hidden>>] \in Seq(Chars)
    OBVIOUS
  <2> HIDE DEF f
  <2>1. \A j \in (k + 1)..(L + 1) : \A b \in BOOLEAN : f[<<j, b>>] \in Seq(Chars)
    <3> TAKE j \in (k + 1)..(L + 1)
    <3>1. j \in 1..(L + 1) /\ L + 1 - n <= j
      BY <1>1
    <3> QED BY <3>1
  <2>2. CASE k = L + 1
    BY <1>0, <2>2
  <2>3. CASE k # L + 1 /\ At(TagOf(hidden), text, k)
    <3>1. k + Len(TagOf(hidden)) \in (k + 1)..(L + 1)
      BY <1>1, <2>3, AtIs, Tags
    <3>2. f[<<k, hidden>>] = f[<<k + Len(TagOf(hidden)), ~hidden>>]
      BY <2>3, Unfold DEF f
    <3> QED BY <2>1, <3>1, <3>2
  <2>4. CASE k # L + 1 /\ ~ At(TagOf(hidden), text, k)
    <3>1. f[<<k, hidden>>] = Seen(text, k, hidden) \o f[<<k + 1, hidden>>]
      BY <2>4, Unfold DEF f
    <3>2. f[<<k + 1, hidden>>] \in Seq(Chars)
      BY <1>1, <2>1, <2>4
    <3>3. Seen(text, k, hidden) \in Seq(Chars)
      <4>1. text[k] \in Chars
        BY <1>1, <2>4, ElementOfSeq
      <4> QED BY <4>1 DEF Seen
    <3>4. \A s, t \in Seq(Chars) : s \o t \in Seq(Chars)
      BY ConcatProperties
    <3> QED BY <3>1, <3>2, <3>3, <3>4
  <2> QED BY <2>2, <2>3, <2>4
<1>4. L \in T
  <2> HIDE DEF T
  <2> QED BY <1>1, <1>2, <1>3, SetInduction DEF T
<1> QED BY <1>1, <1>4

LEMMA Concats ==
    /\ \A s, t \in Seq(Chars) : s \o t \in Seq(Chars)
    /\ \A s, t, u \in Seq(Chars) : (s \o t) \o u = s \o (t \o u)
<1>1. ASSUME NEW s \in Seq(Chars), NEW t \in Seq(Chars) PROVE s \o t \in Seq(Chars)
  BY ConcatProperties
<1>2. ASSUME NEW s \in Seq(Chars), NEW t \in Seq(Chars), NEW u \in Seq(Chars)
      PROVE  (s \o t) \o u = s \o (t \o u)
  BY ConcatAssociative
<1> QED BY <1>1, <1>2

\* A stretch without a tag is visible, or hidden, as a whole.
Stretch(text, i, j, hidden) == IF hidden THEN <<>> ELSE SubSeq(text, i, j)

LEMMA Run ==
    ASSUME NEW text \in Seq(Chars), NEW i \in 1..(Len(text) + 1), NEW h \in BOOLEAN,
           NEW j \in i..(Len(text) + 1), \A k \in i..(j - 1) : ~ At(TagOf(h), text, k)
    PROVE  Visible(text)[<<i, h>>] = Stretch(text, i, j - 1, h) \o Visible(text)[<<j, h>>]
<1> DEFINE L == Len(text)
           V(k) == Visible(text)[<<k, h>>]
           T == {n \in Nat : i + n <= j => V(i) = Stretch(text, i, i + n - 1, h) \o V(i + n)}
<1>1. L \in Nat
  BY LenProperties
<1>2. \A k \in 1..(L + 1) : V(k) \in Seq(Chars)
  BY VisibleType
<1>3. ASSUME NEW m \in (i - 1)..L PROVE Stretch(text, i, m, h) \in Seq(Chars)
  <2>1. \A k \in i..m : text[k] \in Chars
    BY <1>1, ElementOfSeq
  <2> QED BY <1>1, <2>1, SubSeqProperties, EmptySeq DEF Stretch
<1>4. 0 \in T
  <2>1. Stretch(text, i, i + 0 - 1, h) = <<>>
    BY <1>1, SubSeqEmpty DEF Stretch
  <2>2. V(i) = <<>> \o V(i)
    BY <1>2, ConcatEmptySeq
  <2>3. i + 0 = i
    OBVIOUS
  <2> HIDE DEF V
  <2> QED BY <2>1, <2>2, <2>3
<1>5. ASSUME NEW n \in T PROVE n + 1 \in T
  <2>1. CASE i + (n + 1) <= j
    <3> DEFINE k == i + n
    <3>1. k \in 1..L /\ k \in i..(j - 1) /\ k # L + 1 /\ k \in 1..(L + 1) /\ k + 1 \in 1..(L + 1)
      BY <1>1, <2>1
    <3>2. V(i) = Stretch(text, i, k - 1, h) \o V(k)
      <4>1. i + n <= j
        BY <1>1, <2>1
      <4> HIDE DEF V
      <4> QED BY <4>1
    <3>8. k = i + (n + 1) - 1 /\ k + 1 = i + (n + 1)
      OBVIOUS
    <3> HIDE DEF k
    <3>3. V(k) = Seen(text, k, h) \o V(k + 1)
      BY <3>1, Unfold
    <3>4. Stretch(text, i, k - 1, h) \o Seen(text, k, h) = Stretch(text, i, k, h)
      <4>1. CASE h
        <5>1. <<>> \o <<>> = <<>>
          BY EmptySeq, ConcatEmptySeq
        <5> QED BY <4>1, <5>1 DEF Stretch, Seen
      <4>2. CASE ~h
        <5>1. i \in 1..L /\ k \in i..L
          BY <1>1, <3>1
        <5>2. SubSeq(text, i, k) = SubSeq(text, i, k - 1) \o <<text[k]>>
          BY <5>1, SubSeqRecursiveSecond
        <5> QED BY <4>2, <5>2 DEF Stretch, Seen
      <4> QED BY <4>1, <4>2
    <3>5. Stretch(text, i, k - 1, h) \in Seq(Chars) /\ Seen(text, k, h) \in Seq(Chars)
      <4>1. text[k] \in Chars
        BY <3>1, ElementOfSeq
      <4>2. Seen(text, k, h) \in Seq(Chars)
        BY <4>1 DEF Seen
      <4>3. k - 1 \in (i - 1)..L
        BY <1>1, <3>1
      <4> QED BY <1>3, <4>2, <4>3
    <3>6. V(k + 1) \in Seq(Chars)
      BY <1>2, <3>1
    <3> HIDE DEF V
    <3>7. V(i) = Stretch(text, i, k, h) \o V(k + 1)
      <4>1. \A s, t, u \in Seq(Chars) : (s \o t) \o u = s \o (t \o u)
        BY Concats
      <4>2. V(i) = Stretch(text, i, k - 1, h) \o (Seen(text, k, h) \o V(k + 1))
        BY <3>2, <3>3
      <4>3. (Stretch(text, i, k - 1, h) \o Seen(text, k, h)) \o V(k + 1)
               = Stretch(text, i, k - 1, h) \o (Seen(text, k, h) \o V(k + 1))
        BY <3>5, <3>6, <4>1, Zenon
      <4> QED BY <3>4, <4>2, <4>3
    <3>9. V(i) = Stretch(text, i, i + (n + 1) - 1, h) \o V(i + (n + 1))
      BY <3>7, <3>8, Zenon
    <3>10. n + 1 \in Nat
      OBVIOUS
    <3> QED BY <3>9, <3>10
  <2>2. CASE ~ (i + (n + 1) <= j)
    <3>1. n + 1 \in Nat
      OBVIOUS
    <3> HIDE DEF V
    <3> QED BY <2>2, <3>1
  <2> QED BY <2>1, <2>2
<1>6. j - i \in T
  <2>1. j - i \in Nat
    BY <1>1
  <2> HIDE DEF T
  <2> QED BY <1>4, <1>5, <2>1, SetInduction DEF T
<1>7. i + (j - i) = j /\ j <= j
  BY <1>1
<1> HIDE DEF V
<1>8. V(i) = Stretch(text, i, j - 1, h) \o V(j)
  BY <1>6, <1>7
<1> QED BY <1>8 DEF V

\* A piece b of a text, from its i-th character on.
Piece(b, text, i) ==
    /\ i + Len(b) - 1 <= Len(text)
    /\ \A k \in 1..Len(b) : b[k] = text[i + k - 1]

\* A tag stands in a piece of a text where it does in the text, if it ends there.
LEMMA AtPiece ==
    ASSUME NEW tag \in Seq(Chars), NEW b \in Seq(Chars), NEW text \in Seq(Chars),
           NEW i \in 1..(Len(text) + 1), Piece(b, text, i),
           NEW j \in 1..(Len(b) + 1), j + Len(tag) - 1 <= Len(b)
    PROVE  At(tag, b, j) <=> At(tag, text, i + j - 1)
<1>1. Len(tag) \in Nat /\ Len(b) \in Nat /\ Len(text) \in Nat
  BY LenProperties
<1>2. i + j - 1 \in 1..(Len(text) + 1) /\ (i + j - 1) + Len(tag) - 1 <= Len(text)
  BY <1>1 DEF Piece
<1>3. \A k \in 1..Len(tag) : b[j + k - 1] = text[(i + j - 1) + k - 1]
  <2> TAKE k \in 1..Len(tag)
  <2>1. j + k - 1 \in 1..Len(b) /\ i + (j + k - 1) - 1 = (i + j - 1) + k - 1
    BY <1>1
  <2> QED BY <2>1 DEF Piece
<1>4. At(tag, b, j) <=> \A k \in 1..Len(tag) : b[j + k - 1] = tag[k]
  BY AtIs
<1>5. At(tag, text, i + j - 1) <=> \A k \in 1..Len(tag) : text[(i + j - 1) + k - 1] = tag[k]
  BY <1>2, AtIs
<1> QED BY <1>3, <1>4, <1>5

LEMMA StretchPiece ==
    ASSUME NEW b \in Seq(Chars), NEW text \in Seq(Chars), NEW i \in 1..(Len(text) + 1),
           Piece(b, text, i), NEW n \in 0..Len(b), NEW h \in BOOLEAN
    PROVE  /\ Stretch(text, i, i + n - 1, h) = Stretch(b, 1, n, h)
           /\ Stretch(b, 1, n, h) \in Seq(Chars)
<1>1. Len(b) \in Nat /\ Len(text) \in Nat
  BY LenProperties
<1>2. \A k \in 1..n : b[k] \in Chars
  BY <1>1, ElementOfSeq
<1>3. /\ SubSeq(b, 1, n) \in Seq(Chars) /\ Len(SubSeq(b, 1, n)) = n
      /\ \A k \in 1..n : SubSeq(b, 1, n)[k] = b[k]
  BY <1>1, <1>2, SubSeqProperties
<1>4. \A k \in i..(i + n - 1) : text[k] \in Chars
  <2> TAKE k \in i..(i + n - 1)
  <2>1. k \in 1..Len(text)
    BY <1>1 DEF Piece
  <2> QED BY <2>1, ElementOfSeq
<1> DEFINE s == SubSeq(text, i, i + n - 1)
<1>5. s \in Seq(Chars) /\ Len(s) = n /\ \A k \in 1..n : s[k] = text[i + k - 1]
  <2>1. (i + n - 1) - i + 1 = n /\ (i <= i + n - 1 <=> n # 0) /\ i + n - 1 \in Int
    BY <1>1
  <2> QED BY <1>4, <2>1, SubSeqProperties
<1> HIDE DEF s
<1>6. \A k \in 1..n : s[k] = b[k]
  BY <1>1, <1>5 DEF Piece
<1>7. s = SubSeq(b, 1, n)
  BY <1>3, <1>5, <1>6, SeqEqual
<1> QED BY <1>3, <1>7, EmptySeq DEF Stretch, s

\* From the i-th character of a text on, in a span or not, a piece's first m
\* characters are visible, or hidden, and its first n are done with.
Takes(b, text, i, h, n, m, then) ==
    Visible(text)[<<i, h>>] = Stretch(b, 1, m, h) \o Visible(text)[<<i + n, then>>]

\* What the filter does with a piece is what the function does with the text:
\* where it finds a tag,
LEMMA TagTaken ==
    ASSUME NEW b \in Seq(Chars), NEW text \in Seq(Chars), NEW i \in 1..(Len(text) + 1),
           Piece(b, text, i), NEW h \in BOOLEAN, NEW n, n = Find(b, TagOf(h)), n # 0
    PROVE  /\ n \in 1..Len(b) /\ n + Len(TagOf(h)) - 1 \in 1..Len(b)
           /\ Takes(b, text, i, h, n + Len(TagOf(h)) - 1, n - 1, ~h)
<1> DEFINE tag == TagOf(h)
<1>1. Len(b) \in Nat /\ Len(text) \in Nat
  BY LenProperties
<1>2. tag \in Seq(Chars) /\ tag # <<>> /\ Len(tag) \in Nat \ {0}
  BY Tags
<1> HIDE DEF tag
<1>3. n \in 1..Len(b) /\ At(tag, b, n) /\ \A j \in 1..(n - 1) : ~ At(tag, b, j)
  BY <1>2, FindIs DEF tag
<1>4. n + Len(tag) - 1 <= Len(b)
  BY <1>1, <1>2, <1>3, AtIs, SMTT(60)
<1> DEFINE m == i + n - 1
<1>5. m \in i..(Len(text) + 1) /\ m \in 1..(Len(text) + 1) /\ m # Len(text) + 1
  BY <1>1, <1>2, <1>3, <1>4, SMTT(60) DEF Piece
<1>6. At(tag, text, m)
  <2>1. n \in 1..(Len(b) + 1)
    BY <1>1, <1>3
  <2>2. At(tag, b, n) <=> At(tag, text, i + n - 1)
    BY <1>2, <1>4, <2>1, AtPiece
  <2> QED BY <1>3, <2>2
<1>7. \A k \in i..(m - 1) : ~ At(tag, text, k)
  <2> TAKE k \in i..(m - 1)
  <2> DEFINE j == k - i + 1
  <2>1. j \in 1..(n - 1) /\ j \in 1..(Len(b) + 1) /\ j + Len(tag) - 1 <= Len(b) /\ i + j - 1 = k
    BY <1>1, <1>2, <1>3, <1>4, SMTT(60)
  <2> HIDE DEF j
  <2>2. At(tag, b, j) <=> At(tag, text, i + j - 1)
    BY <1>2, <2>1, AtPiece
  <2> QED BY <1>3, <2>1, <2>2
<1>8. Stretch(text, i, m - 1, h) = Stretch(b, 1, n - 1, h)
  <2>1. n - 1 \in 0..Len(b) /\ m - 1 = i + (n - 1) - 1
    BY <1>1, <1>3
  <2> HIDE DEF m
  <2>2. Stretch(text, i, i + (n - 1) - 1, h) = Stretch(b, 1, n - 1, h)
    BY <2>1, StretchPiece
  <2> QED BY <2>1, <2>2
<1>9. m + Len(tag) = i + (n + Len(tag) - 1)
  BY <1>1, <1>2, <1>3
<1> HIDE DEF m
<1>10. Visible(text)[<<i, h>>] = Stretch(text, i, m - 1, h) \o Visible(text)[<<m, h>>]
  BY <1>5, <1>7, Run DEF tag
<1>11. Visible(text)[<<m, h>>] = Visible(text)[<<m + Len(tag), ~h>>]
  BY <1>5, <1>6, Unfold DEF tag
<1>12. n + Len(tag) - 1 \in 1..Len(b)
  BY <1>1, <1>2, <1>3, <1>4
<1>13. Visible(text)[<<i, h>>] = Stretch(b, 1, n - 1, h) \o Visible(text)[<<i + (n + Len(tag) - 1), ~h>>]
  BY <1>8, <1>9, <1>10, <1>11, Zenon
<1> QED BY <1>3, <1>12, <1>13 DEF tag, Takes

\* where it finds none,
LEMMA NoTagTaken ==
    ASSUME NEW b \in Seq(Chars), NEW text \in Seq(Chars), NEW i \in 1..(Len(text) + 1),
           Piece(b, text, i), NEW h \in BOOLEAN, Find(b, TagOf(h)) = 0,
           NEW cut, cut = Len(b) - SuffixOverlap(b, TagOf(h))
    PROVE  /\ cut \in 0..Len(b)
           /\ Takes(b, text, i, h, cut, cut, h)
<1> DEFINE tag == TagOf(h)
           kept == SuffixOverlap(b, tag)
<1>1. Len(b) \in Nat /\ Len(text) \in Nat
  BY LenProperties
<1>2. tag \in Seq(Chars) /\ tag # <<>> /\ Len(tag) \in Nat \ {0}
  BY Tags
<1> HIDE DEF tag
<1>3. \A j \in 1..Len(b) : ~ At(tag, b, j)
  BY <1>2, FindIs DEF tag
<1>4. /\ kept \in 0..(Len(tag) - 1) /\ kept <= Len(b)
      /\ \A m \in 0..(Len(tag) - 1) :
            m <= Len(b) /\ (\A j \in 1..m : b[Len(b) - m + j] = tag[j]) => m <= kept
  BY <1>2, OverlapIs
<1> HIDE DEF kept
<1>5. cut = Len(b) - kept /\ cut \in 0..Len(b)
  BY <1>1, <1>2, <1>4 DEF tag, kept
<1>6. i + cut \in i..(Len(text) + 1)
  BY <1>1, <1>5 DEF Piece
<1>7. \A k \in i..(i + cut - 1) : ~ At(tag, text, k)
  <2> SUFFICES ASSUME NEW k \in i..(i + cut - 1), At(tag, text, k) PROVE FALSE
    OBVIOUS
  <2> DEFINE j == k - i + 1
             m == Len(b) - j + 1
  <2>1. j \in 1..cut /\ j \in 1..Len(b) /\ j \in 1..(Len(b) + 1) /\ i + j - 1 = k /\ k \in 1..(Len(text) + 1)
    BY <1>1, <1>5, <1>6
  <2> HIDE DEF j
  <2>2. CASE j + Len(tag) - 1 <= Len(b)
    <3>1. At(tag, b, j) <=> At(tag, text, i + j - 1)
      BY <1>2, <2>1, <2>2, AtPiece
    <3> QED BY <1>3, <2>1, <3>1
  <2>3. CASE ~ (j + Len(tag) - 1 <= Len(b))
    <3>0. kept \in Nat /\ j \in Nat /\ 1 <= j /\ j <= Len(b) - kept
      BY <1>1, <1>4, <1>5, <2>1, SMTT(60)
    <3>1. m \in 0..(Len(tag) - 1) /\ m <= Len(b) /\ ~ (m <= kept)
      BY <1>1, <1>2, <2>3, <3>0, SMTT(60)
    <3>2. ASSUME NEW l \in 1..m PROVE b[Len(b) - m + l] = tag[l]
      <4>1. l \in 1..Len(tag) /\ Len(b) - m + l = j + l - 1 /\ j + l - 1 \in 1..Len(b)
            /\ i + (j + l - 1) - 1 = k + l - 1
        BY <1>1, <1>2, <2>1, <3>1
      <4> HIDE DEF m
      <4>2. text[k + l - 1] = tag[l]
        BY <1>2, <2>1, <4>1, AtIs, SMTT(60)
      <4>3. b[j + l - 1] = text[i + (j + l - 1) - 1]
        BY <4>1 DEF Piece
      <4> QED BY <4>1, <4>2, <4>3
    <3> HIDE DEF m
    <3>3. m <= kept
      BY <1>4, <3>1, <3>2
    <3> QED BY <3>1, <3>3
  <2> QED BY <2>2, <2>3
<1>8. Visible(text)[<<i, h>>] = Stretch(text, i, i + cut - 1, h) \o Visible(text)[<<i + cut, h>>]
  <2> DEFINE e == i + cut
  <2>1. e \in i..(Len(text) + 1) /\ \A k \in i..(e - 1) : ~ At(TagOf(h), text, k)
    BY <1>6, <1>7 DEF tag
  <2>2. e = i + cut /\ e - 1 = i + cut - 1
    OBVIOUS
  <2> HIDE DEF e
  <2>3. Visible(text)[<<i, h>>] = Stretch(text, i, e - 1, h) \o Visible(text)[<<e, h>>]
    BY <2>1, Run
  <2> QED BY <2>2, <2>3
<1>9. Stretch(text, i, i + cut - 1, h) = Stretch(b, 1, cut, h)
  BY <1>5, StretchPiece
<1> QED BY <1>5, <1>8, <1>9 DEF Takes

\* and at the end of the text, where less than a tag is left.
LEMMA RestTaken ==
    ASSUME NEW b \in Seq(Chars), NEW text \in Seq(Chars), NEW i \in 1..(Len(text) + 1),
           Piece(b, text, i), i + Len(b) - 1 = Len(text), NEW h \in BOOLEAN,
           Len(b) < Len(TagOf(h))
    PROVE  Visible(text)[<<i, h>>] = Stretch(b, 1, Len(b), h)
<1> DEFINE L == Len(text)
<1>1. Len(b) \in Nat /\ L \in Nat /\ TagOf(h) \in Seq(Chars) /\ Len(TagOf(h)) \in Nat
  BY LenProperties, Tags
<1>2. L + 1 \in i..(L + 1) /\ L + 1 \in 1..(L + 1) /\ Len(b) \in 0..Len(b) /\ (L + 1) - 1 = i + Len(b) - 1
  BY <1>1
<1>3. \A k \in i..((L + 1) - 1) : ~ At(TagOf(h), text, k)
  <2> TAKE k \in i..((L + 1) - 1)
  <2>1. k \in 1..(L + 1) /\ ~ (k + Len(TagOf(h)) - 1 <= L)
    BY <1>1
  <2>2. k \in 1..(Len(text) + 1)
    BY <2>1
  <2> QED BY <1>1, <2>1, <2>2, AtIs
<1>4. Visible(text)[<<i, h>>] = Stretch(text, i, (L + 1) - 1, h) \o Visible(text)[<<L + 1, h>>]
  BY <1>2, <1>3, Run
<1>5. Visible(text)[<<L + 1, h>>] = <<>>
  BY <1>2, Unfold
<1> HIDE DEF L
<1>6. Stretch(text, i, (L + 1) - 1, h) = Stretch(b, 1, Len(b), h) /\ Stretch(b, 1, Len(b), h) \in Seq(Chars)
  BY <1>2, StretchPiece
<1>7. Stretch(b, 1, Len(b), h) \o <<>> = Stretch(b, 1, Len(b), h)
  BY <1>6, ConcatEmptySeq
<1> QED BY <1>4, <1>5, <1>6, <1>7

-----------------------------------------------------------------------------
(* The filter                                                              *)

\* What the buffer holds is the end of the input,
Position == Len(input) - Len(buf) + 1
Held ==
    /\ Len(buf) <= Len(input)
    /\ \A k \in 1..Len(buf) : buf[k] = input[Len(input) - Len(buf) + k]

\* and whatever text follows, what is out already is how the stripped text begins:
\* the rest of it is what the function makes of the rest of the text.
Split ==
    \A more \in Seq(Chars) :
        Strip(input \o more) = out \o Visible(input \o more)[<<Position, inside>>]

LEMMA HeldPiece ==
    ASSUME TypeOK, Held, NEW more \in Seq(Chars)
    PROVE  /\ input \o more \in Seq(Chars)
           /\ Position \in 1..(Len(input \o more) + 1)
           /\ Piece(buf, input \o more, Position)
<1>1. Len(input) \in Nat /\ Len(buf) \in Nat /\ Len(more) \in Nat /\ Len(buf) <= Len(input)
  BY LenProperties DEF TypeOK, Held
<1>2. /\ input \o more \in Seq(Chars) /\ Len(input \o more) = Len(input) + Len(more)
      /\ \A k \in 1..Len(input) : (input \o more)[k] = input[k]
  BY <1>1, ConcatProperties DEF TypeOK
<1>3. \A k \in 1..Len(buf) : buf[k] = (input \o more)[Position + k - 1]
  <2> TAKE k \in 1..Len(buf)
  <2>1. Position + k - 1 = Len(input) - Len(buf) + k /\ Position + k - 1 \in 1..Len(input)
    BY <1>1 DEF Position
  <2> QED BY <1>2, <2>1 DEF Held
<1>4. Position \in 1..(Len(input \o more) + 1) /\ Position + Len(buf) - 1 <= Len(input \o more)
  BY <1>1, <1>2 DEF Position
<1> QED BY <1>2, <1>3, <1>4 DEF Piece

LEMMA FeedKeeps ==
    ASSUME TypeOK, Held, Split, NEW piece \in Seq(Chars), Feed(piece)
    PROVE  TypeOK' /\ Held' /\ Split'
<1>1. /\ Len(input) \in Nat /\ Len(buf) \in Nat /\ Len(piece) \in Nat /\ Len(out) \in Nat
      /\ Len(buf) <= Len(input)
  BY LenProperties DEF TypeOK, Held
<1>2. /\ input' \in Seq(Chars) /\ Len(input') = Len(input) + Len(piece)
      /\ \A k \in 1..(Len(input) + Len(piece)) :
            input'[k] = IF k <= Len(input) THEN input[k] ELSE piece[k - Len(input)]
  BY ConcatProperties DEF TypeOK, Feed
<1>3. /\ buf' \in Seq(Chars) /\ Len(buf') = Len(buf) + Len(piece)
      /\ \A k \in 1..(Len(buf) + Len(piece)) :
            buf'[k] = IF k <= Len(buf) THEN buf[k] ELSE piece[k - Len(buf)]
  BY ConcatProperties DEF TypeOK, Feed
<1>4. TypeOK'
  BY <1>1, <1>2, <1>3 DEF TypeOK, Feed
<1>5. Held'
  <2>1. ASSUME NEW k \in 1..Len(buf')
        PROVE  buf'[k] = input'[Len(input') - Len(buf') + k]
    <3>1. Len(input') - Len(buf') + k = Len(input) - Len(buf) + k
      BY <1>1, <1>2, <1>3
    <3>2. CASE k <= Len(buf)
      <4>1. k \in 1..Len(buf) /\ Len(input) - Len(buf) + k \in 1..Len(input)
        BY <1>1, <1>3, <3>2
      <4>2. buf'[k] = buf[k]
        BY <1>1, <1>3, <3>2, <4>1
      <4>3. buf[k] = input[Len(input) - Len(buf) + k]
        BY <4>1 DEF Held
      <4>4. input'[Len(input) - Len(buf) + k] = input[Len(input) - Len(buf) + k]
        <5> DEFINE x == Len(input) - Len(buf) + k
        <5>1. x \in 1..(Len(input) + Len(piece)) /\ x <= Len(input)
          BY <1>1, <4>1
        <5> HIDE DEF x
        <5>2. input'[x] = input[x]
          BY <1>2, <5>1
        <5> QED BY <5>2 DEF x
      <4> QED BY <3>1, <4>2, <4>3, <4>4
    <3>3. CASE ~ (k <= Len(buf))
      <4>1. /\ Len(input) - Len(buf) + k \in 1..(Len(input) + Len(piece))
            /\ ~ (Len(input) - Len(buf) + k <= Len(input))
            /\ (Len(input) - Len(buf) + k) - Len(input) = k - Len(buf)
        BY <1>1, <1>3, <3>3
      <4> QED BY <1>2, <1>3, <3>1, <3>3, <4>1
    <3> QED BY <3>2, <3>3
  <2> QED BY <1>1, <1>2, <1>3, <2>1 DEF Held
<1>6. ASSUME NEW more \in Seq(Chars)
      PROVE  Strip(input' \o more) = out' \o Visible(input' \o more)[<<Position', inside'>>]
  <2>1. piece \o more \in Seq(Chars) /\ input' \o more = input \o (piece \o more)
    <3>1. input \in Seq(Chars) /\ input' = input \o piece
      BY DEF TypeOK, Feed
    <3> QED BY <3>1, Concats
  <2>2. Position' = Position
    BY <1>1, <1>2, <1>3 DEF Position
  <2>3. out' = out /\ inside' = inside
    BY DEF Feed
  <2> QED BY <2>1, <2>2, <2>3 DEF Split
<1> QED BY <1>4, <1>5, <1>6 DEF Split

\* An iteration takes n characters from the buffer and shows the first m, or
\* hides them.
LEMMA TakeKeeps ==
    ASSUME TypeOK, Held, Split, UNCHANGED input, feeding' \in BOOLEAN, inside' \in BOOLEAN,
           NEW n \in 0..Len(buf), NEW m \in 0..n,
           buf' = Drop(buf, n), out' = out \o Stretch(buf, 1, m, inside),
           \A text \in Seq(Chars), i \in Nat :
              i \in 1..(Len(text) + 1) /\ Piece(buf, text, i) => Takes(buf, text, i, inside, n, m, inside')
    PROVE  TypeOK' /\ Held' /\ Split'
<1>1. /\ Len(input) \in Nat /\ Len(buf) \in Nat /\ Len(out) \in Nat /\ Len(buf) <= Len(input)
      /\ input \in Seq(Chars) /\ buf \in Seq(Chars) /\ out \in Seq(Chars) /\ inside \in BOOLEAN
  BY LenProperties DEF TypeOK, Held
<1>2. /\ buf' \in Seq(Chars) /\ Len(buf') = Len(buf) - n
      /\ \A k \in 1..(Len(buf) - n) : buf'[k] = buf[n + k]
  BY <1>1, Dropped
<1> DEFINE s == Stretch(buf, 1, m, inside)
<1>3. s \in Seq(Chars) /\ Len(s) <= m
  <2>1. m \in Nat /\ m <= Len(buf)
    BY <1>1
  <2>2. \A k \in 1..m : buf[k] \in Chars
    <3> TAKE k \in 1..m
    <3>1. k \in 1..Len(buf)
      BY <1>1, <2>1
    <3> QED BY <1>1, <3>1, ElementOfSeq
  <2>3. SubSeq(buf, 1, m) \in Seq(Chars) /\ Len(SubSeq(buf, 1, m)) = m
    BY <2>1, <2>2, SubSeqProperties
  <2> QED BY <2>1, <2>3, EmptySeq DEF Stretch
<1> HIDE DEF s
<1>4. out' \in Seq(Chars) /\ Len(out') = Len(out) + Len(s) /\ Len(s) \in Nat
  BY <1>1, <1>3, ConcatProperties, LenProperties DEF s
<1>5. TypeOK'
  BY <1>1, <1>2, <1>3, <1>4 DEF TypeOK
<1>6. Held'
  <2>1. ASSUME NEW k \in 1..Len(buf')
        PROVE  buf'[k] = input'[Len(input') - Len(buf') + k]
    <3>1. n + k \in 1..Len(buf) /\ Len(input) - Len(buf) + (n + k) = Len(input') - Len(buf') + k
      BY <1>1, <1>2
    <3> QED BY <1>2, <3>1 DEF Held
  <2> QED BY <1>1, <1>2, <2>1 DEF Held
<1>7. ASSUME NEW more \in Seq(Chars)
      PROVE  Strip(input' \o more) = out' \o Visible(input' \o more)[<<Position', inside'>>]
  <2> DEFINE text == input \o more
             v == Visible(text)[<<Position + n, inside'>>]
  <2>1. /\ text \in Seq(Chars) /\ Position \in 1..(Len(text) + 1) /\ Piece(buf, text, Position)
    BY HeldPiece
  <2>0. Position \in Nat
    BY <1>1 DEF Position
  <2>2. Strip(text) = out \o Visible(text)[<<Position, inside>>]
    BY DEF Split
  <2>3. Visible(text)[<<Position, inside>>] = s \o v
    BY <2>0, <2>1 DEF s, Takes
  <2>4. Position + n \in 1..(Len(text) + 1)
    BY <1>1, <2>1 DEF Piece
  <2>5. v \in Seq(Chars)
    BY <2>1, <2>4, VisibleType
  <2>6. Position' = Position + n
    BY <1>1, <1>2 DEF Position
  <2> HIDE DEF v
  <2>7. (out \o s) \o v = out \o (s \o v)
    <3>1. out \in Seq(Chars) /\ s \in Seq(Chars)
      BY <1>1, <1>3
    <3>2. \A a, b, c \in Seq(Chars) : (a \o b) \o c = a \o (b \o c)
      BY Concats
    <3> QED BY <2>5, <3>1, <3>2, ZenonT(60)
  <2>8. Strip(text) = out' \o v
    BY <2>2, <2>3, <2>7 DEF s
  <2> QED BY <2>6, <2>8 DEF v
<1> QED BY <1>5, <1>6, <1>7 DEF Split

LEMMA PrefixOfConcat ==
    ASSUME NEW s \in Seq(Chars), NEW t \in Seq(Chars)
    PROVE  IsPrefix(s, s \o t)
<1>1. /\ s \o t \in Seq(Chars) /\ Len(s \o t) = Len(s) + Len(t)
      /\ \A k \in 1..Len(s) : (s \o t)[k] = s[k]
      /\ Len(s) \in Nat /\ Len(t) \in Nat
  BY ConcatProperties, LenProperties
<1> DEFINE u == s \o t
<1>2. u \in Seq(Chars) /\ Len(s) <= Len(u) /\ \A k \in 1..Len(s) : s[k] = u[k]
  BY <1>1
<1> HIDE DEF u
<1>3. IsPrefix(s, u)
  BY <1>2, PrefixIs
<1> QED BY <1>3 DEF u

LEMMA PrefixOfPrefix ==
    ASSUME NEW s \in Seq(Chars), NEW t \in Seq(Chars), NEW u \in Seq(Chars),
           IsPrefix(s, t), IsPrefix(t, u)
    PROVE  IsPrefix(s, u)
<1>1. Len(s) \in Nat /\ Len(t) \in Nat /\ Len(u) \in Nat
  BY LenProperties
<1>2. Len(s) <= Len(t) /\ Len(t) <= Len(u)
  BY PrefixIs
<1>3. \A k \in 1..Len(s) : s[k] = t[k]
  BY PrefixIs
<1>4. \A k \in 1..Len(t) : t[k] = u[k]
  BY PrefixIs
<1>5. \A k \in 1..Len(s) : k \in 1..Len(t)
  BY <1>1, <1>2
<1> QED BY <1>1, <1>2, <1>3, <1>4, <1>5, PrefixIs

\* Every iteration keeps the split, and shows more or nothing.
LEMMA AtTagKeeps ==
    ASSUME TypeOK, Held, Split, AtTag
    PROVE  TypeOK' /\ Held' /\ Split'
<1> DEFINE f == Find(buf, Tag)
           n == f + Len(Tag) - 1
<1>1. buf \in Seq(Chars) /\ inside \in BOOLEAN /\ Tag = TagOf(inside) /\ feeding \in BOOLEAN
  BY DEF TypeOK, Tag, TagOf
<1>2. f # 0 /\ UNCHANGED <<input, feeding>> /\ inside' = ~inside /\ buf' = Drop(buf, n)
  BY DEF AtTag
<1>3. out' = out \o Stretch(buf, 1, f - 1, inside)
  <2>1. out \o <<>> = out
    BY ConcatEmptySeq DEF TypeOK
  <2> QED BY <2>1 DEF AtTag, Stretch
<1> HIDE DEF f
<1>4. Piece(buf, buf, 1) /\ 1 \in 1..(Len(buf) + 1)
  BY <1>1, LenProperties DEF Piece
<1>5. f \in 1..Len(buf) /\ n \in 1..Len(buf)
  BY <1>1, <1>2, <1>4, TagTaken DEF f
<1>6. Len(buf) \in Nat /\ Len(Tag) \in Nat \ {0}
  BY <1>1, Tags, LenProperties
<1>7. n \in 0..Len(buf) /\ f - 1 \in 0..n
  BY <1>5, <1>6
<1>8. ASSUME NEW text \in Seq(Chars), NEW i \in Nat, i \in 1..(Len(text) + 1), Piece(buf, text, i)
      PROVE  Takes(buf, text, i, inside, n, f - 1, inside')
  <2>1. PICK h \in BOOLEAN : h = inside
    BY <1>1
  <2>2. f = Find(buf, TagOf(h)) /\ n = f + Len(TagOf(h)) - 1
    BY <1>1, <2>1 DEF f
  <2>3. Takes(buf, text, i, h, f + Len(TagOf(h)) - 1, f - 1, ~h)
    BY <1>1, <1>2, <1>8, <2>2, TagTaken
  <2> HIDE DEF n
  <2> QED BY <1>2, <2>1, <2>2, <2>3
<1> HIDE DEF n
<1> QED BY <1>1, <1>2, <1>3, <1>7, <1>8, TakeKeeps

LEMMA NoTagKeeps ==
    ASSUME TypeOK, Held, Split, NoTag
    PROVE  TypeOK' /\ Held' /\ Split' /\ IsStrictPrefix(buf', Tag')
<1> DEFINE n == Len(buf) - SuffixOverlap(buf, Tag)
<1>1. buf \in Seq(Chars) /\ inside \in BOOLEAN /\ Tag = TagOf(inside) /\ Len(buf) \in Nat
  BY LenProperties DEF TypeOK, Tag, TagOf
<1>2. /\ Find(buf, Tag) = 0 /\ UNCHANGED <<input, inside>> /\ feeding' = FALSE
      /\ buf' = Drop(buf, n)
  BY DEF NoTag
<1>3. out' = out \o Stretch(buf, 1, n, inside)
  <2>1. out \o <<>> = out
    BY ConcatEmptySeq DEF TypeOK
  <2> QED BY <2>1 DEF NoTag, Stretch
<1>4. /\ SuffixOverlap(buf, Tag) \in 0..(Len(Tag) - 1) /\ SuffixOverlap(buf, Tag) <= Len(buf)
      /\ \A j \in 1..SuffixOverlap(buf, Tag) : buf[Len(buf) - SuffixOverlap(buf, Tag) + j] = Tag[j]
  BY <1>1, Tags, OverlapIs
<1>5. n \in 0..Len(buf) /\ n \in 0..n
  BY <1>1, <1>4
<1>6. ASSUME NEW text \in Seq(Chars), NEW i \in Nat, i \in 1..(Len(text) + 1), Piece(buf, text, i)
      PROVE  Takes(buf, text, i, inside, n, n, inside')
  <2>1. n = Len(buf) - SuffixOverlap(buf, TagOf(inside)) /\ Find(buf, TagOf(inside)) = 0
    BY <1>1, <1>2
  <2> HIDE DEF n
  <2>2. PICK h \in BOOLEAN : h = inside
    BY <1>1
  <2>3. Takes(buf, text, i, h, n, n, h)
    BY <1>1, <1>6, <2>1, <2>2, NoTagTaken
  <2> QED BY <1>2, <2>2, <2>3
<1>7. IsStrictPrefix(buf', Tag')
  <2>1. /\ buf' \in Seq(Chars) /\ Len(buf') = Len(buf) - n
        /\ \A k \in 1..(Len(buf) - n) : buf'[k] = buf[n + k]
    BY <1>1, <1>2, <1>5, Dropped
  <2>2. Tag' = Tag /\ Tag \in Seq(Chars) /\ Len(Tag) \in Nat
    BY <1>1, <1>2, Tags DEF Tag
  <2>3. Len(buf) - n = SuffixOverlap(buf, Tag) /\ Len(buf') < Len(Tag)
    BY <1>1, <1>4, <2>1, <2>2
  <2>4. \A k \in 1..Len(buf') : buf'[k] = Tag[k]
    BY <1>4, <2>1, <2>3
  <2>5. buf' # Tag
    BY <2>1, <2>2, <2>3
  <2>6. IsPrefix(buf', Tag)
    <3>1. Len(buf') <= Len(Tag)
      BY <2>1, <2>2, <2>3
    <3> QED BY <2>1, <2>2, <2>4, <3>1, PrefixIs, Zenon
  <2> QED BY <2>2, <2>5, <2>6 DEF IsStrictPrefix
<1> HIDE DEF n
<1>8. TypeOK' /\ Held' /\ Split'
  <2>1. feeding' \in BOOLEAN /\ inside' \in BOOLEAN
    BY <1>1, <1>2
  <2> QED BY <1>2, <1>3, <1>5, <1>6, <2>1, TakeKeeps
<1> QED BY <1>7, <1>8

LEMMA ExhaustedKeeps ==
    ASSUME TypeOK, Held, Split, Exhausted
    PROVE  TypeOK' /\ Held' /\ Split' /\ IsStrictPrefix(buf', Tag')
<1>1. TypeOK' /\ Held' /\ Split'
  BY DEF Exhausted, TypeOK, Held, Split, Position
<1>2. buf' = <<>> /\ Tag' = TagOf(inside) /\ inside \in BOOLEAN
  BY DEF Exhausted, TypeOK, Tag, TagOf
<1>3. TagOf(inside) \in Seq(Chars) /\ TagOf(inside) # <<>>
  BY <1>2, Tags
<1>4. IsPrefix(<<>>, TagOf(inside))
  <2>1. <<>> \in Seq(Chars) /\ Len(<<>>) = 0 /\ Len(TagOf(inside)) \in Nat
    BY <1>3, EmptySeq, LenProperties
  <2>2. Len(<<>>) <= Len(TagOf(inside)) /\ \A k \in 1..Len(<<>>) : <<>>[k] = TagOf(inside)[k]
    BY <2>1
  <2> QED BY <1>3, <2>1, <2>2, PrefixIs, Zenon
<1> QED BY <1>1, <1>2, <1>3, <1>4 DEF IsStrictPrefix

-----------------------------------------------------------------------------
(* The reply                                                               *)

Working == stage \in {"streaming", "ending"}

\* While the stream is worked on, the filter is where it should be, and what was
\* sent is what it has shown.
FilterStory ==
    Working => /\ Held /\ Split
               /\ IsPrefix(shown, out)
               /\ ~feeding => shown = out

\* Afterwards it rests: the reply is complete, or was left in the middle.
ReplyStory ==
    /\ ~Working => ~feeding /\ IsPrefix(shown, Strip(input))
    /\ stage \in {"saving", "saved"} => shown = Strip(input)
    /\ stage # "saved" => stored = NoReply
    /\ stage = "saved" => stored = [text |-> shown, tokens |-> tokens]

UsageStory ==
    /\ \/ usage = <<>> /\ tokens = 0
       \/ \E n \in 0..MaxTokens : usage = <<[input |-> n, output |-> tokens]>>
    /\ stage = "streaming" => usage = <<>>

ReplyInv == ReplyTypeOK /\ HoldsOnlyATag /\ FilterStory /\ ReplyStory /\ UsageStory

LEMMA StripIs ==
    ASSUME TypeOK, Held, Split
    PROVE  /\ Strip(input) \in Seq(Chars)
           /\ Strip(input) = out \o Visible(input)[<<Position, inside>>]
           /\ Position \in 1..(Len(input) + 1) /\ Piece(buf, input, Position)
           /\ IsPrefix(out, Strip(input))
<1>1. input \in Seq(Chars) /\ out \in Seq(Chars) /\ inside \in BOOLEAN /\ Len(input) \in Nat
  BY LenProperties DEF TypeOK
<1>2. <<>> \in Seq(Chars) /\ input \o <<>> = input
  BY <1>1, EmptySeq, ConcatEmptySeq
<1>3. Strip(input) = out \o Visible(input)[<<Position, inside>>]
  BY <1>2 DEF Split
<1>4. Position \in 1..(Len(input) + 1) /\ Piece(buf, input, Position)
  BY <1>2, HeldPiece
<1>5. Visible(input)[<<Position, inside>>] \in Seq(Chars)
  BY <1>1, <1>4, VisibleType
<1>6. Strip(input) \in Seq(Chars)
  <2>1. 1 \in 1..(Len(input) + 1) /\ FALSE \in BOOLEAN
    BY <1>1
  <2> QED BY <1>1, <2>1, VisibleType DEF Strip
<1>7. IsPrefix(out, Strip(input))
  BY <1>1, <1>3, <1>5, PrefixOfConcat
<1> QED BY <1>3, <1>4, <1>6, <1>7

LEMMA ShownSoFar ==
    ASSUME ReplyInv, Working
    PROVE  IsPrefix(shown, Strip(input))
<1>1. TypeOK /\ Held /\ Split /\ IsPrefix(shown, out) /\ shown \in Seq(Chars) /\ out \in Seq(Chars)
  BY DEF ReplyInv, ReplyTypeOK, FilterStory, TypeOK
<1> QED BY <1>1, StripIs, PrefixOfPrefix

\* What flush adds completes the text.
LEMMA FlushCompletes ==
    ASSUME TypeOK, Held, Split, IsStrictPrefix(buf, Tag)
    PROVE  out \o Flush = Strip(input)
<1>1. buf \in Seq(Chars) /\ input \in Seq(Chars) /\ Len(buf) \in Nat /\ Len(input) \in Nat
  BY LenProperties DEF TypeOK
<1>2. PICK h \in BOOLEAN : h = inside
  BY DEF TypeOK
<1>3. Tag = TagOf(h) /\ TagOf(h) \in Seq(Chars) /\ Len(TagOf(h)) \in Nat
  BY <1>2, Tags DEF Tag, TagOf
<1>4. Len(buf) < Len(TagOf(h))
  <2>1. Len(buf) <= Len(TagOf(h)) /\ \A k \in 1..Len(buf) : buf[k] = TagOf(h)[k]
    BY <1>1, <1>3, PrefixIs DEF IsStrictPrefix
  <2>2. buf # TagOf(h)
    BY <1>3 DEF IsStrictPrefix
  <2>3. Len(buf) # Len(TagOf(h))
    BY <1>1, <1>3, <2>1, <2>2, SeqEqual
  <2> QED BY <1>1, <1>3, <2>1, <2>3
<1>5. /\ Position \in 1..(Len(input) + 1) /\ Piece(buf, input, Position)
      /\ Strip(input) = out \o Visible(input)[<<Position, h>>]
  BY <1>2, StripIs
<1>6. Position + Len(buf) - 1 = Len(input)
  BY <1>1 DEF Position
<1>7. Visible(input)[<<Position, h>>] = Stretch(buf, 1, Len(buf), h)
  BY <1>1, <1>4, <1>5, <1>6, RestTaken
<1>8. Flush = Stretch(buf, 1, Len(buf), h)
  <2>1. SubSeq(buf, 1, Len(buf)) = buf
    BY <1>1, SubSeqFull
  <2> QED BY <1>2, <2>1 DEF Flush, Stretch
<1> QED BY <1>5, <1>7, <1>8

LEMMA PiecesAreTexts ==
    ASSUME NEW n \in Nat, NEW piece \in Pieces(n)
    PROVE  piece \in Seq(Chars)
<1>1. PICK m \in 1..n : piece \in [1..m -> Chars]
  BY DEF Pieces
<1> QED BY <1>1, SeqDef

LEMMA PrefixOfItself ==
    ASSUME NEW s \in Seq(Chars)
    PROVE  IsPrefix(s, s)
  BY LenProperties, PrefixIs

LEMMA InitReplyInv == ReplyInit => ReplyInv
<1> SUFFICES ASSUME ReplyInit PROVE ReplyInv
  OBVIOUS
<1> USE ConstantsAssumption, ReplyAssumption DEF ReplyInit, Init
<1>1. <<>> \in Seq(Chars) /\ Len(<<>>) = 0 /\ \A S : <<>> \in Seq(S)
  BY EmptySeq
<1>2. ReplyTypeOK
  <2>1. TypeOK
    <3>1. inside \in BOOLEAN /\ feeding \in BOOLEAN
      OBVIOUS
    <3>2. Len(input) = 0 /\ Len(buf) = 0 /\ Len(out) = 0
      BY <1>1
    <3>3. input \in Seq(Chars) /\ buf \in Seq(Chars) /\ out \in Seq(Chars)
      BY <1>1
    <3>4. Len(input) <= MaxInput /\ Len(out) + Len(buf) <= Len(input)
      BY <3>2
    <3> QED BY <3>1, <3>3, <3>4 DEF TypeOK
  <2>2. stage = "streaming" /\ shown = <<>> /\ tokens = 0 /\ usage = <<>> /\ stored = NoReply
    OBVIOUS
  <2>3. 0 \in 0..MaxTokens /\ <<>> \in Seq(Event)
    BY EmptySeq
  <2> QED BY <1>1, <2>1, <2>2, <2>3 DEF ReplyTypeOK
<1>3. HoldsOnlyATag
  <2>1. Tag \in Seq(Chars) /\ Tag # <<>>
    BY DEF Tag
  <2>2. IsPrefix(<<>>, Tag)
    <3>1. Len(Tag) \in Nat
      BY <2>1, LenProperties
    <3>2. Len(<<>>) <= Len(Tag) /\ \A k \in 1..Len(<<>>) : <<>>[k] = Tag[k]
      BY <1>1, <3>1
    <3> QED BY <1>1, <2>1, <3>2, PrefixIs, Zenon
  <2> QED BY <2>1, <2>2 DEF HoldsOnlyATag, IsStrictPrefix
<1>4. Held
  BY <1>1 DEF Held
<1>5. Split
  <2> SUFFICES ASSUME NEW more \in Seq(Chars)
               PROVE  Strip(<<>> \o more) = <<>> \o Visible(<<>> \o more)[<<1, FALSE>>]
    <3>1. Position = 1
      BY <1>1 DEF Position
    <3>2. input = <<>> /\ out = <<>> /\ inside = FALSE
      OBVIOUS
    <3> QED BY <3>1, <3>2, Zenon DEF Split
  <2>1. <<>> \o more = more
    BY ConcatEmptySeq
  <2>2. Len(more) + 1 \in Nat /\ 1 \in 1..(Len(more) + 1)
    BY LenProperties
  <2>3. Visible(more)[<<1, FALSE>>] \in Seq(Chars)
    BY <2>2, VisibleType
  <2> QED BY <2>1, <2>3, ConcatEmptySeq DEF Strip
<1>6. IsPrefix(<<>>, <<>>)
  BY <1>1, PrefixOfItself
<1> QED BY <1>2, <1>3, <1>4, <1>5, <1>6 DEF ReplyInv, FilterStory, ReplyStory, UsageStory, Working

-----------------------------------------------------------------------------
(* Its steps                                                               *)

\* A line with content goes to the filter: what was sent is not all that is
\* out any more, and the buffer may hold anything.
LEMMA LineFed ==
    ASSUME ReplyInv, stage = "streaming", NEW piece \in Seq(Chars), Feed(piece),
           shown' = shown, stored' = stored, stage' \in {"streaming", "ending"}
    PROVE  TypeOK' /\ HoldsOnlyATag' /\ FilterStory' /\ ReplyStory'
<1>1. TypeOK /\ Held /\ Split /\ IsPrefix(shown, out) /\ ~ feeding /\ stored = NoReply
  BY DEF ReplyInv, ReplyTypeOK, FilterStory, ReplyStory, Working, Feed
<1>2. TypeOK' /\ Held' /\ Split'
  BY <1>1, FeedKeeps
<1>3. feeding' = TRUE /\ out' = out
  BY DEF Feed
<1> QED BY <1>1, <1>2, <1>3 DEF HoldsOnlyATag, FilterStory, ReplyStory, Working

LEMMA LineKeeps ==
    ASSUME ReplyInv, NEW piece \in Pieces(MaxPiece), Line(piece)
    PROVE  ReplyInv'
<1>1. piece \in Seq(Chars)
  BY ConstantsAssumption, PiecesAreTexts
<1>2. TypeOK' /\ HoldsOnlyATag' /\ FilterStory' /\ ReplyStory'
  BY <1>1, LineFed DEF Line
<1>3. UsageStory'
  BY DEF Line, ReplyInv, UsageStory
<1>4. ReplyTypeOK'
  BY <1>2 DEF Line, ReplyInv, ReplyTypeOK
<1> QED BY <1>2, <1>3, <1>4 DEF ReplyInv

\* A count that is missing is none.
LEMMA CountIs ==
    ASSUME NEW count \in Unreported..MaxTokens
    PROVE  /\ Max({count, 0}) = IF count = Unreported THEN 0 ELSE count
           /\ Max({count, 0}) \in 0..MaxTokens
<1>1. count \in Int /\ count >= -1 /\ count <= MaxTokens
  BY ReplyAssumption DEF Unreported
<1>2. CASE count = -1
  <2>1. 0 \in {count, 0} /\ \A y \in {count, 0} : 0 >= y
    BY <1>2
  <2>2. \A x \in {count, 0} : (\A y \in {count, 0} : x >= y) => x = 0
    BY <1>2
  <2>3. Max({count, 0}) = 0
    BY <2>1, <2>2 DEF Max
  <2> QED BY <1>2, <2>3, ReplyAssumption DEF Unreported
<1>3. CASE count # -1
  <2>1. count \in {count, 0} /\ \A y \in {count, 0} : count >= y
    BY <1>1, <1>3
  <2>2. \A x \in {count, 0} : (\A y \in {count, 0} : x >= y) => x = count
    BY <1>1, <1>3
  <2>3. Max({count, 0}) = count
    BY <2>1, <2>2 DEF Max
  <2> QED BY <1>1, <1>3, <2>3 DEF Unreported
<1> QED BY <1>2, <1>3

\* The tokens of the final line are what is recorded of the reply.
LEMMA FinalLineKeeps ==
    ASSUME ReplyInv, NEW piece \in {<<>>} \cup Pieces(MaxPiece),
           NEW count \in Unreported..MaxTokens, NEW prompt \in Unreported..MaxTokens,
           FinalLine(piece, count, prompt)
    PROVE  ReplyInv'
<1>1. stage = "streaming" /\ stage' = "ending" /\ shown' = shown /\ stored' = stored
  BY DEF FinalLine
<1>2. TypeOK /\ usage = <<>> /\ tokens = 0 /\ stored = NoReply
  BY <1>1 DEF ReplyInv, ReplyTypeOK, UsageStory, ReplyStory
<1>3. TypeOK' /\ HoldsOnlyATag' /\ FilterStory' /\ ReplyStory'
  <2>1. CASE piece = <<>>
    <3>1. UNCHANGED filterVars
      BY <2>1 DEF FinalLine
    <3>2. TypeOK' /\ HoldsOnlyATag'
      BY <3>1, <1>2 DEF filterVars, TypeOK, ReplyInv, HoldsOnlyATag, Tag
    <3>3. FilterStory'
      BY <1>1, <3>1 DEF filterVars, ReplyInv, FilterStory, Working, Held, Split, Position
    <3> QED BY <1>1, <1>2, <3>2, <3>3 DEF ReplyStory, Working
  <2>2. CASE piece # <<>>
    <3>1. Feed(piece) /\ piece \in Pieces(MaxPiece)
      BY <2>2 DEF FinalLine
    <3>2. piece \in Seq(Chars)
      BY <3>1, ConstantsAssumption, PiecesAreTexts
    <3> QED BY <1>1, <3>1, <3>2, LineFed
  <2> QED BY <2>1, <2>2
<1> DEFINE event == [input |-> Max({prompt, 0}), output |-> tokens']
<1>4. Max({prompt, 0}) \in 0..MaxTokens /\ tokens' = Max({count, 0}) /\ tokens' \in 0..MaxTokens
  BY <1>2, CountIs DEF FinalLine
<1>5. usage' = <<event>> /\ event \in Event
  <2>1. usage' = Append(<<>>, event)
    BY <1>2, <1>4 DEF FinalLine, Recorded
  <2> QED BY <1>4, <2>1 DEF Event
<1>6. UsageStory'
  BY <1>1, <1>4, <1>5 DEF UsageStory
<1>7. ReplyTypeOK'
  <2>1. <<event>> \in Seq(Event)
    BY <1>5
  <2> QED BY <1>1, <1>3, <1>4, <1>5, <2>1 DEF ReplyTypeOK, ReplyInv
<1> QED BY <1>3, <1>6, <1>7 DEF ReplyInv

LEMMA FilterKeeps ==
    ASSUME ReplyInv, Filter
    PROVE  ReplyInv'
<1>1. feeding = TRUE /\ UNCHANGED <<stage, tokens, usage, stored>>
  BY DEF Filter, AtTag, NoTag, Exhausted
<1>2. Working /\ Working'
  BY <1>1 DEF ReplyInv, ReplyStory, Working
<1>3. /\ TypeOK /\ Held /\ Split /\ IsPrefix(shown, out)
      /\ shown \in Seq(Chars) /\ out \in Seq(Chars)
  BY <1>2 DEF ReplyInv, ReplyTypeOK, FilterStory, TypeOK
<1>4. CASE AtTag /\ shown' = shown
  <2>1. TypeOK' /\ Held' /\ Split'
    BY <1>3, <1>4, AtTagKeeps
  <2>2. feeding' = TRUE
    BY <1>1, <1>4 DEF AtTag
  <2>3. IsPrefix(out, out')
    <3>1. PICK s \in Seq(Chars) : out' = out \o s
      <4> DEFINE i == Find(buf, Tag)
      <4>1. \A k \in 1..(i - 1) : buf[k] \in Chars
        <5>1. Tag \in Seq(Chars) /\ Tag # <<>> /\ buf \in Seq(Chars) /\ i # 0
          BY <1>3, <1>4, ConstantsAssumption DEF Tag, TypeOK, AtTag
        <5>2. i \in 1..Len(buf)
          BY <5>1, FindIs
        <5> HIDE DEF i
        <5> TAKE k \in 1..(i - 1)
        <5>3. k \in 1..Len(buf)
          BY <5>1, <5>2, LenProperties
        <5> QED BY <5>1, <5>3, ElementOfSeq
      <4>2. i \in Int
        BY <1>3, <1>4, ConstantsAssumption, FindIs DEF Tag, TypeOK, AtTag
      <4>3. SubSeq(buf, 1, i - 1) \in Seq(Chars)
        <5> HIDE DEF i
        <5>1. i - 1 \in Int
          BY <4>2
        <5> QED BY <4>1, <5>1, SubSeqProperties
      <4>4. out \o <<>> = out /\ <<>> \in Seq(Chars)
        BY <1>3, EmptySeq, ConcatEmptySeq
      <4>5. out' = IF inside THEN out ELSE out \o SubSeq(buf, 1, i - 1)
        BY <1>4 DEF AtTag
      <4> HIDE DEF i
      <4> QED BY <4>3, <4>4, <4>5
    <3> QED BY <1>3, <3>1, PrefixOfConcat
  <2>4. IsPrefix(shown, out')
    <3>1. out' \in Seq(Chars)
      BY <2>1 DEF TypeOK
    <3> QED BY <1>3, <2>3, <3>1, PrefixOfPrefix
  <2>5. ReplyTypeOK'
    BY <1>1, <1>4, <2>1 DEF ReplyInv, ReplyTypeOK
  <2>6. FilterStory' /\ HoldsOnlyATag'
    BY <1>4, <2>1, <2>2, <2>4 DEF FilterStory, HoldsOnlyATag
  <2> QED BY <1>1, <1>2, <2>5, <2>6 DEF ReplyInv, ReplyStory, UsageStory, Working
<1>5. CASE (NoTag \/ Exhausted) /\ shown' = out'
  <2>1. TypeOK' /\ Held' /\ Split' /\ IsStrictPrefix(buf', Tag')
    BY <1>3, <1>5, NoTagKeeps, ExhaustedKeeps
  <2>2. out' \in Seq(Chars)
    BY <2>1 DEF TypeOK
  <2>3. IsPrefix(shown', out')
    BY <1>5, <2>2, PrefixOfItself
  <2>4. ReplyTypeOK'
    BY <1>1, <1>5, <2>1, <2>2 DEF ReplyInv, ReplyTypeOK
  <2>5. FilterStory' /\ HoldsOnlyATag'
    BY <1>5, <2>1, <2>3 DEF FilterStory, HoldsOnlyATag
  <2> QED BY <1>1, <1>2, <2>4, <2>5 DEF ReplyInv, ReplyStory, UsageStory, Working
<1> QED BY <1>4, <1>5 DEF Filter

\* The filter rests while the stream ends or breaks off, and the reply is saved.
LEMMA RestKeeps ==
    ASSUME ReplyInv, UNCHANGED <<filterVars, shown, tokens, usage>>
    PROVE  /\ TypeOK' /\ HoldsOnlyATag' /\ shown' \in Seq(Chars)
           /\ tokens' \in 0..MaxTokens /\ usage' \in Seq(Event)
           /\ Held' = Held /\ Split' = Split /\ Strip(input)' = Strip(input)
           /\ Working => IsPrefix(shown', Strip(input)')
<1>1. IsPrefix(shown, Strip(input)) \/ ~ Working
  BY ShownSoFar
<1>2. UNCHANGED <<input, buf, inside, out, feeding, shown>>
  BY DEF filterVars
<1>3. Strip(input') = Strip(input)
  BY <1>2
<1>4. TypeOK' /\ HoldsOnlyATag'
  BY <1>2 DEF ReplyInv, ReplyTypeOK, TypeOK, HoldsOnlyATag, Tag
<1>5. Held' = Held /\ Split' = Split
  BY <1>2 DEF Held, Split, Position
<1> QED BY <1>1, <1>2, <1>3, <1>4, <1>5 DEF ReplyInv, ReplyTypeOK

LEMMA CutKeeps == ASSUME ReplyInv, Cut PROVE ReplyInv'
<1>1. UNCHANGED <<filterVars, shown, tokens, usage>> /\ stored' = stored
      /\ stage = "streaming" /\ stage' = "ending"
  BY DEF Cut
<1>2. UNCHANGED <<out, feeding>>
  BY <1>1 DEF filterVars
<1> QED BY <1>1, <1>2, RestKeeps
        DEF ReplyInv, ReplyTypeOK, FilterStory, ReplyStory, UsageStory, Working

\* What was shown when the reply is given up stays the beginning of the text.
LEMMA GivenUp ==
    ASSUME ReplyInv, stage \in {"streaming", "ending", "saving"}, ~ feeding,
           stage' \in {"error", "raised", "left"},
           UNCHANGED <<filterVars, shown, tokens, usage, stored>>
    PROVE  ReplyInv'
<1>1. IsPrefix(shown, Strip(input)) /\ stored = NoReply
  BY ShownSoFar DEF ReplyInv, ReplyStory, Working
<1>2. UNCHANGED <<filterVars, shown, tokens, usage>> /\ UNCHANGED <<input, feeding, stored>>
  BY DEF filterVars
<1>3. ~ Working' /\ stage' # "saved" /\ stage' # "saving" /\ stage' # "streaming"
  BY DEF Working
<1>4. ReplyTypeOK'
  BY <1>1, <1>2, RestKeeps DEF ReplyTypeOK
<1>5. IsPrefix(shown, Strip(input))'
  BY <1>1, <1>2
<1>6. ReplyStory' /\ FilterStory'
  BY <1>1, <1>2, <1>3, <1>5 DEF ReplyStory, FilterStory
<1>7. UsageStory'
  BY <1>3 DEF ReplyInv, UsageStory
<1> QED BY <1>2, <1>4, <1>6, <1>7, RestKeeps DEF ReplyInv

LEMMA EndKeeps == ASSUME ReplyInv, End PROVE ReplyInv'
<1>1. /\ stage = "ending" /\ ~ feeding /\ stage' = "saving" /\ shown' = shown \o Flush
      /\ UNCHANGED <<input, inside, out, feeding, tokens, usage, stored>>
      /\ buf' = IF inside THEN buf ELSE <<>>
  BY DEF End
<1>2. TypeOK /\ Held /\ Split /\ shown = out /\ IsStrictPrefix(buf, Tag) /\ stored = NoReply
  BY <1>1 DEF ReplyInv, ReplyTypeOK, HoldsOnlyATag, FilterStory, ReplyStory, Working
<1>3. shown' = Strip(input)' /\ shown' \in Seq(Chars)
  <2>1. shown' = Strip(input) /\ Strip(input) \in Seq(Chars)
    BY <1>1, <1>2, FlushCompletes, StripIs
  <2> QED BY <1>1, <2>1
<1>4. TypeOK'
  <2>1. <<>> \in Seq(Chars) /\ Len(<<>>) = 0 /\ Len(buf) \in Nat /\ Len(out) \in Nat
    BY <1>2, EmptySeq, LenProperties DEF TypeOK
  <2> QED BY <1>1, <1>2, <2>1 DEF TypeOK
<1>5. HoldsOnlyATag'
  <2>1. Tag' = Tag /\ Tag \in Seq(Chars) /\ Tag # <<>>
    BY <1>1, ConstantsAssumption DEF Tag
  <2>2. IsPrefix(<<>>, Tag)
    <3>1. <<>> \in Seq(Chars) /\ Len(<<>>) = 0 /\ Len(Tag) \in Nat
      BY <2>1, EmptySeq, LenProperties
    <3>2. Len(<<>>) <= Len(Tag) /\ \A k \in 1..Len(<<>>) : <<>>[k] = Tag[k]
      BY <3>1
    <3> QED BY <2>1, <3>1, <3>2, PrefixIs, Zenon
  <2>3. IsStrictPrefix(<<>>, Tag)
    BY <2>1, <2>2 DEF IsStrictPrefix
  <2>4. IsStrictPrefix(buf', Tag')
    BY <1>1, <1>2, <2>1, <2>3
  <2> QED BY <2>4 DEF HoldsOnlyATag
<1>6. ReplyStory' /\ FilterStory' /\ UsageStory'
  <2>1. IsPrefix(shown', Strip(input)')
    BY <1>3, PrefixOfItself
  <2>2. ~ Working'
    BY <1>1 DEF Working
  <2> QED BY <1>1, <1>2, <1>3, <2>1, <2>2 DEF ReplyInv, ReplyStory, FilterStory, UsageStory
<1>7. ReplyTypeOK'
  BY <1>1, <1>3, <1>4 DEF ReplyInv, ReplyTypeOK
<1> QED BY <1>5, <1>6, <1>7 DEF ReplyInv

LEMMA SaveKeeps == ASSUME ReplyInv, Save PROVE ReplyInv'
<1>1. /\ stage = "saving" /\ stage' = "saved" /\ stored' = [text |-> shown, tokens |-> tokens]
      /\ UNCHANGED <<filterVars, shown, tokens, usage>>
      /\ UNCHANGED <<input, feeding>>
  BY DEF Save, filterVars
<1>2. ReplyTypeOK'
  <2>1. stored' \in Row
    BY <1>1 DEF ReplyInv, ReplyTypeOK, Row
  <2> QED BY <1>1, <2>1, RestKeeps DEF ReplyTypeOK
<1>3. ReplyStory' /\ FilterStory' /\ UsageStory'
  BY <1>1 DEF ReplyInv, ReplyStory, FilterStory, UsageStory, Working
<1> QED BY <1>1, <1>2, <1>3, RestKeeps DEF ReplyInv

LEMMA StutterKeeps == ASSUME ReplyInv, UNCHANGED replyVars PROVE ReplyInv'
  BY DEF replyVars, filterVars, ReplyInv, ReplyTypeOK, TypeOK, HoldsOnlyATag, Tag, FilterStory,
         ReplyStory, UsageStory, Working, Held, Split, Position

LEMMA ReplyInvStep ==
    ASSUME ReplyInv, [ReplyNext]_replyVars
    PROVE  ReplyInv'
<1>1. ASSUME NEW piece \in Pieces(MaxPiece), Line(piece) PROVE ReplyInv'
  BY <1>1, LineKeeps
<1>2. ASSUME NEW piece \in {<<>>} \cup Pieces(MaxPiece), NEW count \in Unreported..MaxTokens,
             NEW prompt \in Unreported..MaxTokens, FinalLine(piece, count, prompt)
      PROVE  ReplyInv'
  BY <1>2, FinalLineKeeps
<1>3. CASE Cut
  BY <1>3, CutKeeps
<1>4. CASE Abandon
  BY <1>4, GivenUp DEF Abandon
<1>5. ASSUME NEW end \in {"error", "raised"}, Breaks(end) PROVE ReplyInv'
  BY <1>5, GivenUp DEF Breaks
<1>6. CASE Filter
  BY <1>6, FilterKeeps
<1>7. CASE End
  BY <1>7, EndKeeps
<1>8. CASE Save
  BY <1>8, SaveKeeps
<1>9. CASE UNCHANGED replyVars
  BY <1>9, StutterKeeps
<1> QED BY <1>1, <1>2, <1>3, <1>4, <1>5, <1>6, <1>7, <1>8, <1>9 DEF ReplyNext

LEMMA ReplyInvHolds == ReplySpec => []ReplyInv
  BY InitReplyInv, ReplyInvStep, PTL DEF ReplySpec

-----------------------------------------------------------------------------
(* What the usage bar adds up                                              *)

\* A sum over the events of a reply, unfolded: there is none or one.
LEMMA SumNone == SumFunction(<<>>) = 0
<1> DEFINE D == DOMAIN <<>>
<1> DEFINE Rest(g, s) == <<>>[CHOOSE y \in s : TRUE] + g[s \ {CHOOSE y \in s : TRUE}]
<1> DEFINE IsIter(g) == g = [s \in SUBSET D |-> IF s = {} THEN 0 ELSE Rest(g, s)]
<1> DEFINE h == [s \in SUBSET D |-> 0]
<1>1. SumFunction(<<>>) = (CHOOSE g : IsIter(g))[D]
  BY DEF SumFunction, SumFunctionOnSet, FoldFunctionOnSet, MapThenFoldSet
<1>2. D = {}
  OBVIOUS
<1>3. IsIter(h)
  <2> HIDE DEF Rest
  <2>1. \A s \in SUBSET D : s = {}
    BY <1>2
  <2>2. [s \in SUBSET D |-> IF s = {} THEN 0 ELSE Rest(h, s)] = [s \in SUBSET D |-> 0]
    BY <2>1
  <2> QED BY <2>2
<1>4. IsIter(CHOOSE g : IsIter(g))
  <2> HIDE DEF IsIter, h
  <2> QED BY <1>3
<1> HIDE DEF Rest, h
<1>5. \A g : IsIter(g) => g[D] = 0
  BY <1>2
<1> HIDE DEF IsIter
<1> QED BY <1>1, <1>4, <1>5

LEMMA SumOne == ASSUME NEW x \in Nat PROVE SumFunction(<<x>>) = x
<1> DEFINE D == DOMAIN <<x>>
<1> DEFINE Rest(g, s) == <<x>>[CHOOSE y \in s : TRUE] + g[s \ {CHOOSE y \in s : TRUE}]
<1> DEFINE IsIter(g) == g = [s \in SUBSET D |-> IF s = {} THEN 0 ELSE Rest(g, s)]
<1> DEFINE h == [s \in SUBSET D |-> IF s = {} THEN 0 ELSE x]
<1>1. SumFunction(<<x>>) = (CHOOSE g : IsIter(g))[D]
  BY DEF SumFunction, SumFunctionOnSet, FoldFunctionOnSet, MapThenFoldSet
<1>2. D = {1} /\ <<x>>[1] = x
  OBVIOUS
<1>3. \A s \in SUBSET D : s = {} \/ s = {1}
  BY <1>2
<1>4. (CHOOSE y \in {1} : TRUE) = 1
  OBVIOUS
<1>5. \A g : g[{}] = 0 => Rest(g, {1}) = x
  <2>1. {1} \ {1} = {}
    OBVIOUS
  <2> QED BY <1>2, <1>4, <2>1
<1> HIDE DEF Rest, D
<1>6. IsIter(h)
  <2>1. h[{}] = 0
    OBVIOUS
  <2>2. Rest(h, {1}) = x
    BY <1>5, <2>1
  <2> HIDE DEF h
  <2>3. [s \in SUBSET D |-> IF s = {} THEN 0 ELSE Rest(h, s)] = [s \in SUBSET D |-> IF s = {} THEN 0 ELSE x]
    BY <1>3, <2>2
  <2> QED BY <2>3 DEF h
<1>7. IsIter(CHOOSE g : IsIter(g))
  <2> HIDE DEF IsIter, h
  <2> QED BY <1>6
<1>8. ASSUME NEW g, IsIter(g) PROVE g[D] = x
  <2>1. {} \in SUBSET D /\ {1} \in SUBSET D /\ {1} # {}
    BY <1>2
  <2>2. g[{}] = 0 /\ g[{1}] = Rest(g, {1})
    BY <1>8, <2>1
  <2> QED BY <1>2, <1>5, <2>2
<1> HIDE DEF IsIter
<1> QED BY <1>1, <1>7, <1>8

\* What the bar has of a reply.
LEMMA BarShows ==
    /\ usage = <<>> => InputTokens = 0 /\ OutputTokens = 0
    /\ \A m, n \in Nat :
          usage = <<[input |-> m, output |-> n]>> => InputTokens = m /\ OutputTokens = n
<1>1. ASSUME usage = <<>> PROVE InputTokens = 0 /\ OutputTokens = 0
  <2>1. [i \in DOMAIN usage |-> usage[i].input] = <<>> /\ [i \in DOMAIN usage |-> usage[i].output] = <<>>
    BY <1>1
  <2> QED BY <2>1, SumNone DEF InputTokens, OutputTokens
<1>2. ASSUME NEW m \in Nat, NEW n \in Nat, usage = <<[input |-> m, output |-> n]>>
      PROVE  InputTokens = m /\ OutputTokens = n
  <2>1. [i \in DOMAIN usage |-> usage[i].input] = <<m>> /\ [i \in DOMAIN usage |-> usage[i].output] = <<n>>
    BY <1>2
  <2> QED BY <2>1, SumOne DEF InputTokens, OutputTokens
<1> QED BY <1>1, <1>2

-----------------------------------------------------------------------------
(* The theorems                                                            *)

\* StoredIsStripped: for any two tags, any text, however Ollama cuts it into lines
\* and wherever the stream ends, the row that _stream_role saves has the text
\* without the spans of the tags, an unclosed one left out to its end, and the
\* token frames sent before it add up to that same text.
THEOREM StoredTextIsStripped == ReplySpec => []StoredIsStripped
<1>1. ReplyInv => StoredIsStripped
  BY DEF ReplyInv, ReplyStory, StoredIsStripped
<1> QED BY <1>1, ReplyInvHolds, PTL

\* ShownIsFinal: in the middle of the stream, and when the reply is given up there,
\* what the client was sent is the beginning of the stripped text of what Ollama
\* sent.  No character of a span ever leaves _ThinkFilter.feed.
THEOREM ShownNeverTakenBack == ReplySpec => []ShownIsFinal
<1>1. ReplyInv => ShownIsFinal
  <2>1. ASSUME ReplyInv, ~ Working PROVE ShownIsFinal
    BY <2>1 DEF ReplyInv, ReplyStory, ShownIsFinal
  <2>2. ASSUME ReplyInv, Working PROVE ShownIsFinal
    BY <2>2, ShownSoFar DEF ShownIsFinal
  <2> QED BY <2>1, <2>2
<1> QED BY <1>1, ReplyInvHolds, PTL

\* HoldsOnlyATag: whenever feed has returned, what it keeps back is the beginning
\* of the tag it looks for and not the whole of it, so no text waits for the end of
\* the stream that could have been shown.
THEOREM OnlyATagIsHeld == ReplySpec => []HoldsOnlyATag
<1>1. ReplyInv => HoldsOnlyATag
  BY DEF ReplyInv
<1> QED BY <1>1, ReplyInvHolds, PTL

\* UsageOnce: whether the reply is stored, fails or is given up, UsageTracker has
\* at most one event of it, and the bar's total exceeds the prompt's tokens by what
\* the final line reported of the output, which is what the row says.
THEOREM CountedOnce == ReplySpec => []UsageOnce
<1>1. ReplyInv => UsageOnce
  <2> SUFFICES ASSUME ReplyInv PROVE UsageOnce
    OBVIOUS
  <2>1. tokens \in Nat /\ (stored # NoReply => stored.tokens = tokens)
    BY ReplyAssumption DEF ReplyInv, ReplyTypeOK, ReplyStory
  <2>2. CASE usage = <<>> /\ tokens = 0
    <3>1. Calls = 0 /\ InputTokens = 0 /\ OutputTokens = tokens
      BY <2>2, BarShows DEF Calls
    <3> QED BY <2>1, <3>1 DEF UsageOnce, TotalTokens
  <2>3. ASSUME NEW n \in 0..MaxTokens, usage = <<[input |-> n, output |-> tokens]>>
        PROVE  UsageOnce
    <3>1. Calls = 1
      BY <2>3 DEF Calls
    <3>2. n \in Nat /\ InputTokens = n /\ OutputTokens = tokens
      BY <2>1, <2>3, BarShows, ReplyAssumption
    <3> QED BY <2>1, <3>1, <3>2 DEF UsageOnce, TotalTokens
  <2> QED BY <2>2, <2>3 DEF ReplyInv, UsageStory
<1> QED BY <1>1, ReplyInvHolds, PTL
=============================================================================
