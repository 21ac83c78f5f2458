---------------------------- MODULE NormalizeProofs ----------------------------
(***************************************************************************)
(* Theorems about the normalizer's offset maps: for a text of any length,  *)
(* any passes in any order and any number of edits, the composed map is    *)
(* made of segments without gaps that cover the text, and every range it   *)
(* returns is a range of the original.                                     *)
(***************************************************************************)
EXTENDS NormalizeProps, LoopProofs

Bytes == [newline : BOOLEAN, from : SUBSET Nat, blurred : BOOLEAN]

Segments == [normStart : Nat, normEnd : Nat, origStart : Nat, origEnd : Nat]

Whole(s, limit) == s.normStart < s.normEnd /\ s.origStart <= s.origEnd /\ s.origEnd <= limit

(* Segments without gaps from one offset to another, out of a text of limit  *)
(* bytes.                                                                    *)
Tiles(m, from, to, limit) ==
    /\ m \in Seq(Segments)
    /\ \A k \in 1..Len(m) : Whole(m[k], limit)
    /\ \A k \in 2..Len(m) : m[k].normStart = m[k - 1].normEnd
    /\ IF m = <<>> THEN from = to ELSE m[1].normStart = from /\ m[Len(m)].normEnd = to

(* A builder's segments cover what it has written. *)
BuiltOf(b, t) ==
    /\ b = [out |-> b.out, segs |-> b.segs, changed |-> b.changed]
    /\ b.out \in Seq(Bytes) /\ b.changed \in BOOLEAN
    /\ Tiles(b.segs, 0, Len(b.out), Len(t))

Noted == [start : Nat, end : Nat, size : Nat \ {0}]

ValidRange(span) ==
    /\ span.start \in Nat /\ span.end \in Nat /\ span.start <= span.end
    /\ span.end <= (IF span.part = 1 THEN Length ELSE Plain)

(* The map covers the text, and the builder what it has written.  Of a text  *)
(* that was dropped whole there is nothing to cover: the map of what it was  *)
(* stays, and so does what it covered.                                       *)
NormalizeInv ==
    /\ text \in Seq(Bytes) /\ pass \in 0..Len(Passes) /\ at \in 0..Len(text)
    /\ edits \in 0..MaxEdits /\ detected \in 0..MaxFindings
    /\ acc = <<>> => (text # <<>> => Len(text) = Length)
    /\ acc # <<>> => LET end == acc[Len(acc)].normEnd
                     IN  Tiles(acc, 0, end, Length) /\ (text # <<>> => end = Len(text))
    /\ BuiltOf(built, text)
    /\ payloads \in Seq(Noted) /\ \A k \in 1..Len(payloads) :
          payloads[k].start <= payloads[k].end /\ payloads[k].end <= Len(text)
    /\ \A f \in findings : ValidRange(f.span)

----------------------------------------------------------------------------

LEMMA SmallestOf ==
    ASSUME NEW S, S \subseteq Nat, S # {}
    PROVE  Smallest(S) \in S /\ \A m \in S : Smallest(S) <= m
BY LeastNumber DEF Smallest

LEMMA LargestOfTwo ==
    ASSUME NEW a \in Nat, NEW b \in Nat
    PROVE  Largest({a, b}) = IF a >= b THEN a ELSE b
<1> DEFINE c == IF a >= b THEN a ELSE b
<1>1. c \in {a, b} /\ \A y \in {a, b} : c >= y
  OBVIOUS
<1>2. \A x \in {a, b} : (\A y \in {a, b} : x >= y) => x = c
  OBVIOUS
<1> HIDE DEF c
<1>3. Largest({a, b}) = c
  BY <1>1, <1>2 DEF Largest
<1>4. QED
  BY <1>3 DEF c

LEMMA TilesFacts ==
    ASSUME NEW m, NEW a, NEW b, NEW l \in Nat, Tiles(m, a, b, l), m # <<>>
    PROVE  /\ Len(m) \in Nat \ {0} /\ DOMAIN m = 1..Len(m)
           /\ \A k \in 1..Len(m) : m[k] \in Segments /\ Whole(m[k], l)
           /\ m[1].normStart = a /\ m[Len(m)].normEnd = b /\ a \in Nat /\ b \in Nat
<1>1. Len(m) \in Nat \ {0} /\ DOMAIN m = 1..Len(m) /\ \A k \in 1..Len(m) : m[k] \in Segments
  BY EmptySeq, LenProperties, ElementOfSeq DEF Tiles
<1>2. m[1] \in Segments /\ m[Len(m)] \in Segments
  BY <1>1
<1>3. QED
  BY <1>1, <1>2 DEF Tiles, Segments

(* Segments are not empty, and neither is what some of them cover. *)
LEMMA TilesSpan ==
    ASSUME NEW m, NEW b \in Nat, NEW l \in Nat, Tiles(m, 0, b, l), m # <<>>
    PROVE  0 < b
<1> DEFINE n == Len(m)
<1>1. /\ n \in Nat \ {0} /\ m[1].normStart = 0 /\ m[n].normEnd = b
      /\ \A k \in 1..n : m[k] \in Segments /\ Whole(m[k], l)
  BY TilesFacts
<1>2. m[n] \in Segments /\ Whole(m[n], l)
  BY <1>1
<1>3. m[n].normStart \in Nat /\ m[n].normStart < b
  BY <1>1, <1>2 DEF Segments, Whole
<1>4. QED
  BY <1>3

(* The search of a map finds the segment that holds an offset. *)
LEMMA SearchFinds ==
    ASSUME NEW m, NEW a, NEW b, NEW l \in Nat, Tiles(m, a, b, l), m # <<>>,
           NEW p \in Nat, a <= p, p < b
    PROVE  \E i \in 1..Len(m) : Search(m, p) = m[i] /\ m[i].normStart <= p /\ p < m[i].normEnd
<1> DEFINE n == Len(m)
           after == {i \in DOMAIN m : m[i].normEnd > p}
           i == Smallest(after)
<1>1. /\ n \in Nat \ {0} /\ DOMAIN m = 1..n /\ m[1].normStart = a /\ m[n].normEnd = b
      /\ \A k \in 1..n : m[k].normStart \in Nat /\ m[k].normEnd \in Nat
  BY TilesFacts DEF Segments
<1>2. n \in after /\ after \subseteq Nat
  BY <1>1
<1>3. i \in after /\ \A k \in after : i <= k
  <2> HIDE DEF after
  <2>1. QED
    BY <1>2, SmallestOf
<1>4. Search(m, p) = m[i]
  BY <1>2 DEF Search
<1>5. i \in 1..n /\ m[i].normEnd > p
  BY <1>1, <1>3
<1>6. m[i].normStart <= p
  <2>1. CASE i = 1
    BY <1>1, <2>1
  <2>2. CASE i # 1
    <3>1. i \in 2..n /\ i - 1 \in 1..n /\ ~(i <= i - 1)
      BY <1>1, <1>5, <2>2
    <3>2. i - 1 \notin after
      BY <1>3, <3>1
    <3>3. ~(m[i - 1].normEnd > p)
      BY <1>1, <3>1, <3>2
    <3> HIDE DEF i
    <3>4. m[i].normStart = m[i - 1].normEnd
      BY <3>1 DEF Tiles
    <3>5. QED
      BY <1>1, <3>1, <3>3, <3>4
  <2>3. QED
    BY <2>1, <2>2
<1> HIDE DEF i
<1>7. QED
  BY <1>1, <1>4, <1>5, <1>6

LEMMA CopiedOffset ==
    ASSUME NEW s, s.normStart \in Nat, s.normEnd \in Nat, s.origStart \in Nat, s.origEnd \in Nat,
           NEW p \in Nat, s.normStart <= p, p <= s.normEnd, Positional(s)
    PROVE  s.origStart + (p - s.normStart) \in s.origStart..s.origEnd
<1>1. s.normEnd - s.normStart = s.origEnd - s.origStart
  BY DEF Positional
<1>2. QED
  BY <1>1

LEMMA OffsetInRange ==
    ASSUME NEW m, NEW a, NEW b, NEW l \in Nat, Tiles(m, a, b, l), m # <<>>,
           NEW p \in Nat
    PROVE  MapStart(m, p) \in 0..l /\ MapEnd(m, p) \in 0..l
<1> DEFINE n == Len(m)
<1>1. /\ n \in Nat \ {0} /\ \A k \in 1..n : m[k] \in Segments /\ Whole(m[k], l)
      /\ m[1].normStart = a /\ m[n].normEnd = b /\ a \in Nat /\ b \in Nat
  BY TilesFacts
<1>2. \A k \in 1..n : /\ m[k].normStart \in Nat /\ m[k].normEnd \in Nat
                      /\ m[k].origStart \in Nat /\ m[k].origEnd \in Nat
                      /\ m[k].normStart < m[k].normEnd
                      /\ m[k].origStart <= m[k].origEnd /\ m[k].origEnd <= l
  BY <1>1 DEF Segments, Whole
<1>3. m[1].origStart \in 0..l /\ m[n].origEnd \in 0..l
  BY <1>1, <1>2
<1>4. MapStart(m, p) \in 0..l
  <2>1. CASE p <= a \/ p >= b
    BY <1>1, <1>3, <2>1 DEF MapStart, MapOffset
  <2>2. CASE a < p /\ p < b
    <3>1. PICK i \in 1..n : Search(m, p) = m[i] /\ m[i].normStart <= p /\ p < m[i].normEnd
      BY <1>1, <2>2, SearchFinds
    <3>2. MapStart(m, p) = IF Positional(m[i]) THEN m[i].origStart + (p - m[i].normStart) ELSE m[i].origStart
      BY <1>1, <2>2, <3>1 DEF MapStart, MapOffset
    <3> DEFINE s == m[i]
    <3>3. /\ s.normStart \in Nat /\ s.normEnd \in Nat /\ s.origStart \in Nat /\ s.origEnd \in Nat
          /\ s.normStart <= p /\ p <= s.normEnd /\ s.origStart <= s.origEnd /\ s.origEnd <= l
          /\ MapStart(m, p) = IF Positional(s) THEN s.origStart + (p - s.normStart) ELSE s.origStart
      BY <1>2, <3>1, <3>2
    <3> HIDE DEF s
    <3>4. Positional(s) => s.origStart + (p - s.normStart) \in s.origStart..s.origEnd
      BY <3>3, CopiedOffset
    <3>5. QED
      BY <3>3, <3>4
  <2>3. QED
    BY <1>1, <2>1, <2>2
<1>5. MapEnd(m, p) \in 0..l
  <2>1. CASE p <= a \/ p >= b
    BY <1>1, <1>3, <2>1 DEF MapEnd, MapOffset
  <2>2. CASE a < p /\ p < b
    <3>1. p - 1 \in Nat /\ a <= p - 1 /\ p - 1 < b
      BY <1>1, <2>2
    <3>2. PICK i \in 1..n : Search(m, p - 1) = m[i] /\ m[i].normStart <= p - 1 /\ p - 1 < m[i].normEnd
      BY <1>1, <3>1, SearchFinds
    <3>3. MapEnd(m, p) = IF Positional(m[i]) THEN m[i].origStart + (p - m[i].normStart) ELSE m[i].origEnd
      BY <1>1, <2>2, <3>2 DEF MapEnd, MapOffset
    <3> DEFINE s == m[i]
    <3>4. /\ s.normStart \in Nat /\ s.normEnd \in Nat /\ s.origStart \in Nat /\ s.origEnd \in Nat
          /\ s.normStart <= p /\ p <= s.normEnd /\ s.origStart <= s.origEnd /\ s.origEnd <= l
          /\ MapEnd(m, p) = IF Positional(s) THEN s.origStart + (p - s.normStart) ELSE s.origEnd
      BY <1>2, <3>2, <3>3
    <3> HIDE DEF s
    <3>5. Positional(s) => s.origStart + (p - s.normStart) \in s.origStart..s.origEnd
      BY <3>4, CopiedOffset
    <3>6. QED
      BY <3>4, <3>5
  <2>3. QED
    BY <1>1, <2>1, <2>2
<1>6. QED
  BY <1>4, <1>5

(* "The result is always a valid half-open range" of the original. *)
LEMMA SpanIsARange ==
    ASSUME NEW m, NEW a, NEW b, NEW l \in Nat, Tiles(m, a, b, l), m # <<>>,
           NEW start \in Nat, NEW end \in Nat
    PROVE  /\ MapSpan(m, start, end)[1] \in 0..l /\ MapSpan(m, start, end)[2] \in 0..l
           /\ MapSpan(m, start, end)[1] <= MapSpan(m, start, end)[2]
<1> DEFINE x == MapStart(m, start)
           y == MapEnd(m, end)
<1>1. x \in 0..l /\ y \in 0..l
  BY OffsetInRange
<1>2. MapSpan(m, start, end) = <<x, Largest({x, y})>>
  BY DEF MapSpan, IdentityMap
<1> HIDE DEF x, y
<1>3. Largest({x, y}) = IF x >= y THEN x ELSE y
  BY <1>1, LargestOfTwo
<1>4. QED
  BY <1>1, <1>2, <1>3

LEMMA NothingTiles ==
    ASSUME NEW a, NEW l
    PROVE  Tiles(<<>>, a, a, l)
<1>1. <<>> \in Seq(Segments) /\ Len(<<>>) = 0
  BY EmptySeq
<1>2. QED
  BY <1>1 DEF Tiles

LEMMA OneTiles ==
    ASSUME NEW s \in Segments, NEW l \in Nat, Whole(s, l)
    PROVE  Tiles(<<s>>, s.normStart, s.normEnd, l)
<1> DEFINE m == <<s>>
<1>1. m \in Seq(Segments) /\ Len(m) = 1 /\ m[1] = s /\ m # <<>>
  OBVIOUS
<1> HIDE DEF m
<1>2. Tiles(m, s.normStart, s.normEnd, l)
  BY <1>1 DEF Tiles
<1>3. QED
  BY <1>2 DEF m

(* One tiling after another. *)
LEMMA TilesConcat ==
    ASSUME NEW m, NEW n, NEW a, NEW b, NEW c, NEW l \in Nat, Tiles(m, a, b, l), Tiles(n, b, c, l)
    PROVE  Tiles(m \o n, a, c, l)
<1> DEFINE t == m \o n
           i == Len(m)
           j == Len(n)
<1>1. m \in Seq(Segments) /\ n \in Seq(Segments) /\ i \in Nat /\ j \in Nat
  BY LenProperties DEF Tiles
<1>2. /\ t \in Seq(Segments) /\ Len(t) = i + j
      /\ \A k \in 1..(i + j) : t[k] = IF k <= i THEN m[k] ELSE n[k - i]
  BY <1>1, ConcatProperties
<1>3. CASE m = <<>>
  <2>1. i = 0 /\ a = b
    BY <1>3 DEF Tiles
  <2>2. t = n
    BY <1>1, <1>3, ConcatEmptySeq
  <2>3. QED
    BY <2>1, <2>2
<1>4. CASE n = <<>>
  <2>1. b = c /\ t = m
    BY <1>1, <1>4, ConcatEmptySeq DEF Tiles
  <2>2. QED
    BY <2>1
<1>5. CASE m # <<>> /\ n # <<>>
  <2>1. /\ i \in Nat \ {0} /\ (\A k \in 1..i : m[k] \in Segments /\ Whole(m[k], l))
        /\ m[1].normStart = a /\ m[i].normEnd = b
        /\ \A k \in 2..i : m[k].normStart = m[k - 1].normEnd
    BY <1>5, TilesFacts DEF Tiles
  <2>2. /\ j \in Nat \ {0} /\ (\A k \in 1..j : n[k] \in Segments /\ Whole(n[k], l))
        /\ n[1].normStart = b /\ n[j].normEnd = c
        /\ \A k \in 2..j : n[k].normStart = n[k - 1].normEnd
    BY <1>5, TilesFacts DEF Tiles
  <2> HIDE DEF t, i, j
  <2>3. ASSUME NEW k \in 1..(i + j)
        PROVE  Whole(t[k], l)
    <3>1. CASE k <= i
      BY <1>2, <2>1, <3>1
    <3>2. CASE ~(k <= i)
      <4>1. k - i \in 1..j
        BY <2>1, <2>2, <3>2
      <4>2. QED
        BY <1>2, <2>2, <3>2, <4>1
    <3>3. QED
      BY <3>1, <3>2
  <2>4. ASSUME NEW k \in 2..(i + j)
        PROVE  t[k].normStart = t[k - 1].normEnd
    <3>1. k \in 1..(i + j) /\ k - 1 \in 1..(i + j)
      BY <2>1, <2>2
    <3>2. CASE k <= i
      <4>1. k \in 2..i /\ k - 1 <= i
        BY <2>1, <3>2
      <4>2. t[k] = m[k] /\ t[k - 1] = m[k - 1]
        BY <1>2, <3>1, <3>2, <4>1
      <4>3. QED
        BY <2>1, <4>1, <4>2
    <3>3. CASE k = i + 1
      <4>1. ~(k <= i) /\ k - i = 1 /\ k - 1 = i /\ k - 1 <= i
        BY <2>1, <3>3
      <4>2. t[k] = n[1] /\ t[k - 1] = m[i]
        BY <1>2, <3>1, <4>1
      <4>3. QED
        BY <2>1, <2>2, <4>2
    <3>4. CASE k > i + 1
      <4>1. ~(k <= i) /\ ~(k - 1 <= i) /\ k - i \in 2..j /\ (k - 1) - i = (k - i) - 1
        BY <2>1, <2>2, <3>4
      <4>2. t[k] = n[k - i] /\ t[k - 1] = n[(k - i) - 1]
        BY <1>2, <3>1, <4>1
      <4>3. QED
        BY <2>2, <4>1, <4>2
    <3>5. k <= i \/ k = i + 1 \/ k > i + 1
      BY <2>1, <3>1
    <3>6. QED
      BY <3>2, <3>3, <3>4, <3>5
  <2>5. 1 \in 1..(i + j) /\ 1 <= i /\ i + j \in 1..(i + j) /\ ~(i + j <= i) /\ (i + j) - i = j
    BY <2>1, <2>2
  <2>6. t[1] = m[1] /\ t[i + j] = n[j]
    BY <1>2, <2>5
  <2>7. t # <<>>
    <3>1. Len(t) # 0
      BY <1>2, <2>1, <2>2
    <3>2. QED
      BY <3>1
  <2>8. Tiles(t, a, c, l)
    BY <1>2, <2>1, <2>2, <2>3, <2>4, <2>6, <2>7 DEF Tiles
  <2>9. QED
    BY <2>8 DEF t
<1>6. QED
  BY <1>3, <1>4, <1>5

(* A segment appended to a tiling. *)
LEMMA TilesAppend ==
    ASSUME NEW m, NEW a, NEW b, NEW l \in Nat, Tiles(m, a, b, l),
           NEW s \in Segments, Whole(s, l), s.normStart = b
    PROVE  Tiles(Append(m, s), a, s.normEnd, l)
<1>1. Tiles(<<s>>, b, s.normEnd, l)
  BY OneTiles
<1>2. Tiles(m \o <<s>>, a, s.normEnd, l)
  BY <1>1, TilesConcat
<1>3. m \in Seq(Segments)
  BY DEF Tiles
<1>4. m \o <<s>> = Append(m, s)
  BY <1>3, AppendIsConcat
<1>5. QED
  BY <1>2, <1>4

(* A tiling whose last segment goes on. *)
LEMMA TilesExtended ==
    ASSUME NEW m, NEW a, NEW b, NEW l \in Nat, Tiles(m, a, b, l), m # <<>>,
           NEW c \in Nat, b < c, NEW j \in Nat, m[Len(m)].origEnd <= j, j <= l
    PROVE  Tiles([m EXCEPT ![Len(m)].normEnd = c, ![Len(m)].origEnd = j], a, c, l)
<1> DEFINE n == Len(m)
           s == [m[n] EXCEPT !.normEnd = c, !.origEnd = j]
           t == [m EXCEPT ![n].normEnd = c, ![n].origEnd = j]
<1>1. /\ n \in Nat \ {0} /\ DOMAIN m = 1..n /\ (\A k \in 1..n : m[k] \in Segments /\ Whole(m[k], l))
      /\ m[1].normStart = a /\ m[n].normEnd = b /\ b \in Nat /\ m \in Seq(Segments)
      /\ \A k \in 2..n : m[k].normStart = m[k - 1].normEnd
  BY TilesFacts DEF Tiles
<1>2. m[n] \in Segments /\ Whole(m[n], l)
  BY <1>1
<1>3. s \in Segments /\ Whole(s, l) /\ s.normStart = m[n].normStart /\ s.normEnd = c
  <2> DEFINE r == m[n]
             q == [r EXCEPT !.normEnd = c, !.origEnd = j]
  <2>1. r \in Segments /\ Whole(r, l) /\ r.normEnd = b /\ r.origEnd <= j
    BY <1>1, <1>2
  <2> HIDE DEF r
  <2>2. /\ q \in Segments /\ q.normStart = r.normStart /\ q.normEnd = c
        /\ q.origStart = r.origStart /\ q.origEnd = j
    BY <2>1 DEF Segments
  <2>3. r.normStart < c /\ r.origStart <= j /\ r.normStart \in Nat /\ r.origStart \in Nat
    BY <1>1, <2>1 DEF Segments, Whole
  <2> HIDE DEF q
  <2>4. q \in Segments /\ Whole(q, l) /\ q.normStart = r.normStart /\ q.normEnd = c
    BY <2>2, <2>3 DEF Segments, Whole
  <2>5. QED
    BY <2>4 DEF q, r
<1>4. t = [k \in 1..n |-> IF k = n THEN s ELSE m[k]]
  BY <1>1
<1> HIDE DEF t, s, n
<1>5. t \in Seq(Segments) /\ Len(t) = n /\ \A k \in 1..n : t[k] = IF k = n THEN s ELSE m[k]
  BY <1>1, <1>3, <1>4
<1>6. \A k \in 1..n : Whole(t[k], l) /\ t[k].normStart = m[k].normStart
  BY <1>1, <1>3, <1>5
<1>7. ASSUME NEW k \in 2..n
      PROVE  t[k].normStart = t[k - 1].normEnd
  <2>1. k \in 1..n /\ k - 1 \in 1..n /\ k - 1 # n
    BY <1>1
  <2>2. t[k - 1] = m[k - 1]
    BY <1>5, <2>1
  <2>3. QED
    BY <1>1, <1>6, <2>1, <2>2
<1>8. t[1].normStart = a /\ t[n].normEnd = c /\ t # <<>>
  BY <1>1, <1>3, <1>5, <1>6
<1>9. Tiles(t, a, c, l)
  BY <1>5, <1>6, <1>7, <1>8 DEF Tiles
<1>10. QED
  BY <1>9 DEF t, n

----------------------------------------------------------------------------
(* The builder.                                                            *)

LEMMA SliceOf ==
    ASSUME NEW t \in Seq(Bytes), NEW i \in 0..Len(t), NEW j \in 0..Len(t)
    PROVE  /\ Slice(t, i, j) \in Seq(Bytes)
           /\ Len(Slice(t, i, j)) = IF i < j THEN j - i ELSE 0
           /\ \A k \in 1..Len(Slice(t, i, j)) : Slice(t, i, j)[k] = t[i + k]
<1>1. Len(t) \in Nat /\ \A k \in 1..Len(t) : t[k] \in Bytes
  BY LenProperties, ElementOfSeq
<1> DEFINE s == SubSeq(t, i + 1, j)
<1>2. \A k \in (i + 1)..j : t[k] \in Bytes
  BY <1>1
<1>3. /\ s \in Seq(Bytes)
      /\ Len(s) = IF i + 1 <= j THEN j - (i + 1) + 1 ELSE 0
      /\ \A k \in 1..(j - (i + 1) + 1) : s[k] = t[(i + 1) + k - 1]
  <2>1. i + 1 \in Int /\ j \in Int
    BY <1>1
  <2> DEFINE h == i + 1
  <2> HIDE DEF h
  <2>2. /\ SubSeq(t, h, j) \in Seq(Bytes)
        /\ Len(SubSeq(t, h, j)) = IF h <= j THEN j - h + 1 ELSE 0
        /\ \A k \in 1..(j - h + 1) : SubSeq(t, h, j)[k] = t[h + k - 1]
    BY <1>2, <2>1, SubSeqProperties DEF h
  <2>3. QED
    BY <2>2 DEF h
<1> HIDE DEF s
<1>4. Len(s) = IF i < j THEN j - i ELSE 0
  BY <1>1, <1>3
<1>5. \A k \in 1..Len(s) : s[k] = t[i + k]
  <2> TAKE k \in 1..Len(s)
  <2>1. k \in 1..(j - (i + 1) + 1) /\ (i + 1) + k - 1 = i + k
    BY <1>1, <1>4
  <2>2. QED
    BY <1>3, <2>1
<1>6. QED
  BY <1>3, <1>4, <1>5 DEF s, Slice

LEMMA KeepBuilds ==
    ASSUME NEW t \in Seq(Bytes), NEW b, BuiltOf(b, t),
           NEW i \in 0..Len(t), NEW j \in 0..Len(t)
    PROVE  BuiltOf(Keep(b, t, i, j), t)
<1> DEFINE n == Len(b.out)
           k == Len(b.segs)
           c == Keep(b, t, i, j)
           new == Slice(t, i, j)
           Continues == /\ k > 0 /\ b.segs[k].normEnd = n /\ b.segs[k].origEnd = i
                        /\ Positional(b.segs[k])
           end == n + (j - i)
<1>1. /\ Len(t) \in Nat /\ n \in Nat /\ b.out \in Seq(Bytes)
      /\ b = [out |-> b.out, segs |-> b.segs, changed |-> b.changed]
      /\ b.changed \in BOOLEAN /\ Tiles(b.segs, 0, n, Len(t)) /\ b.segs \in Seq(Segments) /\ k \in Nat
  BY LenProperties DEF BuiltOf, Tiles
<1>2. CASE i >= j
  BY <1>2 DEF Keep
<1>3. CASE i < j
  <2>1. new \in Seq(Bytes) /\ Len(new) = j - i
    BY <1>3, SliceOf
  <2>2. b.out \o new \in Seq(Bytes) /\ Len(b.out \o new) = end
    BY <1>1, <2>1, ConcatProperties
  <2>3. end \in Nat /\ n < end
    BY <1>1, <1>3
  <2> DEFINE s == Segment(n, end, i, j)
             segs == IF Continues THEN [b.segs EXCEPT ![k].normEnd = end, ![k].origEnd = j]
                     ELSE Append(b.segs, s)
  <2>4. c = [b EXCEPT !.out = b.out \o new, !.segs = segs]
    BY <1>3 DEF Keep
  <2>5. c = [out |-> b.out \o new, segs |-> segs, changed |-> b.changed]
    <3> HIDE DEF segs, new, c
    <3>1. QED
      BY <1>1, <2>4
  <2>6. Tiles(segs, 0, end, Len(t))
    <3>1. CASE Continues
      <4>1. b.segs # <<>> /\ b.segs[k].origEnd <= j /\ j <= Len(t) /\ j \in Nat
        <5>1. k # 0
          BY <3>1
        <5>2. QED
          BY <1>1, <1>3, <3>1, <5>1
      <4>2. segs = [b.segs EXCEPT ![Len(b.segs)].normEnd = end, ![Len(b.segs)].origEnd = j]
        BY <3>1
      <4> HIDE DEF segs, end
      <4>3. QED
        BY <1>1, <2>3, <4>1, <4>2, TilesExtended
    <3>2. CASE ~Continues
      <4>1. s \in Segments /\ Whole(s, Len(t)) /\ s.normStart = n /\ s.normEnd = end
        BY <1>1, <1>3, <2>3 DEF Segment, Segments, Whole
      <4>2. segs = Append(b.segs, s)
        BY <3>2
      <4> HIDE DEF segs, s, end, n
      <4>3. QED
        BY <1>1, <4>1, <4>2, TilesAppend
    <3>3. QED
      BY <3>1, <3>2
  <2> HIDE DEF segs, c, end, new
  <2>7. c.out = b.out \o new /\ c.segs = segs /\ c.changed = b.changed
    BY <2>5
  <2>8. BuiltOf(c, t)
    BY <1>1, <2>2, <2>5, <2>6, <2>7 DEF BuiltOf
  <2>9. QED
    BY <2>8 DEF c
<1>4. QED
  BY <1>1, <1>2, <1>3

LEMMA ReplaceBuilds ==
    ASSUME NEW t \in Seq(Bytes), NEW b, BuiltOf(b, t), NEW m \in Nat,
           NEW i \in 0..Len(t), NEW j \in 0..Len(t), i <= j, NEW newline \in BOOLEAN
    PROVE  BuiltOf(Replace(b, t, m, i, j, newline), t)
<1> DEFINE n == Len(b.out)
           c == Replace(b, t, m, i, j, newline)
           source == Slice(t, i, j)
           Blurred == \E k \in DOMAIN source : source[k].blurred
           new == [k \in 1..m |-> Byte(newline /\ k = 1, From(source), Blurred)]
           end == n + m
           s == Segment(n, end, i, j)
<1>1. /\ Len(t) \in Nat /\ n \in Nat /\ b.out \in Seq(Bytes)
      /\ b = [out |-> b.out, segs |-> b.segs, changed |-> b.changed]
      /\ b.changed \in BOOLEAN /\ Tiles(b.segs, 0, n, Len(t))
  BY LenProperties DEF BuiltOf
<1>2. CASE m = 0
  <2>1. c = [b EXCEPT !.changed = TRUE]
    BY <1>2 DEF Replace
  <2>2. c = [out |-> b.out, segs |-> b.segs, changed |-> TRUE]
    BY <1>1, <2>1
  <2>3. QED
    BY <1>1, <2>2 DEF BuiltOf
<1>3. CASE m # 0
  <2>1. c = [out |-> b.out \o new, segs |-> Append(b.segs, s), changed |-> TRUE]
    BY <1>3 DEF Replace
  <2>2. From(source) \in SUBSET Nat
    <3>1. source \in Seq(Bytes)
      BY SliceOf
    <3>2. \A k \in DOMAIN source : source[k] \in Bytes
      BY <3>1, LenProperties, ElementOfSeq
    <3>3. QED
      BY <3>2 DEF From, Bytes
  <2>3. \A k \in 1..m : Byte(newline /\ k = 1, From(source), Blurred) \in Bytes
    <3> TAKE k \in 1..m
    <3>1. (newline /\ k = 1) \in BOOLEAN /\ Blurred \in BOOLEAN
      OBVIOUS
    <3>2. QED
      BY <2>2, <3>1 DEF Byte, Bytes
  <2>4. new \in [1..m -> Bytes]
    BY <2>3
  <2> HIDE DEF new
  <2>5. new \in Seq(Bytes) /\ Len(new) = m
    BY <2>4
  <2>6. b.out \o new \in Seq(Bytes) /\ Len(b.out \o new) = end
    BY <1>1, <2>5, ConcatProperties
  <2>7. s \in Segments /\ Whole(s, Len(t)) /\ s.normStart = n /\ s.normEnd = end
    BY <1>1, <1>3 DEF Segment, Segments, Whole
  <2> DEFINE segs == Append(b.segs, s)
  <2> HIDE DEF s, end, n
  <2>8. Tiles(segs, 0, end, Len(t))
    BY <1>1, <2>7, TilesAppend
  <2> DEFINE out == b.out \o new
  <2>9. c = [out |-> out, segs |-> segs, changed |-> TRUE] /\ out \in Seq(Bytes) /\ Len(out) = end
    BY <2>1, <2>6
  <2> HIDE DEF segs, c, out
  <2>10. c.out = out /\ c.segs = segs /\ c.changed = TRUE
    BY <2>9
  <2>11. BuiltOf(c, t)
    BY <2>8, <2>9, <2>10 DEF BuiltOf
  <2>12. QED
    BY <2>11 DEF c
<1>4. QED
  BY <1>2, <1>3

LEMMA MarkingKeepsLength ==
    ASSUME NEW bytes \in Seq(Bytes)
    PROVE  MarkBlurred(bytes) \in Seq(Bytes) /\ Len(MarkBlurred(bytes)) = Len(bytes)
<1> DEFINE n == Len(bytes)
           t == MarkBlurred(bytes)
           blurred(k) == t[k].blurred
<1>1. n \in Nat /\ DOMAIN bytes = 1..n /\ \A k \in 1..n : bytes[k] \in Bytes
  BY LenProperties, ElementOfSeq
<1>2. ASSUME NEW b \in Bytes, NEW z \in BOOLEAN
      PROVE  [b EXCEPT !.blurred = @ \/ z] \in Bytes
  BY DEF Bytes
<1>3. ASSUME NEW k \in 1..n
      PROVE  t[k] \in Bytes
  <2> DEFINE Peers(l) == {q \in DOMAIN bytes : bytes[q].from = bytes[l].from}
             Extent(S) == Largest(S) - Smallest(S) + 1
             z == /\ Cardinality(bytes[k].from) > 1
                  /\ Cardinality(Peers(k)) = Extent(bytes[k].from)
  <2>1. t[k] = [bytes[k] EXCEPT !.blurred = @ \/ z]
    BY <1>1 DEF MarkBlurred
  <2>2. z \in BOOLEAN
    OBVIOUS
  <2> HIDE DEF z
  <2>3. QED
    BY <1>1, <1>2, <2>1, <2>2
<1>4. t = [k \in 1..n |-> t[k]]
  BY <1>1 DEF MarkBlurred
<1> HIDE DEF t
<1>5. t \in Seq(Bytes) /\ Len(t) = n
  BY <1>1, <1>3, <1>4
<1>6. QED
  BY <1>5 DEF t

----------------------------------------------------------------------------
(* Composed maps.                                                          *)

(* A loop that starts anywhere and goes on to a greater place until the end.  *)
IsOnward(f, o, e, one, cut) ==
    \A mid \in o..e : f[mid] = IF mid = e THEN <<>> ELSE one[mid] \o f[cut[mid]]

Onward(cut, o, e) == \A mid \in o..(e - 1) : mid < cut[mid]

LEMMA LoopOnward ==
    ASSUME NEW X, NEW o \in Nat, NEW e \in Nat, o <= e, NEW one \in [o..e -> Seq(X)],
           NEW cut \in [o..e -> o..e], Onward(cut, o, e)
    PROVE  \E f \in [o..e -> Seq(X)] : IsOnward(f, o, e, one, cut)
<1> DEFINE V == Seq(X)
           Is(f, d) == \A mid \in (e - d)..e : f[mid] = IF mid = e THEN <<>> ELSE one[mid] \o f[cut[mid]]
           S == {d \in 0..(e - o) : \E f \in [(e - d)..e -> V] : Is(f, d)}
<1>1. <<>> \in V /\ \A u, v \in V : u \o v \in V
  BY EmptySeq, ConcatProperties
<1> HIDE DEF V
<1>2. 0 \in S
  <2> DEFINE f == [mid \in (e - 0)..e |-> <<>>]
  <2>1. \A mid \in (e - 0)..e : mid = e
    OBVIOUS
  <2>2. f \in [(e - 0)..e -> V] /\ Is(f, 0)
    BY <1>1, <2>1
  <2> HIDE DEF f
  <2>3. \E g \in [(e - 0)..e -> V] : Is(g, 0)
    BY <2>2
  <2>4. 0 \in 0..(e - o)
    OBVIOUS
  <2> HIDE DEF Is
  <2>5. QED
    BY <2>3, <2>4, Zenon
<1>3. ASSUME NEW d \in 0..((e - o) - 1), d \in S
      PROVE  d + 1 \in S
  <2>1. PICK f \in [(e - d)..e -> V] : Is(f, d)
    BY <1>3
  <2> DEFINE p == e - (d + 1)
             g == [mid \in p..e |-> IF mid = p THEN one[p] \o f[cut[p]] ELSE f[mid]]
  <2>2. /\ d + 1 \in 0..(e - o) /\ p \in o..(e - 1) /\ p \in o..e /\ p # e
        /\ \A mid \in p..e : mid # p => mid \in (e - d)..e
        /\ \A mid \in (e - d)..e : mid \in p..e /\ mid # p /\ mid \in o..e
    <3>1. d \in Nat /\ o \in Nat /\ e \in Nat /\ d < e - o
      OBVIOUS
    <3>2. d + 1 \in 0..(e - o) /\ p \in o..(e - 1) /\ p \in o..e /\ p # e /\ e - d = p + 1
      BY <3>1
    <3> DEFINE h == e - d
    <3>3. h = p + 1 /\ p \in Nat /\ h \in Nat /\ o <= p
      BY <3>1, <3>2
    <3> HIDE DEF p, h
    <3>4. \A mid \in p..e : mid # p => mid \in h..e
      BY <3>3
    <3>5. ASSUME NEW mid \in h..e
          PROVE  mid \in p..e /\ mid # p /\ mid \in o..e
      <4>1. mid \in Nat /\ mid <= e /\ mid > p /\ mid >= o
        BY <3>1, <3>3
      <4>2. QED
        BY <3>1, <3>3, <4>1
    <3>6. QED
      BY <3>2, <3>4, <3>5 DEF h
  <2> HIDE DEF p
  <2>3. cut[p] \in (e - d)..e
    <3>1. cut[p] \in o..e /\ p < cut[p]
      BY <2>2 DEF Onward
    <3>2. QED
      BY <3>1 DEF p
  <2>4. one[p] \o f[cut[p]] \in V
    <3>1. one[p] \in V
      BY <2>2 DEF V
    <3>2. f[cut[p]] \in V
      BY <2>3
    <3>3. QED
      BY <1>1, <3>1, <3>2
  <2>5. g \in [p..e -> V]
    BY <2>2, <2>4
  <2>6. \A mid \in (e - d)..e : g[mid] = f[mid]
    BY <2>2
  <2>7. p \in p..e /\ g[p] = one[p] \o f[cut[p]]
    <3>1. p \in p..e
      BY <2>2
    <3>2. QED
      BY <3>1
  <2>8. ASSUME NEW mid \in p..e
        PROVE  g[mid] = IF mid = e THEN <<>> ELSE one[mid] \o g[cut[mid]]
    <3>1. CASE mid = p
      <4>1. g[cut[p]] = f[cut[p]]
        BY <2>3, <2>6
      <4>2. QED
        BY <2>2, <2>7, <3>1, <4>1
    <3>2. CASE mid # p
      <4>1. mid \in (e - d)..e
        BY <2>2, <3>2
      <4>2. g[mid] = IF mid = e THEN <<>> ELSE one[mid] \o f[cut[mid]]
        BY <2>1, <2>6, <4>1
      <4>3. CASE mid = e
        BY <4>2, <4>3
      <4>4. CASE mid # e
        <5>1. mid \in o..(e - 1) /\ mid \in o..e /\ e - d <= mid
          BY <2>2, <4>1, <4>4
        <5>2. cut[mid] \in o..e /\ mid < cut[mid]
          BY <5>1 DEF Onward
        <5>3. cut[mid] \in (e - d)..e
          BY <5>1, <5>2
        <5>4. g[cut[mid]] = f[cut[mid]]
          BY <2>6, <5>3
        <5>5. QED
          BY <4>2, <5>4
      <4>5. QED
        BY <4>3, <4>4
    <3>3. QED
      BY <3>1, <3>2
  <2> HIDE DEF g
  <2>9. \E h \in [p..e -> V] : \A mid \in p..e : h[mid] = IF mid = e THEN <<>> ELSE one[mid] \o h[cut[mid]]
    BY <2>5, <2>8
  <2>10. QED
    BY <2>2, <2>9 DEF p
<1> HIDE DEF S
<1>4. e - o \in S
  <2>1. e - o \in Nat
    OBVIOUS
  <2> DEFINE n == e - o
  <2> HIDE DEF n
  <2>2. \A d \in 0..n : d \in S
    <3>1. n \in Nat /\ \A d \in 0..(n - 1) : d \in S => d + 1 \in S
      BY <1>3, <2>1 DEF n
    <3>2. QED
      BY <1>2, <3>1, InductionTo
  <2>3. QED
    BY <2>1, <2>2 DEF n
<1>5. e - (e - o) = o
  OBVIOUS
<1>6. QED
  BY <1>4, <1>5 DEF S, V, IsOnward

(* A segment of the outer map becomes segments that cover the same bytes and  *)
(* lead to the original.                                                      *)
LEMMA PiecesTile ==
    ASSUME NEW s \in Segments, s.normStart < s.normEnd, s.origStart <= s.origEnd,
           NEW inner, NEW b, NEW l \in Nat, Tiles(inner, 0, b, l), inner # <<>>
    PROVE  Tiles(Pieces(s, inner), s.normStart, s.normEnd, l)
<1> DEFINE o == s.origStart
           e == s.origEnd
           Chained(normStart, normEnd, from, to) ==
               LET r == MapSpan(inner, from, to) IN Segment(normStart, normEnd, r[1], r[2])
           Cut(mid) ==
               LET end == Search(inner, mid).normEnd
               IN  IF mid < end /\ end < s.origEnd THEN end ELSE s.origEnd
           Norm(mid) == s.normStart + (mid - s.origStart)
           one == [mid \in o..e |-> IF mid = e THEN <<>>
                                   ELSE <<Chained(Norm(mid), Norm(Cut(mid)), mid, Cut(mid))>>]
           cut == [mid \in o..e |-> IF mid = e THEN e ELSE Cut(mid)]
           Is(f) == f = [mid \in s.origStart..s.origEnd |->
                           IF mid = s.origEnd THEN <<>>
                           ELSE <<Chained(Norm(mid), Norm(Cut(mid)), mid, Cut(mid))>> \o f[Cut(mid)]]
           from == CHOOSE f : Is(f)
<1>1. /\ s.normStart \in Nat /\ s.normEnd \in Nat /\ o \in Nat /\ e \in Nat /\ o <= e
      /\ s = [normStart |-> s.normStart, normEnd |-> s.normEnd, origStart |-> o, origEnd |-> e]
  BY DEF Segments
<1>2. ASSUME NEW i \in Nat, NEW j \in Nat, i < j, NEW x \in Nat, NEW y \in Nat
      PROVE  /\ Chained(i, j, x, y) \in Segments /\ Whole(Chained(i, j, x, y), l)
             /\ Chained(i, j, x, y).normStart = i /\ Chained(i, j, x, y).normEnd = j
  <2> DEFINE r == MapSpan(inner, x, y)
  <2>1. r[1] \in 0..l /\ r[2] \in 0..l /\ r[1] <= r[2]
    BY SpanIsARange
  <2> HIDE DEF r
  <2>2. Chained(i, j, x, y) = Segment(i, j, r[1], r[2])
    BY DEF r
  <2>3. QED
    BY <1>2, <2>1, <2>2 DEF Segment, Segments, Whole
<1>3. CASE ~Positional(s) \/ s.origStart >= inner[Len(inner)].normEnd
  <2> DEFINE c == Chained(s.normStart, s.normEnd, s.origStart, s.origEnd)
  <2>1. Pieces(s, inner) = <<c>>
    BY <1>3 DEF Pieces
  <2>2. c \in Segments /\ Whole(c, l) /\ c.normStart = s.normStart /\ c.normEnd = s.normEnd
    BY <1>1, <1>2
  <2> HIDE DEF c
  <2>3. QED
    BY <2>1, <2>2, OneTiles
<1>4. CASE Positional(s) /\ ~(s.origStart >= inner[Len(inner)].normEnd)
  <2>1. Pieces(s, inner) = from[o]
    BY <1>4 DEF Pieces
  <2>2. ASSUME NEW mid \in o..(e - 1)
        PROVE  Cut(mid) \in (mid + 1)..e
    <3> DEFINE end == Search(inner, mid).normEnd
    <3>1. Len(inner) \in Nat \ {0} /\ DOMAIN inner = 1..Len(inner)
          /\ \A k \in 1..Len(inner) : inner[k].normEnd \in Nat
      BY TilesFacts DEF Segments
    <3>2. end \in Nat
      <4> DEFINE after == {i \in DOMAIN inner : inner[i].normEnd > mid}
                 i == IF after = {} THEN Len(inner) ELSE Smallest(after)
      <4>1. i \in 1..Len(inner)
        <5>1. after \subseteq 1..Len(inner) /\ after \subseteq Nat
          BY <3>1
        <5>2. after # {} => Smallest(after) \in after
          <6> HIDE DEF after
          <6>1. QED
            BY <5>1, SmallestOf
        <5>3. QED
          BY <3>1, <5>1, <5>2
      <4>2. Search(inner, mid) = inner[i]
        BY DEF Search
      <4> HIDE DEF i
      <4>3. QED
        BY <3>1, <4>1, <4>2
    <3> HIDE DEF end
    <3>3. Cut(mid) = IF mid < end /\ end < e THEN end ELSE e
      BY DEF end
    <3>4. QED
      BY <1>1, <3>2, <3>3
  <2>3. \A mid \in o..e : Norm(mid) \in Nat
    BY <1>1
  <2>4. Norm(o) = s.normStart /\ Norm(e) = s.normEnd
    <3>1. s.normEnd - s.normStart = e - o
      BY <1>4 DEF Positional
    <3>2. QED
      BY <1>1, <3>1
  <2>5. \A i, j \in o..e : i < j => Norm(i) < Norm(j)
    BY <1>1
  <2> HIDE DEF Cut, Norm, o, e
  <2>6. ASSUME NEW mid \in o..(e - 1)
        PROVE  LET c == Chained(Norm(mid), Norm(Cut(mid)), mid, Cut(mid))
               IN  /\ c \in Segments /\ Whole(c, l)
                   /\ c.normStart = Norm(mid) /\ c.normEnd = Norm(Cut(mid))
    <3>1. mid \in o..e /\ mid \in Nat /\ Cut(mid) \in o..e /\ Cut(mid) \in Nat /\ mid < Cut(mid)
      BY <1>1, <2>2
    <3>2. Norm(mid) \in Nat /\ Norm(Cut(mid)) \in Nat /\ Norm(mid) < Norm(Cut(mid))
      BY <2>3, <2>5, <3>1
    <3> HIDE DEF Chained
    <3>3. QED
      BY <1>2, <3>1, <3>2
  <2>7. one \in [o..e -> Seq(Segments)] /\ cut \in [o..e -> o..e]
    <3>1. ASSUME NEW mid \in o..e
          PROVE  one[mid] \in Seq(Segments) /\ cut[mid] \in o..e
      <4>1. CASE mid = e
        BY <1>1, <4>1, EmptySeq
      <4>2. CASE mid # e
        <5>1. mid \in o..(e - 1)
          BY <1>1, <4>2
        <5>2. Cut(mid) \in o..e
          BY <1>1, <2>2, <5>1
        <5> DEFINE c == Chained(Norm(mid), Norm(Cut(mid)), mid, Cut(mid))
        <5>3. c \in Segments
          BY <2>6, <5>1
        <5>4. one[mid] = <<c>> /\ cut[mid] = Cut(mid)
          BY <4>2
        <5> HIDE DEF c
        <5>5. <<c>> \in Seq(Segments)
          BY <5>3
        <5>6. QED
          BY <5>2, <5>4, <5>5
      <4>3. QED
        BY <4>1, <4>2
    <3>2. one = [mid \in o..e |-> one[mid]] /\ cut = [mid \in o..e |-> cut[mid]]
      OBVIOUS
    <3> HIDE DEF one, cut
    <3>3. QED
      BY <3>1, <3>2
  <2>8. Onward(cut, o, e)
    <3> SUFFICES \A mid \in o..(e - 1) : mid < cut[mid]
      BY DEF Onward
    <3> TAKE mid \in o..(e - 1)
    <3>1. mid \in o..e /\ mid # e
      BY <1>1
    <3>2. cut[mid] = Cut(mid)
      BY <3>1
    <3>3. QED
      BY <1>1, <2>2, <3>2
  <2>9. PICK f \in [o..e -> Seq(Segments)] :
            \A mid \in o..e : f[mid] = IF mid = e THEN <<>> ELSE one[mid] \o f[cut[mid]]
    <3> HIDE DEF one, cut
    <3>1. o \in Nat /\ e \in Nat /\ o <= e
      BY <1>1
    <3>2. \E f \in [o..e -> Seq(Segments)] : IsOnward(f, o, e, one, cut)
      BY <2>7, <2>8, <3>1, LoopOnward, Zenon
    <3>3. QED
      BY <3>2, Zenon DEF IsOnward
  <2> DEFINE g == [mid \in o..e |->
                     IF mid = e THEN <<>>
                     ELSE <<Chained(Norm(mid), Norm(Cut(mid)), mid, Cut(mid))>> \o f[Cut(mid)]]
  <2>10. f = g
    <3>1. ASSUME NEW mid \in o..e
          PROVE  f[mid] = g[mid]
      <4>1. CASE mid = e
        BY <2>9, <4>1
      <4>2. CASE mid # e
        <5>1. one[mid] = <<Chained(Norm(mid), Norm(Cut(mid)), mid, Cut(mid))>> /\ cut[mid] = Cut(mid)
          BY <4>2
        <5>2. g[mid] = <<Chained(Norm(mid), Norm(Cut(mid)), mid, Cut(mid))>> \o f[Cut(mid)]
          BY <4>2
        <5> HIDE DEF g, one, cut, Chained
        <5>3. QED
          BY <2>9, <4>2, <5>1, <5>2
      <4>3. QED
        BY <4>1, <4>2
    <3>2. g = [mid \in o..e |-> g[mid]]
      OBVIOUS
    <3> HIDE DEF g
    <3>3. QED
      BY <3>1, <3>2
  <2>11. Is(f)
    BY <2>10 DEF o, e
  <2>12. Is(from)
    <3> HIDE DEF Is
    <3>1. QED
      BY <2>11, Zenon DEF from
  <2>13. \A mid \in o..e :
            from[mid] = IF mid = e THEN <<>>
                        ELSE <<Chained(Norm(mid), Norm(Cut(mid)), mid, Cut(mid))>> \o from[Cut(mid)]
    <3> HIDE DEF from, Chained
    <3>1. QED
      BY <2>12 DEF o, e
  <2> HIDE DEF from, Is, one, cut, g, Chained
  <2> DEFINE S == {d \in 0..(e - o) : \A k \in 0..d : Tiles(from[e - k], Norm(e - k), s.normEnd, l)}
  <2>14. 0 \in S
    <3>1. e \in o..e /\ 0 \in 0..(e - o) /\ e - 0 = e
      BY <1>1
    <3>2. from[e] = <<>>
      BY <2>13, <3>1
    <3>3. Tiles(from[e], Norm(e), s.normEnd, l)
      BY <2>4, <3>2, NothingTiles
    <3>4. \A k \in 0..0 : Tiles(from[e - k], Norm(e - k), s.normEnd, l)
      BY <3>1, <3>3
    <3>5. QED
      BY <3>1, <3>4
  <2>15. ASSUME NEW d \in 0..((e - o) - 1), d \in S
         PROVE  d + 1 \in S
    <3> DEFINE mid == e - (d + 1)
    <3>1. mid \in o..(e - 1) /\ mid \in o..e /\ mid # e /\ mid \in Nat /\ d + 1 \in 0..(e - o)
          /\ d \in Nat /\ d = e - (mid + 1)
      BY <1>1
    <3> HIDE DEF mid
    <3> DEFINE c == Chained(Norm(mid), Norm(Cut(mid)), mid, Cut(mid))
    <3>2. Cut(mid) \in (mid + 1)..e
      BY <2>2, <3>1
    <3>3. e - Cut(mid) \in 0..d /\ e - (e - Cut(mid)) = Cut(mid)
      BY <1>1, <3>1, <3>2
    <3>4. Tiles(from[Cut(mid)], Norm(Cut(mid)), s.normEnd, l)
      <4>1. \A k \in 0..d : Tiles(from[e - k], Norm(e - k), s.normEnd, l)
        BY <2>15
      <4> DEFINE k == e - Cut(mid)
      <4>2. k \in 0..d /\ e - k = Cut(mid)
        BY <3>3
      <4> HIDE DEF k
      <4>3. Tiles(from[e - k], Norm(e - k), s.normEnd, l)
        BY <4>1, <4>2
      <4>4. QED
        BY <4>2, <4>3
    <3>5. c \in Segments /\ Whole(c, l) /\ c.normStart = Norm(mid) /\ c.normEnd = Norm(Cut(mid))
      BY <2>6, <3>1
    <3>6. from[mid] = <<c>> \o from[Cut(mid)]
      BY <2>13, <3>1
    <3> HIDE DEF c
    <3>7. Tiles(<<c>>, Norm(mid), Norm(Cut(mid)), l)
      BY <3>5, OneTiles
    <3>8. Tiles(from[mid], Norm(mid), s.normEnd, l)
      BY <3>4, <3>6, <3>7, TilesConcat
    <3>9. ASSUME NEW k \in 0..(d + 1)
          PROVE  Tiles(from[e - k], Norm(e - k), s.normEnd, l)
      <4>1. CASE k = d + 1
        BY <3>8, <4>1 DEF mid
      <4>2. CASE k # d + 1
        <5>1. k \in 0..d
          BY <3>1, <4>2
        <5>2. QED
          BY <2>15, <5>1
      <4>3. QED
        BY <4>1, <4>2
    <3>10. QED
      BY <3>1, <3>9
  <2> HIDE DEF S
  <2>16. \A d \in 0..(e - o) : d \in S
    <3> DEFINE n == e - o
    <3>1. n \in Nat
      BY <1>1
    <3>2. \A d \in 0..(n - 1) : d \in S => d + 1 \in S
      BY <2>15
    <3> HIDE DEF n
    <3>3. \A d \in 0..n : d \in S
      BY <2>14, <3>1, <3>2, InductionTo
    <3>4. QED
      BY <3>3 DEF n
  <2>17. e - o \in 0..(e - o) /\ e - (e - o) = o
    BY <1>1
  <2>18. e - o \in S
    BY <2>16, <2>17
  <2>19. Tiles(from[o], Norm(o), s.normEnd, l)
    <3> DEFINE n == e - o
    <3>1. n \in 0..n /\ e - n = o
      BY <2>17
    <3>2. \A k \in 0..n : Tiles(from[e - k], Norm(e - k), s.normEnd, l)
      BY <2>18 DEF S
    <3> HIDE DEF n
    <3>3. Tiles(from[e - n], Norm(e - n), s.normEnd, l)
      BY <3>1, <3>2
    <3>4. QED
      BY <3>1, <3>3
  <2>20. QED
    BY <2>1, <2>4, <2>19
<1>5. QED
  BY <1>3, <1>4

(* The composition of two maps leads from the text of the outer one to the    *)
(* original of the inner one.                                                 *)
LEMMA ComposeTiles ==
    ASSUME NEW outer, NEW b, NEW k \in Nat, Tiles(outer, 0, b, k), outer # <<>>,
           NEW inner, NEW c, NEW l \in Nat, Tiles(inner, 0, c, l), inner # <<>>
    PROVE  Tiles(ComposeOffsets(outer, inner), 0, b, l)
<1> DEFINE n == Len(outer)
           seqs == [i \in DOMAIN outer |-> Pieces(outer[i], inner)]
           End(i) == IF i = 0 THEN 0 ELSE outer[i].normEnd
<1>1. /\ n \in Nat \ {0} /\ DOMAIN outer = 1..n
      /\ \A i \in 1..n : outer[i] \in Segments /\ Whole(outer[i], k)
      /\ outer[1].normStart = 0 /\ outer[n].normEnd = b
      /\ \A i \in 2..n : outer[i].normStart = outer[i - 1].normEnd
  BY TilesFacts DEF Tiles
<1>2. ComposeOffsets(outer, inner) = FlattenSeq(seqs)
  BY DEF ComposeOffsets, IdentityMap
<1>3. ASSUME NEW i \in 1..n
      PROVE  Tiles(seqs[i], End(i - 1), End(i), l)
  <2> DEFINE s == outer[i]
  <2>1. s \in Segments /\ s.normStart < s.normEnd /\ s.origStart <= s.origEnd
    BY <1>1 DEF Whole
  <2>2. seqs[i] = Pieces(s, inner)
    BY <1>1
  <2>3. s.normStart = End(i - 1) /\ s.normEnd = End(i)
    <3>1. CASE i = 1
      BY <1>1, <3>1
    <3>2. CASE i # 1
      <4>1. i \in 2..n /\ i - 1 # 0 /\ i # 0
        BY <1>1, <3>2
      <4>2. QED
        BY <1>1, <4>1
    <3>3. QED
      BY <3>1, <3>2
  <2> HIDE DEF s, seqs, End
  <2>4. Tiles(Pieces(s, inner), s.normStart, s.normEnd, l)
    BY <2>1, PiecesTile
  <2>5. QED
    BY <2>2, <2>3, <2>4
<1>4. seqs \in Seq(Seq(Segments)) /\ Len(seqs) = n
  <2>1. \A i \in 1..n : seqs[i] \in Seq(Segments)
    <3> HIDE DEF seqs, End
    <3>1. QED
      BY <1>3 DEF Tiles
  <2>2. seqs = [i \in 1..n |-> seqs[i]]
    BY <1>1
  <2> HIDE DEF seqs, n
  <2>3. QED
    BY <1>1, <2>1, <2>2
<1> HIDE DEF seqs, n
<1>5. PICK f \in [0..n -> Seq(Segments)] :
          /\ f[0] = <<>> /\ \A i \in 1..n : f[i] = f[i - 1] \o seqs[i]
          /\ FlattenSeq(seqs) = f[n]
  BY <1>4, FlatteningIsALoop
<1> DEFINE S == {i \in 0..n : Tiles(f[i], 0, End(i), l)}
<1>6. 0 \in S
  <2>1. Tiles(f[0], 0, End(0), l)
    BY <1>5, NothingTiles
  <2>2. QED
    BY <1>1, <2>1
<1>7. ASSUME NEW i \in 0..(n - 1), i \in S
      PROVE  i + 1 \in S
  <2>1. i + 1 \in 1..n /\ (i + 1) - 1 = i /\ i + 1 \in 0..n
    BY <1>1
  <2> HIDE DEF End
  <2>2. Tiles(f[i], 0, End(i), l)
    BY <1>7
  <2>3. Tiles(seqs[i + 1], End(i), End(i + 1), l)
    BY <1>3, <2>1
  <2>4. f[i + 1] = f[i] \o seqs[i + 1]
    BY <1>5, <2>1
  <2>5. Tiles(f[i + 1], 0, End(i + 1), l)
    BY <2>2, <2>3, <2>4, TilesConcat
  <2>6. QED
    BY <2>1, <2>5
<1> HIDE DEF S
<1>8. n \in S
  <2>1. \A i \in 0..n : i \in S
    BY <1>1, <1>6, <1>7, InductionTo
  <2>2. QED
    BY <1>1, <2>1
<1>9. Tiles(f[n], 0, End(n), l)
  BY <1>8 DEF S
<1>10. End(n) = b
  BY <1>1
<1>11. QED
  BY <1>2, <1>5, <1>9, <1>10

LEMMA WiderLimit ==
    ASSUME NEW m, NEW a, NEW b, NEW k \in Nat, NEW l \in Nat, k <= l, Tiles(m, a, b, k)
    PROVE  Tiles(m, a, b, l)
<1>1. \A i \in 1..Len(m) : m[i] \in Segments
  BY LenProperties, ElementOfSeq DEF Tiles
<1>2. \A i \in 1..Len(m) : Whole(m[i], l)
  <2> TAKE i \in 1..Len(m)
  <2>1. m[i] \in Segments /\ Whole(m[i], k)
    BY <1>1 DEF Tiles
  <2>2. QED
    BY <2>1 DEF Whole, Segments
<1>3. QED
  BY <1>2 DEF Tiles

(* The payloads are written after the text, each out of its token. *)
LEMMA PayloadsBuild ==
    ASSUME text \in Seq(Bytes), BuiltOf(built, text), payloads \in Seq(Noted),
           \A k \in 1..Len(payloads) :
               payloads[k].start <= payloads[k].end /\ payloads[k].end <= Len(text)
    PROVE  BuiltOf(AppendPayloads(built), text)
<1> DEFINE n == Len(payloads)
           base == Keep(built, text, 0, Len(text))
           Builders == [out : Seq(Bytes), segs : Seq(Segments), changed : BOOLEAN]
           V == {c \in Builders : BuiltOf(c, text)}
           New(c, i) == Replace(c, text, payloads[i].size, payloads[i].start, payloads[i].end, TRUE)
           step == [i \in 1..n |-> [c \in V |-> New(c, i)]]
           Iterates(g) == g = [s \in SUBSET (1..n) |->
                             IF s = {} THEN base ELSE New(g[s \ {Max(s)}], Max(s))]
           iter == CHOOSE g : Iterates(g)
<1>1. n \in Nat /\ DOMAIN payloads = 1..n /\ (\A i \in 1..n : payloads[i] \in Noted) /\ Len(text) \in Nat
  BY LenProperties, ElementOfSeq
<1>2. ASSUME NEW c, BuiltOf(c, text)
      PROVE  c \in V
  <2>1. c.out \in Seq(Bytes) /\ c.segs \in Seq(Segments) /\ c.changed \in BOOLEAN
        /\ c = [out |-> c.out, segs |-> c.segs, changed |-> c.changed]
    BY <1>2 DEF BuiltOf, Tiles
  <2> DEFINE B == Seq(Bytes)  G == Seq(Segments)
  <2>2. c.out \in B /\ c.segs \in G
    BY <2>1
  <2> HIDE DEF B, G
  <2>3. c \in [out : B, segs : G, changed : BOOLEAN]
    BY <2>1, <2>2
  <2>4. QED
    BY <1>2, <2>3 DEF B, G
<1>3. base \in V
  <2>1. 0 \in 0..Len(text) /\ Len(text) \in 0..Len(text)
    BY <1>1
  <2>2. BuiltOf(base, text)
    BY <2>1, KeepBuilds
  <2> HIDE DEF base, V
  <2>3. QED
    BY <1>2, <2>2
<1>4. \A c \in V, i \in 1..n : New(c, i) \in V
  <2> TAKE c \in V, i \in 1..n
  <2>1. /\ payloads[i].start \in 0..Len(text) /\ payloads[i].end \in 0..Len(text)
        /\ payloads[i].start <= payloads[i].end /\ payloads[i].size \in Nat
    BY <1>1 DEF Noted
  <2>2. BuiltOf(c, text)
    OBVIOUS
  <2>3. BuiltOf(New(c, i), text)
    BY <2>1, <2>2, ReplaceBuilds
  <2> HIDE DEF New, V
  <2>4. QED
    BY <1>2, <2>3
<1>5. AppendPayloads(built) = iter[1..n]
  BY <1>1 DEF AppendPayloads, FoldLeft, MapThenFoldSet
<1> HIDE DEF n, base, New, V
<1>6. step \in [1..n -> [V -> V]]
  BY <1>4
<1>7. \E g : Iterates(g)
  <2>1. PICK g \in [SUBSET (1..n) -> V] : IsFold(g, n, base, step)
    <3> HIDE DEF step
    <3>1. QED
      BY <1>1, <1>3, <1>6, FoldIsDefined, Zenon
  <2>2. ASSUME NEW s \in SUBSET (1..n), s # {}
        PROVE  g[s] = New(g[s \ {Max(s)}], Max(s))
    <3>1. Max(s) \in 1..n
      BY <1>1, <2>2, GreatestNumber
    <3>2. g[s \ {Max(s)}] \in V
      OBVIOUS
    <3>3. step[Max(s)][g[s \ {Max(s)}]] = New(g[s \ {Max(s)}], Max(s))
      BY <3>1, <3>2
    <3>4. QED
      BY <2>1, <2>2, <3>3 DEF IsFold
  <2>3. Iterates(g)
    BY <2>1, <2>2 DEF IsFold
  <2>4. QED
    BY <2>3
<1>8. Iterates(iter)
  BY <1>7
<1> HIDE DEF iter, step
<1> DEFINE Good == {i \in 0..n : iter[1..i] \in V}
<1>9. 0 \in Good
  <2>1. 1..0 = {} /\ 0 \in 0..n /\ {} \in SUBSET (1..n)
    BY <1>1
  <2>2. QED
    BY <1>3, <1>8, <2>1
<1>10. ASSUME NEW i \in 0..(n - 1), i \in Good
       PROVE  i + 1 \in Good
  <2>1. i + 1 \in 1..n /\ i + 1 \in 0..n /\ (i + 1) - 1 = i
    BY <1>1
  <2> DEFINE j == i + 1
  <2> HIDE DEF j
  <2>2. Max(1..j) = j /\ (1..j) \ {j} = 1..(j - 1) /\ (1..j) \in SUBSET (1..n) /\ 1..j # {}
    BY <1>1, <2>1, TopOfInterval DEF j
  <2>3. iter[1..j] = New(iter[1..(j - 1)], j)
    BY <1>8, <2>2
  <2>4. iter[1..(j - 1)] \in V /\ j \in 1..n
    BY <1>10, <2>1 DEF j
  <2>5. iter[1..j] \in V
    BY <1>4, <2>3, <2>4
  <2>6. QED
    BY <2>1, <2>5 DEF j
<1> HIDE DEF Good
<1>11. n \in Good
  <2>1. \A i \in 0..n : i \in Good
    BY <1>1, <1>9, <1>10, InductionTo
  <2>2. QED
    BY <1>1, <2>1
<1>12. QED
  BY <1>5, <1>11 DEF Good, V

----------------------------------------------------------------------------
(* The invariant.                                                          *)

LEMMA EmptyBuilds ==
    ASSUME NEW t \in Seq(Bytes), NEW changed \in BOOLEAN
    PROVE  BuiltOf(EmptyBuilder(changed), t)
<1>1. <<>> \in Seq(Bytes) /\ Len(<<>>) = 0
  BY EmptySeq
<1>2. Tiles(<<>>, 0, 0, Len(t))
  BY NothingTiles
<1>3. QED
  BY <1>1, <1>2 DEF BuiltOf, EmptyBuilder, IdentityMap

LEMMA NewBuilds ==
    ASSUME NEW t \in Seq(Bytes), NEW n, NEW b \in NewBuilder(n)
    PROVE  BuiltOf(b, t)
<1>1. PICK changed \in BOOLEAN : b = EmptyBuilder(changed)
  BY DEF NewBuilder
<1>2. QED
  BY <1>1, EmptyBuilds

(* What the map makes of a range of the text is a range of the original. *)
LEMMA RangeOfTheOriginal ==
    ASSUME NormalizeInv, NEW i \in Nat, NEW j \in Nat, i < j, j <= Len(text)
    PROVE  /\ MapSpan(acc, i, j)[1] \in 0..Length /\ MapSpan(acc, i, j)[2] \in 0..Length
           /\ MapSpan(acc, i, j)[1] <= MapSpan(acc, i, j)[2]
<1>1. text \in Seq(Bytes) /\ Len(text) \in Nat /\ text # <<>> /\ Length \in Nat
  <2>1. text \in Seq(Bytes) /\ Len(text) \in Nat
    BY LenProperties DEF NormalizeInv
  <2>2. Len(text) # 0
    BY <2>1
  <2>3. QED
    BY <2>1, <2>2, EmptySeq, NormalizeAssumption
<1>2. CASE acc = <<>>
  <2>1. Len(text) = Length
    BY <1>1, <1>2 DEF NormalizeInv
  <2>2. MapSpan(acc, i, j) = <<i, j>>
    BY <1>2 DEF MapSpan, IdentityMap
  <2>3. QED
    BY <1>1, <2>1, <2>2
<1>3. CASE acc # <<>>
  <2>1. Tiles(acc, 0, acc[Len(acc)].normEnd, Length)
    BY <1>3 DEF NormalizeInv
  <2>2. QED
    BY <1>1, <1>3, <2>1, SpanIsARange
<1>4. QED
  BY <1>2, <1>3

LEMMA EvidenceInRange ==
    ASSUME NormalizeInv, NEW i \in Nat, NEW j \in Nat, i < j, j <= Len(text)
    PROVE  ValidRange(Evidence(i, j).span)
<1> DEFINE o == MapSpan(acc, i, j)
<1>1. o[1] \in 0..Length /\ o[2] \in 0..Length /\ o[1] <= o[2]
  BY RangeOfTheOriginal
<1>2. Evidence(i, j).span = Span(1, o[1], o[2])
  BY DEF Evidence
<1> HIDE DEF o
<1>3. Length \in Nat
  BY NormalizeAssumption
<1>4. QED
  BY <1>1, <1>2, <1>3 DEF ValidRange, Span

LEMMA FinishedBuilds ==
    ASSUME NormalizeInv
    PROVE  BuiltOf(Finished, text)
<1>1. text \in Seq(Bytes) /\ BuiltOf(built, text) /\ at \in 0..Len(text)
      /\ Len(text) \in 0..Len(text)
  BY LenProperties DEF NormalizeInv
<1>2. BuiltOf(AppendPayloads(built), text)
  BY <1>1, PayloadsBuild DEF NormalizeInv
<1>3. BuiltOf(Keep(built, text, at, Len(text)), text)
  BY <1>1, KeepBuilds
<1>4. QED
  BY <1>1, <1>2, <1>3, Zenon DEF Finished

LEMMA InitNormalizeInv == Init => NormalizeInv
<1> SUFFICES ASSUME Init
             PROVE  NormalizeInv
  OBVIOUS
<1>1. Length \in Nat /\ Passes \in Seq(Kinds) /\ MaxEdits \in Nat /\ MaxFindings \in Nat
  BY NormalizeAssumption
<1>2. Original \in Seq(Bytes) /\ Len(Original) = Length
  <2>1. \A k \in 1..Length : Byte(FALSE, {k - 1}, FALSE) \in Bytes
    BY <1>1 DEF Byte, Bytes
  <2>2. Original = [k \in 1..Length |-> Original[k]] /\ \A k \in 1..Length : Original[k] \in Bytes
    BY <2>1 DEF Original
  <2>3. QED
    BY <1>1, <2>2
<1>3. text = Original /\ acc = <<>> /\ pass = 0 /\ at = 0 /\ payloads = <<>> /\ findings = {}
      /\ edits = 0 /\ detected = 0 /\ built \in NewBuilder(0)
  BY DEF Init, IdentityMap
<1>4. BuiltOf(built, text)
  BY <1>2, <1>3, NewBuilds
<1>5. Len(Passes) \in Nat /\ <<>> \in Seq(Noted) /\ Len(<<>>) = 0
  BY <1>1, LenProperties, EmptySeq
<1>6. QED
  BY <1>1, <1>2, <1>3, <1>4, <1>5 DEF NormalizeInv

(* A step that leaves the text and its map alone. *)
LEMMA SameTextKeepsInv ==
    ASSUME NormalizeInv, UNCHANGED <<text, acc, pass>>,
           at' \in 0..Len(text), edits' \in 0..MaxEdits, detected' \in 0..MaxFindings,
           BuiltOf(built', text),
           payloads' \in Seq(Noted),
           \A k \in 1..Len(payloads') :
               payloads'[k].start <= payloads'[k].end /\ payloads'[k].end <= Len(text),
           \A f \in findings' : ValidRange(f.span)
    PROVE  NormalizeInv'
BY DEF NormalizeInv, BuiltOf

LEMMA MatchFacts ==
    ASSUME NormalizeInv, NEW i \in Nat, NEW j \in Nat, Matches(i, j)
    PROVE  /\ text \in Seq(Bytes) /\ Len(text) \in Nat
           /\ at \in 0..Len(text) /\ i \in 0..Len(text) /\ j \in 0..Len(text) /\ at <= i /\ i < j
           /\ edits + 1 \in 0..MaxEdits /\ BuiltOf(built, text)
<1>1. text \in Seq(Bytes) /\ Len(text) \in Nat /\ at \in 0..Len(text) /\ edits \in 0..MaxEdits
      /\ BuiltOf(built, text) /\ MaxEdits \in Nat
  BY LenProperties, NormalizeAssumption DEF NormalizeInv
<1>2. edits < MaxEdits /\ at <= i /\ i < j /\ j <= Len(text)
  BY DEF Matches
<1>3. QED
  BY <1>1, <1>2

LEMMA RewriteKeepsInv ==
    ASSUME NormalizeInv, NEW kind, NEW sizes, NEW i \in Nat, NEW j \in Nat, NEW m \in Nat,
           Rewrite(kind, sizes, i, j, m)
    PROVE  NormalizeInv'
<1>1. /\ Matches(i, j)
      /\ built' = Replace(Keep(built, text, at, i), text, m, i, j, FALSE)
      /\ at' = j /\ edits' = edits + 1
      /\ UNCHANGED <<text, acc, pass, payloads, findings, detected>>
  BY DEF Rewrite
<1>2. /\ text \in Seq(Bytes) /\ Len(text) \in Nat
      /\ at \in 0..Len(text) /\ i \in 0..Len(text) /\ j \in 0..Len(text) /\ at <= i /\ i <= j
      /\ edits + 1 \in 0..MaxEdits /\ BuiltOf(built, text)
  BY <1>1, MatchFacts
<1>3. BuiltOf(Keep(built, text, at, i), text)
  BY <1>2, KeepBuilds
<1>4. BuiltOf(built', text)
  <2> DEFINE b == Keep(built, text, at, i)
  <2>1. BuiltOf(b, text)
    BY <1>3
  <2> HIDE DEF b
  <2>2. BuiltOf(Replace(b, text, m, i, j, FALSE), text)
    BY <1>2, <2>1, ReplaceBuilds
  <2>3. QED
    BY <1>1, <2>2 DEF b
<1>5. QED
  <2>1. /\ payloads' \in Seq(Noted) /\ detected' \in 0..MaxFindings
        /\ \A k \in 1..Len(payloads') :
              payloads'[k].start <= payloads'[k].end /\ payloads'[k].end <= Len(text)
        /\ \A f \in findings' : ValidRange(f.span)
    BY <1>1 DEF NormalizeInv
  <2>2. QED
    BY <1>1, <1>2, <1>4, <2>1, SameTextKeepsInv

LEMMA StripKeepsInv ==
    ASSUME NormalizeInv, NEW i \in Nat, NEW j \in Nat, Strip(i, j)
    PROVE  NormalizeInv'
<1>1. /\ Matches(i, j)
      /\ built' = Replace(Keep(built, text, at, i), text, 0, i, j, FALSE)
      /\ at' = j /\ edits' = edits + 1 /\ findings' = findings \cup {Evidence(i, j)}
      /\ UNCHANGED <<text, acc, pass, payloads, detected>>
  BY DEF Strip
<1>2. /\ text \in Seq(Bytes) /\ Len(text) \in Nat
      /\ at \in 0..Len(text) /\ i \in 0..Len(text) /\ j \in 0..Len(text) /\ at <= i /\ i < j
      /\ edits + 1 \in 0..MaxEdits /\ BuiltOf(built, text)
  BY <1>1, MatchFacts
<1>3. BuiltOf(Keep(built, text, at, i), text)
  BY <1>2, KeepBuilds
<1>4. BuiltOf(built', text)
  <2> DEFINE b == Keep(built, text, at, i)
  <2>1. BuiltOf(b, text) /\ 0 \in Nat /\ i <= j
    BY <1>2, <1>3
  <2> HIDE DEF b
  <2>2. BuiltOf(Replace(b, text, 0, i, j, FALSE), text)
    BY <1>2, <2>1, ReplaceBuilds
  <2>3. QED
    BY <1>1, <2>2 DEF b
<1>5. ValidRange(Evidence(i, j).span)
  BY <1>2, EvidenceInRange
<1>6. QED
  <2>1. /\ payloads' \in Seq(Noted) /\ detected' \in 0..MaxFindings
        /\ \A k \in 1..Len(payloads') :
              payloads'[k].start <= payloads'[k].end /\ payloads'[k].end <= Len(text)
        /\ \A f \in findings : ValidRange(f.span)
    BY <1>1 DEF NormalizeInv
  <2>2. \A f \in findings' : ValidRange(f.span)
    BY <1>1, <1>5, <2>1
  <2>3. QED
    BY <1>1, <1>2, <1>4, <2>1, <2>2, SameTextKeepsInv

LEMMA TokenKeepsInv ==
    ASSUME NormalizeInv, NEW i \in Nat, NEW j \in Nat, NEW m \in Nat, Token(i, j, m)
    PROVE  NormalizeInv'
<1> DEFINE p == [start |-> i, end |-> j, size |-> m]
           n == Len(payloads)
<1>1. /\ Matches(i, j) /\ 2 <= m
      /\ payloads' = Append(payloads, p)
      /\ at' = j /\ edits' = edits + 1 /\ findings' = findings \cup {Evidence(i, j)}
      /\ UNCHANGED <<text, acc, pass, built, detected>>
  BY DEF Token
<1>2. /\ text \in Seq(Bytes) /\ Len(text) \in Nat
      /\ at \in 0..Len(text) /\ i \in 0..Len(text) /\ j \in 0..Len(text) /\ at <= i /\ i < j
      /\ edits + 1 \in 0..MaxEdits /\ BuiltOf(built, text)
  BY <1>1, MatchFacts
<1>3. p \in Noted /\ p.start <= p.end /\ p.end <= Len(text)
  BY <1>1, <1>2 DEF Noted
<1>4. /\ payloads \in Seq(Noted) /\ n \in Nat /\ detected \in 0..MaxFindings
      /\ \A k \in 1..n : payloads[k].start <= payloads[k].end /\ payloads[k].end <= Len(text)
      /\ \A f \in findings : ValidRange(f.span)
  BY LenProperties DEF NormalizeInv
<1> HIDE DEF p
<1>5. /\ payloads' \in Seq(Noted) /\ Len(payloads') = n + 1
      /\ payloads'[n + 1] = p /\ \A k \in 1..n : payloads'[k] = payloads[k]
  BY <1>1, <1>3, <1>4, AppendProperties
<1>6. \A k \in 1..Len(payloads') :
         payloads'[k].start <= payloads'[k].end /\ payloads'[k].end <= Len(text)
  <2> TAKE k \in 1..Len(payloads')
  <2>1. k = n + 1 \/ k \in 1..n
    BY <1>4, <1>5
  <2>2. QED
    BY <1>3, <1>4, <1>5, <2>1
<1>7. \A f \in findings' : ValidRange(f.span)
  <2>1. ValidRange(Evidence(i, j).span)
    BY <1>2, EvidenceInRange
  <2>2. QED
    BY <1>1, <1>4, <2>1
<1>8. QED
  BY <1>1, <1>2, <1>4, <1>5, <1>6, <1>7, SameTextKeepsInv

LEMMA ValueKeepsInv ==
    ASSUME NormalizeInv, NEW i \in Nat, NEW j \in Nat, NEW m \in Nat,
           NEW kind \in {"number", "string", "escaped"}, Value(i, j, kind, m)
    PROVE  NormalizeInv'
<1> DEFINE separated == IF built.out = <<>> THEN built
                        ELSE Replace(built, text, 1, i, i, TRUE)
<1>1. /\ Matches(i, j) /\ (kind = "string" => m = j - i - 2)
      /\ built' = CASE kind = "number" -> Keep(separated, text, i, j)
                    [] kind = "string" -> Keep(separated, text, i + 1, j - 1)
                    [] kind = "escaped" -> Replace(separated, text, m, i, j, FALSE)
      /\ at' = j /\ edits' = edits + 1
      /\ UNCHANGED <<text, acc, pass, payloads, findings, detected>>
  BY DEF Value
<1>2. /\ text \in Seq(Bytes) /\ Len(text) \in Nat
      /\ at \in 0..Len(text) /\ i \in 0..Len(text) /\ j \in 0..Len(text) /\ at <= i /\ i <= j /\ i < j
      /\ edits + 1 \in 0..MaxEdits /\ BuiltOf(built, text)
  BY <1>1, MatchFacts
<1>3. BuiltOf(separated, text)
  <2>1. i <= i /\ 1 \in Nat /\ TRUE \in BOOLEAN
    BY <1>2
  <2>2. BuiltOf(Replace(built, text, 1, i, i, TRUE), text)
    BY <1>2, <2>1, ReplaceBuilds
  <2>3. QED
    BY <1>2, <2>2
<1> HIDE DEF separated
<1>4. BuiltOf(Keep(separated, text, i, j), text)
  BY <1>2, <1>3, KeepBuilds
<1>5. BuiltOf(Keep(separated, text, i + 1, j - 1), text)
  <2>1. i + 1 \in 0..Len(text) /\ j - 1 \in 0..Len(text)
    BY <1>2
  <2>2. QED
    BY <1>2, <1>3, <2>1, KeepBuilds
<1>6. BuiltOf(Replace(separated, text, m, i, j, FALSE), text)
  BY <1>2, <1>3, ReplaceBuilds
<1>7. BuiltOf(built', text)
  <2>1. CASE kind = "number"
    BY <1>1, <1>4, <2>1
  <2>2. CASE kind = "string"
    BY <1>1, <1>5, <2>2
  <2>3. CASE kind = "escaped"
    BY <1>1, <1>6, <2>3
  <2>4. QED
    BY <2>1, <2>2, <2>3
<1>8. /\ payloads' \in Seq(Noted) /\ detected' \in 0..MaxFindings
      /\ \A k \in 1..Len(payloads') :
            payloads'[k].start <= payloads'[k].end /\ payloads'[k].end <= Len(text)
      /\ \A f \in findings' : ValidRange(f.span)
  BY <1>1 DEF NormalizeInv
<1>9. QED
  BY <1>1, <1>2, <1>7, <1>8, SameTextKeepsInv

(* The map of the pass and that of the passes before it. *)
LEMMA EndPassKeepsInv ==
    ASSUME NormalizeInv, EndPass
    PROVE  NormalizeInv'
<1> DEFINE b == Finished
           outer == IF b.changed THEN b.segs ELSE IdentityMap
           end == acc[Len(acc)].normEnd
<1>1. /\ pass < Len(Passes)
      /\ text' = IF b.changed THEN MarkBlurred(b.out) ELSE text
      /\ acc' = ComposeOffsets(outer, acc)
      /\ pass' = pass + 1 /\ at' = 0 /\ built' \in NewBuilder(pass + 1) /\ payloads' = <<>>
      /\ UNCHANGED <<findings, edits, detected>>
  BY DEF EndPass
<1>2. BuiltOf(b, text)
  BY FinishedBuilds
<1>3. /\ text \in Seq(Bytes) /\ Len(text) \in Nat /\ Length \in Nat
      /\ pass \in 0..Len(Passes) /\ Len(Passes) \in Nat
      /\ (acc = <<>> => (text # <<>> => Len(text) = Length))
      /\ (acc # <<>> => Tiles(acc, 0, end, Length) /\ (text # <<>> => end = Len(text)))
  BY LenProperties, NormalizeAssumption DEF NormalizeInv
<1>4. b.out \in Seq(Bytes) /\ b.changed \in BOOLEAN /\ Tiles(b.segs, 0, Len(b.out), Len(text))
  BY <1>2 DEF BuiltOf
<1> HIDE DEF b, end
<1>5. MarkBlurred(b.out) \in Seq(Bytes) /\ Len(MarkBlurred(b.out)) = Len(b.out) /\ Len(b.out) \in Nat
  BY <1>4, MarkingKeepsLength, LenProperties
<1> DEFINE MapOf(t, m) ==
             /\ m = <<>> => (t # <<>> => Len(t) = Length)
             /\ m # <<>> => LET last == m[Len(m)].normEnd
                            IN  Tiles(m, 0, last, Length) /\ (t # <<>> => last = Len(t))
<1>6. MapOf(text', acc')
  <2>1. CASE ~b.changed
    <3>1. text' = text /\ acc' = acc
      BY <1>1, <2>1 DEF ComposeOffsets
    <3>2. QED
      BY <1>3, <3>1 DEF end
  <2>2. CASE b.changed /\ b.segs = <<>>
    <3>1. Len(b.out) = 0
      BY <1>4, <2>2 DEF Tiles
    <3>2. text' = <<>>
      <4>1. Len(text') = 0 /\ text' \in Seq(Bytes)
        BY <1>1, <1>5, <2>2, <3>1
      <4>2. QED
        BY <4>1, EmptySeq
    <3>3. acc' = acc
      BY <1>1, <2>2 DEF ComposeOffsets, IdentityMap
    <3>4. QED
      BY <1>3, <3>2, <3>3 DEF end
  <2>3. CASE b.changed /\ b.segs # <<>>
    <3> DEFINE n == Len(b.out)
    <3>1. text' = MarkBlurred(b.out) /\ Len(text') = n
      BY <1>1, <1>5, <2>3
    <3>2. Tiles(acc', 0, n, Length) /\ acc' # <<>>
      <4>1. CASE acc = <<>>
        <5>1. acc' = b.segs
          BY <1>1, <2>3, <4>1 DEF ComposeOffsets, IdentityMap
        <5>2. Len(text) <= Length
          <6>1. text = <<>> => Len(text) = 0
            BY EmptySeq
          <6>2. QED
            BY <1>3, <4>1, <6>1
        <5> HIDE DEF n
        <5>3. Tiles(b.segs, 0, n, Length)
          BY <1>3, <1>4, <5>2, WiderLimit DEF n
        <5>4. QED
          BY <2>3, <5>1, <5>3
      <4>2. CASE acc # <<>>
        <5>1. acc' = ComposeOffsets(b.segs, acc)
          BY <1>1, <2>3
        <5> HIDE DEF n
        <5>2. Tiles(acc', 0, n, Length)
          BY <1>3, <1>4, <2>3, <4>2, <5>1, ComposeTiles DEF n
        <5>3. n # 0
          <6>1. b.segs[1].normStart = 0 /\ b.segs[Len(b.segs)].normEnd = n
            BY <1>3, <1>4, <2>3, TilesFacts DEF n
          <6>2. 0 < n
            BY <1>3, <1>4, <1>5, <2>3, TilesSpan DEF n
          <6>3. QED
            BY <6>2
        <5>4. acc' # <<>>
          BY <5>2, <5>3 DEF Tiles
        <5>5. QED
          BY <5>2, <5>4
      <4>3. QED
        BY <4>1, <4>2
    <3> HIDE DEF n
    <3>3. acc'[Len(acc')].normEnd = n
      BY <3>2 DEF Tiles
    <3>4. QED
      BY <3>1, <3>2, <3>3
  <2>4. QED
    BY <1>4, <2>1, <2>2, <2>3
<1>7. text' \in Seq(Bytes) /\ Len(text') \in Nat
  BY <1>1, <1>3, <1>5
<1>8. BuiltOf(built', text')
  BY <1>1, <1>7, NewBuilds
<1>9. payloads' \in Seq(Noted) /\ Len(payloads') = 0
  BY <1>1, EmptySeq
<1>10. pass' \in 0..Len(Passes) /\ at' \in 0..Len(text')
  BY <1>1, <1>3, <1>7
<1>11. edits' \in 0..MaxEdits /\ detected' \in 0..MaxFindings /\ \A f \in findings' : ValidRange(f.span)
  BY <1>1 DEF NormalizeInv
<1>12. QED
  BY <1>6, <1>7, <1>8, <1>9, <1>10, <1>11 DEF NormalizeInv

LEMMA DetectKeepsInv ==
    ASSUME NormalizeInv, NEW p \in {1, 2}, NEW i \in Nat, NEW j \in Nat, Detect(p, i, j)
    PROVE  NormalizeInv'
<1> DEFINE plain == [k \in 1..Plain |-> Byte(FALSE, {k - 1}, FALSE)]
           o == MapSpan(<<acc, IdentityMap>>[p], i, j)
           about == Slice(<<text, plain>>[p], i, j)
           f == [span |-> Span(p, o[1], o[2]), about |-> about]
<1>1. /\ detected < MaxFindings /\ i < j /\ j <= Len(<<text, plain>>[p])
      /\ findings' = findings \cup {f}
      /\ detected' = detected + 1
      /\ UNCHANGED <<text, acc, pass, at, built, payloads, edits>>
  BY DEF Detect
<1>2. Plain \in Nat /\ Length \in Nat /\ MaxFindings \in Nat /\ detected \in 0..MaxFindings
  BY NormalizeAssumption DEF NormalizeInv
<1>3. ValidRange(Span(p, o[1], o[2]))
  <2>1. CASE p = 1
    <3>1. o = MapSpan(acc, i, j) /\ j <= Len(text)
      BY <1>1, <2>1
    <3> HIDE DEF o
    <3>2. o[1] \in 0..Length /\ o[2] \in 0..Length /\ o[1] <= o[2]
      BY <1>1, <3>1, RangeOfTheOriginal
    <3>3. QED
      BY <1>2, <2>1, <3>2 DEF ValidRange, Span
  <2>2. CASE p = 2
    <3>1. o = <<i, j>>
      BY <2>2 DEF MapSpan, IdentityMap
    <3>2. Len(<<text, plain>>[p]) = Plain
      BY <1>2, <2>2
    <3>3. o[1] = i /\ o[2] = j /\ j <= Plain
      BY <1>1, <3>1, <3>2
    <3> HIDE DEF o
    <3>4. QED
      BY <1>1, <2>2, <3>3 DEF ValidRange, Span
  <2>3. QED
    BY <2>1, <2>2
<1>4. f.span = Span(p, o[1], o[2])
  OBVIOUS
<1> HIDE DEF f, o
<1>5. \A g \in findings' : ValidRange(g.span)
  BY <1>1, <1>3, <1>4 DEF NormalizeInv
<1>6. /\ at' \in 0..Len(text) /\ edits' \in 0..MaxEdits /\ BuiltOf(built', text) /\ payloads' \in Seq(Noted)
      /\ \A k \in 1..Len(payloads') :
            payloads'[k].start <= payloads'[k].end /\ payloads'[k].end <= Len(text)
  BY <1>1 DEF NormalizeInv
<1>7. detected' \in 0..MaxFindings
  BY <1>1, <1>2
<1>8. QED
  BY <1>1, <1>5, <1>6, <1>7, SameTextKeepsInv

LEMMA NextNormalizeInv == NormalizeInv /\ [Next]_vars => NormalizeInv'
<1> SUFFICES ASSUME NormalizeInv, [Next]_vars
             PROVE  NormalizeInv'
  OBVIOUS
<1>1. Len(text) \in Nat
  BY LenProperties DEF NormalizeInv
<1>2. CASE Edit
  <2>1. PICK i \in 0..Len(text) : \E j \in i..Len(text) : \E m \in 0..Len(text) + 1 :
            \/ Decode(i, j, m)
            \/ m = 0 /\ Strip(i, j)
            \/ Token(i, j, m)
            \/ FoldChunk(i, j, m)
            \/ \E kind \in {"number", "string", "escaped"} : Value(i, j, kind, m)
    BY <1>2 DEF Edit
  <2>2. PICK j \in i..Len(text), m \in 0..Len(text) + 1 :
            \/ Decode(i, j, m)
            \/ m = 0 /\ Strip(i, j)
            \/ Token(i, j, m)
            \/ FoldChunk(i, j, m)
            \/ \E kind \in {"number", "string", "escaped"} : Value(i, j, kind, m)
    BY <2>1
  <2>3. i \in Nat /\ j \in Nat /\ m \in Nat
    BY <1>1
  <2>4. CASE Decode(i, j, m)
    BY <2>3, <2>4, RewriteKeepsInv DEF Decode
  <2>5. CASE Strip(i, j)
    BY <2>3, <2>5, StripKeepsInv
  <2>6. CASE Token(i, j, m)
    BY <2>3, <2>6, TokenKeepsInv
  <2>7. CASE FoldChunk(i, j, m)
    BY <2>3, <2>7, RewriteKeepsInv DEF FoldChunk
  <2>8. ASSUME NEW kind \in {"number", "string", "escaped"}, Value(i, j, kind, m)
        PROVE  NormalizeInv'
    BY <2>3, <2>8, ValueKeepsInv
  <2>9. QED
    BY <2>2, <2>4, <2>5, <2>6, <2>7, <2>8
<1>3. CASE EndPass
  BY <1>3, EndPassKeepsInv
<1>4. ASSUME NEW p \in {1, 2}, NEW i \in 0..Longest, NEW j \in 0..Longest, Detect(p, i, j)
      PROVE  NormalizeInv'
  BY <1>4, DetectKeepsInv
<1>5. CASE UNCHANGED vars
  BY <1>5 DEF NormalizeInv, BuiltOf, vars
<1>6. QED
  BY <1>2, <1>3, <1>4, <1>5 DEF Next, Find

LEMMA NormalizeInvariant == Spec => []NormalizeInv
BY InitNormalizeInv, NextNormalizeInv, PTL DEF Spec

LEMMA InvMapsAreWhole == NormalizeInv => NormalizeTypeOK
<1> SUFFICES ASSUME NormalizeInv
             PROVE  NormalizeTypeOK
  OBVIOUS
<1>1. /\ pass \in 0..Len(Passes) /\ edits \in 0..MaxEdits /\ detected \in 0..MaxFindings
      /\ at \in 0..Len(text)
  BY DEF NormalizeInv
<1>2. \A f \in findings :
        f.span.start <= f.span.end /\ f.span.end <= (IF f.span.part = 1 THEN Length ELSE Plain)
  BY DEF NormalizeInv, ValidRange
<1>3. CASE acc = <<>>
  BY <1>1, <1>2, <1>3 DEF NormalizeInv, NormalizeTypeOK, IdentityMap
<1>4. CASE acc # <<>>
  <2> DEFINE n == Len(acc)
  <2>1. Tiles(acc, 0, acc[n].normEnd, Length) /\ (text # <<>> => acc[n].normEnd = Len(text)) /\ Length \in Nat
    BY <1>4, NormalizeAssumption DEF NormalizeInv
  <2>2. /\ n \in Nat \ {0} /\ DOMAIN acc = 1..n /\ acc[1].normStart = 0
        /\ \A k \in 1..n : Whole(acc[k], Length)
        /\ \A k \in 2..n : acc[k].normStart = acc[k - 1].normEnd
    BY <1>4, <2>1, TilesFacts DEF Tiles
  <2>3. \A k \in DOMAIN acc :
            /\ acc[k].normStart < acc[k].normEnd
            /\ acc[k].origStart <= acc[k].origEnd /\ acc[k].origEnd <= Length
            /\ k > 1 => acc[k].normStart = acc[k - 1].normEnd
    BY <2>2 DEF Whole
  <2>4. QED
    BY <1>1, <1>2, <1>4, <2>1, <2>2, <2>3 DEF NormalizeTypeOK, IdentityMap
<1>5. QED
  BY <1>3, <1>4

(* The composed map has no gaps, covers the text, and gives back ranges of    *)
(* the original, whatever the passes, the edits and their number: what the    *)
(* two searches of OffsetMap.Span rely on and what its comment promises.      *)
THEOREM MapsAreWhole == Spec => []NormalizeTypeOK
BY NormalizeInvariant, InvMapsAreWhole, PTL

================================================================================
