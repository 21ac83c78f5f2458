------------------------------- MODULE Offsets -------------------------------
(***************************************************************************)
(* Offset maps, span merging and redaction (internal/core/offset.go and    *)
(* the last part of agentgateway/jsontext.go).  Offsets are the code's:    *)
(* they count from 0 and a range [start, end) leaves its end out.  A map   *)
(* is a sequence of segments, the empty one being the identity.            *)
(***************************************************************************)
EXTENDS Naturals, Sequences, SequencesExt

Segment(normStart, normEnd, origStart, origEnd) ==
    [normStart |-> normStart, normEnd |-> normEnd,
     origStart |-> origStart, origEnd |-> origEnd]

Positional(s) == s.normEnd - s.normStart = s.origEnd - s.origStart

IdentityMap == <<>>

Smallest(S) == CHOOSE x \in S : \A y \in S : x <= y
Largest(S) == CHOOSE x \in S : \A y \in S : x >= y

(* The segment of map m that holds the normalized offset p; the binary       *)
(* search of the code finds the first that ends after p.                     *)
Search(m, p) ==
    LET after == {i \in DOMAIN m : m[i].normEnd > p}
    IN  m[IF after = {} THEN Len(m) ELSE Smallest(after)]

(* The original offset of p as the start of a span, or as its end.  The end  *)
(* is exclusive, so it belongs to the segment that holds the byte before it. *)
MapOffset(m, p, holder, whole) ==
    IF p <= m[1].normStart THEN m[1].origStart
    ELSE IF p >= m[Len(m)].normEnd THEN m[Len(m)].origEnd
    ELSE IF Positional(holder) THEN holder.origStart + (p - holder.normStart)
    ELSE whole

MapStart(m, p) == MapOffset(m, p, Search(m, p), Search(m, p).origStart)
MapEnd(m, p) == MapOffset(m, p, Search(m, p - 1), Search(m, p - 1).origEnd)

(* The original range that a normalized range came from. *)
MapSpan(m, start, end) ==
    IF m = IdentityMap THEN <<start, end>>
    ELSE <<MapStart(m, start), Largest({MapStart(m, start), MapEnd(m, end)})>>

(* What a segment of the outer map becomes in the composed map: a positional *)
(* run is cut where a segment of the inner map ends inside it.               *)
Pieces(s, inner) ==
    LET Chained(normStart, normEnd, from, to) ==
            LET o == MapSpan(inner, from, to) IN Segment(normStart, normEnd, o[1], o[2])
        Cut(mid) ==
            LET end == Search(inner, mid).normEnd
            IN  IF mid < end /\ end < s.origEnd THEN end ELSE s.origEnd
        Norm(mid) == s.normStart + (mid - s.origStart)
        from[mid \in s.origStart..s.origEnd] ==
            IF mid = s.origEnd THEN <<>>
            ELSE <<Chained(Norm(mid), Norm(Cut(mid)), mid, Cut(mid))>> \o from[Cut(mid)]
    IN  IF ~Positional(s) \/ s.origStart >= inner[Len(inner)].normEnd
        THEN <<Chained(s.normStart, s.normEnd, s.origStart, s.origEnd)>>
        ELSE from[s.origStart]


ComposeOffsets(outer, inner) ==
    IF outer = IdentityMap THEN inner
    ELSE IF inner = IdentityMap THEN outer
    ELSE FlattenSeq([i \in DOMAIN outer |-> Pieces(outer[i], inner)])

-----------------------------------------------------------------------------

(* Spans of a request: a range of one of its parts. *)
Span(part, start, end) == [part |-> part, start |-> start, end |-> end]

Before(a, b) ==
    \/ a.part < b.part
    \/ a.part = b.part /\ a.start < b.start
    \/ a.part = b.part /\ a.start = b.start /\ a.end < b.end

(* A mutant: the end of the later span wins, contained or not. *)
Absorb_LastEnd(merged, s) ==
    LET n == Len(merged)
    IN  IF n > 0 /\ s.part = merged[n].part /\ s.start <= merged[n].end
        THEN [merged EXCEPT ![n].end = s.end]
        ELSE Append(merged, s)

(* The next span, in order, joins the last one if they touch. *)
Absorb(merged, s) ==
    LET n == Len(merged)
    IN  IF n > 0 /\ s.part = merged[n].part /\ s.start <= merged[n].end
        THEN [merged EXCEPT ![n].end = Largest({@, s.end})]
        ELSE Append(merged, s)

MergeSpans(spans) == FoldLeft(Absorb, <<>>, SetToSortSeq(spans, Before))

(* The text with every span replaced by the marker, the last span first so   *)
(* that the offsets of the others stay valid.                                *)
Redact(text, spans, marker) ==
    LET Clamp(n, limit) == Smallest({n, limit})
        Cut(s, t) ==
            LET start == Clamp(s.start, Len(t))
                end == Clamp(s.end, Len(t))
            IN  IF end <= start THEN t
                ELSE SubSeq(t, 1, start) \o <<marker>> \o SubSeq(t, end + 1, Len(t))
    IN  FoldRight(Cut, spans, text)

(* Each text redacted by the spans of its part. *)
RedactFields(texts, spans, marker) ==
    [p \in DOMAIN texts |->
        Redact(texts[p], SelectSeq(spans, LAMBDA s : s.part = p), marker)]

=============================================================================
