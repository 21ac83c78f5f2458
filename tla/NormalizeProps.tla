---------------------------- MODULE NormalizeProps ----------------------------
(***************************************************************************)
(* What the way back from normalized text has to get right.                *)
(***************************************************************************)
EXTENDS Normalize

(* The map of the text so far is made of segments without gaps that cover    *)
(* all of it, each from a range of the original: what OffsetMap's searches   *)
(* take for granted.  Text that was dropped whole has nothing to map.  So    *)
(* what Span returns "is always a valid half-open range" (offset.go:47) of   *)
(* the original.                                                             *)
NormalizeTypeOK ==
    /\ pass \in 0..Len(Passes) /\ edits \in 0..MaxEdits /\ detected \in 0..MaxFindings
    /\ at \in 0..Len(text)
    /\ \A k \in DOMAIN acc :
        /\ acc[k].normStart < acc[k].normEnd
        /\ acc[k].origStart <= acc[k].origEnd /\ acc[k].origEnd <= Length
        /\ k > 1 => acc[k].normStart = acc[k - 1].normEnd
    /\ text # <<>> =>
        IF acc = IdentityMap THEN Len(text) = Length
        ELSE acc[1].normStart = 0 /\ acc[Len(acc)].normEnd = Len(text)
    /\ \A f \in findings :
        f.span.start <= f.span.end /\ f.span.end <= (IF f.span.part = 1 THEN Length ELSE Plain)

(* The bytes a finding is about come from the original in the order they     *)
(* have in the text: false of a finding that runs from the text into a       *)
(* payload appended after it.                                                *)
InOrder(bytes) ==
    \A k, l \in {n \in DOMAIN bytes : bytes[n].from # {}} :
        k < l => /\ Smallest(bytes[k].from) <= Smallest(bytes[l].from)
                 /\ Largest(bytes[k].from) <= Largest(bytes[l].from)

Mappable(f) == InOrder(f.about) /\ \A k \in DOMAIN f.about : ~f.about[k].blurred

Covers(f) ==
    From(f.about) # {} =>
        /\ f.span.start <= Smallest(From(f.about))
        /\ Largest(From(f.about)) < f.span.end

Tight(f) ==
    LET ends == {1, Len(f.about)}
    IN  (\A k \in ends : f.about[k].from # {}) =>
            /\ f.span.start = Smallest(From(f.about))
            /\ f.span.end = Largest(From(f.about)) + 1


(* What a finding in order is about never reaches the other side; every      *)
(* byte in no span does, in its place; and findings that overlap or touch    *)
(* leave one marker.                                                         *)
RedactionIsExact ==
    \A p \in {1, 2} :
        LET red == Redacted[p]
            mine == {f \in findings : f.span.part = p}
            Spanned(n) == \E f \in mine : f.span.start <= n /\ n < f.span.end
            Left == SelectSeq(red, LAMBDA x : x # Marker)
        IN  /\ \A f \in mine : Mappable(f) => \A k \in DOMAIN red : red[k] \notin From(f.about)
            /\ Left = SelectSeq([k \in 1..(IF p = 1 THEN Length ELSE Plain) |-> k - 1],
                                LAMBDA n : ~Spanned(n))
            /\ \A k \in 1..Len(red) - 1 : red[k] # Marker \/ red[k + 1] # Marker

(* Violated.  "Span maps a half-open range of normalized offsets to the      *)
(* original range that produced it" (internal/core/offset.go:46): any range, *)
(* also one that runs into an appended payload.                              *)
SpanMapsToWhatProducedIt == \A f \in findings : Covers(f)

=============================================================================
