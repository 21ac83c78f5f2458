------------------------------ MODULE Normalize ------------------------------
(***************************************************************************)
(* The normalization of one part (internal/normalize) and the way back:    *)
(* findings made in the normalized text become redactions of the original. *)
(*                                                                         *)
(* A pass walks its input and edits it with a builder, which records where *)
(* every byte it writes came from; the maps of the passes are composed.    *)
(* Here a byte is what it came from: `from', the original offsets.  That   *)
(* is what the maps are held against; no map is used to compute it.        *)
(***************************************************************************)
EXTENDS Offsets, FiniteSets

CONSTANTS
    Length,      \* bytes of the text that is normalized, part 1 of the request
    Plain,       \* bytes of part 2, which no pass changes
    Passes,      \* the kinds of passes run, in order
    Decodes,     \* <<bytes, bytes that replace them>> of an entity or a percent run
    Folds,       \* the same of an NFKC folding
    MaxEdits,    \* bound: edits of all the passes
    MaxFindings, \* bound: findings of the detectors
    Marker       \* what a redacted span becomes (replacement), no byte

Kinds == {"extract", "decode", "strip", "expand", "fold"}

ASSUME NormalizeAssumption ==
    /\ Length \in Nat \ {0} /\ Plain \in Nat /\ MaxEdits \in Nat /\ MaxFindings \in Nat
    /\ Passes \in Seq(Kinds) /\ Marker \notin Nat
    /\ \A z \in Decodes \cup Folds : z \in (Nat \ {0}) \X (Nat \ {0})

VARIABLES
    text,      \* the input of the current pass
    acc,       \* the map from text to the original
    pass,      \* the number of passes done
    at,        \* where the current pass is in text (prev)
    built,     \* its builder
    payloads,  \* what expandBase64 will append
    findings,  \* findings so far: their span, and the bytes they are about
    edits,     \* edits made, for the bound
    detected   \* findings of the detectors, for the bound

vars == <<text, acc, pass, at, built, payloads, findings, edits, detected>>

-----------------------------------------------------------------------------

(* Bytes [i, j) of text t, and where they come from. *)
Slice(t, i, j) == SubSeq(t, i + 1, j)
From(bytes) == UNION {bytes[k].from : k \in DOMAIN bytes}

(* blurred says that the maps take the byte for a copy of one original byte   *)
(* and it is not: the run it was written in is as long as what it came from, *)
(* so its segment reads as positional.                                       *)
Byte(newline, from, blurred) == [newline |-> newline, from |-> from, blurred |-> blurred]

EmptyBuilder(changed) == [out |-> <<>>, segs |-> IdentityMap, changed |-> changed]

Keep(b, t, i, j) ==
    LET n == Len(b.out)
        k == Len(b.segs)
        Continues == /\ k > 0 /\ b.segs[k].normEnd = n /\ b.segs[k].origEnd = i
                     /\ Positional(b.segs[k])
    IN  IF i >= j THEN b
        ELSE [b EXCEPT !.out = @ \o Slice(t, i, j),
                       !.segs = IF Continues
                                THEN [@ EXCEPT ![k].normEnd = n + (j - i), ![k].origEnd = j]
                                ELSE Append(@, Segment(n, n + (j - i), i, j))]

(* A mutant: dropped bytes leave a segment of their own. *)
Replace_RecordsDropped(b, t, m, i, j, newline) ==
    LET source == Slice(t, i, j)
        Blurred == \E k \in DOMAIN source : source[k].blurred
    IN  [out |-> b.out \o [k \in 1..m |-> Byte(newline /\ k = 1, From(source), Blurred)],
         segs |-> Append(b.segs, Segment(Len(b.out), Len(b.out) + m, i, j)),
         changed |-> TRUE]

(* m bytes in place of bytes [i, j), the first a newline or not. *)
Replace(b, t, m, i, j, newline) ==
    LET source == Slice(t, i, j)
        Blurred == \E k \in DOMAIN source : source[k].blurred
    IN  IF m = 0 THEN [b EXCEPT !.changed = TRUE]
        ELSE [out |-> b.out \o [k \in 1..m |-> Byte(newline /\ k = 1, From(source), Blurred)],
              segs |-> Append(b.segs, Segment(Len(b.out), Len(b.out) + m, i, j)),
              changed |-> TRUE]

(* Bytes that share their source with as many bytes as there are in it. *)
MarkBlurred(bytes) ==
    LET Peers(k) == {l \in DOMAIN bytes : bytes[l].from = bytes[k].from}
        Extent(S) == Largest(S) - Smallest(S) + 1
    IN  [k \in DOMAIN bytes |->
            [bytes[k] EXCEPT !.blurred =
                @ \/ /\ Cardinality(bytes[k].from) > 1
                     /\ Cardinality(Peers(k)) = Extent(bytes[k].from)]]

-----------------------------------------------------------------------------

Original == [k \in 1..Length |-> Byte(FALSE, {k - 1}, FALSE)]

(* A builder starts unchanged, except that of a JSON document: extractJSON   *)
(* always rewrites one, and leaves any other text alone.                     *)
NewBuilder(n) ==
    {EmptyBuilder(changed) :
        changed \in IF n < Len(Passes) /\ Passes[n + 1] = "extract" THEN BOOLEAN ELSE {FALSE}}

Init ==
    /\ text = Original
    /\ acc = IdentityMap
    /\ pass = 0
    /\ at = 0
    /\ built \in NewBuilder(0)
    /\ payloads = <<>>
    /\ findings = {}
    /\ edits = 0
    /\ detected = 0

Running(kind) == pass < Len(Passes) /\ Passes[pass + 1] = kind

(* Bytes [i, j) are what a pass edits next: none of them is a newline that   *)
(* separates values or starts a payload, which no pattern matches.           *)
Matches(i, j) ==
    /\ edits < MaxEdits
    /\ at <= i /\ i < j /\ j <= Len(text)
    /\ \A k \in i + 1 .. j : ~text[k].newline

(* Evidence is in the offsets of the pass and is mapped to the original. *)
Evidence(i, j) == [span |-> LET o == MapSpan(acc, i, j) IN Span(1, o[1], o[2]),
                   about |-> Slice(text, i, j)]

(* What is before the match is kept and the match replaced. *)
Rewrite(kind, sizes, i, j, m) ==
    /\ Running(kind) /\ Matches(i, j) /\ <<j - i, m>> \in sizes
    /\ built' = Replace(Keep(built, text, at, i), text, m, i, j, FALSE)
    /\ at' = j
    /\ edits' = edits + 1
    /\ UNCHANGED <<text, acc, pass, payloads, findings, detected>>

(* decodeEntities and decodePercent. *)
Decode(i, j, m) == Rewrite("decode", Decodes, i, j, m)

(* nfkc: it walks from boundary to boundary and keeps the chunks that are    *)
(* normal already.                                                           *)
FoldChunk(i, j, m) == Rewrite("fold", Folds, i, j, m)

(* stripInvisible: a run that is as long as it can be is dropped. *)
Strip(i, j) ==
    /\ Running("strip") /\ Matches(i, j) /\ (at > 0 => i > at)
    /\ built' = Replace(Keep(built, text, at, i), text, 0, i, j, FALSE)
    /\ at' = j
    /\ findings' = findings \cup {Evidence(i, j)}
    /\ edits' = edits + 1
    /\ UNCHANGED <<text, acc, pass, payloads, detected>>

(* expandBase64: a token is noted; its payload, a newline and the decoded    *)
(* text, is shorter than the token.                                          *)
Token(i, j, m) ==
    /\ Running("expand") /\ Matches(i, j) /\ 2 <= m /\ m < j - i
    /\ payloads' = Append(payloads, [start |-> i, end |-> j, size |-> m])
    /\ at' = j
    /\ findings' = findings \cup {Evidence(i, j)}
    /\ edits' = edits + 1
    /\ UNCHANGED <<text, acc, pass, built, detected>>

(* extractJSON: the value in [i, j) is written after a newline that belongs  *)
(* to no byte; a number, or a string, with or without escapes.  What is      *)
(* between values is dropped, and there is a bracket at either end.          *)
Value(i, j, kind, m) ==
    /\ Running("extract") /\ built.changed /\ Matches(i, j) /\ at < i /\ j < Len(text)
    /\ kind = "number" => m = j - i
    /\ kind = "string" => m = j - i - 2
    /\ kind = "escaped" => 1 <= m /\ m < j - i - 2
    /\ LET separated == IF built.out = <<>> THEN built
                        ELSE Replace(built, text, 1, i, i, TRUE)
       IN  built' = CASE kind = "number" -> Keep(separated, text, i, j)
                      [] kind = "string" -> Keep(separated, text, i + 1, j - 1)
                      [] kind = "escaped" -> Replace(separated, text, m, i, j, FALSE)
    /\ at' = j
    /\ edits' = edits + 1
    /\ UNCHANGED <<text, acc, pass, payloads, findings, detected>>

(* The payloads go after the text, and map back to their tokens. *)
AppendPayloads(b) ==
    LET AppendPayload(c, p) == Replace(c, text, p.size, p.start, p.end, TRUE)
    IN  FoldLeft(AppendPayload, Keep(b, text, 0, Len(text)), payloads)

(* The builder with what the pass writes at its end: nothing in extractJSON, *)
(* the rest of its input in the others.                                      *)
Finished ==
    CASE Running("extract") -> built
      [] Running("expand") /\ payloads # <<>> -> AppendPayloads(built)
      [] OTHER -> Keep(built, text, at, Len(text))

(* The pass returns and its map is composed with those before it. *)
EndPass ==
    /\ pass < Len(Passes)
    /\ LET b == Finished
       IN  /\ text' = IF b.changed THEN MarkBlurred(b.out) ELSE text
           /\ acc' = ComposeOffsets(IF b.changed THEN b.segs ELSE IdentityMap, acc)
    /\ pass' = pass + 1
    /\ at' = 0
    /\ built' \in NewBuilder(pass + 1)
    /\ payloads' = <<>>
    /\ UNCHANGED <<findings, edits, detected>>

(* A detector finds bytes [i, j) of a normalized part, and remapSpans moves  *)
(* the finding to the original.  Part 2 has the identity map.                *)
Detect(p, i, j) ==
    /\ pass = Len(Passes)
    /\ detected < MaxFindings
    /\ i < j
    /\ LET maps == <<acc, IdentityMap>>
           normalized == <<text, [k \in 1..Plain |-> Byte(FALSE, {k - 1}, FALSE)]>>
           o == MapSpan(maps[p], i, j)
       IN  /\ j <= Len(normalized[p])
           /\ findings' = findings \cup
                {[span |-> Span(p, o[1], o[2]), about |-> Slice(normalized[p], i, j)]}
    /\ detected' = detected + 1
    /\ UNCHANGED <<text, acc, pass, at, built, payloads, edits>>

Longest == Largest({Length, Plain} \cup {Len(text)})

Edit ==
    \E i \in 0..Len(text) : \E j \in i..Len(text) : \E m \in 0..Len(text) + 1 :
        \/ Decode(i, j, m)
        \/ m = 0 /\ Strip(i, j)
        \/ Token(i, j, m)
        \/ FoldChunk(i, j, m)
        \/ \E kind \in {"number", "string", "escaped"} : Value(i, j, kind, m)

Find == \E p \in {1, 2} : \E i, j \in 0..Longest : Detect(p, i, j)

Next == Edit \/ EndPass \/ Find

Spec == Init /\ [][Next]_vars

(* What the caller gets when every finding is one the policy redacts. *)
Redacted ==
    RedactFields(<<[k \in 1..Length |-> k - 1], [k \in 1..Plain |-> k - 1]>>,
                 MergeSpans({f.span : f \in findings}), Marker)

=============================================================================
