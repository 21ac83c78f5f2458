-------------------------------- MODULE Spans ---------------------------------
(***************************************************************************)
(* What the detectors do with the matches of their patterns: pii.go,       *)
(* secrets.go and the end of customdict.go.  A match is a record           *)
(* [type, part, start, end, ok]: ok says whether the text passes the check *)
(* that its pattern is backed by (a checksum, a UPI handle, entropy and    *)
(* alphabet).  Where patterns match is data; which of the matches are      *)
(* reported is the code.                                                   *)
(***************************************************************************)
EXTENDS Integers, SequencesExt

CONSTANTS Detectors,        \* "pii", "secrets", "custom_dict"
          TypesOf,          \* detector -> the types of its patterns, in the order they are tried
          Backed,           \* the types with a check behind the pattern
          LastPart,         \* the last part of the request
          TextLength,       \* the length of a part
          MaxMatches,       \* bound on the number of matches
          AccountWindow     \* bankAccountWindow

(* The types are told apart by name: only PII has bank accounts, only Secrets *)
(* random-looking tokens, and no pattern of the others but PII's is backed.   *)
ASSUME SpansAssumption ==
    /\ Detectors \subseteq {"pii", "secrets", "custom_dict"}
    /\ \A d \in Detectors : TypesOf[d] \in Seq(ToSet(TypesOf[d]))
    /\ \A d \in Detectors \ {"pii"} :
          "bank_account" \notin ToSet(TypesOf[d]) /\ ToSet(TypesOf[d]) \cap Backed \subseteq {"high_entropy"}
    /\ \A d \in Detectors \ {"secrets"} : "high_entropy" \notin ToSet(TypesOf[d])
    /\ LastPart \in Nat /\ TextLength \in Nat /\ MaxMatches \in Nat /\ AccountWindow \in Nat

VARIABLES detector, matches     \* what FindAllStringIndex has returned so far

spanVars == <<detector, matches>>

MatchSet ==
    [type : UNION {ToSet(TypesOf[d]) : d \in Detectors}, part : 0..LastPart,
     start : 0..TextLength, end : 0..TextLength, ok : BOOLEAN]

SpansInit == detector \in Detectors /\ matches = <<>>

Place(type) == CHOOSE i \in DOMAIN TypesOf[detector] : TypesOf[detector][i] = type

(* PII and Secrets scan each part by itself.  Patterns are tried in turn:    *)
(* the matches of one neither overlap nor are out of order, those of         *)
(* different patterns may.                                                   *)
PatternMatches(m) ==
    /\ detector # "custom_dict" /\ m.part = 0
    /\ matches # <<>> =>
          \/ Place(Last(matches).type) < Place(m.type)
          \/ Last(matches).type = m.type /\ Last(matches).end <= m.start

(* CustomDict goes through the parts, with terms and regexes of one type.    *)
TermMatches(m) ==
    /\ detector = "custom_dict"
    /\ matches # <<>> => Last(matches).part <= m.part

FindMatch(m) ==
    /\ Len(matches) < MaxMatches
    /\ m.type \in ToSet(TypesOf[detector]) /\ m.start < m.end
    /\ m.type \notin Backed => m.ok
    /\ PatternMatches(m) \/ TermMatches(m)
    /\ matches' = Append(matches, m)
    /\ UNCHANGED detector

SpansNext == \E m \in MatchSet : FindMatch(m)

SpansSpec == SpansInit /\ [][SpansNext]_spanVars

Holds(k, f) == k.part = f.part /\ k.start <= f.start /\ f.end <= k.end
Overlaps(k, f) == f.start < k.end /\ k.start < f.end

(* scoreChecksum and scoreShape, in tenths. *)
ScoreOf(f) == IF f.type \in {"aadhaar", "card", "gstin", "custom_term"} THEN 10 ELSE 7

(* The sort of suppressContained: by part and start, longer first, higher score. *)
SortsBefore_ShorterFirst(f, g) ==      \* mutant
    LET fKey == <<f.part, f.start, f.end, -ScoreOf(f)>>
        gKey == <<g.part, g.start, g.end, -ScoreOf(g)>>
    IN  \E i \in 1..4 : fKey[i] < gKey[i] /\ \A j \in 1..(i - 1) : fKey[j] = gKey[j]

SortsBefore(f, g) ==
    LET fKey == <<f.part, f.start, -f.end, -ScoreOf(f)>>
        gKey == <<g.part, g.start, -g.end, -ScoreOf(g)>>
    IN  \E i \in 1..4 : fKey[i] < gKey[i] /\ \A j \in 1..(i - 1) : fKey[j] = gKey[j]

(* f goes before the first that it sorts before, so the sort is stable. *)
Insert(sorted, f) ==
    LET later == {i \in DOMAIN sorted : SortsBefore(f, sorted[i])}
    IN  InsertAt(sorted, Min(later \cup {Len(sorted) + 1}), f)

StableSorted(fs) == FoldLeft(Insert, <<>>, fs)

SuppressContained(fs) ==
    FoldLeft(LAMBDA kept, f : IF \E k \in ToSet(kept) : Holds(k, f) THEN kept ELSE Append(kept, f),
             <<>>, StableSorted(fs))

(* A number is a bank account near an IFSC code. *)
NearAny(f, anchors) ==
    \E a \in anchors : f.start < a.end + AccountWindow /\ a.start < f.end + AccountWindow

Ifscs(ms) == {m \in ToSet(ms) : m.type = "ifsc"}

(* The loops that append what passes a test. *)
Passing(good, ms) ==
    FoldLeft(LAMBDA found, m : IF m \in good THEN Append(found, m) ELSE found, <<>>, ms)

(* PII.scan's findings before suppressContained. *)
PiiFound(ms) ==
    Passing({m \in ToSet(ms) : m.ok /\ (m.type = "bank_account" => NearAny(m, Ifscs(ms)))}, ms)

(* Secrets.scan: the provider keys, then the random-looking tokens clear of them. *)
IsToken(m) == m.type = "high_entropy"
SecretsFound(ms) ==
    LET keys == {m \in ToSet(ms) : ~IsToken(m)}
    IN  Passing({m \in ToSet(ms) : m.ok /\ (IsToken(m) => \A k \in keys : ~Overlaps(k, m))}, ms)

(* Secrets returns what it found as it is, the others suppress. *)
Detect(ms) ==
    CASE detector = "pii" -> SuppressContained(PiiFound(ms))
      [] detector = "secrets" -> SecretsFound(ms)
      [] detector = "custom_dict" -> SuppressContained(ms)

----------------------------------------------------------------------------

Bytes(f) == {f.part} \X (f.start..(f.end - 1))
BytesOf(fs) == UNION {Bytes(f) : f \in fs}

(* Fewer findings, the same protection: whatever the matches and however     *)
(* they overlap, every byte that some accepted match covers is under a       *)
(* finding that is reported; none lies inside another, they come in the      *)
(* order of the text, and of two for one span the better backed stays        *)
(* (pii.go 141-143).  Secrets gives up a token only for a provider key that  *)
(* shares a byte with it (secrets.go 67-70).                                 *)
SuppressionIsSafe ==
    LET kept == Detect(matches)
        ok == {m \in ToSet(matches) : m.ok}
        accepted == {m \in ok :
            /\ m.type = "bank_account" => \E i \in Ifscs(matches) : NearAny(m, {i})
            /\ IsToken(m) => BytesOf({m}) \cap BytesOf({k \in ok : ~IsToken(k)}) = {}}
    IN  /\ ToSet(kept) \subseteq accepted
        /\ BytesOf(accepted) \subseteq BytesOf(ToSet(kept))
        /\ detector # "secrets" =>
              /\ \A i, j \in DOMAIN kept : i # j => ~(Bytes(kept[i]) \subseteq Bytes(kept[j]))
              /\ \A i, j \in DOMAIN kept : i < j =>
                    kept[i].part < kept[j].part \/ kept[i].start < kept[j].start
              /\ \A f \in accepted, k \in ToSet(kept) :
                    Bytes(f) = Bytes(k) => ScoreOf(f) <= ScoreOf(k)
===============================================================================
