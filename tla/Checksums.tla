------------------------------- MODULE Checksums -------------------------------
(***************************************************************************)
(* The validators of validate.go, on numbers as sequences of the values of *)
(* their characters: digits for Aadhaar and cards, base 36 for GSTIN.  A   *)
(* valid number is copied with one mistake.                                *)
(***************************************************************************)
EXTENDS Integers, SequencesExt

CONSTANTS Patterns,     \* what numbers are made of, by kind: kind -> set of sequences
          Kinds         \* "aadhaar", "card", "gstin"

VARIABLES kind, number, \* a number that its validator accepts
          copy          \* the number as someone wrote it

checksumVars == <<kind, number, copy>>

(* verhoeffD and verhoeffP: rows are numbered from 0 in the code. *)
VerhoeffD ==
    << <<0, 1, 2, 3, 4, 5, 6, 7, 8, 9>>, <<1, 2, 3, 4, 0, 6, 7, 8, 9, 5>>,
       <<2, 3, 4, 0, 1, 7, 8, 9, 5, 6>>, <<3, 4, 0, 1, 2, 8, 9, 5, 6, 7>>,
       <<4, 0, 1, 2, 3, 9, 5, 6, 7, 8>>, <<5, 9, 8, 7, 6, 0, 4, 3, 2, 1>>,
       <<6, 5, 9, 8, 7, 1, 0, 4, 3, 2>>, <<7, 6, 5, 9, 8, 2, 1, 0, 4, 3>>,
       <<8, 7, 6, 5, 9, 3, 2, 1, 0, 4>>, <<9, 8, 7, 6, 5, 4, 3, 2, 1, 0>> >>

VerhoeffP ==
    << <<0, 1, 2, 3, 4, 5, 6, 7, 8, 9>>, <<1, 5, 7, 6, 2, 8, 3, 0, 9, 4>>,
       <<5, 8, 0, 3, 7, 9, 6, 1, 4, 2>>, <<8, 9, 1, 6, 0, 4, 3, 5, 2, 7>>,
       <<9, 4, 5, 3, 1, 2, 6, 8, 7, 0>>, <<4, 2, 8, 6, 5, 7, 3, 9, 0, 1>>,
       <<2, 7, 9, 3, 8, 0, 6, 4, 1, 5>>, <<7, 0, 4, 6, 9, 1, 3, 2, 5, 8>> >>

(* From the last digit to the first. *)
Verhoeff(digits) ==
    LET step(c, i) ==
            VerhoeffD[c + 1][VerhoeffP[(i % 8) + 1][digits[Len(digits) - i] + 1] + 1]
    IN  FoldLeft(step, 0, [i \in 1..Len(digits) |-> i - 1]) = 0

(* Every second digit from the right is doubled, its digits summed. *)
Doubled_NoCarry(d) == 2 * d      \* mutant: nine is not taken off

Doubled(d) == IF 2 * d > 9 THEN 2 * d - 9 ELSE 2 * d

Luhn(digits) ==
    LET weighed(i) == IF (Len(digits) - i) % 2 = 1 THEN Doubled(digits[i]) ELSE digits[i]
    IN  /\ digits # <<>>
        /\ FoldLeft(LAMBDA sum, i : sum + weighed(i), 0, [i \in DOMAIN digits |-> i]) % 10 = 0

(* The first 14 characters are weighed 1, 2, 1, 2...; the last is the check. *)
GSTIN(s) ==
    LET p(i) == IF i % 2 = 0 THEN 2 * s[i] ELSE s[i]
        sum == FoldLeft(LAMBDA n, i : n + (p(i) \div 36) + (p(i) % 36), 0, [i \in 1..14 |-> i])
    IN  Len(s) = 15 /\ s[15] = (36 - (sum % 36)) % 36

Valid(k, s) ==
    CASE k = "aadhaar" -> Verhoeff(s)
      [] k = "card" -> Luhn(s)
      [] k = "gstin" -> GSTIN(s)

Values(k) == IF k = "gstin" THEN 0..35 ELSE 0..9

ASSUME ChecksumAssumption ==
    /\ Kinds \subseteq {"aadhaar", "card", "gstin"}
    /\ \A k \in Kinds : Patterns[k] \subseteq Seq(Values(k))

(* The numbers that a pattern and a check character make. *)
Numbers(k) ==
    {s \in {Append(p, c) : p \in Patterns[k], c \in Values(k)} : Valid(k, s)}

ChecksumInit == kind \in Kinds /\ number \in Numbers(kind) /\ copy = number

(* Someone writes another character, or two neighbours in the wrong order. *)
Mistype(i, v) ==
    /\ copy = number /\ v # number[i] /\ copy' = [number EXCEPT ![i] = v]
    /\ UNCHANGED <<kind, number>>

SwapWithNext(i) ==
    /\ copy = number /\ i < Len(number) /\ number[i] # number[i + 1]
    /\ copy' = [number EXCEPT ![i] = number[i + 1], ![i + 1] = number[i]]
    /\ UNCHANGED <<kind, number>>

ChecksumNext ==
    \E i \in DOMAIN number :
        \/ SwapWithNext(i)
        \/ \E v \in Values(kind) : Mistype(i, v)

ChecksumSpec == ChecksumInit /\ [][ChecksumNext]_checksumVars

(* The pair of neighbours that a scheme is known not to tell apart. *)
BlindTo == [aadhaar |-> {}, card |-> {0, 9}, gstin |-> {0, 35}]

Differ == {i \in DOMAIN number : number[i] # copy[i]}

(* A number with one wrong character, or with two neighbours exchanged, is   *)
(* not taken for an identifier: the tables and weights are those of schemes  *)
(* that catch both, but for one pair of neighbours in Luhn's and in GSTIN's. *)
SingleErrorsCaught ==
    copy # number =>
        \/ ~Valid(kind, copy)
        \/ Cardinality(Differ) = 2 /\ {number[i] : i \in Differ} = BlindTo[kind]
===============================================================================
