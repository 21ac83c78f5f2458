------------------------------- MODULE EvalGate --------------------------------
(***************************************************************************)
(* cmd/eval: labelled cases are run through the detectors, scored, and     *)
(* compared with a baseline file.  A case here is what it expects and what *)
(* the detectors produce for it now; a change of the repository is a new   *)
(* list of cases.  Scores are in ten-thousandths, as round leaves them.    *)
(***************************************************************************)
EXTENDS Integers, SequencesExt

CONSTANTS Corpora,      \* lists of cases [id, expect, produced]
          Subset,       \* the detector set of this program's scores
          OtherSubset,  \* one that another tool keeps in the same file
          Tolerance     \* 50 ten-thousandths

ASSUME GateAssumption ==
    /\ Subset # OtherSubset /\ Tolerance \in Nat
    /\ \A cs \in Corpora : cs \in Seq(ToSet(cs))
    /\ \A cs \in Corpora : \A c \in ToSet(cs) : IsFiniteSet(c.expect) /\ IsFiniteSet(c.produced)

VARIABLES cases,        \* the repository: cases and detectors
          file,         \* the baseline file: subset -> summary
          exit,         \* how the last run ended: "none", "ok", "failed", "refused"
          checked,      \* whether it was asked to compare
          accepted      \* ghost: the cases of the last baseline written

gateVars == <<cases, file, exit, checked, accepted>>

Ids(cs) == {c.id : c \in ToSet(cs)}

Missing(c) == c.expect \ c.produced
Extra(c) == c.produced \ c.expect
Pass(c) == Missing(c) = {} /\ Extra(c) = {}

Round(num, den) == (2 * 10000 * num + den) \div (2 * den)
Ratio(num, den) == IF den = 0 THEN 10000 ELSE Round(num, den)

Sum(f(_), cs) == FoldLeft(LAMBDA n, c : n + f(c), 0, cs)
Of(labels, detector) == Cardinality({l \in labels : l.detector = detector})

Score(cs, detector) ==
    LET tp == Sum(LAMBDA c : Of(c.produced \cap c.expect, detector), cs)
        fp == Sum(LAMBDA c : Of(Extra(c), detector), cs)
        fn == Sum(LAMBDA c : Of(Missing(c), detector), cs)
    IN  [tp |-> tp, precision |-> Ratio(tp, tp + fp), recall |-> Ratio(tp, tp + fn)]

Negative(c) == c.expect = {}
Noisy(c) == Negative(c) /\ c.produced # {}
Count(P(_), cs) == Len(SelectSeq(cs, P))

Summarize(cs) ==
    LET labels == UNION {c.expect \cup c.produced : c \in ToSet(cs)}
        failing == {c.id : c \in {d \in ToSet(cs) : ~Pass(d)}}
    IN  [cases |-> Len(cs),
         fpRate |-> IF Count(Negative, cs) = 0 THEN 0
                    ELSE Round(Count(Noisy, cs), Count(Negative, cs)),
         perDetector |-> [d \in {l.detector : l \in labels} |-> Score(cs, d)],
         perCase |-> [id \in Ids(cs) |-> id \notin failing]]

CasesHold(s, base) ==
    \A id \in DOMAIN base.perCase :
        id \in DOMAIN s.perCase /\ (base.perCase[id] => s.perCase[id])

(* Mutant: the tolerance is a decimal place off. *)
ScoresHold_TenTimes(s, base) ==
    \A d \in DOMAIN base.perDetector :
        /\ d \in DOMAIN s.perDetector
        /\ s.perDetector[d].precision >= base.perDetector[d].precision - 10 * Tolerance
        /\ s.perDetector[d].recall >= base.perDetector[d].recall - 10 * Tolerance

ScoresHold(s, base) ==
    \A d \in DOMAIN base.perDetector :
        /\ d \in DOMAIN s.perDetector
        /\ s.perDetector[d].precision >= base.perDetector[d].precision - Tolerance
        /\ s.perDetector[d].recall >= base.perDetector[d].recall - Tolerance

(* Mutant: the aggregate alone decides. *)
Check_MeanOnly(s, base) ==
    s.cases = base.cases /\ s.fpRate <= base.fpRate + Tolerance /\ ScoresHold(s, base)

Check(s, base) ==
    /\ s.cases = base.cases
    /\ s.fpRate <= base.fpRate + Tolerance
    /\ ScoresHold(s, base)
    /\ CasesHold(s, base)

(* LoadCases and the emptiness test: an id may occur once. *)
Loads(cs) == cs # <<>> /\ Cardinality(Ids(cs)) = Len(cs)

GateInit ==
    /\ cases \in Corpora /\ accepted = <<>>
    /\ file \in {<<>>, [s \in {OtherSubset} |-> [cases |-> 1]]}
    /\ exit = "none" /\ checked = FALSE

(* Between a baseline and the next run, detectors, labels and the set of    *)
(* cases may all have changed.                                              *)
Change ==
    /\ exit = "ok" /\ accepted = cases
    /\ cases' \in Corpora
    /\ exit' = "none" /\ checked' = FALSE
    /\ UNCHANGED <<file, accepted>>

(* One run of the program, with -write-baseline, -check, both or neither. *)
RunEval(write, check) ==
    /\ exit = "none" /\ checked' = check
    /\ LET summary == Summarize(cases)
           all == IF write /\ Loads(cases)
                  THEN [s \in DOMAIN file \cup {Subset} |->
                           IF s = Subset THEN summary ELSE file[s]]
                  ELSE file
       IN  /\ file' = all
           /\ exit' = IF ~Loads(cases) THEN "refused"
                      ELSE IF ~check THEN "ok"
                      ELSE IF Subset \notin DOMAIN all THEN "refused"
                      ELSE IF Check(summary, all[Subset]) THEN "ok"
                      ELSE "failed"
           /\ accepted' = IF write /\ Loads(cases) THEN cases ELSE accepted
    /\ UNCHANGED cases

GateNext == Change \/ \E write, check \in BOOLEAN : RunEval(write, check)

GateSpec == GateInit /\ [][GateNext]_gateVars

----------------------------------------------------------------------------

CaseOf(cs, id) == CHOOSE c \in ToSet(cs) : c.id = id

GatePassed == exit = "ok" /\ checked

(* The gate passes only when every case of the last baseline is still there, *)
(* alone under its id and with no other beside it, and none that passed then *)
(* fails now: not even when the change made another case pass (eval.go       *)
(* 258-260).                                                                 *)
PassKeepsPassingCases ==
    GatePassed =>
        /\ accepted # <<>> /\ Len(cases) = Len(accepted) /\ Ids(cases) = Ids(accepted)
        /\ \A id \in Ids(accepted) : Pass(CaseOf(accepted, id)) => Pass(CaseOf(cases, id))

SameLabels ==
    Ids(cases) = Ids(accepted)
    /\ \A id \in Ids(cases) : CaseOf(cases, id).expect = CaseOf(accepted, id).expect

(* What a detector ought to find in the cases, and what of it it does find. *)
Labelled(cs, d) ==
    UNION {{<<c.id, l>> : l \in {m \in c.expect : m.detector = d}} : c \in ToSet(cs)}
FoundLabels(cs, d) ==
    UNION {{<<c.id, l>> : l \in {m \in c.expect \cap c.produced : m.detector = d}} : c \in ToSet(cs)}

(* How much a change may lose and still pass (eval.go 254-285).  With the    *)
(* labels as they were, what a detector no longer finds, on balance, is no   *)
(* larger a share of its labels than Tolerance and one ten-thousandth for    *)
(* round: with the code's 50, nothing of up to 196 labels and at most one of *)
(* up to 392.  So "float noise, not room to regress" (eval.go 254-255) holds *)
(* of small corpora only.                                                    *)
PassLosesLittle ==
    GatePassed /\ SameLabels =>
        \A d \in DOMAIN Summarize(accepted).perDetector :
            10000 * (Cardinality(FoundLabels(accepted, d)) - Cardinality(FoundLabels(cases, d)))
                <= (Tolerance + 1) * Cardinality(Labelled(accepted, d))
===============================================================================
