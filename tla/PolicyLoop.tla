------------------------------ MODULE PolicyLoop ------------------------------
(***************************************************************************)
(* policy.Evaluator.Evaluate as the loop it is: rules in file order, an    *)
(* accumulator, and core.MostSevere's own loop at the end.  Its reference  *)
(* is Policy!Evaluate, which looks at the rules as a set.                  *)
(***************************************************************************)
EXTENDS Policy, SequencesExt

CONSTANTS Bundles,      \* sequences of rules: the policies considered
          Inputs        \* the EvalInputs considered

(* A bundle is a list; a hop has as many findings as its detectors returned. *)
ASSUME LoopAssumption ==
    /\ \A b \in Bundles : b \in Seq(ToSet(b))
    /\ \A i \in Inputs :
         /\ DOMAIN i = {"surface", "source", "findings", "sessionTainted", "pinChanged"}
         /\ IsFiniteSet(i.findings)

VARIABLES bundle, in,   \* what Evaluate was called with
          next,         \* index of the next rule; Len + 1 when the loop is over
          actions,      \* the actions of the rules that matched
          taints, spans

loopVars == <<bundle, in, next, actions, taints, spans>>

(* MostSevere's loop: keep the worst so far, replace it by a strictly worse. *)
MostSevereLoop(as) ==
    FoldLeft(LAMBDA worst, a : IF Severity(a) > Severity(worst) THEN a ELSE worst, "allow", as)

LoopInit ==
    /\ bundle \in Bundles /\ in \in Inputs
    /\ next = 1 /\ actions = <<>> /\ taints = FALSE /\ spans = <<>>

(* Mutant: the first matching rule decides, as in a firewall. *)
LoopRule_FirstMatch ==
    /\ next <= Len(bundle)
    /\ LET rule == bundle[next]
           hit == Matches(rule, in)
       IN  /\ next' = IF hit THEN Len(bundle) + 1 ELSE next + 1
           /\ actions' = IF hit THEN Append(actions, rule.action) ELSE actions
           /\ taints' = (taints \/ (hit /\ rule.taint))
           /\ spans' = IF hit /\ rule.action = "redact"
                       THEN spans \o SetToSeq({f.span : f \in Selected(rule, in)}) ELSE spans
    /\ UNCHANGED <<bundle, in>>

LoopRule ==
    /\ next <= Len(bundle)
    /\ LET rule == bundle[next]
           hit == Matches(rule, in)
       IN  /\ actions' = IF hit THEN Append(actions, rule.action) ELSE actions
           /\ taints' = (taints \/ (hit /\ rule.taint))
           /\ spans' = IF hit /\ rule.action = "redact"
                       THEN spans \o SetToSeq({f.span : f \in Selected(rule, in)}) ELSE spans
    /\ next' = next + 1
    /\ UNCHANGED <<bundle, in>>

LoopSpec == LoopInit /\ [][LoopRule]_loopVars

Returned == next > Len(bundle)
Result == [action |-> MostSevereLoop(actions), taint |-> taints, redactions |-> ToSet(spans)]

(* Whatever order the bundle lists its rules in, Evaluate returns what the   *)
(* set of its rules decides (DESIGN 3.3, "most severe wins").                *)
OrderDoesNotMatter == Returned => Result = Evaluate(ToSet(bundle), in)

(* More findings on a hop never make Evaluate more lenient: not a weaker     *)
(* action, not a taint undone, not a span left out (detectors are added, and *)
(* normalizer findings appended, on the strength of it).                     *)
FindingsOnlyTighten ==
    Returned =>
        \A fewer \in SUBSET in.findings :
            LET less == Evaluate(ToSet(bundle), [in EXCEPT !.findings = fewer])
            IN  /\ Severity(less.action) <= Severity(Result.action)
                /\ less.taint => Result.taint
                /\ less.redactions \subseteq Result.redactions

(* A rule whose action is misspelled decides nothing: the bundle decides the *)
(* same action without it (core.go 63-64).                                   *)
MalformedDecidesNothing ==
    Returned =>
        Result.action = Evaluate({r \in ToSet(bundle) : r.action \in Actions}, in).action
===============================================================================
