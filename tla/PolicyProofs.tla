----------------------------- MODULE PolicyProofs -----------------------------
(***************************************************************************)
(* What holds of every policy, hop and set of findings.                    *)
(***************************************************************************)
EXTENDS Policy, TLAPS

(* MostSevere returns allow or one of its arguments, none of which is more   *)
(* severe, however many arguments there are and whatever they are.           *)
LEMMA MostSevereIsWorst ==
    ASSUME NEW S
    PROVE  /\ MostSevere(S) \in S \cup {"allow"}
           /\ \A b \in S \cup {"allow"} : Severity(b) <= Severity(MostSevere(S))
<1> DEFINE T == S \cup {"allow"}
<1>1. \E a \in T : \A b \in T : Severity(b) <= Severity(a)
  <2>1. CASE "block" \in T
    BY <2>1 DEF Severity
  <2>2. CASE "block" \notin T /\ "redact" \in T
    BY <2>2 DEF Severity
  <2>3. CASE "block" \notin T /\ "redact" \notin T /\ "flag" \in T
    BY <2>3 DEF Severity
  <2>4. CASE "block" \notin T /\ "redact" \notin T /\ "flag" \notin T
    BY <2>4 DEF Severity
  <2>5. QED
    BY <2>1, <2>2, <2>3, <2>4
<1>2. QED
  BY <1>1 DEF MostSevere

(* A malformed action is never the result: the result is one of the four.    *)
LEMMA MostSevereIsAnAction ==
    ASSUME NEW S
    PROVE  MostSevere(S) \in Actions
<1>1. Severity("allow") <= Severity(MostSevere(S))
  BY MostSevereIsWorst
<1>2. QED
  BY <1>1 DEF Severity, Actions

LEMMA MostSevereIsMonotone ==
    ASSUME NEW S, NEW T, S \subseteq T
    PROVE  Severity(MostSevere(S)) <= Severity(MostSevere(T))
<1>1. MostSevere(S) \in T \cup {"allow"}
  BY MostSevereIsWorst
<1>2. QED
  BY <1>1, MostSevereIsWorst

(* Adding findings to a hop, or rules to the policy, never makes Evaluate    *)
(* more lenient: not a weaker action, not a taint undone, not a span left    *)
(* out.  FindingsOnlyTighten is checked of the loop on small bundles; this   *)
(* is Evaluate for every rule, finding and threshold.                        *)
THEOREM EvaluateOnlyTightens ==
    ASSUME NEW rules, NEW more, rules \subseteq more,
           NEW in, NEW wide, in.findings \subseteq wide.findings,
           wide.surface = in.surface, wide.source = in.source,
           wide.sessionTainted = in.sessionTainted, wide.pinChanged = in.pinChanged
    PROVE  /\ Severity(Evaluate(rules, in).action) <= Severity(Evaluate(more, wide).action)
           /\ Evaluate(rules, in).taint => Evaluate(more, wide).taint
           /\ Evaluate(rules, in).redactions \subseteq Evaluate(more, wide).redactions
<1>1. ASSUME NEW r
      PROVE  Selected(r, in) \subseteq Selected(r, wide)
  BY DEF Selected
<1>2. ASSUME NEW r, Matches(r, in)
      PROVE  Matches(r, wide)
  BY <1>1, <1>2 DEF Matches, MatchesSurface, MatchesRequest
<1> DEFINE M == {r \in rules : Matches(r, in)}
           N == {r \in more : Matches(r, wide)}
<1>3. M \subseteq N
  BY <1>2
<1>4. Severity(Evaluate(rules, in).action) <= Severity(Evaluate(more, wide).action)
  <2>1. {r.action : r \in M} \subseteq {r.action : r \in N}
    BY <1>3
  <2>2. Severity(MostSevere({r.action : r \in M})) <= Severity(MostSevere({r.action : r \in N}))
    BY <2>1, MostSevereIsMonotone
  <2>3. QED
    BY <2>2 DEF Evaluate
<1>5. Evaluate(rules, in).taint => Evaluate(more, wide).taint
  BY <1>3 DEF Evaluate
<1>6. Evaluate(rules, in).redactions \subseteq Evaluate(more, wide).redactions
  <2> SUFFICES ASSUME NEW s \in Evaluate(rules, in).redactions
               PROVE  s \in Evaluate(more, wide).redactions
    OBVIOUS
  <2>1. PICK r \in M : r.action = "redact" /\ s \in {f.span : f \in Selected(r, in)}
    BY DEF Evaluate
  <2>2. r \in N /\ s \in {f.span : f \in Selected(r, wide)}
    BY <2>1, <1>1, <1>3
  <2>3. QED
    BY <2>1, <2>2 DEF Evaluate
<1>7. QED
  BY <1>4, <1>5, <1>6
===============================================================================
