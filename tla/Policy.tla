-------------------------------- MODULE Policy --------------------------------
(***************************************************************************)
(* internal/policy: what a rule matches and what a policy decides.         *)
(*                                                                         *)
(* A rule is [surface, when, action, taint]; `when` has one set per field  *)
(* of the YAML block, {} where the field is unset.  A finding is           *)
(* [detector, type, score, span].  Rules and findings are sets: the code   *)
(* keeps them in order, and PolicyLoop shows the order does not matter.    *)
(***************************************************************************)
EXTENDS Verdicts

(* An unset field constrains nothing; a list admits what it contains; a     *)
(* scalar or a pointer that is set admits the one value it holds.           *)
Admits(field, value) == field = {} \/ value \in field

MatchesSurface(rule, in) == Admits(rule.surface, in.surface)

MatchesRequest(when, in) ==
    /\ Admits(when.tool, in.source)
    /\ Admits(when.sessionTainted, in.sessionTainted)
    /\ Admits(when.pinChanged, in.pinChanged)

SelectsFindings(when) ==
    when.detector # {} \/ when.typeIn # {} \/ when.scoreGTE # {}

MatchesFinding(when, f) ==
    /\ Admits(when.detector, f.detector)
    /\ Admits(when.typeIn, f.type)
    /\ \A threshold \in when.scoreGTE : f.score >= threshold

(* The findings a rule is triggered by: every one of the hop's when the rule *)
(* has no finding predicate.                                                 *)
Selected(rule, in) == {f \in in.findings : MatchesFinding(rule.when, f)}

(* Mutant: every finding must match, not some. *)
Matches_Every(rule, in) ==
    /\ MatchesSurface(rule, in)
    /\ MatchesRequest(rule.when, in)
    /\ SelectsFindings(rule.when) => in.findings # {} /\ Selected(rule, in) = in.findings

Matches(rule, in) ==
    /\ MatchesSurface(rule, in)
    /\ MatchesRequest(rule.when, in)
    /\ SelectsFindings(rule.when) => Selected(rule, in) # {}

Evaluate(rules, in) ==
    LET matched == {r \in rules : Matches(r, in)}
    IN  [action     |-> MostSevere({r.action : r \in matched}),
         taint      |-> \E r \in matched : r.taint,
         redactions |-> UNION {{f.span : f \in Selected(r, in)} :
                               r \in {m \in matched : m.action = "redact"}}]

(* defaults.on_error: only an explicit fail_open lets the hop through. *)
OnErrorAction(onError) == IF onError = "fail_open" THEN "allow" ELSE "block"
===============================================================================
