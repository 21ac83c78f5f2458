------------------------------- MODULE Verdicts -------------------------------
(***************************************************************************)
(* internal/core/core.go: the surfaces, the actions and their order.       *)
(***************************************************************************)
EXTENDS Integers

Surfaces == {"tool_definition", "input", "tool_call", "tool_result", "output"}

Actions == {"allow", "flag", "redact", "block"}

(* Mutant: what is not understood is taken for the worst. *)
Severity_UnknownWorst(a) ==
    CASE a = "allow"  -> 0
      [] a = "flag"   -> 1
      [] a = "redact" -> 2
      [] a = "block"  -> 3
      [] OTHER        -> 4

(* Whatever else stands in a policy's action field sorts below allow. *)
Severity(a) ==
    CASE a = "allow"  -> 0
      [] a = "flag"   -> 1
      [] a = "redact" -> 2
      [] a = "block"  -> 3
      [] OTHER        -> -1

(* The loop starts from allow and moves only to a strictly more severe      *)
(* action; no two actions above allow share a severity, so the order of the *)
(* arguments is immaterial and the loop computes the maximum.               *)
MostSevere(actions) ==
    CHOOSE a \in actions \cup {"allow"} :
        \A b \in actions \cup {"allow"} : Severity(b) <= Severity(a)
===============================================================================
