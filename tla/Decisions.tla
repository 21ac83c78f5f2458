------------------------------ MODULE Decisions -------------------------------
(***************************************************************************)
(* What an inspection decides: the requests, what the policy is told of    *)
(* them, and the decision with the override for a blocked tool             *)
(* (internal/core/core.go, pipeline.go).  Pipeline takes the steps of an   *)
(* inspection one by one over these; Inspection takes them at once.        *)
(***************************************************************************)
EXTENDS SessionStore, Policy

CONSTANTS NoSession, NoTool,   \* the empty Session and Source of a request
          Contents,            \* payloads: the parts of a request
          ContentHash,         \* [Contents -> Hashes]
          FindingsOf,          \* what normalizer and detectors find in each
          Rules, OnError       \* the policy in force

Request == [surface : Surfaces, session : Sessions \cup {NoSession},
            source : Tools \cup {NoTool}, content : Contents]

InSession(r) == r.session # NoSession
Keyed(r) == InSession(r) /\ r.source # NoTool
Key_ToolOnly(r) == <<CHOOSE s \in Sessions : TRUE, r.source>>   \* mutant: one key for all sessions
Key(r) == <<r.session, r.source>>
IsDefinition(r) == r.surface = "tool_definition" /\ Keyed(r)
IsCall(r) == r.surface = "tool_call" /\ Keyed(r)

----------------------------------------------------------------------------
(* The decision.                                                           *)

EvalInput(r, tainted, pinChanged) ==
    [surface |-> r.surface, source |-> r.source, findings |-> FindingsOf[r.content],
     sessionTainted |-> tainted, pinChanged |-> pinChanged]

(* Mutant: a blocked tool is only reported, the rules still decide. *)
Decision_NoOverride(r, seen) ==
    LET d == Evaluate(Rules, EvalInput(r, seen.tainted, seen.pinChanged))
    IN  [d EXCEPT !.redactions = IF d.action = "redact" THEN @ ELSE {}]

(* Evaluate, then the override for a blocked tool. *)
Decision(r, seen) ==
    LET d == Evaluate(Rules, EvalInput(r, seen.tainted, seen.pinChanged))
        action == IF seen.toolBlocked THEN "block" ELSE d.action
    IN  [action |-> action, taint |-> d.taint,
         redactions |-> IF action = "redact" THEN d.redactions ELSE {}]

OnErrorVerdict == [action |-> OnErrorAction(OnError), taint |-> FALSE, redactions |-> {}]

----------------------------------------------------------------------------
(* What the properties speak of.                                           *)

FailsClosed == OnErrorAction(OnError) = "block"

(* A request some rule taints the session for, whatever was read before. *)
Poisoned(r) ==
    \A tainted, pinChanged \in BOOLEAN : Evaluate(Rules, EvalInput(r, tainted, pinChanged)).taint
===============================================================================
