---------------------------- MODULE InspectorProps ----------------------------
(***************************************************************************)
(* What the process owes its callers while it starts, fails and stops.     *)
(***************************************************************************)
EXTENDS Inspector

(* Every variable holds a value of its kind; what the hops need is open as   *)
(* long as run has not come to its deferred calls; only verdicts are sent.   *)
InspectorTypeOK ==
    /\ main \in MainStages
    /\ listener \in [Listeners -> {"up", "failed", "closed"}]
    /\ graceful \in {"none", "spawned", "draining", "stopped"}
    /\ result \in {"none", "nil", "error"}
    /\ call \in [Calls -> {"idle", "open", "served", "hungup", "cut"}]
    /\ replied \subseteq Hops
    /\ {signalled, expired, store} \subseteq BOOLEAN /\ sink \in {"open", "broken", "closed"}
    /\ store \/ main \in {"audit", "returned", "exited"}
    /\ sink = "closed" => main \in {"returned", "exited"}
    /\ \A h \in replied : pc[h] = "done"

(* No call is cut off before its time: on a signal only after the grace has  *)
(* run out, without one only because a listener failed (main.go 164-184).    *)
CutOnlyWhenTimeIsUp ==
    \A c \in Calls : call[c] = "cut" =>
        IF graceful = "none" THEN \E t \in Listeners : listener[t] = "failed" ELSE expired

(* An exit without an error was asked for, and left no HTTP call unanswered  *)
(* (main.go 178: what run returns is what Shutdown returned; streams that    *)
(* Stop cut off do not show in it).                                          *)
CleanExitAnsweredHttp ==
    result = "nil" =>
        /\ signalled
        /\ \A c \in Calls : Transport[c] = "http" => call[c] # "cut" /\ InFlightOf(c) = {}

(* DESIGN 3.8, "every inspected hop emits an event": a verdict that was      *)
(* written back is in the audit log.  Two exceptions: a write to the file    *)
(* failed, then and ever after (jsonl.go 25); and the file was closed under  *)
(* an HTTP call that outlived the grace, the only calls still answered after *)
(* run has returned (main.go 92, 178-184).                                   *)
AnsweredIsAudited ==
    \A h \in replied :
        trail[h] = <<>> => sink = "broken" \/ (Transport[CallOf[h]] = "http" /\ expired)

(* A verdict that taints its session reaches the client only once the mark   *)
(* is in Redis, also when the client is closed under the hop.                *)
AnsweredTaintIsStored ==
    \A h \in replied :
        verdict[h].taint /\ InSession(req[h]) => Tainted(req[h].session)

(* A signal or a failed listener ends the process, whatever its calls do     *)
(* (main.go 175, the shutdown grace).                                        *)
RunReturns == (signalled \/ \E t \in Listeners : listener[t] = "failed") ~> main = "exited"

(* Every hop gets a verdict or ends with the process: a closed client, a     *)
(* cancelled call or a race leaves none behind.                              *)
EveryHopReturns == \A h \in Hops : pc[h] # "idle" ~> pc[h] \in {"done", "aborted"}
===============================================================================
