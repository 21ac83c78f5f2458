------------------------------- MODULE Inspector -------------------------------
(***************************************************************************)
(* cmd/inspector: the process around the pipeline.  Calls come in on two   *)
(* listeners, the HTTP adapter's and the gRPC one of the gateway adapters; *)
(* a call carries one hop (HTTP) or several in turn (a gRPC stream).       *)
(* main's goroutine serves until a listener fails or a signal arrives,     *)
(* drains for at most the shutdown grace, and closes the Redis client and  *)
(* the audit file on its way out, whatever is still running.               *)
(***************************************************************************)
EXTENDS Pipeline

CONSTANTS Calls,
          Transport,    \* [Calls -> Listeners]
          CallOf        \* [Hops -> Calls]: the call that carries each hop

Listeners == {"http", "grpc"}

ASSUME InspectorAssumption ==
    /\ Transport \in [Calls -> Listeners] /\ CallOf \in [Hops -> Calls]
    /\ \A g, h \in Hops : CallOf[g] = CallOf[h] /\ Transport[CallOf[g]] = "http" => g = h

VARIABLES main,       \* where main's goroutine stands
          listener,   \* of each listener: "up", "failed" (its error is in errc), "closed"
          signalled,  \* SIGINT or SIGTERM has arrived
          graceful,   \* GracefulStop's goroutine: "none", "spawned", "draining", "stopped"
          expired,    \* shutdownCtx is done
          store,      \* whether the Redis client is open
          sink,       \* the audit file: "open", "broken", "closed"
          result,     \* what run returns, once it is known
          call,       \* "idle", "open", "served", "hungup" by the client, "cut" by the process
          replied     \* the hops whose verdict was written back

processVars == <<main, listener, signalled, graceful, expired, store, sink, result>>
callVars == <<call, replied>>
inspectorVars == <<vars, processVars, callVars>>

MainStages == {"starting", "serving", "shutdown", "stopping", "redis", "audit",
               "returned", "exited"}
Running == main # "exited"

InspectorInit ==
    /\ Init
    /\ main = "starting" /\ listener = [t \in Listeners |-> "closed"]
    /\ signalled = FALSE /\ graceful = "none" /\ expired = FALSE
    /\ store = TRUE /\ sink = "open" /\ result = "none"
    /\ call = [c \in Calls |-> "idle"] /\ replied = {}

----------------------------------------------------------------------------
(* Calls and the hops they carry.                                          *)

InFlightOf(c) == {h \in InFlight : CallOf[h] = c}

(* What Shutdown and GracefulStop wait for: handlers, also of clients gone. *)
Busy(t) ==
    \E c \in Calls : Transport[c] = t /\ (call[c] = "open" \/ (call[c] = "hungup" /\ InFlightOf(c) # {}))

Accept(c) ==
    /\ call[c] = "idle"
    /\ Running /\ listener[Transport[c]] = "up"
    /\ call' = [call EXCEPT ![c] = "open"]
    /\ UNCHANGED <<vars, processVars, replied>>

(* One handler goroutine per call: its hops come one after another. *)
Arrive(h) ==
    /\ Running /\ call[CallOf[h]] = "open"
    /\ \A g \in Hops : CallOf[g] = CallOf[h] => pc[g] = "idle" \/ g \in replied
    /\ Begin(h)
    /\ UNCHANGED <<processVars, callVars>>

UsesStore == {"tainted", "pin", "pinwrite", "toolblocked", "taint", "block"}

(* Mutant: the hop of a client that is gone waits to hand its result over. *)
Proceed_WhileOpen(h) ==
    /\ Running /\ call[CallOf[h]] = "open"
    /\ Shared /\ pc[h] \in UsesStore => store
    /\ pc[h] = "emit" => sink = "open"
    /\ Step(h)
    /\ UNCHANGED <<processVars, callVars>>

(* A stage of the pipeline runs as Pipeline has it while what it needs is open. *)
Proceed(h) ==
    /\ Running
    /\ Shared /\ pc[h] \in UsesStore => store
    /\ pc[h] = "emit" => sink = "open"
    /\ Step(h)
    /\ UNCHANGED <<processVars, callVars>>

(* Mutant: a store error at shutdown is logged and the hop goes on. *)
StoreGone_GoesOn(h) ==
    /\ Running /\ Shared /\ pc[h] = "taint"
    /\ ~store \/ call[CallOf[h]] \in {"hungup", "cut"}
    /\ Goto(h, AfterTaint(req[h], verdict[h]))
    /\ UNCHANGED <<storeVars, req, read, verdict, processVars, callVars>> /\ Quiet

(* The Redis client is closed, or the call's context is done: the command   *)
(* fails; one already sent may take effect.                                 *)
StoreGone(h) ==
    /\ Running /\ Shared /\ pc[h] \in UsesStore
    /\ ~store \/ call[CallOf[h]] \in {"hungup", "cut"}
    /\ ToOnError(h)
    /\ UNCHANGED storeVars \/ (store /\ Lands(h))
    /\ UNCHANGED <<faults, processVars, callVars>>

(* The audit file is closed, or a write to it failed once: json.Encoder keeps *)
(* its first error, so Encode fails from then on, and emit drops the error.  *)
SinkGone(h) ==
    /\ Running /\ sink # "open"
    /\ DropEvent(h)
    /\ UNCHANGED <<faults, processVars, callVars>>

Faulty(h) ==
    /\ Running
    /\ Fail(h) \/ FailAfterWrite(h)
    /\ UNCHANGED <<processVars, callVars>>

(* A write to the audit file fails: the disk is full. *)
SinkBreaks(h) ==
    /\ Running /\ sink = "open" /\ EmitLost(h) /\ sink' = "broken"
    /\ UNCHANGED <<main, listener, signalled, graceful, expired, store, result, callVars>>

(* writeJSON, stream.Send or the return of a unary handler. *)
Reply(h) ==
    /\ Running /\ pc[h] = "done" /\ h \notin replied /\ call[CallOf[h]] = "open"
    /\ replied' = replied \cup {h}
    /\ UNCHANGED <<vars, processVars, call>>

(* The call ends: an HTTP call once its hop is answered, or with a 4xx and   *)
(* no hop at all; a stream when its client ends it between two hops.         *)
FinishCall(c) ==
    /\ Running /\ call[c] = "open"
    /\ \A h \in Hops : CallOf[h] = c => pc[h] = "idle" \/ h \in replied
    /\ call' = [call EXCEPT ![c] = "served"]
    /\ UNCHANGED <<vars, processVars, replied>>

HangUp(c) ==
    /\ Running /\ call[c] = "open"
    /\ faults < MaxFaults /\ faults' = faults + 1
    /\ call' = [call EXCEPT ![c] = "hungup"]
    /\ UNCHANGED <<storeVars, hopVars, crashes, before, left, processVars, replied>>

----------------------------------------------------------------------------
(* main's goroutine, the listeners and the shutdown.                       *)

(* The open calls of the listeners ts are cut off, their contexts cancelled. *)
Cut(ts) ==
    call' = [c \in Calls |-> IF call[c] = "open" /\ Transport[c] \in ts THEN "cut" ELSE call[c]]

Close(ts) ==
    listener' = [t \in Listeners |-> IF t \in ts /\ listener[t] = "up" THEN "closed" ELSE listener[t]]

Goes(stage) == main' = stage /\ UNCHANGED <<vars, signalled, replied>>

(* Audit file, Redis ping and listener are ready, or one of them is not. *)
Start ==
    /\ main = "starting"
    /\ \/ Goes("serving") /\ listener' = [t \in Listeners |-> "up"] /\ UNCHANGED result
       \/ Goes("redis") /\ result' = "error" /\ UNCHANGED listener
    /\ UNCHANGED <<graceful, expired, store, sink, call>>

ListenerFails(t) ==
    /\ main = "serving" /\ listener[t] = "up"
    /\ faults < MaxFaults /\ faults' = faults + 1
    /\ listener' = [listener EXCEPT ![t] = "failed"]
    /\ UNCHANGED <<storeVars, hopVars, crashes, before, left, main, signalled, graceful,
                   expired, store, sink, result, callVars>>

Signal ==
    /\ main = "serving" /\ ~signalled
    /\ signalled' = TRUE
    /\ UNCHANGED <<vars, main, listener, graceful, expired, store, sink, result, callVars>>

(* Mutant: the HTTP server is not closed. *)
StopOnError_GrpcOnly ==
    /\ main = "serving" /\ \E t \in Listeners : listener[t] = "failed"
    /\ Goes("redis") /\ result' = "error"
    /\ Cut({"grpc"}) /\ Close(Listeners)
    /\ UNCHANGED <<graceful, expired, store, sink>>

(* errc is received from: Stop and Close wait for no handler. *)
StopOnError ==
    /\ main = "serving" /\ \E t \in Listeners : listener[t] = "failed"
    /\ Goes("redis") /\ result' = "error"
    /\ Cut(Listeners) /\ Close(Listeners)
    /\ UNCHANGED <<graceful, expired, store, sink>>

(* Mutant: the Redis client is closed on the signal, not deferred. *)
BeginShutdown_ClosesFirst ==
    /\ main = "serving" /\ signalled
    /\ Goes("shutdown") /\ graceful' = "spawned"
    /\ Close({"http"}) /\ store' = FALSE
    /\ UNCHANGED <<expired, sink, result, call>>

BeginShutdown ==
    /\ main = "serving" /\ signalled
    /\ Goes("shutdown") /\ graceful' = "spawned"
    /\ Close({"http"})
    /\ UNCHANGED <<expired, store, sink, result, call>>

GracefulBegins ==
    /\ Running /\ graceful = "spawned" /\ graceful' = "draining"
    /\ Close({"grpc"})
    /\ UNCHANGED <<vars, main, signalled, expired, store, sink, result, callVars>>

GracefulEnds ==
    /\ Running /\ graceful = "draining" /\ ~Busy("grpc") /\ graceful' = "stopped"
    /\ UNCHANGED <<vars, main, listener, signalled, expired, store, sink, result, callVars>>

GraceExpires ==
    /\ main \in {"shutdown", "stopping"} /\ ~expired /\ expired' = TRUE
    /\ UNCHANGED <<vars, main, listener, signalled, graceful, store, sink, result, callVars>>

(* Mutant: the error of Shutdown is not looked at. *)
ShutdownReturns_Nil ==
    /\ main = "shutdown" /\ (~Busy("http") \/ expired) /\ result' = "nil"
    /\ Goes("stopping")
    /\ UNCHANGED <<listener, graceful, expired, store, sink, call>>

(* Shutdown closes no connection that is in use, also when its time is up. *)
ShutdownReturns ==
    /\ main = "shutdown"
    /\ \/ ~Busy("http") /\ result' = "nil"
       \/ expired /\ result' = "error"
    /\ Goes("stopping")
    /\ UNCHANGED <<listener, graceful, expired, store, sink, call>>

StreamsDrained ==
    /\ main = "stopping" /\ graceful = "stopped"
    /\ Goes("redis")
    /\ UNCHANGED <<listener, graceful, expired, store, sink, result, call>>

(* Mutant: Stop is called as soon as Shutdown is back. *)
StopStreams_AtOnce ==
    /\ main = "stopping"
    /\ Goes("redis")
    /\ Cut({"grpc"}) /\ Close({"grpc"})
    /\ UNCHANGED <<graceful, expired, store, sink, result>>

(* Mutant: only stopped is waited for. *)
StopStreams_Never == FALSE /\ UNCHANGED inspectorVars

StopStreams ==
    /\ main = "stopping" /\ expired
    /\ Goes("redis")
    /\ Cut({"grpc"}) /\ Close({"grpc"})
    /\ UNCHANGED <<graceful, expired, store, sink, result>>

(* The deferred calls, last one first. *)
CloseStore ==
    /\ main = "redis"
    /\ Goes("audit") /\ store' = FALSE
    /\ UNCHANGED <<listener, graceful, expired, sink, result, call>>

CloseSink ==
    /\ main = "audit"
    /\ Goes("returned") /\ sink' = IF sink = "open" THEN "closed" ELSE sink
    /\ UNCHANGED <<listener, graceful, expired, store, result, call>>

(* main returns: every goroutine and connection goes with it. *)
Exit ==
    /\ main = "returned" /\ main' = "exited"
    /\ pc' = [h \in Hops |-> IF h \in InFlight THEN "aborted" ELSE pc[h]]
    /\ Cut(Listeners)
    /\ UNCHANGED <<storeVars, req, read, verdict, failed, trail, faults, crashes, before, left,
                   listener, signalled, graceful, expired, store, sink, result, replied>>

Main ==
    \/ Start \/ StopOnError \/ BeginShutdown \/ ShutdownReturns
    \/ StreamsDrained \/ StopStreams \/ CloseStore \/ CloseSink \/ Exit

Graceful == GracefulBegins \/ GracefulEnds

Handle(h) == Proceed(h) \/ StoreGone(h) \/ SinkGone(h)

InspectorNext ==
    \/ \E c \in Calls : Accept(c) \/ FinishCall(c) \/ HangUp(c)
    \/ \E h \in Hops : Arrive(h) \/ Handle(h) \/ Faulty(h) \/ SinkBreaks(h) \/ Reply(h)
    \/ \E t \in Listeners : ListenerFails(t)
    \/ Main \/ Graceful \/ Signal \/ GraceExpires

InspectorSpec == InspectorInit /\ [][InspectorNext]_inspectorVars

(* Every goroutine is scheduled, every call a handler makes comes back and   *)
(* the shutdown timer fires.  A client need not send, and a stream need not  *)
(* end.                                                                      *)
FairInspectorSpec ==
    /\ InspectorSpec
    /\ WF_inspectorVars(Main) /\ WF_inspectorVars(Graceful) /\ WF_inspectorVars(GraceExpires)
    /\ \A h \in Hops : WF_inspectorVars(Handle(h))
===============================================================================
