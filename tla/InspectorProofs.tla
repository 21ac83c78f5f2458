---------------------------- MODULE InspectorProofs ----------------------------
(***************************************************************************)
(* Theorems about the inspector process, for any number of calls, hops and *)
(* faults, over a shared store or its own.                                 *)
(***************************************************************************)
EXTENDS InspectorProps, PipelineProofs

(* The steps of clients and of handlers leave main's goroutine alone.      *)
ClientStep ==
    \/ \E c \in Calls : Accept(c) \/ FinishCall(c) \/ HangUp(c)
    \/ \E h \in Hops : Arrive(h) \/ Handle(h) \/ Faulty(h) \/ SinkBreaks(h) \/ Reply(h)

ProcessStep ==
    \/ \E t \in Listeners : ListenerFails(t)
    \/ Main \/ Graceful \/ Signal \/ GraceExpires

LEMMA StepsAreTwoKinds == InspectorNext => ClientStep \/ ProcessStep
BY DEF InspectorNext, ClientStep, ProcessStep

LEMMA ClientsLeaveMainAlone ==
    ClientStep => /\ UNCHANGED <<main, listener, signalled, graceful, expired, store, result>>
                  /\ sink' \in {sink, "broken"}
BY DEF ClientStep, Accept, FinishCall, HangUp, Arrive, Handle, Proceed, StoreGone, SinkGone, Faulty,
   SinkBreaks, Reply, processVars

----------------------------------------------------------------------------
(* A handler's step: one of Pipeline's, or a failure that needs no fault:  *)
(* the client, the context or the file it uses is gone.                    *)

Gone(h) ==
    /\ UNCHANGED faults
    /\ \/ pc[h] \in Fallible /\ ToOnError(h) /\ (UNCHANGED storeVars \/ Lands(h))
       \/ DropEvent(h)

Works(h) == Step(h) \/ Fail(h) \/ FailAfterWrite(h) \/ EmitLost(h) \/ Gone(h)

LEMMA HandlersWork ==
    ASSUME NEW h \in Hops, Handle(h) \/ Faulty(h) \/ SinkBreaks(h)
    PROVE  Works(h) /\ UNCHANGED callVars
BY DEF Handle, Proceed, StoreGone, SinkGone, Faulty, SinkBreaks, Works, Gone, UsesStore, Fallible, callVars

LEMMA WorkType ==
    ASSUME TypeInv, NEW h \in Hops, Works(h)
    PROVE  TypeInv'
<1>1. CASE Step(h) \/ Fail(h) \/ FailAfterWrite(h) \/ EmitLost(h)
  BY <1>1, TypeInvNext DEF Next
<1>2. CASE Gone(h)
  <2> USE DEF TypeInv, TypeOK, StageOK, Stages, Fallible, Goto
  <2>1. StoreTypeOK'
    BY <1>2, StoreOpsType, RequestsAreTyped DEF Gone, Lands, DropEvent, IsDefinition
  <2>2. CASE ToOnError(h)
    BY <1>2, <2>1, <2>2, OnErrorIsAVerdict DEF Gone, ToOnError
  <2>3. CASE DropEvent(h)
    BY <1>2, <2>1, <2>3 DEF Gone, DropEvent
  <2>4. QED
    BY <1>2, <2>2, <2>3 DEF Gone
<1>3. QED
  BY <1>1, <1>2 DEF Works

InFlightStages == Fallible \cup {"emit"}

(* It moves its own hop on, and no other; only what emits it returns. *)
LEMMA WorkEffect ==
    ASSUME TypeInv, NEW h \in Hops, Works(h)
    PROVE  /\ pc[h] \in InFlightStages /\ pc'[h] \in InFlightStages \cup {"done"}
           /\ pc' = [pc EXCEPT ![h] = pc'[h]]
           /\ req' = req
           /\ \A g \in Hops : g # h => verdict'[g] = verdict[g] /\ trail'[g] = trail[g]
           /\ pc[h] # "emit" => pc'[h] # "done" /\ trail' = trail
           /\ pc[h] = "emit" => pc'[h] = "done" /\ verdict' = verdict /\ (Emit(h) \/ trail' = trail)
<1> USE DEF Goto, Quiet, InFlightStages, Fallible
<1>0. pc \in [Hops -> Stages] /\ DOMAIN verdict = Hops /\ DOMAIN trail = Hops
  BY DEF TypeInv, TypeOK
<1> USE <1>0
<1>1. CASE Normalize(h)
  BY <1>1 DEF Normalize, AfterNormalize
<1>2. CASE ReadTaint(h)
  BY <1>2 DEF ReadTaint, AfterTainted
<1>3. CASE ReadPin(h)
  BY <1>3 DEF ReadPin
<1>4. CASE WritePin(h)
  BY <1>4 DEF WritePin
<1>5. CASE ReadBlocked(h)
  BY <1>5 DEF ReadBlocked
<1>6. CASE Decide(h)
  BY <1>6 DEF Decide, AfterDecide, AfterTaint
<1>7. CASE WriteTaint(h)
  BY <1>7 DEF WriteTaint, AfterTaint
<1>8. CASE WriteBlock(h)
  BY <1>8 DEF WriteBlock
<1>9. CASE Emit(h)
  BY <1>9 DEF Emit
<1>10. CASE DropEvent(h)
  BY <1>10 DEF DropEvent
<1>11. CASE pc[h] \in Fallible /\ ToOnError(h)
  BY <1>11 DEF ToOnError
<1>12. Fail(h) \/ FailAfterWrite(h) => pc[h] \in Fallible /\ ToOnError(h)
  BY DEF Fail, FailAfterWrite, FailHop, Lands
<1>13. QED
  BY <1>1, <1>2, <1>3, <1>4, <1>5, <1>6, <1>7, <1>8, <1>9, <1>10, <1>11, <1>12
  DEF Works, Step, Gone, EmitLost

(* The hops' variables keep their types in the process as they do without. *)
LEMMA ProcessHopsType == TypeInv /\ [InspectorNext]_inspectorVars => TypeInv'
<1> SUFFICES ASSUME TypeInv, [InspectorNext]_inspectorVars
             PROVE  TypeInv'
  OBVIOUS
<1>1. CASE UNCHANGED vars
  BY <1>1, TypeInvNext
<1>2. ASSUME NEW h \in Hops, Arrive(h)
      PROVE  TypeInv'
  BY <1>2, TypeInvNext DEF Arrive, Next
<1>3. ASSUME NEW h \in Hops, Handle(h) \/ Faulty(h) \/ SinkBreaks(h)
      PROVE  TypeInv'
  BY <1>3, HandlersWork, WorkType
<1>4. ASSUME faults < MaxFaults, faults' = faults + 1, UNCHANGED <<storeVars, hopVars, crashes, before, left>>
      PROVE  TypeInv'
  <2>1. faults' \in 0..MaxFaults
    BY <1>4, PipelineAssumption DEF TypeInv, TypeOK
  <2>2. QED
    BY <1>4, <2>1 DEF TypeInv, TypeOK, StageOK, StoreTypeOK, storeVars, hopVars
<1>5. CASE Exit
  <2>1. /\ pc' \in [Hops -> Stages] /\ \A h \in Hops : pc'[h] \in {pc[h], "aborted"}
        /\ UNCHANGED <<storeVars, req, read, verdict, failed, trail, faults, crashes, before, left>>
    BY <1>5 DEF Exit, TypeInv, TypeOK, Stages
  <2>2. QED
    BY <2>1 DEF TypeInv, TypeOK, StageOK, StoreTypeOK, storeVars
<1>6. QED
  BY <1>1, <1>2, <1>3, <1>4, <1>5 DEF InspectorNext, inspectorVars, Accept, FinishCall, HangUp, Reply,
     ListenerFails, Main, Start, StopOnError, BeginShutdown, ShutdownReturns, StreamsDrained, StopStreams,
     CloseStore, CloseSink, Goes, Graceful, GracefulBegins, GracefulEnds, Signal, GraceExpires

LEMMA HopsTyped == InspectorSpec => []TypeInv
<1>1. InspectorInit => TypeInv
  BY TypeInvInit DEF InspectorInit
<1>2. QED
  BY <1>1, ProcessHopsType, PTL DEF InspectorSpec
----------------------------------------------------------------------------
(* What any step does to a hop and to a call.                              *)

LEMMA HopsMove ==
    ASSUME TypeInv, [InspectorNext]_inspectorVars, NEW h \in Hops
    PROVE  \/ pc'[h] = pc[h]
           \/ pc[h] = "idle" /\ pc'[h] = "normalize" /\ call[CallOf[h]] = "open"
           \/ pc[h] \in InFlightStages /\ pc'[h] \in InFlightStages \cup {"done"}
           \/ pc[h] \in InFlightStages /\ pc'[h] = "aborted"
<1>0. pc \in [Hops -> Stages]
  BY DEF TypeInv, TypeOK
<1>1. ASSUME NEW g \in Hops, Arrive(g)
      PROVE  pc'[h] = pc[h] \/ (pc[h] = "idle" /\ pc'[h] = "normalize" /\ call[CallOf[h]] = "open")
  BY <1>0, <1>1 DEF Arrive, Begin, Goto
<1>2. ASSUME NEW g \in Hops, Handle(g) \/ Faulty(g) \/ SinkBreaks(g)
      PROVE  pc'[h] = pc[h] \/ (pc[h] \in InFlightStages /\ pc'[h] \in InFlightStages \cup {"done"})
  <2>1. Works(g)
    BY <1>2, HandlersWork
  <2>2. pc[g] \in InFlightStages /\ pc'[g] \in InFlightStages \cup {"done"} /\ pc' = [pc EXCEPT ![g] = pc'[g]]
    BY <2>1, WorkEffect
  <2>3. QED
    BY <1>0, <2>2
<1>3. CASE Exit
  BY <1>3 DEF Exit, InFlight, InFlightStages
<1>4. CASE UNCHANGED pc
  BY <1>4
<1>5. QED
  BY <1>1, <1>2, <1>3, <1>4 DEF InspectorNext, inspectorVars, Accept, FinishCall, HangUp, Reply, vars, hopVars,
     ListenerFails, Main, Start, StopOnError, BeginShutdown, ShutdownReturns, StreamsDrained, StopStreams,
     CloseStore, CloseSink, Goes, Graceful, GracefulBegins, GracefulEnds, Signal, GraceExpires

LEMMA CallsMove ==
    ASSUME InspectorTypeOK, [InspectorNext]_inspectorVars, NEW c \in Calls
    PROVE  \/ call'[c] = call[c]
           \/ call[c] = "idle" /\ call'[c] = "open" /\ listener[Transport[c]] = "up"
           \/ call[c] = "open" /\ call'[c] = "hungup"
           \/ call[c] = "open" /\ call'[c] = "served" /\ FinishCall(c)
           \/ call[c] = "open" /\ call'[c] = "cut" /\ ProcessStep
<1>0. call \in [Calls -> {"idle", "open", "served", "hungup", "cut"}]
  BY DEF InspectorTypeOK
<1>1. ASSUME NEW d \in Calls, Accept(d) \/ FinishCall(d) \/ HangUp(d)
      PROVE  \/ call'[c] = call[c]
             \/ call[c] = "idle" /\ call'[c] = "open" /\ listener[Transport[c]] = "up"
             \/ call[c] = "open" /\ call'[c] = "hungup"
             \/ call[c] = "open" /\ call'[c] = "served" /\ FinishCall(c)
  <2>1. CASE d # c
    BY <1>0, <1>1, <2>1 DEF Accept, FinishCall, HangUp
  <2>2. CASE d = c /\ FinishCall(c)
    <3>1. call[c] = "open" /\ call'[c] = "served"
      BY <1>0, <2>2 DEF FinishCall
    <3>2. QED
      BY <2>2, <3>1
  <2>3. CASE d = c /\ (Accept(c) \/ HangUp(c))
    BY <1>0, <2>3 DEF Accept, HangUp
  <2>4. QED
    BY <1>1, <2>1, <2>2, <2>3
<1>2. ASSUME NEW ts, Cut(ts)
      PROVE  call'[c] = call[c] \/ (call[c] = "open" /\ call'[c] = "cut")
  BY <1>2 DEF Cut
<1>3. ProcessStep => UNCHANGED call \/ \E ts : Cut(ts)
  BY DEF ProcessStep, ListenerFails, Main, Start, StopOnError, BeginShutdown, ShutdownReturns, StreamsDrained,
     StopStreams, CloseStore, CloseSink, Exit, Graceful, GracefulBegins, GracefulEnds, Signal, GraceExpires, callVars
<1>4. ASSUME NEW h \in Hops, Arrive(h) \/ Handle(h) \/ Faulty(h) \/ SinkBreaks(h) \/ Reply(h)
      PROVE  UNCHANGED call
  BY <1>4, HandlersWork DEF Arrive, Reply, callVars
<1>5. CASE UNCHANGED inspectorVars
  BY <1>5 DEF inspectorVars, callVars
<1>6. CASE ProcessStep
  BY <1>2, <1>3, <1>6
<1>7. CASE ClientStep
  BY <1>1, <1>4, <1>7 DEF ClientStep
<1>8. QED
  BY <1>5, <1>6, <1>7, StepsAreTwoKinds

----------------------------------------------------------------------------
(* The process.  main's goroutine goes one way; what it has passed bounds  *)
(* what may still be open.                                                 *)

Late == main \in {"redis", "audit", "returned", "exited"}

MainInv ==
    /\ main \in {"starting", "serving"} => graceful = "none" /\ result = "none"
    /\ main \in {"shutdown", "stopping"} => graceful # "none"
    /\ main = "shutdown" => result = "none"
    /\ graceful # "none" => signalled

ListenerInv ==
    /\ main = "starting" => \A t \in Listeners : listener[t] # "up"
    /\ Late => \A t \in Listeners : listener[t] # "up"
    /\ graceful # "none" => listener["http"] # "up"
    /\ graceful \in {"draining", "stopped"} => listener["grpc"] # "up"

(* A hop runs in a call that was accepted, and a served call has none. *)
CallInv ==
    \A h \in Hops :
        /\ call[CallOf[h]] = "idle" => pc[h] = "idle"
        /\ call[CallOf[h]] = "served" => pc[h] \in {"idle", "done"}

(* What was drained stays drained: nothing is accepted any more. *)
DrainInv ==
    /\ main = "starting" => \A c \in Calls : call[c] = "idle"
    /\ graceful = "stopped" => ~Busy("grpc")
    /\ main = "stopping" /\ ~expired => ~Busy("http")
    /\ result = "nil" => ~Busy("http") /\ graceful # "none"
    /\ Late /\ ~(graceful # "none" /\ expired) => \A c \in Calls : call[c] # "open"
    /\ Late => \A c \in Calls : call[c] = "open" => Transport[c] = "http"

CutInv ==
    \A c \in Calls : call[c] = "cut" =>
        /\ Late
        /\ IF graceful = "none" THEN \E t \in Listeners : listener[t] = "failed" ELSE expired
        /\ result = "nil" => Transport[c] = "grpc"

ProcessInv == InspectorTypeOK /\ MainInv /\ ListenerInv /\ CallInv /\ DrainInv /\ CutInv

LEMMA ProcessInvInit == InspectorInit => ProcessInv
<1> SUFFICES ASSUME InspectorInit PROVE ProcessInv
  OBVIOUS
<1>1. \A h \in Hops : pc[h] = "idle"
  BY DEF InspectorInit, Init
<1>2. InspectorTypeOK
  BY DEF InspectorInit, InspectorTypeOK, MainStages
<1>3. MainInv /\ ListenerInv /\ CutInv
  BY InspectorAssumption DEF InspectorInit, MainInv, ListenerInv, CutInv, Late, Listeners
<1>4. CallInv /\ DrainInv
  BY <1>1 DEF InspectorInit, CallInv, DrainInv, Late
<1>5. QED
  BY <1>2, <1>3, <1>4 DEF ProcessInv

LEMMA MainInvNext == MainInv /\ [InspectorNext]_inspectorVars => MainInv'
<1> SUFFICES ASSUME MainInv, [InspectorNext]_inspectorVars
             PROVE  MainInv'
  OBVIOUS
<1> USE DEF MainInv
<1>1. CASE ClientStep
  BY <1>1, ClientsLeaveMainAlone
<1>2. CASE UNCHANGED inspectorVars
  BY <1>2 DEF inspectorVars, processVars
<1>3. CASE ProcessStep
  BY <1>3 DEF ProcessStep, ListenerFails, Main, Start, StopOnError, BeginShutdown, ShutdownReturns,
     StreamsDrained, StopStreams, CloseStore, CloseSink, Exit, Goes, Graceful, GracefulBegins, GracefulEnds,
     Signal, GraceExpires
<1>4. QED
  BY <1>1, <1>2, <1>3, StepsAreTwoKinds

LEMMA ListenerInvNext ==
    InspectorTypeOK /\ MainInv /\ ListenerInv /\ [InspectorNext]_inspectorVars => ListenerInv'
<1> SUFFICES ASSUME InspectorTypeOK, MainInv, ListenerInv, [InspectorNext]_inspectorVars
             PROVE  ListenerInv'
  OBVIOUS
<1> USE DEF ListenerInv, Late, Listeners
<1>0. listener \in [Listeners -> {"up", "failed", "closed"}] /\ main \in MainStages
      /\ graceful \in {"none", "spawned", "draining", "stopped"}
  BY DEF InspectorTypeOK
<1>1. CASE ClientStep
  BY <1>1, ClientsLeaveMainAlone
<1>2. CASE UNCHANGED inspectorVars
  BY <1>2 DEF inspectorVars, processVars
<1>3. CASE Start \/ StopOnError \/ BeginShutdown
  BY <1>0, <1>3 DEF Start, StopOnError, BeginShutdown, Goes, Close, MainInv
<1>4. CASE ShutdownReturns \/ StreamsDrained \/ StopStreams
  BY <1>0, <1>4 DEF ShutdownReturns, StreamsDrained, StopStreams, Goes, Close, MainInv
<1>5. CASE CloseStore \/ CloseSink \/ Exit
  BY <1>0, <1>5 DEF CloseStore, CloseSink, Exit, Goes
<1>6. CASE Graceful \/ Signal \/ GraceExpires \/ \E t \in Listeners : ListenerFails(t)
  BY <1>0, <1>6 DEF Graceful, GracefulBegins, GracefulEnds, Close, Signal, GraceExpires, ListenerFails
<1>7. QED
  BY <1>1, <1>2, <1>3, <1>4, <1>5, <1>6, StepsAreTwoKinds DEF ProcessStep, Main

LEMMA CallInvNext ==
    TypeInv /\ InspectorTypeOK /\ CallInv /\ [InspectorNext]_inspectorVars => CallInv'
<1> SUFFICES ASSUME TypeInv, InspectorTypeOK, CallInv, [InspectorNext]_inspectorVars, NEW h \in Hops
             PROVE  /\ call'[CallOf[h]] = "idle" => pc'[h] = "idle"
                    /\ call'[CallOf[h]] = "served" => pc'[h] \in {"idle", "done"}
  BY DEF CallInv
<1> DEFINE c == CallOf[h]
<1>1. c \in Calls
  BY InspectorAssumption
<1>2. call'[c] = "idle" => call[c] = "idle"
  BY <1>1, CallsMove
<1>3. call[c] = "idle" => pc[h] = "idle" /\ pc'[h] = "idle"
  BY HopsMove DEF CallInv, InFlightStages, Fallible
<1>4. call[c] = "served" => pc[h] \in {"idle", "done"} /\ pc'[h] = pc[h]
  BY HopsMove DEF CallInv, InFlightStages, Fallible
<1>5. ASSUME call'[c] = "served", call[c] # "served"
      PROVE  pc'[h] \in {"idle", "done"}
  <2>1. FinishCall(c)
    BY <1>1, <1>5, CallsMove
  <2>2. pc[h] \in {"idle", "done"} /\ UNCHANGED pc
    BY <2>1 DEF FinishCall, InspectorTypeOK, vars, hopVars
  <2>3. QED
    BY <2>2
<1>6. QED
  BY <1>2, <1>3, <1>4, <1>5

LEMMA InspectorTypeNext ==
    TypeInv /\ InspectorTypeOK /\ [InspectorNext]_inspectorVars => InspectorTypeOK'
<1> SUFFICES ASSUME TypeInv, InspectorTypeOK, [InspectorNext]_inspectorVars
             PROVE  InspectorTypeOK'
  OBVIOUS
<1> USE DEF InspectorTypeOK, MainStages, Listeners
<1>1. call' \in [Calls -> {"idle", "open", "served", "hungup", "cut"}]
  <2>1. ASSUME NEW c \in Calls, Accept(c) \/ FinishCall(c) \/ HangUp(c)
        PROVE  call' \in [Calls -> {"idle", "open", "served", "hungup", "cut"}]
    BY <2>1 DEF Accept, FinishCall, HangUp
  <2>2. ASSUME NEW ts, Cut(ts)
        PROVE  call' \in [Calls -> {"idle", "open", "served", "hungup", "cut"}]
    BY <2>2 DEF Cut
  <2>3. CASE UNCHANGED call
    BY <2>3
  <2>4. QED
    BY <2>1, <2>2, <2>3, HandlersWork DEF InspectorNext, Arrive, Reply, ListenerFails, Main, Start, StopOnError,
       BeginShutdown, ShutdownReturns, StreamsDrained, StopStreams, CloseStore, CloseSink, Exit, Graceful,
       GracefulBegins, GracefulEnds, Signal, GraceExpires, callVars, inspectorVars
<1>2. replied' \subseteq Hops /\ \A h \in replied' : pc'[h] = "done"
  <2>1. replied' = replied \/ \E h \in Hops : Reply(h)
    BY HandlersWork DEF InspectorNext, Accept, FinishCall, HangUp, Arrive, ListenerFails, Main, Start,
       StopOnError, BeginShutdown, ShutdownReturns, StreamsDrained, StopStreams, CloseStore, CloseSink, Exit,
       Goes, Graceful, GracefulBegins, GracefulEnds, Signal, GraceExpires, callVars, inspectorVars
  <2>2. \A h \in Hops : pc[h] = "done" => pc'[h] = "done"
    BY HopsMove DEF InFlightStages, Fallible
  <2>3. QED
    BY <2>1, <2>2 DEF Reply
<1>3. CASE ClientStep
  BY <1>1, <1>2, <1>3, ClientsLeaveMainAlone
<1>4. CASE UNCHANGED inspectorVars
  BY <1>1, <1>2, <1>4 DEF inspectorVars, processVars
<1>5. CASE Start \/ StopOnError \/ BeginShutdown \/ StopStreams
  BY <1>1, <1>2, <1>5 DEF Start, StopOnError, BeginShutdown, StopStreams, Goes, Close
<1>6. CASE ShutdownReturns \/ StreamsDrained \/ CloseStore \/ CloseSink \/ Exit
  BY <1>1, <1>2, <1>6 DEF ShutdownReturns, StreamsDrained, CloseStore, CloseSink, Exit, Goes
<1>7. CASE Graceful
  BY <1>1, <1>2, <1>7 DEF Graceful, GracefulBegins, GracefulEnds, Close
<1>8. CASE Signal \/ GraceExpires
  BY <1>1, <1>2, <1>8 DEF Signal, GraceExpires
<1>9. ASSUME NEW t \in Listeners, ListenerFails(t)
      PROVE  InspectorTypeOK'
  BY <1>1, <1>2, <1>9 DEF ListenerFails
<1>10. QED
  BY <1>3, <1>4, <1>5, <1>6, <1>7, <1>8, <1>9, StepsAreTwoKinds DEF ProcessStep, Main

(* A listener that takes no calls any more only becomes less busy. *)
LEMMA BusyShrinks ==
    ASSUME TypeInv, InspectorTypeOK, [InspectorNext]_inspectorVars,
           NEW t \in Listeners, listener[t] # "up", Busy(t)'
    PROVE  Busy(t)
<1>1. PICK c \in Calls : /\ Transport[c] = t
                         /\ call'[c] = "open" \/ (call'[c] = "hungup" /\ InFlightOf(c)' # {})
  BY DEF Busy
<1>2. CASE call'[c] = "open"
  BY <1>1, <1>2, CallsMove DEF Busy
<1>3. CASE call'[c] = "hungup" /\ call[c] # "hungup"
  BY <1>1, <1>3, CallsMove DEF Busy
<1>4. CASE call'[c] = "hungup" /\ call[c] = "hungup"
  <2>1. PICK h \in Hops : CallOf[h] = c /\ pc'[h] \in InFlightStages
    BY <1>1, <1>4 DEF InFlightOf, InFlight, InFlightStages
  <2>2. pc[h] \in InFlightStages
    BY <1>4, <2>1, HopsMove
  <2>3. h \in InFlightOf(c)
    BY <2>1, <2>2 DEF InFlightOf, InFlight, InFlightStages
  <2>4. QED
    BY <1>1, <1>4, <2>3 DEF Busy
<1>5. QED
  BY <1>1, <1>2, <1>3, <1>4

(* main's goroutine and its flags only go one way. *)
LEMMA OneWay ==
    ASSUME InspectorTypeOK, MainInv, [InspectorNext]_inspectorVars
    PROVE  /\ Late => Late'
           /\ main' = "starting" => main = "starting"
           /\ main' = "stopping" => main = "stopping" \/ ShutdownReturns
           /\ graceful # "none" => graceful' # "none"
           /\ graceful' = "stopped" => graceful = "stopped" \/ GracefulEnds
           /\ Late => (graceful = "none" <=> graceful' = "none")
           /\ expired => expired'
           /\ result' = "nil" => result = "nil" \/ ShutdownReturns
           /\ Late => result' = result
           /\ Late' /\ ~Late => Start \/ StopOnError \/ StreamsDrained \/ StopStreams
<1> USE DEF Late
<1>1. CASE ClientStep
  BY <1>1, ClientsLeaveMainAlone
<1>2. CASE UNCHANGED inspectorVars
  BY <1>2 DEF inspectorVars, processVars
<1>3. CASE ProcessStep
  BY <1>3 DEF ProcessStep, ListenerFails, Main, Start, StopOnError, BeginShutdown, ShutdownReturns,
     StreamsDrained, StopStreams, CloseStore, CloseSink, Exit, Goes, Graceful, GracefulBegins, GracefulEnds,
     Signal, GraceExpires, MainInv
<1>4. QED
  BY <1>1, <1>2, <1>3, StepsAreTwoKinds

LEMMA DrainInvNext ==
    TypeInv /\ InspectorTypeOK /\ MainInv /\ ListenerInv /\ DrainInv /\ [InspectorNext]_inspectorVars
        => DrainInv'
<1> SUFFICES ASSUME TypeInv, InspectorTypeOK, MainInv, ListenerInv, DrainInv, [InspectorNext]_inspectorVars
             PROVE  DrainInv'
  OBVIOUS
<1>0. \A c \in Calls : Transport[c] \in Listeners
  BY InspectorAssumption
<1>1. ASSUME main' = "starting", NEW c \in Calls
      PROVE  call'[c] = "idle"
  <2>1. main = "starting" /\ call[c] = "idle" /\ listener[Transport[c]] # "up"
    BY <1>0, <1>1, OneWay DEF DrainInv, ListenerInv
  <2>2. QED
    BY <2>1, CallsMove
<1>2. ASSUME graceful' = "stopped"
      PROVE  ~Busy("grpc")'
  <2>1. ~Busy("grpc") /\ graceful \in {"draining", "stopped"}
    BY <1>2, OneWay DEF DrainInv, GracefulEnds
  <2>2. QED
    BY <2>1, BusyShrinks DEF ListenerInv, Listeners
<1>3. ASSUME graceful # "none", ~Busy("http")
      PROVE  ~Busy("http")'
  BY <1>3, BusyShrinks DEF ListenerInv, Listeners
<1>4. ASSUME main' = "stopping", ~expired'
      PROVE  ~Busy("http")'
  <2>1. ~Busy("http") /\ graceful # "none"
    BY <1>4, OneWay DEF DrainInv, MainInv, ShutdownReturns
  <2>2. QED
    BY <1>3, <2>1
<1>5. ASSUME result' = "nil"
      PROVE  ~Busy("http")' /\ graceful' # "none"
  <2>1. ~Busy("http") /\ graceful # "none"
    BY <1>5, OneWay DEF DrainInv, MainInv, ShutdownReturns
  <2>2. QED
    BY <1>3, <2>1, OneWay
<1>6. ASSUME Late, NEW c \in Calls, call'[c] = "open"
      PROVE  /\ Transport[c] = "http"
             /\ graceful' # "none" /\ expired'
  <2>1. call[c] = "open"
    BY <1>0, <1>6, CallsMove DEF ListenerInv
  <2>2. QED
    BY <1>6, <2>1, OneWay DEF DrainInv
<1>7. ASSUME Late', ~Late, NEW c \in Calls, call'[c] = "open"
      PROVE  /\ Transport[c] = "http"
             /\ graceful' # "none" /\ expired'
  <2>1. ~Start
    BY <1>7 DEF Start, DrainInv
  <2>2. ~StopOnError
    BY <1>0, <1>7 DEF StopOnError, Cut
  <2>3. CASE StreamsDrained
    <3>1. call[c] = "open" /\ graceful = "stopped" /\ main = "stopping"
          /\ UNCHANGED <<graceful, expired>>
      BY <1>7, <2>3 DEF StreamsDrained
    <3>2. ~Busy("grpc") /\ (~expired => ~Busy("http"))
      BY <3>1 DEF DrainInv
    <3>3. QED
      BY <1>0, <3>1, <3>2 DEF Busy, Listeners, InspectorTypeOK
  <2>4. CASE StopStreams
    <3>1. Transport[c] # "grpc" /\ expired' /\ graceful' # "none"
      BY <1>7, <2>4 DEF StopStreams, Cut, MainInv
    <3>2. QED
      BY <1>0, <3>1 DEF Listeners
  <2>5. QED
    BY <1>7, <2>1, <2>2, <2>3, <2>4, OneWay
<1>8. QED
  BY <1>1, <1>2, <1>4, <1>5, <1>6, <1>7 DEF DrainInv

LEMMA FailedStays ==
    ASSUME InspectorTypeOK, [InspectorNext]_inspectorVars, main # "starting",
           NEW t \in Listeners, listener[t] = "failed"
    PROVE  listener'[t] = "failed"
<1>1. CASE ClientStep
  BY <1>1, ClientsLeaveMainAlone
<1>2. CASE UNCHANGED inspectorVars
  BY <1>2 DEF inspectorVars, processVars
<1>3. CASE ProcessStep
  BY <1>3 DEF ProcessStep, ListenerFails, Main, Start, StopOnError, BeginShutdown, ShutdownReturns,
     StreamsDrained, StopStreams, CloseStore, CloseSink, Exit, Graceful, GracefulBegins, GracefulEnds,
     Signal, GraceExpires, Close, InspectorTypeOK
<1>4. QED
  BY <1>1, <1>2, <1>3, StepsAreTwoKinds

LEMMA CutInvNext ==
    InspectorTypeOK /\ MainInv /\ DrainInv /\ CutInv /\ [InspectorNext]_inspectorVars => CutInv'
<1> SUFFICES ASSUME InspectorTypeOK, MainInv, DrainInv, CutInv, [InspectorNext]_inspectorVars,
                    NEW c \in Calls, call'[c] = "cut"
             PROVE  /\ Late'
                    /\ IF graceful' = "none" THEN \E t \in Listeners : listener'[t] = "failed" ELSE expired'
                    /\ result' = "nil" => Transport[c] = "grpc"
  BY DEF CutInv, Late
<1>0. Transport[c] \in {"http", "grpc"}
  BY InspectorAssumption DEF Listeners
<1>1. CASE call[c] = "cut"
  <2>1. Late /\ main # "starting"
    BY <1>1 DEF CutInv, Late
  <2>2. QED
    BY <1>1, <2>1, OneWay, FailedStays DEF CutInv
<1>2. CASE call[c] # "cut"
  <2>1. call[c] = "open" /\ ProcessStep
    BY <1>2, CallsMove
  <2>2. StopOnError \/ StopStreams \/ Exit
    BY <1>2, <2>1 DEF ProcessStep, ListenerFails, Main, Start, BeginShutdown, ShutdownReturns,
     StreamsDrained, CloseStore, CloseSink, Graceful, GracefulBegins, GracefulEnds,
     Signal, GraceExpires, callVars
  <2>3. CASE StopOnError
    <3>1. PICK t \in Listeners : listener[t] = "failed"
      BY <2>3 DEF StopOnError
    <3>2. listener'[t] = "failed"
      BY <2>3, <3>1, FailedStays DEF StopOnError
    <3>3. QED
      BY <2>3, <3>2 DEF StopOnError, Goes, Late, MainInv
  <2>4. CASE StopStreams
    BY <1>2, <2>4 DEF StopStreams, Cut, Goes, Late, MainInv
  <2>5. CASE Exit
    <3>1. Late /\ main' = "exited" /\ UNCHANGED <<graceful, expired, result>>
      BY <2>5 DEF Exit, Late
    <3>2. graceful # "none" /\ expired
      BY <2>1, <3>1 DEF DrainInv
    <3>3. result = "nil" => Transport[c] # "http"
      BY <2>1 DEF DrainInv, Busy
    <3>4. QED
      BY <1>0, <3>1, <3>2, <3>3 DEF Late
  <2>6. QED
    BY <2>2, <2>3, <2>4, <2>5
<1>3. QED
  BY <1>1, <1>2

LEMMA ProcessCorrect == InspectorSpec => [](TypeInv /\ ProcessInv)
<1>1. TypeInv /\ ProcessInv /\ [InspectorNext]_inspectorVars => ProcessInv'
  BY MainInvNext, ListenerInvNext, CallInvNext, InspectorTypeNext, DrainInvNext, CutInvNext DEF ProcessInv
<1>2. QED
  BY <1>1, HopsTyped, ProcessInvInit, PTL DEF InspectorSpec

(* Every variable of the process holds a value of its kind, what the hops    *)
(* need stays open until run comes to its deferred calls, and only verdicts  *)
(* of hops that are done are sent.                                           *)
THEOREM InspectorTypeCorrect == InspectorSpec => []InspectorTypeOK
<1>1. ProcessInv => InspectorTypeOK
  BY DEF ProcessInv
<1>2. QED
  BY <1>1, ProcessCorrect, PTL

(* However clients, listeners, signals and the shutdown timer interleave, a  *)
(* call is cut off only by a failed listener or after the grace.             *)
THEOREM CutInTime == InspectorSpec => []CutOnlyWhenTimeIsUp
<1>1. ProcessInv => CutOnlyWhenTimeIsUp
  BY DEF ProcessInv, CutInv, CutOnlyWhenTimeIsUp
<1>2. QED
  BY <1>1, ProcessCorrect, PTL

(* When run returns no error, it was told to stop, and every HTTP call that  *)
(* came in was answered or given up by its client.                           *)
THEOREM CleanExit == InspectorSpec => []CleanExitAnsweredHttp
<1>1. ProcessInv => CleanExitAnsweredHttp
  <2> SUFFICES ASSUME ProcessInv, result = "nil"
               PROVE  /\ signalled
                      /\ \A c \in Calls : Transport[c] = "http" => call[c] # "cut" /\ InFlightOf(c) = {}
    BY DEF CleanExitAnsweredHttp
  <2>1. signalled /\ ~Busy("http")
    BY DEF ProcessInv, DrainInv, MainInv
  <2>2. ASSUME NEW c \in Calls, Transport[c] = "http"
        PROVE  call[c] # "cut" /\ InFlightOf(c) = {}
    <3>1. call[c] # "cut"
      BY <2>2 DEF ProcessInv, CutInv
    <3>2. call[c] \in {"idle", "served", "hungup"} /\ (call[c] = "hungup" => InFlightOf(c) = {})
      BY <2>1, <2>2, <3>1 DEF Busy, ProcessInv, InspectorTypeOK
    <3>3. \A h \in InFlightOf(c) : h \in Hops /\ CallOf[h] = c /\ pc[h] \notin {"idle", "done"}
      BY DEF InFlightOf, InFlight, Fallible
    <3>4. QED
      BY <3>1, <3>2, <3>3 DEF ProcessInv, CallInv
  <2>3. QED
    BY <2>1, <2>2
<1>2. QED
  BY <1>1, ProcessCorrect, PTL

----------------------------------------------------------------------------
(* The hops.                                                               *)

(* A hop that is done without an event lost it to the file. *)
EventInv ==
    \A h \in Hops :
        /\ pc[h] # "done" => trail[h] = <<>>
        /\ pc[h] = "done" /\ trail[h] = <<>> => sink = "broken" \/ main \in {"returned", "exited"}

(* Nothing expires here: once the mark is written, it is there. *)
MarkInv ==
    \A h \in Hops :
        pc[h] \in {"block", "emit", "done"} /\ verdict[h].taint /\ InSession(req[h])
            => Tainted(req[h].session)

LEMMA HopInvsInit == InspectorInit => EventInv /\ MarkInv
BY DEF InspectorInit, Init, EventInv, MarkInv

(* A process step, a client's, or a reply: the hops' own variables stay.     *)
LEMMA OthersLeaveHopsAlone ==
    ASSUME [InspectorNext]_inspectorVars
    PROVE  \/ \E h \in Hops : Arrive(h) \/ Handle(h) \/ Faulty(h) \/ SinkBreaks(h)
           \/ UNCHANGED <<storeVars, req, verdict, trail>> /\ (UNCHANGED pc \/ Exit)
BY DEF InspectorNext, inspectorVars, Accept, FinishCall, HangUp, Reply, vars, hopVars,
     ListenerFails, Main, Start, StopOnError, BeginShutdown, ShutdownReturns, StreamsDrained, StopStreams,
     CloseStore, CloseSink, Exit, Goes, Graceful, GracefulBegins, GracefulEnds, Signal, GraceExpires

LEMMA SinkOneWay ==
    ASSUME InspectorTypeOK, [InspectorNext]_inspectorVars
    PROVE  /\ sink = "broken" => sink' = "broken"
           /\ main \in {"returned", "exited"} => main' \in {"returned", "exited"}
<1>1. CASE ClientStep
  BY <1>1, ClientsLeaveMainAlone
<1>2. CASE UNCHANGED inspectorVars
  BY <1>2 DEF inspectorVars, processVars
<1>3. CASE ProcessStep
  BY <1>3 DEF ProcessStep, ListenerFails, Main, Start, StopOnError, BeginShutdown, ShutdownReturns,
     StreamsDrained, StopStreams, CloseStore, CloseSink, Exit, Goes, Graceful, GracefulBegins, GracefulEnds,
     Signal, GraceExpires
<1>4. QED
  BY <1>1, <1>2, <1>3, StepsAreTwoKinds

LEMMA EventInvNext ==
    TypeInv /\ InspectorTypeOK /\ EventInv /\ [InspectorNext]_inspectorVars => EventInv'
<1> SUFFICES ASSUME TypeInv, InspectorTypeOK, EventInv, [InspectorNext]_inspectorVars, NEW h \in Hops
             PROVE  /\ pc'[h] # "done" => trail'[h] = <<>>
                    /\ pc'[h] = "done" /\ trail'[h] = <<>>
                         => sink' = "broken" \/ main' \in {"returned", "exited"}
  BY DEF EventInv
<1>0. /\ pc[h] # "done" => trail[h] = <<>>
      /\ pc[h] = "done" /\ trail[h] = <<>> => sink = "broken" \/ main \in {"returned", "exited"}
      /\ pc \in [Hops -> Stages] /\ DOMAIN trail = Hops
  BY DEF EventInv, TypeInv, TypeOK
<1>1. ASSUME UNCHANGED trail, pc'[h] = "done" => pc[h] = "done", pc[h] = "done" => pc'[h] = "done"
      PROVE  /\ pc'[h] # "done" => trail'[h] = <<>>
             /\ pc'[h] = "done" /\ trail'[h] = <<>>
                  => sink' = "broken" \/ main' \in {"returned", "exited"}
  BY <1>0, <1>1, SinkOneWay
<1>2. ASSUME NEW g \in Hops, Arrive(g)
      PROVE  UNCHANGED trail /\ (pc'[h] = "done" <=> pc[h] = "done")
  BY <1>0, <1>2 DEF Arrive, Begin, Goto
<1>3. CASE Exit
  BY <1>0, <1>1, <1>3 DEF Exit, InFlight, Fallible
<1>4. ASSUME NEW g \in Hops, Handle(g) \/ Faulty(g) \/ SinkBreaks(g)
      PROVE  /\ pc'[h] # "done" => trail'[h] = <<>>
             /\ pc'[h] = "done" /\ trail'[h] = <<>>
                  => sink' = "broken" \/ main' \in {"returned", "exited"}
  <2>1. /\ pc[g] \in InFlightStages /\ pc' = [pc EXCEPT ![g] = pc'[g]]
        /\ \A i \in Hops : i # g => trail'[i] = trail[i]
        /\ pc[g] # "emit" => pc'[g] # "done" /\ trail' = trail
        /\ pc[g] = "emit" => pc'[g] = "done" /\ (Emit(g) \/ trail' = trail)
    BY <1>4, HandlersWork, WorkEffect
  <2>2. CASE h # g
    BY <1>0, <2>1, <2>2, SinkOneWay
  <2>3. CASE h = g /\ pc[g] # "emit"
    BY <1>0, <2>1, <2>3 DEF InFlightStages, Fallible
  <2>4. CASE h = g /\ pc[g] = "emit" /\ Emit(g)
    <3>1. trail'[g] = Append(<<>>, Event(g))
      BY <1>0, <2>4 DEF Emit
    <3>2. trail'[g] # <<>>
      BY <3>1
    <3>3. QED
      BY <2>1, <2>4, <3>2
  <2>5. CASE h = g /\ pc[g] = "emit" /\ ~Emit(g)
    <3>1. SinkGone(g) \/ SinkBreaks(g)
      BY <1>4, <2>5 DEF Handle, Proceed, StoreGone, UsesStore, Faulty, Fail, FailAfterWrite, Lands, Fallible,
         Step, Normalize, ReadTaint, ReadPin, WritePin, ReadBlocked, Decide, WriteTaint, WriteBlock
    <3>2. sink # "open" => sink' = "broken" \/ main' \in {"returned", "exited"}
      BY SinkOneWay DEF InspectorTypeOK
    <3>3. QED
      BY <2>1, <2>5, <3>1, <3>2 DEF SinkGone, SinkBreaks
  <2>6. QED
    BY <2>2, <2>3, <2>4, <2>5
<1>5. QED
  BY <1>1, <1>2, <1>3, <1>4, OthersLeaveHopsAlone

(* Marks are only written here, so what is tainted stays so. *)
LEMMA MarksStay ==
    ASSUME TypeInv, NEW h \in Hops, Begin(h) \/ Works(h), NEW s \in Sessions, Tainted(s)
    PROVE  Tainted(s)'
<1>1. taint' = taint \/ (pc[h] = "taint" /\ Taint(req[h].session))
  BY DEF Works, Gone, Step, Begin, Normalize, ReadTaint, ReadPin, WritePin, ReadBlocked, Decide, WriteTaint,
     WriteBlock, Fail, FailAfterWrite, Lands, FailHop, Emit, EmitLost, DropEvent, storeVars, PinTool, BlockTool
<1>2. taint \in [Sessions -> Life]
  BY DEF TypeInv, TypeOK, StoreTypeOK
<1>3. QED
  BY <1>1, <1>2, LifetimeIsLife DEF Taint, Tainted

LEMMA MarkInvNext == TypeInv /\ MarkInv /\ [InspectorNext]_inspectorVars => MarkInv'
<1> SUFFICES ASSUME TypeInv, MarkInv, [InspectorNext]_inspectorVars, NEW h \in Hops,
                    pc'[h] \in {"block", "emit", "done"}, verdict'[h].taint, InSession(req'[h])
             PROVE  Tainted(req[h].session)'
  BY DEF MarkInv, Tainted
<1>0. pc \in [Hops -> Stages] /\ req \in [Hops -> Request] /\ verdict \in [Hops -> Verdict]
      /\ taint \in [Sessions -> Life]
  BY DEF TypeInv, TypeOK, StoreTypeOK
<1>1. ASSUME NEW g \in Hops, Arrive(g)
      PROVE  Tainted(req[h].session)'
  <2>1. h # g
    BY <1>0, <1>1 DEF Arrive, Begin, Goto
  <2>2. pc'[h] = pc[h] /\ req'[h] = req[h] /\ verdict'[h] = verdict[h] /\ taint' = taint
    BY <1>0, <1>1, <2>1 DEF Arrive, Begin, Goto, storeVars
  <2>3. QED
    BY <2>2 DEF MarkInv, Tainted
<1>2. ASSUME UNCHANGED <<storeVars, req, verdict>>, UNCHANGED pc \/ Exit
      PROVE  Tainted(req[h].session)'
  <2>1. pc'[h] = pc[h]
    BY <1>2 DEF Exit
  <2>2. QED
    BY <1>2, <2>1 DEF MarkInv, Tainted, storeVars
<1>3. ASSUME NEW g \in Hops, Works(g)
      PROVE  Tainted(req[h].session)'
  <2>0. req' = req /\ req[h].session \in Sessions
    BY <1>0, <1>3, WorkEffect, RequestsAreTyped
  <2>1. CASE pc[h] \in {"block", "emit", "done"} /\ verdict'[h] = verdict[h]
    BY <1>3, <2>0, <2>1, MarksStay DEF MarkInv
  <2>2. CASE h # g
    <3>1. pc'[h] = pc[h] /\ verdict'[h] = verdict[h]
      BY <1>0, <1>3, <2>2, WorkEffect
    <3>2. QED
      BY <2>1, <3>1
  <2>3. CASE h = g
    <3>1. CASE Decide(g)
      <4> DEFINE v == Decision(req[g], read[g])
      <4>1. verdict'[g] = v /\ pc'[g] = AfterDecide(req[g], v)
        BY <1>0, <3>1 DEF Decide, Goto
      <4>2. v.taint /\ InSession(req[g]) => AfterDecide(req[g], v) = "taint"
        BY DEF AfterDecide
      <4> HIDE DEF v
      <4>3. QED
        BY <2>0, <2>3, <4>1, <4>2
    <3>2. CASE WriteTaint(g)
      BY <1>0, <2>0, <2>3, <3>2, LifetimeIsLife DEF WriteTaint, Taint, Tainted
    <3>3. CASE ToOnError(g)
      BY <1>0, <2>3, <3>3 DEF ToOnError, OnErrorVerdict
    <3>4. CASE WriteBlock(g) \/ Emit(g) \/ DropEvent(g)
      BY <2>1, <2>3, <3>4 DEF WriteBlock, Emit, DropEvent
    <3>5. CASE Normalize(g) \/ ReadTaint(g) \/ ReadPin(g) \/ WritePin(g) \/ ReadBlocked(g)
      BY <1>0, <2>3, <3>5 DEF Normalize, ReadTaint, ReadPin, WritePin, ReadBlocked, AfterNormalize, AfterTainted, Goto
    <3>6. QED
      BY <1>3, <3>1, <3>2, <3>3, <3>4, <3>5 DEF Works, Step, Gone, Fail, FailAfterWrite, FailHop, EmitLost
  <2>4. QED
    BY <2>2, <2>3
<1>4. QED
  BY <1>1, <1>2, <1>3, HandlersWork, OthersLeaveHopsAlone

(* What was true of a verdict when it was sent stays true. *)
LEMMA RepliedStays ==
    ASSUME TypeInv, InspectorTypeOK, [InspectorNext]_inspectorVars, NEW h \in replied
    PROVE  UNCHANGED <<pc[h], req[h], verdict[h], trail[h]>>
<1>0. h \in Hops /\ pc[h] = "done" /\ pc \in [Hops -> Stages] /\ req \in [Hops -> Request]
  BY DEF InspectorTypeOK, TypeInv, TypeOK
<1>1. ASSUME NEW g \in Hops, Arrive(g)
      PROVE  UNCHANGED <<pc[h], req[h], verdict[h], trail[h]>>
  BY <1>0, <1>1 DEF Arrive, Begin, Goto
<1>2. ASSUME NEW g \in Hops, Handle(g) \/ Faulty(g) \/ SinkBreaks(g)
      PROVE  UNCHANGED <<pc[h], req[h], verdict[h], trail[h]>>
  <2>1. /\ pc[g] \in InFlightStages /\ pc' = [pc EXCEPT ![g] = pc'[g]] /\ req' = req
        /\ \A i \in Hops : i # g => verdict'[i] = verdict[i] /\ trail'[i] = trail[i]
    BY <1>2, HandlersWork, WorkEffect
  <2>2. QED
    BY <1>0, <2>1 DEF InFlightStages, Fallible
<1>3. CASE Exit
  BY <1>0, <1>3 DEF Exit, InFlight, Fallible
<1>4. QED
  BY <1>1, <1>2, <1>3, OthersLeaveHopsAlone

LEMMA RepliedSteps ==
    ASSUME [InspectorNext]_inspectorVars, NEW h \in replied', h \notin replied
    PROVE  h \in Hops /\ Reply(h)
BY HandlersWork DEF InspectorNext, Accept, FinishCall, HangUp, Arrive, Reply, ListenerFails, Main, Start,
   StopOnError, BeginShutdown, ShutdownReturns, StreamsDrained, StopStreams, CloseStore, CloseSink, Exit,
   Goes, Graceful, GracefulBegins, GracefulEnds, Signal, GraceExpires, callVars, inspectorVars

HopsInProcess == TypeInv /\ ProcessInv /\ EventInv /\ MarkInv

LEMMA HopsInProcessCorrect == InspectorSpec => []HopsInProcess
<1>1. TypeInv /\ ProcessInv /\ EventInv /\ MarkInv /\ [InspectorNext]_inspectorVars => EventInv' /\ MarkInv'
  BY EventInvNext, MarkInvNext DEF ProcessInv
<1>2. QED
  BY <1>1, ProcessCorrect, HopInvsInit, PTL DEF InspectorSpec, HopsInProcess

LEMMA AuditedNext ==
    HopsInProcess /\ AnsweredIsAudited /\ [InspectorNext]_inspectorVars => AnsweredIsAudited'
<1> SUFFICES ASSUME HopsInProcess, AnsweredIsAudited, [InspectorNext]_inspectorVars,
                    NEW h \in replied', trail'[h] = <<>>
             PROVE  sink' = "broken" \/ (Transport[CallOf[h]] = "http" /\ expired')
  BY DEF AnsweredIsAudited
<1>0. InspectorTypeOK /\ MainInv /\ DrainInv /\ TypeInv /\ EventInv
  BY DEF HopsInProcess, ProcessInv
<1>1. CASE h \in replied
  BY <1>0, <1>1, RepliedStays, SinkOneWay, OneWay DEF AnsweredIsAudited
<1>2. CASE h \notin replied
  <2>1. h \in Hops /\ Reply(h)
    BY <1>2, RepliedSteps
  <2>2. /\ h \in Hops /\ CallOf[h] \in Calls /\ call[CallOf[h]] = "open" /\ pc[h] = "done" /\ trail[h] = <<>>
        /\ main # "exited" /\ UNCHANGED <<sink, expired>>
    BY <1>0, <2>1, InspectorAssumption DEF Reply, Running, vars, hopVars, processVars, InspectorTypeOK
  <2>3. sink = "broken" \/ main = "returned"
    BY <1>0, <2>2 DEF EventInv
  <2>4. main = "returned" => Transport[CallOf[h]] = "http" /\ expired
    BY <1>0, <2>2 DEF DrainInv, Late
  <2>5. QED
    BY <2>2, <2>3, <2>4
<1>3. QED
  BY <1>1, <1>2

(* A verdict that was sent is in the audit log, unless the file refused a    *)
(* write or was closed under an HTTP call that outlived the grace.           *)
THEOREM AnsweredAudited == InspectorSpec => []AnsweredIsAudited
<1>1. InspectorInit => AnsweredIsAudited
  BY DEF InspectorInit, AnsweredIsAudited
<1>2. QED
  BY <1>1, AuditedNext, HopsInProcessCorrect, PTL DEF InspectorSpec

(* A verdict that taints its session and was sent has its mark in the store, *)
(* also when the client was closed or the call cancelled under the hop.      *)
THEOREM AnsweredTaintStored == InspectorSpec => []AnsweredTaintIsStored
<1>1. HopsInProcess => AnsweredTaintIsStored
  <2> SUFFICES ASSUME HopsInProcess, NEW h \in replied, verdict[h].taint, InSession(req[h])
               PROVE  Tainted(req[h].session)
    BY DEF AnsweredTaintIsStored
  <2>1. h \in Hops /\ pc[h] = "done"
    BY DEF HopsInProcess, ProcessInv, InspectorTypeOK
  <2>2. QED
    BY <2>1 DEF HopsInProcess, MarkInv
<1>2. QED
  BY <1>1, HopsInProcessCorrect, PTL
================================================================================
