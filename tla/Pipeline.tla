------------------------------- MODULE Pipeline -------------------------------
(***************************************************************************)
(* core.Pipeline.Inspect (internal/core/pipeline.go) run by many goroutines *)
(* and replicas at once over one session store and one audit sink.         *)
(*                                                                         *)
(* A hop is one call of Inspect.  Every store call is a step of its own,   *)
(* because the pipeline holds no lock across two of them; what a hop does  *)
(* between two store calls touches only its own variables and is one step. *)
(* Any stage that returns an error may fail; a store write may also fail   *)
(* after taking effect (a Redis reply lost on its way back).               *)
(***************************************************************************)
EXTENDS Decisions, Sequences

CONSTANTS Hops,
          Requests,            \* the requests the gateway may send
          Shared,              \* TRUE: Redis; FALSE: the in-memory store
          MaxFaults, MaxCrashes

ASSUME PipelineAssumption ==
    /\ NoSession \notin Sessions /\ NoTool \notin Tools
    /\ Contents # {} /\ ContentHash \in [Contents -> Hashes]
    /\ Requests \subseteq Request
    /\ \A r \in Rules : r.taint \in BOOLEAN
    /\ MaxFaults \in Nat /\ MaxCrashes \in Nat

VARIABLES pc,        \* the stage each hop is about to run
          req,       \* its request
          read,      \* what it read: tainted, pinChanged, toolBlocked
          verdict,   \* the verdict it is going to return
          failed,    \* whether that verdict is the on_error one
          trail,     \* the audit events it wrote
          faults, crashes,
          \* Two variables the program does not have, for stating properties:
          before,    \* the hops that had returned when this one began
          left       \* what remains of a mark's lifetime counted from Begin

hopVars == <<pc, req, read, verdict, failed, trail>>
vars == <<storeVars, hopVars, faults, crashes, before, left>>

----------------------------------------------------------------------------
(* The order of the stages.                                                *)

Fallible == {"normalize", "tainted", "pin", "pinwrite", "toolblocked",
             "decide", "taint", "block"}
Stages == {"idle"} \cup Fallible \cup {"emit", "done", "aborted"}

AfterNormalize(r) == IF InSession(r) THEN "tainted" ELSE "decide"

(* checkPin and toolBlocked return at once for every other request. *)
AfterTainted(r) ==
    IF IsDefinition(r) THEN "pin" ELSE IF IsCall(r) THEN "toolblocked" ELSE "decide"

AfterTaint(r, v) == IF v.action = "block" /\ IsDefinition(r) THEN "block" ELSE "emit"

(* Mutant: only a blocking decision marks the session. *)
AfterDecide_BlockOnly(r, v) ==
    IF v.taint /\ v.action = "block" /\ InSession(r) THEN "taint" ELSE AfterTaint(r, v)

AfterDecide(r, v) == IF v.taint /\ InSession(r) THEN "taint" ELSE AfterTaint(r, v)

NoVerdict == [action |-> "allow", taint |-> FALSE, redactions |-> {}]
NothingRead == [tainted |-> FALSE, pinChanged |-> FALSE, toolBlocked |-> FALSE]
AnyRequest == CHOOSE r \in Request : TRUE

Init ==
    /\ EmptyStore
    /\ pc = [h \in Hops |-> "idle"]
    /\ req = [h \in Hops |-> AnyRequest]
    /\ read = [h \in Hops |-> NothingRead]
    /\ verdict = [h \in Hops |-> NoVerdict]
    /\ failed = [h \in Hops |-> FALSE]
    /\ trail = [h \in Hops |-> <<>>]
    /\ faults = 0 /\ crashes = 0
    /\ before = [h \in Hops |-> {}]
    /\ left = [h \in Hops |-> 0]

----------------------------------------------------------------------------
(* One action per stage.                                                   *)

Goto(h, stage) == pc' = [pc EXCEPT ![h] = stage]

Quiet == UNCHANGED <<failed, trail, faults, crashes, before, left>>

Begin(h) ==
    /\ pc[h] = "idle"
    /\ \E r \in Requests : req' = [req EXCEPT ![h] = r]
    /\ before' = [before EXCEPT ![h] = {g \in Hops : pc[g] = "done"}]
    /\ left' = [left EXCEPT ![h] = Lifetime]
    /\ Goto(h, "normalize")
    /\ UNCHANGED <<storeVars, read, verdict, failed, trail, faults, crashes>>

Normalize(h) ==
    /\ pc[h] = "normalize"
    /\ Goto(h, AfterNormalize(req[h]))
    /\ UNCHANGED <<storeVars, req, read, verdict>> /\ Quiet

ReadTaint(h) ==
    /\ pc[h] = "tainted"
    /\ read' = [read EXCEPT ![h].tainted = Tainted(req[h].session)]
    /\ Goto(h, AfterTainted(req[h]))
    /\ UNCHANGED <<storeVars, req, verdict>> /\ Quiet

(* Mutant: drift is reported and the new hash takes the approved one's place. *)
ReadPin_Repins(h) ==
    LET pinned == ToolPin(Key(req[h]))
        hash == ContentHash[req[h].content]
    IN  /\ pc[h] = "pin"
        /\ Goto(h, IF pinned # hash THEN "pinwrite" ELSE "decide")
        /\ read' = [read EXCEPT ![h].pinChanged = pinned \notin {NoHash, hash}]
        /\ UNCHANGED <<storeVars, req, verdict>> /\ Quiet

(* Mutant: a pin taken as a lock, which a second definition waits for. *)
ReadPin_Waits(h) ==
    /\ pc[h] = "pin"
    /\ ToolPin(Key(req[h])) \in {NoHash, ContentHash[req[h].content]}
    /\ Goto(h, IF ToolPin(Key(req[h])) = NoHash THEN "pinwrite" ELSE "decide")
    /\ UNCHANGED <<storeVars, req, read, verdict>> /\ Quiet

(* checkPin up to ToolPin: an absent pin is to be written, a present one is *)
(* compared with this definition's hash.                                    *)
ReadPin(h) ==
    LET pinned == ToolPin(Key(req[h]))
    IN  /\ pc[h] = "pin"
        /\ Goto(h, IF pinned = NoHash THEN "pinwrite" ELSE "decide")
        /\ read' = [read EXCEPT ![h].pinChanged =
                      pinned \notin {NoHash, ContentHash[req[h].content]}]
        /\ UNCHANGED <<storeVars, req, verdict>> /\ Quiet

WritePin(h) ==
    /\ pc[h] = "pinwrite"
    /\ PinTool(Key(req[h]), ContentHash[req[h].content])
    /\ Goto(h, "decide")
    /\ UNCHANGED <<req, read, verdict>> /\ Quiet

ReadBlocked(h) ==
    /\ pc[h] = "toolblocked"
    /\ read' = [read EXCEPT ![h].toolBlocked = ToolBlocked(Key(req[h]))]
    /\ Goto(h, "decide")
    /\ UNCHANGED <<storeVars, req, verdict>> /\ Quiet

(* Detect, Evaluate and the verdict built from them. *)
Decide(h) ==
    LET v == Decision(req[h], read[h])
    IN  /\ pc[h] = "decide"
        /\ verdict' = [verdict EXCEPT ![h] = v]
        /\ Goto(h, AfterDecide(req[h], v))
        /\ UNCHANGED <<storeVars, req, read>> /\ Quiet

WriteTaint(h) ==
    /\ pc[h] = "taint"
    /\ Taint(req[h].session)
    /\ Goto(h, AfterTaint(req[h], verdict[h]))
    /\ UNCHANGED <<req, read, verdict>> /\ Quiet

WriteBlock(h) ==
    /\ pc[h] = "block"
    /\ BlockTool(Key(req[h]))
    /\ Goto(h, "emit")
    /\ UNCHANGED <<req, read, verdict>> /\ Quiet

(* fail: any stage's error becomes the on_error verdict. *)
ToOnError(h) ==
    /\ verdict' = [verdict EXCEPT ![h] = OnErrorVerdict]
    /\ failed' = [failed EXCEPT ![h] = TRUE]
    /\ Goto(h, "emit")
    /\ UNCHANGED <<req, read, trail, crashes, before, left>>

FailHop(h) ==
    /\ faults < MaxFaults
    /\ faults' = faults + 1
    /\ ToOnError(h)

(* Mutant: an error marking the session is logged and the verdict returned. *)
Fail_TaintBestEffort(h) ==
    IF pc[h] = "taint"
    THEN /\ faults < MaxFaults /\ faults' = faults + 1
         /\ Goto(h, AfterTaint(req[h], verdict[h]))
         /\ UNCHANGED <<storeVars, req, read, verdict, failed, trail, crashes, before, left>>
    ELSE pc[h] \in Fallible /\ FailHop(h) /\ UNCHANGED storeVars

Fail(h) == pc[h] \in Fallible /\ FailHop(h) /\ UNCHANGED storeVars

(* The write a hop is about to make takes effect. *)
Lands(h) ==
    \/ pc[h] = "pinwrite" /\ PinTool(Key(req[h]), ContentHash[req[h].content])
    \/ pc[h] = "taint" /\ Taint(req[h].session)
    \/ pc[h] = "block" /\ BlockTool(Key(req[h]))

FailAfterWrite(h) == Lands(h) /\ FailHop(h)

(* Mutant: the event carries the taint only with a block. *)
Event_BlockOnly(h) ==
    [action |-> verdict[h].action, error |-> failed[h],
     taint |-> verdict[h].taint /\ verdict[h].action = "block"]

Event(h) == [action |-> verdict[h].action, taint |-> verdict[h].taint,
             error |-> failed[h]]

(* emit, and the return that follows it. *)
Emit(h) ==
    /\ pc[h] = "emit"
    /\ trail' = [trail EXCEPT ![h] = Append(@, Event(h))]
    /\ Goto(h, "done")
    /\ UNCHANGED <<storeVars, req, read, verdict, failed, faults, crashes, before, left>>

(* A sink error is dropped and the verdict stands. *)
DropEvent(h) ==
    /\ pc[h] = "emit"
    /\ Goto(h, "done")
    /\ UNCHANGED <<storeVars, req, read, verdict, failed, trail, crashes, before, left>>

EmitLost(h) == faults < MaxFaults /\ faults' = faults + 1 /\ DropEvent(h)

Tick ==
    /\ TickStore
    /\ left' = [h \in Hops |-> Older(left[h])]
    /\ UNCHANGED <<hopVars, faults, crashes, before>>

(* An inspector dies with the hops it is running: one of several replicas   *)
(* over a shared store, or the only process there is, and its marks.        *)
InFlight == {h \in Hops : pc[h] \in Fallible \cup {"emit"}}

Crash ==
    /\ crashes < MaxCrashes
    /\ crashes' = crashes + 1
    /\ \E dead \in IF Shared THEN SUBSET InFlight ELSE {InFlight} :
         pc' = [h \in Hops |-> IF h \in dead THEN "aborted" ELSE pc[h]]
    /\ IF Shared THEN UNCHANGED <<storeVars, left>>
                 ELSE ClearStore /\ left' = [h \in Hops |-> 0]
    /\ UNCHANGED <<req, read, verdict, failed, trail, faults, before>>

Step(h) ==
    \/ Normalize(h) \/ ReadTaint(h) \/ ReadPin(h) \/ WritePin(h) \/ ReadBlocked(h)
    \/ Decide(h) \/ WriteTaint(h) \/ WriteBlock(h) \/ Emit(h)

Next ==
    \/ \E h \in Hops : Begin(h) \/ Step(h) \/ Fail(h) \/ FailAfterWrite(h) \/ EmitLost(h)
    \/ Tick
    \/ Crash

Spec == Init /\ [][Next]_vars

(* Every goroutine is scheduled and every call it makes comes back, with an *)
(* answer or an error; the gateway need not send anything, nor a clock tick. *)
FairSpec == Spec /\ \A h \in Hops : WF_vars(Step(h))
===============================================================================
