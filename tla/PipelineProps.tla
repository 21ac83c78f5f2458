---------------------------- MODULE PipelineProps -----------------------------
(***************************************************************************)
(* What Pipeline is for: the promises of DESIGN sections 3.3, 3.4, 3.8 and *)
(* 4, across hops, errors, crashes and expiry.                             *)
(***************************************************************************)
EXTENDS Pipeline

Verdict == [action : Actions, taint : BOOLEAN, redactions : SUBSET UNION
              {{f.span : f \in FindingsOf[c]} : c \in Contents}]

(* Every variable holds a value of its kind. *)
TypeOK ==
    /\ StoreTypeOK
    /\ pc \in [Hops -> Stages]
    /\ req \in [Hops -> Request]
    /\ read \in [Hops -> [tainted : BOOLEAN, pinChanged : BOOLEAN, toolBlocked : BOOLEAN]]
    /\ verdict \in [Hops -> Verdict]
    /\ failed \in [Hops -> BOOLEAN]
    /\ trail \in [Hops -> Seq([action : Actions, taint : BOOLEAN, error : BOOLEAN])]
    /\ faults \in 0..MaxFaults /\ crashes \in 0..MaxCrashes
    /\ before \in [Hops -> SUBSET Hops]
    /\ left \in [Hops -> Life]

(* g had returned when h began, and a mark g left then has not expired. *)
StillBinds(g, h) == g \in before[h] /\ Alive(left[g])

SameSession(g, h) == InSession(req[g]) /\ req[g].session = req[h].session
SameTool(g, h) == Keyed(req[g]) /\ Keyed(req[h]) /\ Key(req[g]) = Key(req[h])

(* A request some rule taints the session for, depending on what was read. *)
Poisonous(r) ==
    \E tainted, pinChanged \in BOOLEAN : Evaluate(Rules, EvalInput(r, tainted, pinChanged)).taint

(* Once poisoned content has been let through in a session, every later hop  *)
(* of that session is evaluated as tainted, or is refused: no error, lost    *)
(* reply, crash of another replica or concurrent hop opens a gap             *)
(* (pipeline.go Inspect: the taint is written before the verdict returns).   *)
PoisonIsRemembered ==
    \A g, h \in Hops :
        /\ StillBinds(g, h) /\ SameSession(g, h) /\ FailsClosed
        /\ Poisoned(req[g]) /\ verdict[g].action # "block"
        /\ pc[h] = "done"
        => read[h].tainted \/ verdict[h].action = "block"

(* DESIGN 4: a call to a tool whose definition the policy removed earlier in *)
(* the session is refused, whatever the rules say of the call and whatever   *)
(* fails meanwhile (pipeline.go 150-153 and 164-168).                        *)
RemovedToolIsRefused ==
    \A g, h \in Hops :
        /\ StillBinds(g, h) /\ SameTool(g, h) /\ FailsClosed
        /\ IsDefinition(req[g]) /\ verdict[g].action = "block" /\ ~failed[g]
        /\ IsCall(req[h]) /\ pc[h] = "done"
        => verdict[h].action = "block"

(* The same sentence of DESIGN 4 read literally: any tool removed from the   *)
(* list, also one removed because inspecting its definition failed.          *)
RemovedOnErrorIsRefused ==
    \A g, h \in Hops :
        /\ StillBinds(g, h) /\ SameTool(g, h) /\ FailsClosed
        /\ IsDefinition(req[g]) /\ verdict[g].action = "block"
        /\ IsCall(req[h]) /\ pc[h] = "done"
        => verdict[h].action = "block"

(* Definition hops of one tool that overlapped in time. *)
Overlap(g, h) == g \notin before[h] /\ h \notin before[g]

ReadsAPin(h) == IsDefinition(req[h]) /\ pc[h] = "done" /\ ~failed[h]

(* A definition that differs from one seen earlier is reported as drift, as  *)
(* long as the definitions of that tool were inspected one after another and *)
(* within the pin's lifetime: the first is approved, and each later one is   *)
(* held against it, however many come in between (checkPin, "repeated drift  *)
(* keeps being reported").                                                   *)
DriftIsReported ==
    \A g, h \in Hops :
        LET defining == {i \in Hops : pc[i] # "idle" /\ IsDefinition(req[i]) /\ SameTool(i, g)}
        IN  /\ g \in before[h] /\ SameTool(g, h) /\ ReadsAPin(g) /\ ReadsAPin(h)
            /\ ContentHash[req[g].content] # ContentHash[req[h].content]
            /\ \A i \in defining : Alive(left[i])
            /\ \A i, j \in defining : i # j => ~Overlap(i, j)
            => read[g].pinChanged \/ read[h].pinChanged

(* g is about to write a pin, and h was inspecting the same tool meanwhile.  *)
Overtaken(k, g, h) ==
    /\ g # h /\ IsDefinition(req[g]) /\ IsDefinition(req[h])
    /\ Key(req[g]) = k /\ Key(req[h]) = k
    /\ pc[g] = "pinwrite" /\ pc[h] # "idle" /\ h \notin before[g]

KeepsPins ==
    \A k \in Keys :
        /\ Alive(pins[k].left) /\ Alive(pins'[k].left)
        /\ pins'[k].hash # pins[k].hash
        => \E g, h \in Hops : Overtaken(k, g, h)

(* An approved hash is replaced only by a definition whose inspection        *)
(* overlapped that of another one of the same tool: never by drift that      *)
(* arrives after the approval (pipeline.go checkPin, "the approved hash is   *)
(* kept").                                                                   *)
PinIsKept == [][KeepsPins]_vars

(* The audit log accounts for the store: while a session is tainted, some    *)
(* event of that session says so or records an error, unless the hop that    *)
(* tainted it has not returned, has died, or lost its event to a sink error  *)
(* (emit writes what the verdict says, and drops the sink's error).          *)
AuditAccountsForTaint ==
    \A s \in Sessions : Alive(taint[s]) =>
        \E h \in Hops :
            /\ req[h].session = s /\ Poisonous(req[h])
            /\ \/ pc[h] \notin {"idle", "done"}
               \/ trail[h] = <<>>
               \/ trail[h][1].taint \/ trail[h][1].error
===============================================================================
