------------------------------- MODULE McpProofs -------------------------------
(***************************************************************************)
(* Theorems about Mcp, for every number of calls, agents and servers, all  *)
(* policies and findings, and however many inspections fail.               *)
(***************************************************************************)
EXTENDS McpProps, PolicyProofs, SequenceTheorems, WellFoundedInduction

----------------------------------------------------------------------------
(* Requests, and what their inspection reads and writes.                   *)

(* A request that can be inspected: all but its source is known. *)
Inspected(r) == r.session \in Sessions \cup {NoSession} /\ r.content \in Contents

LEMMA SessionsAreTyped ==
    ASSUME NEW agent \in Agent
    PROVE  /\ RequestSession(agent) \in Sessions \cup {NoSession}
           /\ ResponseSession(agent) \in Sessions \cup {NoSession}
           /\ ChatSession(agent) \in Sessions \cup {NoSession}
BY DEF Agent, RequestSession, ResponseSession, ChatSession, SessionFrom, FirstOf

LEMMA CatalogsAreLists == \A catalog \in Catalogs \cup {<<>>} : catalog \in Seq(Definition) /\ Len(catalog) \in Nat
<1>1. Catalogs \subseteq Seq(Definition)
  BY McpAssumption, Zenon
<1>2. <<>> \in Seq(Definition)
  OBVIOUS
<1>3. \A catalog \in Catalogs \cup {<<>>} : catalog \in Seq(Definition)
  BY <1>1, <1>2, Zenon
<1>4. QED
  BY <1>3

LEMMA JobsAreTyped ==
    ASSUME McpTypeOK, NEW c \in Calls
    PROVE  /\ job[c] \in Jobs /\ job[c] \in Job /\ job[c].agent \in Agent /\ job[c].agent \in Agents
           /\ job[c].method \in Methods /\ job[c].tool \in Tools
           /\ tools[c] \in Seq(Definition) /\ Len(tools[c]) \in Nat /\ DOMAIN tools[c] = 1..Len(tools[c])
<1>1. job[c] \in Jobs /\ tools[c] \in Catalogs \cup {<<>>}
  BY DEF McpTypeOK
<1>2. tools[c] \in Seq(Definition)
  BY <1>1, CatalogsAreLists, Zenon
<1>3. job[c] \in Job
  BY <1>1, McpAssumption, Zenon
<1>4. job[c].agent \in Agents /\ job[c].method \in Methods /\ job[c].tool \in Tools
  BY <1>3 DEF Job
<1>5. QED
  <2>1. Agents \subseteq Agent
    BY McpAssumption, Zenon
  <2>2. QED
    BY <1>1, <1>2, <1>3, <1>4, <2>1

LEMMA RequestsAreInspected ==
    ASSUME McpTypeOK, NEW c \in Calls
    PROVE  /\ job[c].content \in Contents => Inspected(CallRequest(c)) /\ Inspected(ChatRequest(c))
           /\ result[c] \in Contents => Inspected(ResultRequest(c))
           /\ \A i : tools[c][i].content \in Contents => Inspected(DefinitionRequest(c, i))
<1>1. job[c].agent \in Agent
  BY JobsAreTyped
<1>2. QED
  BY <1>1, SessionsAreTyped
     DEF Inspected, CallRequest, ChatRequest, ResultRequest, DefinitionRequest, ToRequest

(* The store after an inspection.  Taints and blocks are never taken away,   *)
(* and one that is new comes of this request.                                *)
Marks(r) ==
    /\ StoreTypeOK'
    /\ \A s \in Sessions : Alive(taint[s]) => Alive(taint'[s])
    /\ \A k \in Keys : Alive(blocked[k]) => Alive(blocked'[k])
    /\ \A s \in Sessions : Alive(taint'[s]) /\ ~Alive(taint[s]) => s = r.session /\ MayTaint(r)
    /\ \A k \in Keys : Alive(blocked'[k]) /\ ~Alive(blocked[k]) =>
         k = Key(r) /\ IsDefinition(r) /\ Decided(r).action = "block"

LEMMA LifetimeIsLife == Lifetime \in Life /\ Alive(Lifetime)
BY StoreAssumption DEF Lifetime, Life, Forever, Alive

LEMMA WritesMark ==
    ASSUME StoreTypeOK, NEW r, Inspected(r), NEW pin \in BOOLEAN, NEW tainting \in BOOLEAN, NEW blocking \in BOOLEAN,
           Writes(r, pin, tainting, blocking), tainting => Taints(r), blocking => Removes(r)
    PROVE  /\ Marks(r)
           /\ tainting => Alive(taint'[r.session])
           /\ blocking /\ Key(r) \in Keys => Alive(blocked'[Key(r)])
<1>1. tainting => r.session \in Sessions /\ MayTaint(r)
  <2>1. SUFFICES ASSUME tainting PROVE r.session \in Sessions /\ MayTaint(r)
    OBVIOUS
  <2>2. InSession(r) /\ Decided(r).taint
    BY <2>1 DEF Taints
  <2>3. Seen(r).tainted \in BOOLEAN /\ Seen(r).pinChanged \in BOOLEAN
    BY DEF Seen
  <2>4. Evaluate(Rules, EvalInput(r, Seen(r).tainted, Seen(r).pinChanged)).taint
    BY <2>2 DEF Decided, Decision
  <2>5. QED
    BY <2>2, <2>3, <2>4 DEF Inspected, InSession, MayTaint
<1>2. ContentHash[r.content] \in Hashes
  BY McpAssumption DEF Inspected
<1>3. taint' \in [Sessions -> Life] /\ blocked' \in [Keys -> Life]
  BY LifetimeIsLife DEF StoreTypeOK, Writes
<1>4. pins' \in [Keys -> [hash : Hashes \cup {NoHash}, left : Life]]
  BY <1>2, LifetimeIsLife DEF StoreTypeOK, Writes
<1>5. \A s \in Sessions : taint'[s] = IF tainting /\ s = r.session THEN Lifetime ELSE taint[s]
  BY DEF StoreTypeOK, Writes
<1>6. \A k \in Keys : blocked'[k] = IF blocking /\ k = Key(r) THEN Lifetime ELSE blocked[k]
  BY DEF StoreTypeOK, Writes
<1>7. blocking => IsDefinition(r) /\ Decided(r).action = "block"
  BY DEF Removes
<1>8. StoreTypeOK'
  BY <1>3, <1>4 DEF StoreTypeOK
<1>9. QED
  BY <1>1, <1>5, <1>6, <1>7, <1>8, LifetimeIsLife DEF Marks

(* The two ends of an inspection. *)
LEMMA InspectionEnds ==
    ASSUME McpTypeOK, NEW c \in Calls, NEW r, Inspected(r), NEW v, Inspects(c, r, v)
    PROVE  /\ Marks(r) /\ faults' \in 0..MaxFaults
           /\ \/ /\ faults' = faults /\ failed' = failed /\ v = Decided(r)
                 /\ Taints(r) => Alive(taint'[r.session])
                 /\ Removes(r) /\ Key(r) \in Keys => Alive(blocked'[Key(r)])
              \/ faults' # faults /\ failed' = [failed EXCEPT ![c] = TRUE] /\ v = OnErrorVerdict
<1>1. StoreTypeOK /\ faults \in 0..MaxFaults /\ MaxFaults \in Nat
  BY McpAssumption DEF McpTypeOK
<1>2. Pins(r) \in BOOLEAN /\ Taints(r) \in BOOLEAN /\ Removes(r) \in BOOLEAN
  <2>1. Decided(r).taint \in BOOLEAN
    BY DEF Decided, Decision, Evaluate
  <2>2. QED
    BY <2>1 DEF Pins, Taints, Removes
<1>3. CASE Inspect(r, v) /\ UNCHANGED <<faults, failed>>
  <2>1. Writes(r, Pins(r), Taints(r), Removes(r)) /\ v = Decided(r)
    BY <1>3 DEF Inspect
  <2>2. /\ Marks(r)
        /\ Taints(r) => Alive(taint'[r.session])
        /\ Removes(r) /\ Key(r) \in Keys => Alive(blocked'[Key(r)])
    BY <1>1, <1>2, <2>1, WritesMark
  <2>3. QED
    BY <1>1, <1>3, <2>1, <2>2
<1>4. CASE /\ faults < MaxFaults /\ faults' = faults + 1
           /\ InspectFails(r, v) /\ failed' = [failed EXCEPT ![c] = TRUE]
  <2>1. PICK done \in 0..3 : Writes(r, done >= 1 /\ Pins(r), done >= 2 /\ Taints(r), done >= 3 /\ Removes(r))
    BY <1>4 DEF InspectFails
  <2>2. Marks(r)
    BY <1>1, <1>2, <2>1, WritesMark
  <2>3. v = OnErrorVerdict
    BY <1>4 DEF InspectFails
  <2>4. QED
    BY <1>1, <1>4, <2>2, <2>3
<1>5. QED
  BY <1>3, <1>4 DEF Inspects

----------------------------------------------------------------------------
(* What each action does to its own call, and leaves of the others.        *)

Same(d) ==
    /\ pc'[d] = pc[d] /\ job'[d] = job[d] /\ answer'[d] = answer[d] /\ tools'[d] = tools[d]
    /\ result'[d] = result[d] /\ at'[d] = at[d] /\ kept'[d] = kept[d] /\ changed'[d] = changed[d]
    /\ removed'[d] = removed[d] /\ failed'[d] = failed[d] /\ before'[d] = before[d]

Others(c) == \A d \in Calls \ {c} : Same(d)

SameStore == UNCHANGED storeVars /\ faults' = faults

SameList(c) ==
    /\ at'[c] = at[c] /\ kept'[c] = kept[c] /\ changed'[c] = changed[c] /\ removed'[c] = removed[c]

SameAnswers(c) == tools'[c] = tools[c] /\ result'[c] = result[c]

SameJob(c) == job'[c] = job[c] /\ before'[c] = before[c]

(* A step of the call that inspects nothing and moves it to a stage. *)
Quiet(c, stage) == Others(c) /\ SameStore /\ failed'[c] = failed[c] /\ SameList(c) /\ pc'[c] = stage

(* The call goes on, or ends. *)
Closes(c, stage, outcome) == SameJob(c) /\ SameAnswers(c) /\ Quiet(c, stage) /\ answer'[c] = outcome

(* The inspection a step of the call makes. *)
Judges(c, r, v) ==
    /\ Others(c) /\ SameJob(c) /\ SameAnswers(c) /\ v \in Outcomes(r) /\ Inspected(r)
    /\ Marks(r)
    /\ \/ /\ failed'[c] = failed[c] /\ v = Decided(r) /\ faults' = faults
          /\ Taints(r) => Alive(taint'[r.session])
          /\ Removes(r) /\ Key(r) \in Keys => Alive(blocked'[Key(r)])
       \/ failed'[c] = TRUE /\ v = OnErrorVerdict /\ faults' # faults

LEMMA BeginStep ==
    ASSUME McpTypeOK, NEW c \in Calls, Begin(c)
    PROVE  /\ McpTypeOK' /\ pc[c] = "idle" /\ Quiet(c, "request") /\ SameAnswers(c) /\ answer'[c] = answer[c]
           /\ before'[c] = {b \in Calls : pc[b] = "done"}
<1>1. McpTypeOK'
  BY DEF McpTypeOK, Begin, Goto, NotInspected, StoreTypeOK, storeVars, listVars
<1>2. QED
  BY <1>1 DEF McpTypeOK, Begin, Goto, NotInspected, storeVars, listVars, Quiet, Others, Same, SameStore, SameList, SameAnswers

LEMMA PassRequestStep ==
    ASSUME McpTypeOK, NEW c \in Calls, PassRequest(c)
    PROVE  McpTypeOK' /\ Closes(c, "server", answer[c])
<1>1. McpTypeOK'
  BY DEF McpTypeOK, PassRequest, Goto, NotInspected, StoreTypeOK, storeVars, listVars
<1>2. QED
  BY <1>1 DEF McpTypeOK, PassRequest, Goto, NotInspected, storeVars, listVars, Closes, Quiet, Others, Same, SameStore,
         SameList, SameAnswers, SameJob

LEMMA EndStep ==
    ASSUME McpTypeOK, NEW c \in Calls, NEW outcome \in {"pass", "mutated", "denied", "error"},
           pc[c] # "done", Ends(c, outcome),
           UNCHANGED <<job, tools, result, listVars, before>>, NotInspected
    PROVE  McpTypeOK' /\ Closes(c, "done", outcome)
<1>1. McpTypeOK'
  BY DEF McpTypeOK, Ends, Goto, NotInspected, StoreTypeOK, storeVars, listVars
<1>2. QED
  BY <1>1 DEF McpTypeOK, Ends, Goto, NotInspected, storeVars, listVars, Closes, Quiet, Others, Same, SameStore,
         SameList, SameAnswers, SameJob

LEMMA ServerStep ==
    ASSUME McpTypeOK, NEW c \in Calls, ServerAnswers(c)
    PROVE  /\ McpTypeOK' /\ Quiet(c, "response") /\ SameJob(c) /\ answer'[c] = answer[c]
           /\ \/ job[c].method = "tools/list" /\ result'[c] = result[c] /\ tools'[c] \in Catalogs
              \/ /\ tools'[c] = tools[c]
                 /\ job[c].method = "tools/list" => result'[c] = Malformed
<1>1. McpTypeOK'
  <2>1. /\ pc' \in [Calls -> {"idle", "request", "server", "response", "done"}]
        /\ \A d \in Calls : pc'[d] = "done" <=> answer'[d] # "none"
    BY DEF McpTypeOK, ServerAnswers, Goto
  <2>2. tools' \in [Calls -> Catalogs \cup {<<>>}] /\ result' \in [Calls -> Results \cup {NoText}]
    <3>1. tools \in [Calls -> Catalogs \cup {<<>>}] /\ result \in [Calls -> Results \cup {NoText}]
      BY DEF McpTypeOK
    <3>2. \/ \E catalog \in Catalogs : tools' = [tools EXCEPT ![c] = catalog] /\ result' = result
          \/ \E r \in Results : result' = [result EXCEPT ![c] = r] /\ tools' = tools
      BY DEF ServerAnswers
    <3>3. QED
      BY <3>1, <3>2
  <2>3. UNCHANGED <<job, answer, at, kept, changed, removed, before, taint, pins, blocked, faults, failed>>
    BY DEF ServerAnswers, NotInspected, storeVars, listVars
  <2>4. StoreTypeOK'
    BY <2>3 DEF McpTypeOK, StoreTypeOK
  <2>5. QED
    BY <2>1, <2>2, <2>3, <2>4 DEF McpTypeOK
<1>2. Others(c)
  <2>1. ASSUME NEW d \in Calls \ {c}
        PROVE  pc'[d] = pc[d] /\ tools'[d] = tools[d] /\ result'[d] = result[d]
    BY DEF McpTypeOK, ServerAnswers, Goto
  <2>2. QED
    BY <2>1 DEF ServerAnswers, NotInspected, listVars, Others, Same
<1>3. Quiet(c, "response") /\ SameJob(c) /\ answer'[c] = answer[c]
  BY <1>2 DEF McpTypeOK, ServerAnswers, Goto, NotInspected, storeVars, listVars, Quiet, SameStore, SameList, SameJob
<1>4. \/ job[c].method = "tools/list" /\ result'[c] = result[c] /\ tools'[c] \in Catalogs
      \/ /\ tools'[c] = tools[c]
         /\ job[c].method = "tools/list" => result'[c] = Malformed
  BY DEF McpTypeOK, ServerAnswers
<1>5. QED
  BY <1>1, <1>3, <1>4

LEMMA CheckCallStep ==
    ASSUME McpTypeOK, NEW c \in Calls, CheckCall(c)
    PROVE  /\ McpTypeOK' /\ SameList(c)
           /\ \E v : /\ Judges(c, CallRequest(c), v)
                     /\ pc'[c] = IF v.action = "block" THEN "done" ELSE "server"
                     /\ answer'[c] = IF v.action = "block" THEN "denied" ELSE answer[c]
<1>1. PICK v \in Outcomes(CallRequest(c)) :
        /\ Inspects(c, CallRequest(c), v)
        /\ IF v.action = "block" THEN Ends(c, "denied") ELSE Goto(c, "server") /\ UNCHANGED answer
  BY DEF CheckCall
<1>2. Inspected(CallRequest(c))
  BY RequestsAreInspected DEF CheckCall
<1> DEFINE r == CallRequest(c)
<1>3. /\ Marks(r) /\ faults' \in 0..MaxFaults
      /\ \/ /\ faults' = faults /\ failed' = failed /\ v = Decided(r)
            /\ Taints(r) => Alive(taint'[r.session])
            /\ Removes(r) /\ Key(r) \in Keys => Alive(blocked'[Key(r)])
         \/ faults' # faults /\ failed' = [failed EXCEPT ![c] = TRUE] /\ v = OnErrorVerdict
  BY <1>1, <1>2, InspectionEnds
<1> HIDE DEF r
<1>4. McpTypeOK'
  <2>1. pc[c] # "done" /\ UNCHANGED <<job, tools, result, at, kept, changed, removed, before>>
    BY DEF CheckCall, listVars
  <2>2. /\ pc' \in [Calls -> {"idle", "request", "server", "response", "done"}]
        /\ answer' \in [Calls -> {"none", "pass", "mutated", "denied", "error"}]
        /\ \A d \in Calls : pc'[d] = "done" <=> answer'[d] # "none"
    <3>1. CASE v.action = "block"
      BY <1>1, <2>1, <3>1 DEF McpTypeOK, Goto, Ends
    <3>2. CASE v.action # "block"
      BY <1>1, <2>1, <3>2 DEF McpTypeOK, Goto
    <3>3. QED
      BY <3>1, <3>2
  <2>3. failed' \in [Calls -> BOOLEAN]
    BY <1>3 DEF McpTypeOK
  <2>4. QED
    BY <1>3, <2>1, <2>2, <2>3 DEF McpTypeOK, Marks
<1>5. SameList(c) /\ Others(c) /\ SameJob(c) /\ SameAnswers(c)
  <2>1. UNCHANGED <<job, tools, result, at, kept, changed, removed, before>>
    BY DEF CheckCall, listVars
  <2>2. \A d \in Calls \ {c} : pc'[d] = pc[d] /\ answer'[d] = answer[d]
    BY <1>1 DEF McpTypeOK, Goto, Ends
  <2>3. \A d \in Calls \ {c} : failed'[d] = failed[d]
    BY <1>3 DEF McpTypeOK
  <2>4. QED
    BY <2>1, <2>2, <2>3 DEF Others, Same, SameList, SameAnswers, SameJob
<1>6. failed' = [failed EXCEPT ![c] = TRUE] => failed'[c] = TRUE
  BY DEF McpTypeOK
<1>7. Judges(c, r, v)
  BY <1>1, <1>2, <1>3, <1>5, <1>6 DEF Judges, r
<1>8. /\ pc'[c] = IF v.action = "block" THEN "done" ELSE "server"
      /\ answer'[c] = IF v.action = "block" THEN "denied" ELSE answer[c]
  BY <1>1 DEF McpTypeOK, Goto, Ends
<1>9. \E w : /\ Judges(c, r, w)
             /\ pc'[c] = IF w.action = "block" THEN "done" ELSE "server"
             /\ answer'[c] = IF w.action = "block" THEN "denied" ELSE answer[c]
  <2> WITNESS v
  <2> QED
    BY <1>7, <1>8
<1>10. QED
  BY <1>4, <1>5, <1>9 DEF r

LEMMA VerdictStep ==
    ASSUME McpTypeOK, NEW c \in Calls, NEW r, Inspected(r), NEW v \in Outcomes(r), Inspects(c, r, v), pc[c] # "done",
           Ends(c, IF v.action = "block" THEN "denied" ELSE IF Redacts(v) THEN "mutated" ELSE "pass"),
           UNCHANGED <<job, tools, result, listVars, before>>
    PROVE  /\ McpTypeOK' /\ SameList(c) /\ Judges(c, r, v) /\ pc'[c] = "done"
           /\ answer'[c] \in {"pass", "mutated", "denied"} /\ (answer'[c] = "denied" <=> v.action = "block")
<1> DEFINE outcome == IF v.action = "block" THEN "denied" ELSE IF Redacts(v) THEN "mutated" ELSE "pass"
<1>1. outcome \in {"pass", "mutated", "denied"} /\ (outcome = "denied" <=> v.action = "block")
  OBVIOUS
<1>2. pc' = [pc EXCEPT ![c] = "done"] /\ answer' = [answer EXCEPT ![c] = outcome]
  BY DEF Ends, Goto
<1> HIDE DEF outcome
<1>3. /\ Marks(r) /\ faults' \in 0..MaxFaults
      /\ \/ /\ faults' = faults /\ failed' = failed /\ v = Decided(r)
            /\ Taints(r) => Alive(taint'[r.session])
            /\ Removes(r) /\ Key(r) \in Keys => Alive(blocked'[Key(r)])
         \/ faults' # faults /\ failed' = [failed EXCEPT ![c] = TRUE] /\ v = OnErrorVerdict
  BY InspectionEnds
<1>4. McpTypeOK'
  BY <1>1, <1>2, <1>3 DEF McpTypeOK, listVars, Marks
<1>5. SameList(c) /\ Others(c) /\ SameJob(c) /\ SameAnswers(c)
  BY <1>2, <1>3 DEF McpTypeOK, listVars, Others, Same, SameList, SameAnswers, SameJob
<1>6. failed' = [failed EXCEPT ![c] = TRUE] => failed'[c] = TRUE
  BY DEF McpTypeOK
<1>7. Judges(c, r, v)
  BY <1>3, <1>5, <1>6 DEF Judges
<1>8. pc'[c] = "done" /\ answer'[c] = outcome
  BY <1>2 DEF McpTypeOK
<1>9. QED
  BY <1>1, <1>4, <1>5, <1>7, <1>8

LEMMA OddEntryStep ==
    ASSUME McpTypeOK, NEW c \in Calls, KeepOddEntry(c)
    PROVE  /\ McpTypeOK' /\ Others(c) /\ SameStore /\ SameJob(c) /\ SameAnswers(c) /\ pc'[c] = pc[c]
           /\ answer'[c] = answer[c] /\ failed'[c] = failed[c]
           /\ at'[c] = at[c] + 1 /\ kept'[c] = Append(kept[c], at[c])
           /\ changed'[c] = changed[c] /\ removed'[c] = removed[c]
<1>1. McpTypeOK'
  BY DEF McpTypeOK, KeepOddEntry, Listing, Keep, NotInspected, StoreTypeOK, storeVars
<1>2. QED
  BY <1>1 DEF McpTypeOK, KeepOddEntry, Listing, Keep, NotInspected, storeVars, Others, Same, SameStore, SameAnswers, SameJob

LEMMA DefinitionStep ==
    ASSUME McpTypeOK, NEW c \in Calls, CheckDefinition(c)
    PROVE  /\ McpTypeOK' /\ pc'[c] = pc[c] /\ answer'[c] = answer[c] /\ at'[c] = at[c] + 1
           /\ \E v : /\ Judges(c, DefinitionRequest(c, at[c]), v)
                     /\ kept'[c] = IF v.action = "block" THEN kept[c] ELSE Append(kept[c], at[c])
                     /\ changed'[c] = (changed[c] \/ v.action = "block" \/ Redacts(v))
                     /\ removed'[c] = IF v.action = "block" /\ faults' = faults
                                      THEN removed[c] \cup {at[c]} ELSE removed[c]
<1> DEFINE r == DefinitionRequest(c, at[c])
<1>1. PICK v \in Outcomes(r) :
        /\ Inspects(c, r, v)
        /\ IF v.action = "block" THEN UNCHANGED kept ELSE Keep(c)
        /\ changed' = [changed EXCEPT ![c] = @ \/ v.action = "block" \/ Redacts(v)]
        /\ removed' = [removed EXCEPT ![c] =
              IF v.action = "block" /\ faults' = faults THEN @ \cup {at[c]} ELSE @]
  BY DEF CheckDefinition
<1>2. Inspected(r)
  BY RequestsAreInspected DEF CheckDefinition
<1> HIDE DEF r
<1>3. /\ Marks(r) /\ faults' \in 0..MaxFaults
      /\ \/ /\ faults' = faults /\ failed' = failed /\ v = Decided(r)
            /\ Taints(r) => Alive(taint'[r.session])
            /\ Removes(r) /\ Key(r) \in Keys => Alive(blocked'[Key(r)])
         \/ faults' # faults /\ failed' = [failed EXCEPT ![c] = TRUE] /\ v = OnErrorVerdict
  BY <1>1, <1>2, InspectionEnds
<1>4. at' = [at EXCEPT ![c] = @ + 1] /\ UNCHANGED <<pc, job, answer, tools, result, before>>
  BY DEF CheckDefinition, Listing
<1>5. kept' = IF v.action = "block" THEN kept ELSE [kept EXCEPT ![c] = Append(@, at[c])]
  BY <1>1 DEF Keep
<1>6. McpTypeOK'
  <2>1. at[c] \in Nat /\ kept[c] \in Seq(Nat) /\ removed[c] \in SUBSET Nat /\ changed[c] \in BOOLEAN
    BY DEF McpTypeOK
  <2>2. changed' \in [Calls -> BOOLEAN]
    BY <1>1, <2>1 DEF McpTypeOK, Redacts
  <2>3. removed' \in [Calls -> SUBSET Nat]
    BY <1>1, <2>1 DEF McpTypeOK
  <2>4. kept' \in [Calls -> Seq(Nat)]
    BY <1>5, <2>1 DEF McpTypeOK
  <2>5. at' \in [Calls -> Nat] /\ failed' \in [Calls -> BOOLEAN]
    <3>1. failed' \in [Calls -> BOOLEAN]
      BY <1>3 DEF McpTypeOK
    <3>2. at' \in [Calls -> Nat]
      BY <1>4, <2>1 DEF McpTypeOK
    <3>3. QED
      BY <3>1, <3>2
  <2>6. QED
    BY <1>3, <1>4, <2>2, <2>3, <2>4, <2>5 DEF McpTypeOK, Marks
<1>7. Others(c) /\ SameJob(c) /\ SameAnswers(c)
  BY <1>1, <1>3, <1>4, <1>5 DEF McpTypeOK, Others, Same, SameAnswers, SameJob
<1>8. failed' = [failed EXCEPT ![c] = TRUE] => failed'[c] = TRUE
  BY DEF McpTypeOK
<1>9. Judges(c, r, v)
  BY <1>2, <1>3, <1>7, <1>8 DEF Judges
<1>10. /\ kept'[c] = IF v.action = "block" THEN kept[c] ELSE Append(kept[c], at[c])
       /\ changed'[c] = (changed[c] \/ v.action = "block" \/ Redacts(v))
       /\ removed'[c] = IF v.action = "block" /\ faults' = faults THEN removed[c] \cup {at[c]} ELSE removed[c]
  BY <1>1, <1>5 DEF McpTypeOK
<1>11. pc'[c] = pc[c] /\ answer'[c] = answer[c] /\ at'[c] = at[c] + 1
  BY <1>4 DEF McpTypeOK
<1>12. \E w : /\ Judges(c, r, w)
              /\ kept'[c] = IF w.action = "block" THEN kept[c] ELSE Append(kept[c], at[c])
              /\ changed'[c] = (changed[c] \/ w.action = "block" \/ Redacts(w))
              /\ removed'[c] = IF w.action = "block" /\ faults' = faults THEN removed[c] \cup {at[c]} ELSE removed[c]
  <2> WITNESS v
  <2> QED
    BY <1>9, <1>10
<1>13. QED
  BY <1>6, <1>11, <1>12 DEF r

----------------------------------------------------------------------------
(* The steps, by what they do to their call.                               *)

Opens(c) ==
    /\ pc[c] = "idle" /\ Quiet(c, "request") /\ SameAnswers(c) /\ answer'[c] = answer[c]
    /\ before'[c] = {b \in Calls : pc[b] = "done"}

Forwards(c) ==
    pc[c] = "request" /\ job[c].method # "chat" /\ ~IsToolCall(c) /\ Closes(c, "server", answer[c])

Submits(c) ==
    /\ pc[c] = "request" /\ IsToolCall(c) /\ SameList(c)
    /\ \E v : /\ Judges(c, CallRequest(c), v)
              /\ pc'[c] = IF v.action = "block" THEN "done" ELSE "server"
              /\ answer'[c] = IF v.action = "block" THEN "denied" ELSE answer[c]

Serves(c) ==
    /\ pc[c] = "server" /\ Quiet(c, "response") /\ SameJob(c) /\ answer'[c] = answer[c]
    /\ \/ job[c].method = "tools/list" /\ result'[c] = result[c] /\ tools'[c] \in Catalogs
       \/ tools'[c] = tools[c] /\ (job[c].method = "tools/list" => result'[c] = Malformed)

(* Ends without an inspection. *)
Closed(c, outcome) ==
    \/ outcome = "error" /\ pc[c] = "request" /\ ~IsToolCall(c)
    \/ outcome = "error" /\ pc[c] = "response" /\ result[c] = Malformed
    \/ /\ outcome = "pass" /\ pc[c] = "response" /\ job[c].method # "tools/list"
       /\ job[c].method = "prompts/get" \/ result[c] = NoText
    \/ /\ pc[c] = "response" /\ job[c].method = "tools/list" /\ at[c] > Len(tools[c])
       /\ outcome = IF changed[c] THEN "mutated" ELSE "pass"

Stops(c) == \E outcome : Closed(c, outcome) /\ Closes(c, "done", outcome)

(* Ends with an inspection of what it carries. *)
Carries(c, r) ==
    \/ pc[c] = "request" /\ job[c].method = "chat" /\ r = ChatRequest(c)
    \/ /\ pc[c] = "response" /\ job[c].method \in {"tools/call", "resources/read"}
       /\ result[c] \in Contents /\ r = ResultRequest(c)

Concludes(c) ==
    \E r, v :
        /\ Carries(c, r) /\ SameList(c) /\ Judges(c, r, v) /\ pc'[c] = "done"
        /\ answer'[c] \in {"pass", "mutated", "denied"} /\ (answer'[c] = "denied" <=> v.action = "block")

OnList(c) == pc[c] = "response" /\ job[c].method = "tools/list" /\ at[c] <= Len(tools[c])

Moves(c) == pc'[c] = pc[c] /\ answer'[c] = answer[c] /\ at'[c] = at[c] + 1

Keeps(c) ==
    /\ OnList(c) /\ Moves(c) /\ Others(c) /\ SameStore /\ SameJob(c) /\ SameAnswers(c) /\ failed'[c] = failed[c]
    /\ kept'[c] = Append(kept[c], at[c]) /\ changed'[c] = changed[c] /\ removed'[c] = removed[c]

Defines(c) ==
    /\ OnList(c) /\ Moves(c) /\ tools[c][at[c]].content \in Contents
    /\ \E v : /\ Judges(c, DefinitionRequest(c, at[c]), v)
              /\ kept'[c] = IF v.action = "block" THEN kept[c] ELSE Append(kept[c], at[c])
              /\ changed'[c] = (changed[c] \/ v.action = "block" \/ Redacts(v))
              /\ removed'[c] = IF v.action = "block" /\ faults' = faults
                               THEN removed[c] \cup {at[c]} ELSE removed[c]

Moved(c) ==
    \/ Opens(c) \/ Forwards(c) \/ Submits(c) \/ Serves(c) \/ Stops(c) \/ Concludes(c) \/ Keeps(c) \/ Defines(c)

LEMMA RequestMoves ==
    ASSUME McpTypeOK, NEW c \in Calls, CheckRequest(c)
    PROVE  McpTypeOK' /\ Moved(c)
<1>1. Malformed \notin Contents /\ NoText \notin Contents
  BY McpAssumption, Zenon
<1>2. CASE PassRequest(c)
  <2>1. McpTypeOK' /\ Closes(c, "server", answer[c])
    BY <1>2, PassRequestStep
  <2>2. pc[c] = "request" /\ ~IsToolCall(c) /\ job[c].method # "chat"
    BY <1>1, <1>2 DEF PassRequest, IsToolCall
  <2>3. QED
    BY <2>1, <2>2 DEF Moved, Forwards
<1>3. CASE RejectParams(c)
  <2>1. pc[c] = "request" /\ ~IsToolCall(c)
    BY <1>1, <1>3 DEF RejectParams, IsToolCall
  <2>2. McpTypeOK' /\ Closes(c, "done", "error")
    BY <1>3, <2>1, EndStep DEF RejectParams
  <2>3. Closed(c, "error")
    BY <2>1 DEF Closed
  <2>4. QED
    BY <2>2, <2>3 DEF Moved, Stops
<1>4. CASE CheckCall(c)
  <2>1. pc[c] = "request" /\ IsToolCall(c)
    BY <1>4 DEF CheckCall, IsToolCall
  <2>2. McpTypeOK' /\ Submits(c)
    BY <1>4, <2>1, CheckCallStep DEF Submits
  <2>3. QED
    BY <2>2 DEF Moved
<1>5. CASE CheckChat(c)
  <2>1. /\ pc[c] = "request" /\ job[c].method = "chat" /\ job[c].content \in Contents
        /\ UNCHANGED <<job, tools, result, listVars, before>>
    BY <1>5 DEF CheckChat
  <2>2. PICK v \in Outcomes(ChatRequest(c)) :
          /\ Inspects(c, ChatRequest(c), v)
          /\ Ends(c, IF v.action = "block" THEN "denied" ELSE IF Redacts(v) THEN "mutated" ELSE "pass")
    BY <1>5 DEF CheckChat
  <2>3. Inspected(ChatRequest(c)) /\ pc[c] # "done"
    BY <2>1, RequestsAreInspected
  <2>4. /\ McpTypeOK' /\ SameList(c) /\ Judges(c, ChatRequest(c), v) /\ pc'[c] = "done"
        /\ answer'[c] \in {"pass", "mutated", "denied"} /\ (answer'[c] = "denied" <=> v.action = "block")
    BY <2>1, <2>2, <2>3, VerdictStep
  <2>5. Carries(c, ChatRequest(c))
    BY <2>1 DEF Carries
  <2>6. Concludes(c)
    BY <2>4, <2>5 DEF Concludes
  <2>7. QED
    BY <2>4, <2>6 DEF Moved
<1>6. QED
  BY <1>2, <1>3, <1>4, <1>5 DEF CheckRequest

LEMMA ResponseMoves ==
    ASSUME McpTypeOK, NEW c \in Calls, CheckResponse(c)
    PROVE  McpTypeOK' /\ Moved(c)
<1>1. pc[c] = "response"
  BY DEF CheckResponse, PassResponse, RejectResult, CheckResult, KeepOddEntry, CheckDefinition, ListDone, Listing
<1>2. CASE PassResponse(c)
  <2>1. McpTypeOK' /\ Closes(c, "done", "pass")
    BY <1>1, <1>2, EndStep DEF PassResponse
  <2>2. Closed(c, "pass")
    BY <1>2 DEF PassResponse, Closed
  <2>3. QED
    BY <2>1, <2>2 DEF Moved, Stops
<1>3. CASE RejectResult(c)
  <2>1. McpTypeOK' /\ Closes(c, "done", "error")
    BY <1>1, <1>3, EndStep DEF RejectResult
  <2>2. Closed(c, "error")
    BY <1>3 DEF RejectResult, Closed
  <2>3. QED
    BY <2>1, <2>2 DEF Moved, Stops
<1>4. CASE CheckResult(c)
  <2>1. /\ job[c].method \in {"tools/call", "resources/read"} /\ result[c] \in Contents
        /\ UNCHANGED <<job, tools, result, listVars, before>>
    BY <1>4 DEF CheckResult
  <2>2. PICK v \in Outcomes(ResultRequest(c)) :
          /\ Inspects(c, ResultRequest(c), v)
          /\ Ends(c, IF v.action = "block" THEN "denied" ELSE IF Redacts(v) THEN "mutated" ELSE "pass")
    BY <1>4 DEF CheckResult
  <2>3. Inspected(ResultRequest(c)) /\ pc[c] # "done"
    BY <1>1, <2>1, RequestsAreInspected
  <2>4. /\ McpTypeOK' /\ SameList(c) /\ Judges(c, ResultRequest(c), v) /\ pc'[c] = "done"
        /\ answer'[c] \in {"pass", "mutated", "denied"} /\ (answer'[c] = "denied" <=> v.action = "block")
    BY <2>1, <2>2, <2>3, VerdictStep
  <2>5. Carries(c, ResultRequest(c))
    BY <1>1, <2>1 DEF Carries
  <2>6. Concludes(c)
    BY <2>4, <2>5 DEF Concludes
  <2>7. QED
    BY <2>4, <2>6 DEF Moved
<1>5. CASE KeepOddEntry(c)
  <2>1. OnList(c)
    BY <1>5 DEF KeepOddEntry, Listing, OnList
  <2>2. McpTypeOK' /\ Keeps(c)
    BY <1>5, <2>1, OddEntryStep DEF Keeps, Moves
  <2>3. QED
    BY <2>2 DEF Moved
<1>6. CASE CheckDefinition(c)
  <2>1. OnList(c) /\ tools[c][at[c]].content \in Contents
    BY <1>6 DEF CheckDefinition, Listing, OnList
  <2>2. McpTypeOK' /\ Defines(c)
    BY <1>6, <2>1, DefinitionStep DEF Defines, Moves
  <2>3. QED
    BY <2>2 DEF Moved
<1>7. CASE ListDone(c)
  <2> DEFINE outcome == IF changed[c] THEN "mutated" ELSE "pass"
  <2>1. outcome \in {"pass", "mutated", "denied", "error"}
    OBVIOUS
  <2>2. McpTypeOK' /\ Closes(c, "done", outcome)
    BY <1>1, <1>7, <2>1, EndStep DEF ListDone
  <2>3. Closed(c, outcome)
    BY <1>7 DEF ListDone, Closed
  <2>4. QED
    BY <2>2, <2>3 DEF Moved, Stops
<1>8. QED
  BY <1>2, <1>3, <1>4, <1>5, <1>6, <1>7 DEF CheckResponse

LEMMA EveryStep ==
    ASSUME McpTypeOK, [Next]_vars
    PROVE  McpTypeOK' /\ (UNCHANGED vars \/ \E c \in Calls : Moved(c))
<1>1. CASE UNCHANGED vars
  <2>1. McpTypeOK'
    BY <1>1 DEF McpTypeOK, vars, storeVars, listVars, StoreTypeOK
  <2>2. QED
    BY <1>1, <2>1
<1>2. CASE Next
  <2>1. PICK c \in Calls : Begin(c) \/ CheckRequest(c) \/ ServerAnswers(c) \/ CheckResponse(c)
    BY <1>2 DEF Next
  <2>2. CASE Begin(c)
    BY <2>2, BeginStep DEF Moved, Opens
  <2>3. CASE ServerAnswers(c)
    <3>1. pc[c] = "server"
      BY <2>3 DEF ServerAnswers
    <3>2. QED
      BY <2>3, <3>1, ServerStep DEF Moved, Serves
  <2>4. QED
    BY <2>1, <2>2, <2>3, RequestMoves, ResponseMoves
<1>3. QED
  BY <1>1, <1>2

LEMMA TypeOKInit == Init => McpTypeOK
<1> SUFFICES ASSUME Init PROVE McpTypeOK
  OBVIOUS
<1>1. StoreTypeOK
  BY DEF Init, EmptyStore, StoreTypeOK, NoPin, Life
<1>2. (CHOOSE j \in Jobs : TRUE) \in Jobs
  <2>1. Jobs # {}
    BY McpAssumption, Zenon
  <2>2. QED
    BY <2>1
<1>3. faults \in 0..MaxFaults
  <2>1. MaxFaults \in Nat
    BY McpAssumption, Zenon
  <2>2. QED
    BY <2>1 DEF Init
<1>4. QED
  BY <1>1, <1>2, <1>3 DEF Init, McpTypeOK

(* Every variable keeps its kind, and a call that ends has an answer. *)
THEOREM McpTypeCorrect == Spec => []McpTypeOK
<1>1. McpTypeOK /\ [Next]_vars => McpTypeOK'
  BY EveryStep
<1>2. QED
  BY <1>1, TypeOKInit, PTL DEF Spec

----------------------------------------------------------------------------
(* The invariant.                                                          *)

(* What is empty of a call until its server has answered, and what a call    *)
(* that is no list never has.                                                *)
StageOK(stage, method, ts, res, i, ks, ch, rm, fl) ==
    /\ stage \in {"idle", "request", "server"} =>
         ts = <<>> /\ res = NoText /\ i = 1 /\ ks = <<>> /\ ch = FALSE /\ rm = {}
    /\ stage \in {"idle", "request"} => fl = FALSE
    /\ method # "tools/list" => ts = <<>> /\ rm = {}
    /\ method = "chat" => stage \notin {"server", "response"}
    /\ method = "tools/list" => res \in {NoText, Malformed}

StageInv ==
    \A c \in Calls :
        StageOK(pc[c], job[c].method, tools[c], result[c], at[c], kept[c], changed[c], removed[c], failed[c])

(* Before entry i of n every one was kept or removed, the kept ones in order. *)
ListOK(n, i, ks, ch, rm, fl) ==
    /\ i \in Nat /\ 1 <= i /\ i <= n + 1
    /\ \A x \in rm : x \in Nat /\ 1 <= x /\ x < i
    /\ \A p \in DOMAIN ks : ks[p] \in Nat /\ 1 <= ks[p] /\ ks[p] < i /\ ks[p] \notin rm
    /\ \A p, q \in DOMAIN ks : p < q => ks[p] < ks[q]
    /\ fl = FALSE => \A x \in 1..(i - 1) : x \in rm \/ \E p \in DOMAIN ks : ks[p] = x
    /\ ch = FALSE => rm = {}

ListInv ==
    \A c \in Calls :
        /\ ListOK(Len(tools[c]), at[c], kept[c], changed[c], removed[c], failed[c])
        /\ Listed(c) => at[c] = Len(tools[c]) + 1 /\ (answer[c] = "pass" => changed[c] = FALSE)

(* Where the removal of a tool is recorded. *)
RemovalKey(agent, d) == <<ResponseSession(agent), NativeToolName(ListedName(d))>>

(* A removed tool is blocked, and poison that was taken has tainted the      *)
(* session that the agent's calls come in.                                   *)
RemovedInv ==
    \A b \in Calls : \A i \in removed[b] :
        LET k == RemovalKey(job[b].agent, tools[b][i]) IN k \in Keys => Alive(blocked[k])

PoisonInv ==
    \A b \in Calls :
        FailsClosed /\ TookPoison(b) /\ Tied(b) => Alive(taint[RequestSession(job[b].agent)])

BeforeInv == \A c \in Calls : \A b \in before[c] : pc[b] = "done"

(* Every mark of the store has a call that made it. *)
TaintCause(s, b) ==
    Asked(b) /\ s \in Identities(job[b].agent) /\ (failed[b] = TRUE \/ MayHaveTainted(b))

BlockCause(s, tool, b) ==
    Asked(b) /\ s \in Identities(job[b].agent) /\ (failed[b] = TRUE \/ RemovedAs(b, tool))

CauseInv ==
    /\ \A s \in Sessions : Alive(taint[s]) => \E b \in Calls : TaintCause(s, b)
    /\ \A s \in Sessions, tool \in Tools :
         Alive(blocked[<<s, tool>>]) => \E b \in Calls : BlockCause(s, tool, b)

McpInv ==
    /\ StageInv /\ ListInv /\ RemovedInv /\ PoisonInv /\ BeforeInv /\ CauseInv
    /\ PoisonBindsLaterCalls /\ RemovedToolCannotBeCalled /\ NoCallIsRefusedWithoutCause

----------------------------------------------------------------------------
(* Each part of the invariant is kept by every step.                       *)

(* What is done cannot be undone by any step, of this call or another. *)
LEMMA WhatStays ==
    ASSUME McpTypeOK, NEW c \in Calls, Moved(c)
    PROVE  /\ Others(c) /\ pc[c] # "done"
           /\ \A s \in Sessions : Alive(taint[s]) => Alive(taint'[s])
           /\ \A k \in Keys : Alive(blocked[k]) => Alive(blocked'[k])
           /\ pc[c] # "idle" => SameJob(c)
           /\ pc'[c] # "idle"
<1> USE DEF Closes, Quiet, SameStore, storeVars
<1>1. CASE Opens(c)
  BY <1>1 DEF Opens
<1>2. CASE Forwards(c)
  BY <1>2 DEF Forwards
<1>3. CASE Submits(c)
  BY <1>3 DEF Submits, Judges, Marks
<1>4. CASE Serves(c)
  BY <1>4 DEF Serves
<1>5. CASE Stops(c)
  BY <1>5 DEF Stops, Closed
<1>6. CASE Concludes(c)
  BY <1>6 DEF Concludes, Carries, Judges, Marks
<1>7. CASE Keeps(c)
  BY <1>7 DEF Keeps, OnList, Moves
<1>8. CASE Defines(c)
  BY <1>8 DEF Defines, OnList, Moves, Judges, Marks
<1>9. QED
  BY <1>1, <1>2, <1>3, <1>4, <1>5, <1>6, <1>7, <1>8 DEF Moved

LEMMA StageStep ==
    ASSUME McpTypeOK, StageInv, NEW c \in Calls, Moved(c)
    PROVE  StageInv'
<1>1. Others(c)
  BY WhatStays
<1>2. ASSUME NEW d \in Calls, d # c
      PROVE  StageOK(pc'[d], job'[d].method, tools'[d], result'[d], at'[d], kept'[d], changed'[d], removed'[d], failed'[d])
  BY <1>1, <1>2 DEF StageInv, Others, Same
<1>3. StageOK(pc'[c], job'[c].method, tools'[c], result'[c], at'[c], kept'[c], changed'[c], removed'[c], failed'[c])
  <2>1. StageOK(pc[c], job[c].method, tools[c], result[c], at[c], kept[c], changed[c], removed[c], failed[c])
    BY DEF StageInv
  <2>2. changed[c] \in BOOLEAN /\ failed[c] \in BOOLEAN
    BY DEF McpTypeOK
  <2> USE DEF Closes, Quiet, SameList, SameAnswers, SameJob, StageOK
  <2>3. CASE Opens(c)
    BY <2>1, <2>3 DEF Opens
  <2>4. CASE Forwards(c)
    BY <2>1, <2>4 DEF Forwards
  <2>5. CASE Submits(c)
    BY <2>1, <2>5 DEF Submits, Judges, IsToolCall
  <2>6. CASE Serves(c)
    BY <2>1, <2>6 DEF Serves
  <2>7. CASE Stops(c)
    BY <2>1, <2>7 DEF Stops, Closed
  <2>8. CASE Concludes(c)
    BY <2>1, <2>8 DEF Concludes, Carries, Judges
  <2>9. CASE Keeps(c)
    BY <2>1, <2>9 DEF Keeps, OnList, Moves
  <2>10. CASE Defines(c)
    BY <2>1, <2>10 DEF Defines, OnList, Moves, Judges
  <2>11. QED
    BY <2>3, <2>4, <2>5, <2>6, <2>7, <2>8, <2>9, <2>10 DEF Moved
<1>4. QED
  BY <1>2, <1>3 DEF StageInv

(* One entry further down the list. *)
LEMMA ListGrows ==
    ASSUME NEW n \in Nat, NEW i \in Nat, i <= n, NEW ks \in Seq(Nat), NEW ch, NEW rm, NEW fl, ListOK(n, i, ks, ch, rm, fl)
    PROVE  /\ ListOK(n, i + 1, Append(ks, i), ch, rm, fl)
           /\ ListOK(n, i + 1, ks, TRUE, rm \cup {i}, fl)
           /\ ListOK(n, i + 1, ks, TRUE, rm, TRUE)
<1> DEFINE more == Append(ks, i)
<1>1. /\ Len(ks) \in Nat /\ DOMAIN ks = 1..Len(ks) /\ DOMAIN more = 1..(Len(ks) + 1)
      /\ \A p \in DOMAIN ks : p \in DOMAIN more /\ more[p] = ks[p]
      /\ \A p \in DOMAIN more : p \in DOMAIN ks \/ p = Len(ks) + 1
      /\ Len(ks) + 1 \in DOMAIN more /\ more[Len(ks) + 1] = i
  OBVIOUS
<1> HIDE DEF more
<1>2. \A x \in 1..(i + 1 - 1) : x \in 1..(i - 1) \/ x = i
  OBVIOUS
<1>3. ListOK(n, i + 1, more, ch, rm, fl)
  <2>1. \A x \in rm : x \in Nat /\ 1 <= x /\ x < i + 1 /\ x # i
    BY DEF ListOK
  <2>2. \A p \in DOMAIN more : more[p] \in Nat /\ 1 <= more[p] /\ more[p] < i + 1 /\ more[p] \notin rm
    BY <1>1, <2>1 DEF ListOK
  <2>3. \A p, q \in DOMAIN more : p < q => more[p] < more[q]
    BY <1>1 DEF ListOK
  <2>4. fl = FALSE => \A x \in 1..(i + 1 - 1) : x \in rm \/ \E p \in DOMAIN more : more[p] = x
    BY <1>1, <1>2 DEF ListOK
  <2>5. QED
    BY <2>1, <2>2, <2>3, <2>4 DEF ListOK
<1>4. ListOK(n, i + 1, ks, TRUE, rm \cup {i}, fl)
  BY <1>2 DEF ListOK
<1>5. ListOK(n, i + 1, ks, TRUE, rm, TRUE)
  BY DEF ListOK
<1>6. QED
  BY <1>3, <1>4, <1>5 DEF more

LEMMA ListSpoilt ==
    ASSUME NEW n, NEW i, NEW ks, NEW ch, NEW rm, NEW fl, ListOK(n, i, ks, ch, rm, fl)
    PROVE  ListOK(n, i, ks, TRUE, rm, fl) /\ ListOK(n, i, ks, ch, rm, TRUE)
BY DEF ListOK

LEMMA EmptyList ==
    ASSUME NEW n \in Nat, NEW fl
    PROVE  ListOK(n, 1, <<>>, FALSE, {}, fl)
BY DEF ListOK

LEMMA ListStep ==
    ASSUME McpTypeOK, McpTypeOK', StageInv, ListInv, NEW c \in Calls, Moved(c)
    PROVE  ListInv'
<1>1. Others(c)
  BY WhatStays
<1>2. ASSUME NEW d \in Calls, d # c
      PROVE  /\ ListOK(Len(tools'[d]), at'[d], kept'[d], changed'[d], removed'[d], failed'[d])
             /\ Listed(d)' => at'[d] = Len(tools'[d]) + 1 /\ (answer'[d] = "pass" => changed'[d] = FALSE)
  BY <1>1, <1>2 DEF ListInv, Others, Same, Listed
<1>3. ListOK(Len(tools[c]), at[c], kept[c], changed[c], removed[c], failed[c])
  BY DEF ListInv
<1>4. /\ changed[c] \in BOOLEAN /\ failed[c] \in BOOLEAN /\ at[c] \in Nat /\ kept[c] \in Seq(Nat)
      /\ answer[c] # "none" <=> pc[c] = "done"
  BY DEF McpTypeOK
<1>5. Len(tools[c]) \in Nat
  BY JobsAreTyped
<1>6. /\ ListOK(Len(tools'[c]), at'[c], kept'[c], changed'[c], removed'[c], failed'[c])
      /\ Listed(c)' => at'[c] = Len(tools'[c]) + 1 /\ (answer'[c] = "pass" => changed'[c] = FALSE)
  <2> USE DEF Closes, Quiet, SameList, SameAnswers, SameJob, Listed
  <2>1. CASE Opens(c)
    BY <1>3, <1>4, <2>1 DEF Opens
  <2>2. CASE Forwards(c)
    BY <1>3, <1>4, <2>2 DEF Forwards
  <2>3. CASE Submits(c)
    BY <1>3, <1>4, <2>3, ListSpoilt DEF Submits, Judges, IsToolCall
  <2>4. CASE Serves(c)
    <3>1. at[c] = 1 /\ kept[c] = <<>> /\ changed[c] = FALSE /\ removed[c] = {}
      BY <2>4 DEF Serves, StageInv, StageOK
    <3>2. Len(tools'[c]) \in Nat
      <4>1. tools'[c] \in Catalogs \cup {<<>>}
        BY DEF McpTypeOK
      <4>2. QED
        BY <4>1, CatalogsAreLists
    <3>3. QED
      BY <1>4, <2>4, <3>1, <3>2, EmptyList DEF Serves
  <2>5. CASE Stops(c)
    <3>1. PICK outcome : Closed(c, outcome) /\ Closes(c, "done", outcome)
      BY <2>5 DEF Stops
    <3>2. ListOK(Len(tools'[c]), at'[c], kept'[c], changed'[c], removed'[c], failed'[c])
      BY <1>3, <3>1
    <3>3. Listed(c)' => /\ pc[c] = "response" /\ job[c].method = "tools/list" /\ at[c] > Len(tools[c])
                        /\ outcome = IF changed[c] THEN "mutated" ELSE "pass"
      BY <3>1 DEF Closed
    <3>4. at[c] > Len(tools[c]) => at[c] = Len(tools[c]) + 1
      BY <1>3, <1>5 DEF ListOK
    <3>5. QED
      BY <1>4, <3>1, <3>2, <3>3, <3>4
  <2>6. CASE Concludes(c)
    BY <1>3, <1>4, <2>6, ListSpoilt DEF Concludes, Carries, Judges
  <2>7. CASE Keeps(c)
    BY <1>3, <1>4, <1>5, <2>7, ListGrows DEF Keeps, OnList, Moves
  <2>8. CASE Defines(c)
    <3>1. PICK v : /\ Judges(c, DefinitionRequest(c, at[c]), v)
                   /\ kept'[c] = IF v.action = "block" THEN kept[c] ELSE Append(kept[c], at[c])
                   /\ changed'[c] = (changed[c] \/ v.action = "block" \/ Redacts(v))
                   /\ removed'[c] = IF v.action = "block" /\ faults' = faults
                                    THEN removed[c] \cup {at[c]} ELSE removed[c]
      BY <2>8 DEF Defines
    <3>2. /\ at'[c] = at[c] + 1 /\ tools'[c] = tools[c] /\ at[c] <= Len(tools[c])
          /\ \/ failed'[c] = failed[c] /\ faults' = faults
             \/ failed'[c] = TRUE /\ faults' # faults
      BY <2>8, <3>1 DEF Defines, OnList, Moves, Judges
    <3>3. changed'[c] \in BOOLEAN /\ (v.action = "block" => changed'[c] = TRUE) /\ (changed'[c] = FALSE => changed[c] = FALSE)
      BY <1>4, <3>1 DEF McpTypeOK
    <3>4. ListOK(Len(tools[c]), at[c] + 1, kept'[c], changed'[c], removed'[c], failed'[c])
      <4>1. CASE v.action # "block"
        <5>1. ListOK(Len(tools[c]), at[c] + 1, Append(kept[c], at[c]), changed[c], removed[c], failed[c])
          BY <1>3, <1>4, <1>5, <3>2, ListGrows
        <5>2. ListOK(Len(tools[c]), at[c] + 1, Append(kept[c], at[c]), changed'[c], removed[c], failed[c])
          BY <1>4, <3>3, <5>1, ListSpoilt
        <5>3. ListOK(Len(tools[c]), at[c] + 1, Append(kept[c], at[c]), changed'[c], removed[c], TRUE)
          BY <5>2, ListSpoilt
        <5>4. kept'[c] = Append(kept[c], at[c]) /\ removed'[c] = removed[c]
          BY <3>1, <4>1
        <5>5. QED
          BY <3>2, <5>2, <5>3, <5>4
      <4>2. CASE v.action = "block" /\ faults' = faults
        <5>1. ListOK(Len(tools[c]), at[c] + 1, kept[c], TRUE, removed[c] \cup {at[c]}, failed[c])
          BY <1>3, <1>4, <1>5, <3>2, ListGrows
        <5>2. kept'[c] = kept[c] /\ removed'[c] = removed[c] \cup {at[c]}
          BY <3>1, <4>2
        <5>3. QED
          BY <3>2, <3>3, <4>2, <5>1, <5>2
      <4>3. CASE v.action = "block" /\ faults' # faults
        <5>1. ListOK(Len(tools[c]), at[c] + 1, kept[c], TRUE, removed[c], TRUE)
          BY <1>3, <1>4, <1>5, <3>2, ListGrows
        <5>2. kept'[c] = kept[c] /\ removed'[c] = removed[c]
          BY <3>1, <4>3
        <5>3. QED
          BY <3>2, <3>3, <4>3, <5>1, <5>2
      <4>4. QED
        BY <4>1, <4>2, <4>3
    <3>5. ~Listed(c)'
      BY <1>4, <2>8 DEF Defines, OnList, Moves
    <3>6. QED
      BY <3>2, <3>4, <3>5
  <2>9. QED
    BY <2>1, <2>2, <2>3, <2>4, <2>5, <2>6, <2>7, <2>8 DEF Moved
<1>7. QED
  BY <1>2, <1>6 DEF ListInv

LEMMA BeforeStep ==
    ASSUME McpTypeOK, BeforeInv, NEW c \in Calls, Moved(c)
    PROVE  BeforeInv'
<1>1. /\ Others(c) /\ pc[c] # "done" /\ (pc[c] # "idle" => SameJob(c))
  BY WhatStays
<1>2. pc[c] = "idle" => before'[c] = {b \in Calls : pc[b] = "done"}
  BY DEF Moved, Opens, Forwards, Submits, Serves, Stops, Closed, Concludes, Carries, Keeps, Defines, OnList
<1>3. \A b \in Calls : pc[b] = "done" => pc'[b] = "done"
  BY <1>1 DEF Others, Same
<1>4. \A d \in Calls : before[d] \subseteq Calls
  BY DEF McpTypeOK
<1>5. \A d \in Calls : \A b \in before'[d] : b \in Calls /\ pc[b] = "done"
  BY <1>1, <1>2, <1>4 DEF BeforeInv, Others, Same, SameJob
<1>6. QED
  BY <1>3, <1>5 DEF BeforeInv

----------------------------------------------------------------------------
(* Sessions and names.                                                     *)

LEMMA AgentsApart ==
    ASSUME NEW a \in Agents, NEW b \in Agents, NEW s, s \in Identities(a), s \in Identities(b)
    PROVE  a = b
<1>1. \A x, y \in Agents : Identities(x) \cap Identities(y) # {} => x = y
  BY McpAssumption, Zenon
<1>2. QED
  BY <1>1

(* A session comes of what the agent is known by, and of the same part of it *)
(* for a call, its result and a chat, when these are tied.                   *)
LEMMA SessionsOfAnAgent ==
    ASSUME NEW agent \in Agent
    PROVE  /\ \A s \in Sessions :
                s \in {RequestSession(agent), ResponseSession(agent), ChatSession(agent)} => s \in Identities(agent)
           /\ agent.xSession # NoSession =>
                ChatSession(agent) = RequestSession(agent) /\ RequestSession(agent) \in Sessions
           /\ agent.xSession # NoSession \/ agent.mcpSession # NoSession =>
                ResponseSession(agent) = RequestSession(agent) /\ RequestSession(agent) \in Sessions
<1>1. NoSession \notin Sessions
  BY McpAssumption, Zenon
<1>2. QED
  BY <1>1 DEF Agent, RequestSession, ResponseSession, ChatSession, SessionFrom, FirstOf, Identities

LEMMA TiedSessions ==
    ASSUME McpTypeOK, NEW b \in Calls, Tied(b)
    PROVE  /\ RequestSession(job[b].agent) \in Sessions /\ RequestSession(job[b].agent) # NoSession
           /\ job[b].method = "chat" => ChatSession(job[b].agent) = RequestSession(job[b].agent)
           /\ job[b].method # "chat" => ResponseSession(job[b].agent) = RequestSession(job[b].agent)
<1>1. NoSession \notin Sessions /\ job[b].agent \in Agent
  BY McpAssumption, JobsAreTyped, Zenon
<1>2. QED
  BY <1>1, SessionsOfAnAgent DEF Tied

LEMMA LeastOf ==
    ASSUME NEW S, S \subseteq Nat, S # {}
    PROVE  Min(S) \in S
<1> DEFINE R == OpToRel(<, Nat)
<1>1. IsWellFoundedOn(R, Nat)
  BY NatLessThanWellFounded
<1>2. \A m, n \in Nat : m < n => <<m, n>> \in R
  BY DEF OpToRel
<1> HIDE DEF R
<1>3. PICK n \in S : \A m \in S : ~(<<m, n>> \in R)
  BY <1>1, WFMin
<1>4. \A m \in S : n <= m
  <2> TAKE m \in S
  <2>1. m \in Nat /\ n \in Nat
    OBVIOUS
  <2>2. ~(m < n)
    BY <1>2, <1>3, <2>1, Zenon
  <2>3. QED
    BY <2>1, <2>2
<1>5. QED
  BY <1>4 DEF Min

(* What is cut off a listed name is what was put before it. *)
LEMMA CutOff ==
    ASSUME NEW S, NEW a \in Seq(S), NEW b \in Seq(S), b # <<>>
    PROVE  /\ IsStrictPrefix(a, a \o b)
           /\ SubSeq(a \o b, Len(a) + 1, Len(a \o b)) = b
<1> DEFINE ab == a \o b
<1>1. /\ ab \in Seq(S) /\ Len(a) \in Nat /\ Len(b) \in Nat /\ Len(b) > 0 /\ Len(ab) = Len(a) + Len(b)
      /\ DOMAIN a = 1..Len(a) /\ DOMAIN b = 1..Len(b)
      /\ \A i \in 1..Len(a) : ab[i] = a[i]
      /\ \A i \in 1..Len(b) : ab[Len(a) + i] = b[i]
  OBVIOUS
<1> HIDE DEF ab
<1>2. SubSeq(ab, Len(a) + 1, Len(ab)) = b
  <2> DEFINE cut == SubSeq(ab, Len(a) + 1, Len(ab))
  <2>1. Len(cut) = Len(b) /\ cut \in Seq(S) /\ \A i \in 1..Len(b) : cut[i] = ab[Len(a) + i]
    BY <1>1, SubSeqProperties
  <2> HIDE DEF cut
  <2>2. \A i \in 1..Len(b) : cut[i] = b[i]
    BY <1>1, <2>1
  <2>3. cut = b
    BY <2>1, <2>2, SeqEqual
  <2>4. QED
    BY <2>3 DEF cut
<1>3. SubSeq(a, 1, Len(a)) = SubSeq(ab, 1, Len(a))
  <2> DEFINE p == SubSeq(a, 1, Len(a))  q == SubSeq(ab, 1, Len(a))
  <2>1. Len(p) = Len(a) /\ p \in Seq(S) /\ \A i \in 1..Len(a) : p[i] = a[i]
    BY <1>1, SubSeqProperties
  <2>2. Len(q) = Len(a) /\ q \in Seq(S) /\ \A i \in 1..Len(a) : q[i] = ab[i]
    BY <1>1, SubSeqProperties
  <2> HIDE DEF p, q
  <2>3. p = q
    BY <1>1, <2>1, <2>2, SeqEqual
  <2>4. QED
    BY <2>3 DEF p, q
<1>4. IsStrictPrefix(a, ab)
  BY <1>1, <1>3 DEF IsStrictPrefix, IsPrefix
<1>5. QED
  BY <1>2, <1>4 DEF ab

LEMMA NativeNameIsBare ==
    ASSUME NEW d \in Definition, Unambiguous(d)
    PROVE  NativeToolName(ListedName(d)) = d.tool
<1>1. /\ Services \in Seq(Range(Services)) /\ \A name \in Range(Services) \cup Tools : IsName(name)
  BY McpAssumption, Zenon
<1>2. Len(Services) \in Nat /\ DOMAIN Services = 1..Len(Services) /\ d.server \in Range(Services) /\ d.tool \in Tools
  BY <1>1 DEF Definition
<1>3. CASE Len(Services) < 2
  BY <1>2, <1>3 DEF NativeToolName, ListedName
<1>4. CASE Len(Services) > 1
  <2> DEFINE name == d.server \o d.tool
             prefixing == {i \in DOMAIN Services : IsStrictPrefix(Services[i], name)}
             S == Range(d.server) \cup Range(d.tool)
  <2>1. d.server \in Seq(S) /\ d.tool \in Seq(S) /\ d.tool # <<>>
    <3>1. d.server \in Seq(Range(d.server)) /\ d.tool \in Seq(Range(d.tool)) /\ d.tool # <<>>
      BY <1>1, <1>2, Zenon DEF IsName
    <3>2. QED
      BY <3>1, SeqMonotonic
  <2>2. IsStrictPrefix(d.server, name) /\ SubSeq(name, Len(d.server) + 1, Len(name)) = d.tool
    BY <2>1, CutOff
  <2> HIDE DEF name, S
  <2>3. PICK i \in DOMAIN Services : Services[i] = d.server
    BY <1>2 DEF Range
  <2>4. prefixing # {} /\ prefixing \subseteq Nat
    BY <1>2, <2>2, <2>3
  <2>5. Min(prefixing) \in prefixing
    BY <2>4, LeastOf
  <2>6. Services[Min(prefixing)] = d.server
    BY <2>5 DEF Unambiguous, IsStrictPrefix, name
  <2>7. NativeToolName(name) = SubSeq(name, Len(Services[Min(prefixing)]) + 1, Len(name))
    <3>1. ~(Len(Services) < 2)
      BY <1>2, <1>4
    <3>2. QED
      BY <2>4, <3>1, Zenon DEF NativeToolName
  <2>8. ListedName(d) = name
    BY <1>4 DEF ListedName, name
  <2>9. QED
    BY <2>2, <2>6, <2>7, <2>8
<1>5. QED
  BY <1>2, <1>3, <1>4

----------------------------------------------------------------------------
(* Marks, and what binds a later call.                                     *)

(* A row of a call that has begun only grows. *)
LEMMA RowGrows ==
    ASSUME McpTypeOK, StageInv, NEW c \in Calls, Moved(c), NEW b \in Calls, Asked(b)
    PROVE  /\ Asked(b)' /\ job'[b] = job[b] /\ (failed[b] = TRUE => failed'[b] = TRUE)
           /\ \/ tools'[b] = tools[b] /\ result'[b] = result[b] /\ removed[b] \subseteq removed'[b]
              \/ tools[b] = <<>> /\ result[b] = NoText /\ removed[b] = {}
           /\ at[b] \in Nat /\ at'[b] \in Nat /\ at'[b] >= at[b]
<1>1. at[b] \in Nat
  BY DEF McpTypeOK
<1>2. CASE b # c
  <2>1. Same(b)
    BY <1>2, WhatStays DEF Others
  <2>2. QED
    BY <1>1, <2>1 DEF Same, Asked
<1>3. CASE b = c
  <2> USE DEF Closes, Quiet, SameList, SameAnswers, SameJob, Asked
  <2>1. CASE Opens(c)
    BY <1>3, <2>1 DEF Opens
  <2>2. CASE Forwards(c)
    BY <1>3, <2>2 DEF Forwards
  <2>3. CASE Submits(c)
    BY <1>3, <2>3 DEF Submits
  <2>4. CASE Serves(c)
    BY <1>1, <1>3, <2>4 DEF Serves, StageInv, StageOK
  <2>5. CASE Stops(c)
    BY <1>1, <1>3, <2>5 DEF Stops
  <2>6. CASE Concludes(c)
    BY <1>1, <1>3, <2>6 DEF Concludes, Judges
  <2>7. CASE Keeps(c)
    BY <1>1, <1>3, <2>7 DEF Keeps, Moves
  <2>8. CASE Defines(c)
    BY <1>1, <1>3, <2>8 DEF Defines, Moves, Judges
  <2>9. QED
    BY <2>1, <2>2, <2>3, <2>4, <2>5, <2>6, <2>7, <2>8 DEF Moved
<1>4. QED
  BY <1>2, <1>3

LEMMA RequestsStay ==
    ASSUME NEW b \in Calls, job'[b] = job[b]
    PROVE  /\ CallRequest(b)' = CallRequest(b) /\ ChatRequest(b)' = ChatRequest(b)
           /\ IsToolCall(b)' = IsToolCall(b) /\ Tied(b)' = Tied(b) /\ RefusedIfTainted(b)' = RefusedIfTainted(b)
           /\ result'[b] = result[b] => ResultRequest(b)' = ResultRequest(b)
           /\ \A i : tools'[b][i] = tools[b][i] => DefinitionRequest(b, i)' = DefinitionRequest(b, i)
BY DEF CallRequest, ChatRequest, ResultRequest, DefinitionRequest, IsToolCall, Tied, RefusedIfTainted

(* What marked the session of a call stays said of it. *)
LEMMA MarksStay ==
    ASSUME McpTypeOK, StageInv, NEW c \in Calls, Moved(c), NEW b \in Calls, Asked(b)
    PROVE  /\ Asked(b)' /\ job'[b] = job[b] /\ (failed[b] = TRUE => failed'[b] = TRUE)
           /\ MayHaveTainted(b) => MayHaveTainted(b)'
           /\ \A tool : RemovedAs(b, tool) => RemovedAs(b, tool)'
<1>1. /\ Asked(b)' /\ job'[b] = job[b] /\ (failed[b] = TRUE => failed'[b] = TRUE)
      /\ \/ tools'[b] = tools[b] /\ result'[b] = result[b] /\ removed[b] \subseteq removed'[b]
         \/ tools[b] = <<>> /\ result[b] = NoText /\ removed[b] = {}
      /\ at[b] \in Nat /\ at'[b] \in Nat /\ at'[b] >= at[b]
  BY RowGrows
<1>2. NoText \notin Contents
  BY McpAssumption, Zenon
<1>3. MayHaveTainted(b) => MayHaveTainted(b)'
  <2>1. CASE tools'[b] = tools[b] /\ result'[b] = result[b]
    <3>1. \A i \in DOMAIN tools[b] : i < at[b] => i < at'[b]
      <4>1. DOMAIN tools[b] \subseteq Nat
        BY JobsAreTyped
      <4>2. QED
        BY <1>1, <4>1
    <3>2. /\ CallRequest(b)' = CallRequest(b) /\ ChatRequest(b)' = ChatRequest(b)
          /\ ResultRequest(b)' = ResultRequest(b) /\ IsToolCall(b)' = IsToolCall(b)
          /\ \A i : DefinitionRequest(b, i)' = DefinitionRequest(b, i)
      BY <1>1, <2>1, RequestsStay
    <3>3. ASSUME NEW r, NEW q, r = q PROVE MayTaint(r) = MayTaint(q)
      BY <3>3
    <3>4. QED
      BY <1>1, <2>1, <3>1, <3>2, <3>3 DEF MayHaveTainted, MayTaint
  <2>2. CASE tools[b] = <<>> /\ result[b] = NoText
    <3>1. /\ CallRequest(b)' = CallRequest(b) /\ ChatRequest(b)' = ChatRequest(b) /\ IsToolCall(b)' = IsToolCall(b)
      BY <1>1, RequestsStay
    <3>2. DOMAIN tools[b] = {}
      BY <2>2
    <3>3. QED
      BY <1>1, <1>2, <2>2, <3>1, <3>2 DEF MayHaveTainted, MayTaint
  <2>3. QED
    BY <1>1, <2>1, <2>2
<1>4. \A tool : RemovedAs(b, tool) => RemovedAs(b, tool)'
  BY <1>1 DEF RemovedAs
<1>5. QED
  BY <1>1, <1>3, <1>4

LEMMA RemovedStep ==
    ASSUME McpTypeOK, StageInv, RemovedInv, NEW c \in Calls, Moved(c)
    PROVE  RemovedInv'
<1>1. /\ Others(c) /\ \A k \in Keys : Alive(blocked[k]) => Alive(blocked'[k])
      /\ pc[c] # "idle" => SameJob(c)
  BY WhatStays
<1>2. ASSUME NEW b \in Calls, NEW i \in removed'[b], job'[b] = job[b], tools'[b] = tools[b], i \in removed[b],
             RemovalKey(job'[b].agent, tools'[b][i]) \in Keys
      PROVE  Alive(blocked'[RemovalKey(job'[b].agent, tools'[b][i])])
  BY <1>1, <1>2 DEF RemovedInv
<1>3. ASSUME NEW b \in Calls, b # c
      PROVE  job'[b] = job[b] /\ tools'[b] = tools[b] /\ removed'[b] = removed[b]
  BY <1>1, <1>3 DEF Others, Same
<1>4. ASSUME NEW i \in removed'[c]
      PROVE  LET k == RemovalKey(job'[c].agent, tools'[c][i]) IN k \in Keys => Alive(blocked'[k])
  <2> USE DEF Closes, Quiet, SameList, SameAnswers, SameJob
  <2>1. CASE Opens(c)
    BY <1>4, <2>1 DEF Opens, StageInv, StageOK
  <2>2. CASE Forwards(c)
    BY <1>2, <1>4, <2>2 DEF Forwards
  <2>3. CASE Submits(c)
    BY <1>2, <1>4, <2>3 DEF Submits, Judges
  <2>4. CASE Serves(c)
    BY <1>4, <2>4 DEF Serves, StageInv, StageOK
  <2>5. CASE Stops(c)
    BY <1>2, <1>4, <2>5 DEF Stops
  <2>6. CASE Concludes(c)
    BY <1>2, <1>4, <2>6 DEF Concludes, Judges
  <2>7. CASE Keeps(c)
    BY <1>2, <1>4, <2>7 DEF Keeps
  <2>8. CASE Defines(c)
    <3> DEFINE r == DefinitionRequest(c, at[c])
    <3>1. PICK v : /\ Judges(c, r, v)
                   /\ removed'[c] = IF v.action = "block" /\ faults' = faults
                                    THEN removed[c] \cup {at[c]} ELSE removed[c]
      BY <2>8 DEF Defines
    <3>2. job'[c] = job[c] /\ tools'[c] = tools[c]
      BY <3>1 DEF Judges
    <3>3. CASE i \in removed[c]
      BY <1>2, <1>4, <3>2, <3>3
    <3>4. CASE i \notin removed[c]
      <4> DEFINE k == RemovalKey(job[c].agent, tools[c][at[c]])
      <4>1. i = at[c] /\ v.action = "block" /\ faults' = faults
        BY <1>4, <3>1, <3>4
      <4>2. v = Decided(r) /\ (Removes(r) /\ Key(r) \in Keys => Alive(blocked'[Key(r)]))
        BY <3>1, <4>1 DEF Judges
      <4>3. Key(r) = k /\ r.surface = "tool_definition" /\ r.session = k[1] /\ r.source = k[2]
        BY DEF Key, DefinitionRequest, ToRequest, RemovalKey
      <4> HIDE DEF r, k
      <4>4. k \in Keys => k[1] # NoSession /\ k[2] # NoTool
        <5>1. NoSession \notin Sessions /\ NoTool \notin Tools
          BY McpAssumption, Zenon
        <5>2. QED
          BY <5>1 DEF Keys
      <4>5. k \in Keys => Removes(r)
        BY <4>1, <4>2, <4>3, <4>4 DEF Removes, IsDefinition, Keyed, InSession
      <4>6. k \in Keys => Alive(blocked'[k])
        BY <4>2, <4>3, <4>5
      <4>7. QED
        BY <3>2, <4>1, <4>6 DEF k
    <3>5. QED
      BY <3>3, <3>4
  <2>9. QED
    BY <2>1, <2>2, <2>3, <2>4, <2>5, <2>6, <2>7, <2>8 DEF Moved
<1>5. QED
  BY <1>2, <1>3, <1>4 DEF RemovedInv

LEMMA PoisonStep ==
    ASSUME McpTypeOK, StageInv, PoisonInv, NEW c \in Calls, Moved(c)
    PROVE  PoisonInv'
<1>1. /\ Others(c) /\ \A s \in Sessions : Alive(taint[s]) => Alive(taint'[s])
      /\ pc[c] # "idle" => SameJob(c)
  BY WhatStays
<1>2. ASSUME NEW b \in Calls, b # c, FailsClosed, TookPoison(b)', Tied(b)'
      PROVE  Alive(taint'[RequestSession(job'[b].agent)])
  <2>1. Same(b)
    BY <1>1, <1>2 DEF Others
  <2>2. TookPoison(b) /\ Tied(b)
    BY <1>2, <2>1 DEF Same, TookPoison, Tied, ResultRequest, ChatRequest
  <2>3. Alive(taint[RequestSession(job[b].agent)]) /\ RequestSession(job[b].agent) \in Sessions
    BY <1>2, <2>2, TiedSessions DEF PoisonInv
  <2>4. QED
    BY <1>1, <2>1, <2>3 DEF Same
<1>3. ASSUME FailsClosed, TookPoison(c)', Tied(c)'
      PROVE  Alive(taint'[RequestSession(job'[c].agent)])
  <2>1. pc'[c] = "done" /\ answer'[c] \in {"pass", "mutated"}
    BY <1>3 DEF TookPoison
  <2>2. Stops(c) \/ Concludes(c)
    BY <2>1 DEF Moved, Opens, Forwards, Submits, Serves, Keeps, Defines, Quiet, Closes, Moves, OnList
  <2>3. CASE Stops(c)
    <3>1. PICK outcome : Closed(c, outcome) /\ Closes(c, "done", outcome)
      BY <2>3 DEF Stops
    <3>2. job'[c] = job[c] /\ result'[c] = result[c] /\ outcome \in {"pass", "mutated"}
      BY <2>1, <3>1 DEF Closes, SameJob, SameAnswers
    <3>3. job[c].method # "chat" \/ pc[c] # "response"
      BY DEF StageInv, StageOK
    <3>4. NoText \notin Contents
      BY McpAssumption, Zenon
    <3>5. \/ job[c].method \in {"tools/call", "resources/read"} /\ result[c] \in Contents
          \/ job[c].method = "chat"
      BY <1>3, <3>2 DEF TookPoison
    <3>6. QED
      BY <3>1, <3>2, <3>3, <3>4, <3>5 DEF Closed
  <2>4. CASE Concludes(c)
    <3>1. PICK r, v : /\ Carries(c, r) /\ Judges(c, r, v) /\ (answer'[c] = "denied" <=> v.action = "block")
      BY <2>4 DEF Concludes
    <3>2. job'[c] = job[c] /\ result'[c] = result[c]
      BY <3>1 DEF Judges, SameJob, SameAnswers
    <3>3. Tied(c) /\ Poisoned(r) /\ r.session = RequestSession(job[c].agent) /\ r.session \in Sessions /\ r.session # NoSession
      <4>1. /\ Tied(c)' = Tied(c) /\ ResultRequest(c)' = ResultRequest(c) /\ ChatRequest(c)' = ChatRequest(c)
        BY <3>2, RequestsStay
      <4>2. Tied(c)
        BY <1>3, <4>1
      <4>3. CASE job[c].method = "chat"
        <5>1. r = ChatRequest(c) /\ Poisoned(ChatRequest(c))
          BY <1>3, <3>1, <3>2, <4>1, <4>3 DEF Carries, TookPoison, Poisoned
        <5>2. r.session = ChatSession(job[c].agent)
          BY <5>1 DEF ChatRequest, ToRequest
        <5>3. QED
          BY <4>2, <4>3, <5>1, <5>2, TiedSessions
      <4>4. CASE job[c].method # "chat"
        <5>1. r = ResultRequest(c) /\ Poisoned(ResultRequest(c))
          BY <1>3, <3>1, <3>2, <4>1, <4>4 DEF Carries, TookPoison, Poisoned
        <5>2. r.session = ResponseSession(job[c].agent)
          BY <5>1 DEF ResultRequest, ToRequest
        <5>3. QED
          BY <4>2, <4>4, <5>1, <5>2, TiedSessions
      <4>5. QED
        BY <4>3, <4>4
    <3>4. v.action # "block"
      BY <2>1, <3>1
    <3>5. Taints(r) => Alive(taint'[r.session])
      BY <1>3, <3>1, <3>4 DEF Judges, FailsClosed, OnErrorVerdict
    <3>6. Taints(r)
      <4>1. Seen(r).tainted \in BOOLEAN /\ Seen(r).pinChanged \in BOOLEAN
        BY DEF Seen
      <4>2. QED
        BY <3>3, <4>1 DEF Taints, InSession, Decided, Decision, Poisoned
    <3>7. QED
      BY <3>2, <3>3, <3>5, <3>6
  <2>5. QED
    BY <2>2, <2>3, <2>4
<1>4. QED
  BY <1>2, <1>3 DEF PoisonInv

(* A call that stays unasked until it is submitted: what is true of it then  *)
(* is decided by the inspection of its request.                              *)
LEMMA OnlySubmitted ==
    ASSUME McpTypeOK, StageInv, NEW c \in Calls, Moved(c), ~Asked(c), Asked(c)', IsToolCall(c)'
    PROVE  /\ Submits(c) /\ job'[c] = job[c] /\ before'[c] = before[c]
           /\ tools'[c] = <<>> /\ result'[c] = NoText /\ failed[c] = FALSE
<1>1. pc[c] \in {"idle", "request"} /\ IsToolCall(c)' = (job'[c].method = "tools/call" /\ job'[c].content \in Contents)
  BY DEF McpTypeOK, Asked, IsToolCall
<1>2. Submits(c)
  <2> USE DEF Closes, Quiet, SameJob, Asked, IsToolCall
  <2>1. ~Opens(c)
    BY DEF Opens
  <2>2. ~Forwards(c)
    BY <1>1 DEF Forwards
  <2>3. ~Serves(c) /\ ~Keeps(c) /\ ~Defines(c)
    BY <1>1 DEF Serves, Keeps, Defines, OnList
  <2>4. ~Stops(c)
    BY <1>1 DEF Stops, Closed
  <2>5. ~Concludes(c)
    BY <1>1 DEF Concludes, Carries, Judges
  <2>6. QED
    BY <2>1, <2>2, <2>3, <2>4, <2>5 DEF Moved
<1>3. tools[c] = <<>> /\ result[c] = NoText /\ failed[c] = FALSE
  BY <1>2 DEF Submits, StageInv, StageOK
<1>4. QED
  BY <1>2, <1>3 DEF Submits, Judges, SameJob, SameAnswers

(* The decision on a call in a session that is tainted or where the tool is  *)
(* blocked.                                                                  *)
LEMMA MarkedCallIsBlocked ==
    ASSUME McpTypeOK, NEW c \in Calls, FailsClosed, NEW v, Judges(c, CallRequest(c), v),
           \/ /\ RefusedIfTainted(c) /\ RequestSession(job[c].agent) # NoSession
              /\ Alive(taint[RequestSession(job[c].agent)])
           \/ /\ RequestSession(job[c].agent) # NoSession
              /\ Alive(blocked[<<RequestSession(job[c].agent), job[c].tool>>])
    PROVE  v.action = "block"
<1> DEFINE r == CallRequest(c)
<1>1. /\ r.surface = "tool_call" /\ r.session = RequestSession(job[c].agent) /\ r.source = job[c].tool
      /\ Key(r) = <<RequestSession(job[c].agent), job[c].tool>>
  BY DEF CallRequest, ToRequest, Key
<1>2. NoTool \notin Tools /\ job[c].tool \in Tools
  BY McpAssumption, JobsAreTyped, Zenon
<1>3. CASE v = OnErrorVerdict
  BY <1>3 DEF FailsClosed, OnErrorVerdict
<1>4. CASE v = Decided(r)
  <2>1. /\ Seen(r).pinChanged = FALSE
        /\ Seen(r).tainted = (r.session # NoSession /\ Alive(taint[r.session]))
        /\ Seen(r).toolBlocked = (r.session # NoSession /\ Alive(blocked[Key(r)]))
    BY <1>1, <1>2 DEF Seen, IsDefinition, IsCall, Keyed, InSession, Tainted, ToolBlocked
  <2>2. CASE Alive(blocked[Key(r)]) /\ r.session # NoSession
    BY <1>4, <2>1, <2>2 DEF Decided, Decision
  <2>3. CASE RefusedIfTainted(c) /\ r.session # NoSession /\ Alive(taint[r.session])
    <3>1. Seen(r).tainted = TRUE
      BY <2>1, <2>3
    <3>2. Evaluate(Rules, EvalInput(r, Seen(r).tainted, Seen(r).pinChanged)).action = "block"
      BY <2>1, <2>3, <3>1 DEF RefusedIfTainted
    <3>3. QED
      BY <1>4, <3>2 DEF Decided, Decision
  <2>4. QED
    BY <1>1, <2>2, <2>3
<1>5. QED
  BY <1>3, <1>4 DEF Judges

(* What makes the later call of a pair refused: shared by the two promises.  *)
LEMMA SubmittedAndBlocked ==
    ASSUME McpTypeOK, StageInv, NEW c \in Calls, Moved(c), ~Asked(c), Asked(c)', IsToolCall(c)', FailsClosed,
           \/ RefusedIfTainted(c)' /\ RequestSession(job'[c].agent) # NoSession
              /\ Alive(taint[RequestSession(job'[c].agent)])
           \/ RequestSession(job'[c].agent) # NoSession
              /\ Alive(blocked[<<RequestSession(job'[c].agent), job'[c].tool>>])
    PROVE  Refused(c)'
<1>1. /\ Submits(c) /\ job'[c] = job[c] /\ tools'[c] = <<>> /\ result'[c] = NoText
  BY OnlySubmitted
<1>2. PICK v : Judges(c, CallRequest(c), v) /\ answer'[c] = IF v.action = "block" THEN "denied" ELSE answer[c]
  BY <1>1 DEF Submits
<1>3. RefusedIfTainted(c)' = RefusedIfTainted(c)
  BY <1>1, RequestsStay
<1>4. v.action = "block"
  BY <1>1, <1>2, <1>3, MarkedCallIsBlocked
<1>5. QED
  BY <1>1, <1>2, <1>4 DEF Refused

(* The state of a pair of calls, the first of which had ended when the       *)
(* second began, when any call moves.                                        *)
LEMMA PairsMove ==
    ASSUME McpTypeOK, StageInv, BeforeInv, BeforeInv', NEW c \in Calls, Moved(c),
           NEW b \in Calls, NEW d \in Calls, b \in before'[d], Asked(d)'
    PROVE  /\ b \in before[d] /\ Same(b)
           /\ Same(d) \/ (d = c /\ (Asked(d) => job'[d] = job[d] /\ ~Refused(d)))
<1>1. Others(c) /\ pc[c] # "done" /\ (pc[c] # "idle" => SameJob(c))
  BY WhatStays
<1>2. pc[c] = "idle" => ~Asked(c)'
  BY DEF Moved, Opens, Forwards, Submits, Serves, Stops, Closed, Concludes, Carries, Keeps, Defines, OnList, Quiet, Asked
<1>3. b \in before[d]
  BY <1>1, <1>2 DEF Others, Same, SameJob
<1>4. pc[b] = "done" /\ b # c
  BY <1>1, <1>3 DEF BeforeInv
<1>5. Same(b)
  BY <1>1, <1>4 DEF Others
<1>6. ~Refused(c)
  BY <1>1 DEF McpTypeOK, Refused
<1>7. QED
  BY <1>1, <1>3, <1>5, <1>6 DEF Others, Asked, SameJob

LEMMA BindsStep ==
    ASSUME McpTypeOK, StageInv, BeforeInv, BeforeInv', PoisonInv, PoisonBindsLaterCalls, NEW c \in Calls, Moved(c)
    PROVE  PoisonBindsLaterCalls'
<1> SUFFICES ASSUME NEW b \in Calls, NEW d \in Calls, b \in before'[d], SameAgent(b, d)', Tied(b)', FailsClosed,
                    TookPoison(b)', IsToolCall(d)', RefusedIfTainted(d)', Asked(d)'
             PROVE  Refused(d)'
  BY DEF PoisonBindsLaterCalls, FailsClosed
<1>1. b \in before[d] /\ Same(b) /\ (Same(d) \/ (d = c /\ (Asked(d) => job'[d] = job[d] /\ ~Refused(d))))
  BY PairsMove
<1>2. Tied(b) /\ TookPoison(b) /\ job'[b] = job[b]
  BY <1>1 DEF Same, Tied, TookPoison, ResultRequest, ChatRequest
<1>3. CASE Asked(d) /\ job'[d] = job[d]
  <2>1. IsToolCall(d) /\ RefusedIfTainted(d) /\ SameAgent(b, d)
    BY <1>2, <1>3, RequestsStay DEF SameAgent
  <2>2. Refused(d)
    BY <1>1, <1>2, <1>3, <2>1 DEF PoisonBindsLaterCalls
  <2>3. QED
    BY <1>1, <1>3, <2>2 DEF Same, Refused
<1>4. CASE ~Asked(d)
  <2>1. d = c
    BY <1>1, <1>4 DEF Same, Asked
  <2>2. Alive(taint[RequestSession(job[b].agent)]) /\ RequestSession(job[b].agent) # NoSession
    BY <1>2, TiedSessions DEF PoisonInv
  <2>3. job'[d].agent = job[b].agent
    BY <1>2 DEF SameAgent
  <2>4. QED
    BY <1>4, <2>1, <2>2, <2>3, SubmittedAndBlocked
<1>5. QED
  BY <1>1, <1>3, <1>4 DEF Same

LEMMA RemovedCannotStep ==
    ASSUME McpTypeOK, StageInv, ListInv, BeforeInv, BeforeInv', RemovedInv, RemovedToolCannotBeCalled,
           NEW c \in Calls, Moved(c)
    PROVE  RemovedToolCannotBeCalled'
<1> SUFFICES ASSUME NEW b \in Calls, NEW d \in Calls, NEW i \in removed'[b], b \in before'[d], SameAgent(b, d)',
                    Tied(b)', FailsClosed, IsToolCall(d)', job'[d].tool = tools'[b][i].tool,
                    job'[d].server = tools'[b][i].server, Unambiguous(tools'[b][i]), Asked(d)'
             PROVE  Refused(d)'
  BY DEF RemovedToolCannotBeCalled, RemovedToolsStayRemoved, FailsClosed, Unambiguous
<1>1. b \in before[d] /\ Same(b) /\ (Same(d) \/ (d = c /\ (Asked(d) => job'[d] = job[d] /\ ~Refused(d))))
  BY PairsMove
<1>2. /\ Tied(b) /\ job'[b] = job[b] /\ i \in removed[b] /\ tools'[b] = tools[b]
  BY <1>1 DEF Same, Tied
<1>3. CASE Asked(d) /\ job'[d] = job[d]
  <2>1. IsToolCall(d) /\ SameAgent(b, d)
    BY <1>2, <1>3, RequestsStay DEF SameAgent
  <2>2. Refused(d)
    BY <1>1, <1>2, <1>3, <2>1 DEF RemovedToolCannotBeCalled, RemovedToolsStayRemoved
  <2>3. QED
    BY <1>1, <1>3, <2>2 DEF Same, Refused
<1>4. CASE ~Asked(d)
  <2>1. d = c
    BY <1>1, <1>4 DEF Same, Asked
  <2>2. job[b].method = "tools/list"
    BY <1>2 DEF StageInv, StageOK
  <2>3. /\ RequestSession(job[b].agent) # NoSession /\ RequestSession(job[b].agent) \in Sessions
        /\ ResponseSession(job[b].agent) = RequestSession(job[b].agent)
    BY <1>2, <2>2, TiedSessions
  <2>4. tools[b][i] \in Definition
    <3>1. i \in Nat /\ 1 <= i /\ i < at[b] /\ at[b] <= Len(tools[b]) + 1 /\ at[b] \in Nat
      BY <1>2 DEF ListInv, ListOK
    <3>2. tools[b] \in Seq(Definition) /\ Len(tools[b]) \in Nat
      BY JobsAreTyped
    <3>3. i \in 1..Len(tools[b])
      BY <3>1, <3>2
    <3>4. QED
      BY <3>2, <3>3
  <2>5. NativeToolName(ListedName(tools[b][i])) = tools[b][i].tool /\ tools[b][i].tool \in Tools
    BY <1>2, <2>4, NativeNameIsBare DEF Definition
  <2>6. Alive(blocked[<<RequestSession(job[b].agent), tools[b][i].tool>>])
    BY <1>2, <2>3, <2>5 DEF RemovedInv, RemovalKey, Keys
  <2>7. job'[d].agent = job[b].agent /\ job'[d].tool = tools[b][i].tool
    BY <1>2 DEF SameAgent
  <2>8. QED
    BY <1>4, <2>1, <2>3, <2>6, <2>7, SubmittedAndBlocked
<1>5. QED
  BY <1>1, <1>3, <1>4 DEF Same

LEMMA CauseStep ==
    ASSUME McpTypeOK, StageInv, ListInv, CauseInv, NEW c \in Calls, Moved(c)
    PROVE  CauseInv'
<1>1. ASSUME NEW s \in Sessions, NEW b \in Calls, TaintCause(s, b)
      PROVE  TaintCause(s, b)'
  BY <1>1, MarksStay DEF TaintCause
<1>2. ASSUME NEW s \in Sessions, NEW tool \in Tools, NEW b \in Calls, BlockCause(s, tool, b)
      PROVE  BlockCause(s, tool, b)'
  BY <1>2, MarksStay DEF BlockCause
<1>3. ASSUME NEW r, NEW v, Judges(c, r, v), Submits(c) /\ r = CallRequest(c)
      PROVE  /\ \A s \in Sessions : Alive(taint'[s]) /\ ~Alive(taint[s]) => TaintCause(s, c)'
             /\ \A k \in Keys : ~(Alive(blocked'[k]) /\ ~Alive(blocked[k]))
  <2>1. job'[c] = job[c] /\ IsToolCall(c) /\ Asked(c)'
    BY <1>3 DEF Submits, Judges, SameJob, Asked
  <2>2. r.session = RequestSession(job[c].agent) /\ ~IsDefinition(r)
    BY <1>3 DEF CallRequest, ToRequest, IsDefinition
  <2>3. MayTaint(r) => MayHaveTainted(c)'
    BY <1>3, <2>1, RequestsStay DEF MayHaveTainted, MayTaint
  <2>4. \A s \in Sessions : s = r.session => s \in Identities(job[c].agent)
    BY <2>2, JobsAreTyped, SessionsOfAnAgent
  <2>5. QED
    BY <1>3, <2>1, <2>2, <2>3, <2>4 DEF Judges, Marks, TaintCause
<1>4. ASSUME NEW r, NEW v, Judges(c, r, v), Carries(c, r), pc'[c] = "done"
      PROVE  /\ \A s \in Sessions : Alive(taint'[s]) /\ ~Alive(taint[s]) => TaintCause(s, c)'
             /\ \A k \in Keys : ~(Alive(blocked'[k]) /\ ~Alive(blocked[k]))
  <2>1. job'[c] = job[c] /\ result'[c] = result[c] /\ Asked(c)'
    BY <1>4 DEF Judges, SameJob, SameAnswers, Asked
  <2>2. r.session \in {ResponseSession(job[c].agent), ChatSession(job[c].agent)} /\ ~IsDefinition(r)
    BY <1>4 DEF Carries, ChatRequest, ResultRequest, ToRequest, IsDefinition
  <2>3. MayTaint(r) => MayHaveTainted(c)'
    BY <1>4, <2>1, RequestsStay DEF Carries, MayHaveTainted, MayTaint
  <2>4. \A s \in Sessions : s = r.session => s \in Identities(job[c].agent)
    BY <2>2, JobsAreTyped, SessionsOfAnAgent
  <2>5. QED
    BY <1>4, <2>1, <2>2, <2>3, <2>4 DEF Judges, Marks, TaintCause
<1>5. ASSUME Defines(c)
      PROVE  /\ \A s \in Sessions : Alive(taint'[s]) /\ ~Alive(taint[s]) => TaintCause(s, c)'
             /\ \A s \in Sessions, tool \in Tools :
                  Alive(blocked'[<<s, tool>>]) /\ ~Alive(blocked[<<s, tool>>]) => BlockCause(s, tool, c)'
  <2>0. PICK i : i = at[c]
    OBVIOUS
  <2> DEFINE r == DefinitionRequest(c, i)
  <2>1. PICK v : /\ Judges(c, r, v)
                 /\ removed'[c] = IF v.action = "block" /\ faults' = faults THEN removed[c] \cup {i} ELSE removed[c]
    BY <1>5, <2>0 DEF Defines
  <2>2. job'[c] = job[c] /\ tools'[c] = tools[c] /\ Asked(c)' /\ at'[c] = i + 1
    BY <1>5, <2>0, <2>1 DEF Judges, SameJob, SameAnswers, Asked, Defines, Moves, OnList
  <2>3. /\ r.session = ResponseSession(job[c].agent) /\ r.source = NativeToolName(ListedName(tools[c][i]))
    BY DEF DefinitionRequest, ToRequest
  <2>4. \A s \in Sessions : s = r.session => s \in Identities(job[c].agent)
    BY <2>3, JobsAreTyped, SessionsOfAnAgent
  <2>5. i \in Nat /\ i < i + 1 /\ i \in DOMAIN tools[c]
    <3>1. i \in Nat /\ 1 <= i
      BY <2>0 DEF ListInv, ListOK
    <3>2. i <= Len(tools[c]) /\ Len(tools[c]) \in Nat /\ DOMAIN tools[c] = 1..Len(tools[c])
      BY <1>5, <2>0, JobsAreTyped DEF Defines, OnList
    <3>3. QED
      BY <3>1, <3>2
  <2>6. MayTaint(r) => MayHaveTainted(c)'
    <3>1. tools'[c][i].content \in Contents /\ i \in DOMAIN tools'[c] /\ i < at'[c]
      BY <1>5, <2>0, <2>2, <2>5 DEF Defines
    <3>2. DefinitionRequest(c, i)' = r
      BY <2>2, RequestsStay
    <3>3. MayTaint(r) => MayTaint(DefinitionRequest(c, i))'
      BY <3>2 DEF MayTaint
    <3>4. QED
      BY <3>1, <3>3 DEF MayHaveTainted
  <2>7. IsDefinition(r) /\ Decided(r).action = "block" => failed'[c] = TRUE \/ i \in removed'[c]
    BY <2>1 DEF Judges
  <2>8. ASSUME NEW s \in Sessions, NEW tool \in Tools,
               Alive(blocked'[<<s, tool>>]), ~Alive(blocked[<<s, tool>>])
        PROVE  BlockCause(s, tool, c)'
    <3>1. <<s, tool>> = Key(r) /\ IsDefinition(r) /\ Decided(r).action = "block"
      BY <2>1, <2>8 DEF Judges, Marks, Keys
    <3>2. s = r.session /\ tool = r.source
      BY <3>1 DEF Key
    <3>3. failed'[c] = TRUE \/ RemovedAs(c, tool)'
      BY <2>2, <2>3, <2>7, <3>1, <3>2 DEF RemovedAs
    <3>4. QED
      BY <2>2, <2>4, <3>2, <3>3 DEF BlockCause
  <2>9. \A s \in Sessions : Alive(taint'[s]) /\ ~Alive(taint[s]) => TaintCause(s, c)'
    BY <2>1, <2>2, <2>4, <2>6 DEF Judges, Marks, TaintCause
  <2>10. QED
    BY <2>8, <2>9
<1>6. /\ \A s \in Sessions : Alive(taint'[s]) /\ ~Alive(taint[s]) => TaintCause(s, c)'
      /\ \A s \in Sessions, tool \in Tools :
           Alive(blocked'[<<s, tool>>]) /\ ~Alive(blocked[<<s, tool>>]) => BlockCause(s, tool, c)'
  <2>1. CASE taint' = taint /\ blocked' = blocked
    BY <2>1
  <2>2. CASE Submits(c)
    BY <1>3, <2>2 DEF Submits, Keys
  <2>3. CASE Concludes(c)
    BY <1>4, <2>3 DEF Concludes, Keys
  <2>4. CASE Defines(c)
    BY <1>5, <2>4
  <2>5. QED
    BY <2>1, <2>2, <2>3, <2>4
       DEF Moved, Opens, Forwards, Serves, Stops, Keeps, Closes, Quiet, SameStore, storeVars
<1>7. QED
  BY <1>1, <1>2, <1>6 DEF CauseInv

LEMMA NoCauseStep ==
    ASSUME McpTypeOK, StageInv, CauseInv, NoCallIsRefusedWithoutCause, NEW c \in Calls, Moved(c)
    PROVE  NoCallIsRefusedWithoutCause'
<1> SUFFICES ASSUME NEW d \in Calls, IsToolCall(d)', Refused(d)', failed'[d] = FALSE,
                    Evaluate(Rules, EvalInput(CallRequest(d)', FALSE, FALSE)).action # "block"
             PROVE  \E b \in Calls \ {d} : SameAgent(b, d)' /\ Marked(b, d)'
  <2>1. \A d \in Calls : failed'[d] = FALSE \/ failed'[d]
    OBVIOUS
  <2>2. QED
    BY <2>1 DEF NoCallIsRefusedWithoutCause
<1>1. Others(c) /\ pc[c] # "done"
  BY WhatStays
<1>2. ASSUME NEW b \in Calls, Marked(b, d), SameAgent(b, d), job'[d] = job[d]
      PROVE  SameAgent(b, d)' /\ Marked(b, d)'
  <2>1. failed[b] \in BOOLEAN
    BY DEF McpTypeOK
  <2>2. Asked(b)
    BY <1>2 DEF Marked
  <2>3. QED
    BY <1>2, <2>1, <2>2, MarksStay DEF Marked, SameAgent
<1>3. CASE d # c
  <2>1. Same(d)
    BY <1>1, <1>3 DEF Others
  <2>2. IsToolCall(d) /\ Refused(d) /\ ~failed[d] /\ CallRequest(d)' = CallRequest(d)
    BY <2>1, RequestsStay DEF Same, Refused
  <2>3. PICK b \in Calls \ {d} : SameAgent(b, d) /\ Marked(b, d)
    BY <2>2 DEF NoCallIsRefusedWithoutCause
  <2>4. QED
    BY <1>2, <2>1, <2>3 DEF Same
<1>4. CASE d = c
  <2>1. answer'[c] \in {"denied", "error"} /\ result'[c] = NoText
    BY <1>4 DEF Refused
  <2>2. answer[c] = "none"
    BY <1>1 DEF McpTypeOK
  <2>3. Malformed # NoText /\ NoText \notin Contents /\ NoSession \notin Sessions
    BY McpAssumption, Zenon
  <2>4. Submits(c)
    <3> USE DEF Closes, Quiet, SameAnswers, SameJob
    <3>1. ~Opens(c) /\ ~Forwards(c) /\ ~Serves(c) /\ ~Keeps(c) /\ ~Defines(c)
      BY <2>1, <2>2 DEF Opens, Forwards, Serves, Keeps, Defines, Moves
    <3>2. ~Stops(c)
      BY <1>4, <2>1, <2>3 DEF Stops, Closed, IsToolCall
    <3>3. ~Concludes(c)
      BY <1>4, <2>1, <2>3 DEF Concludes, Carries, Judges, IsToolCall
    <3>4. QED
      BY <3>1, <3>2, <3>3 DEF Moved
  <2> DEFINE r == CallRequest(c)
  <2>5. PICK v : Judges(c, r, v) /\ answer'[c] = IF v.action = "block" THEN "denied" ELSE answer[c]
    BY <2>4 DEF Submits
  <2>6. v.action = "block" /\ v = Decided(r) /\ job'[c] = job[c]
    BY <1>4, <2>1, <2>2, <2>5 DEF Judges, SameJob
  <2>7. Evaluate(Rules, EvalInput(r, FALSE, FALSE)).action # "block"
    BY <1>4, <2>6, RequestsStay
  <2>8. /\ r.session = RequestSession(job[c].agent) /\ r.source = job[c].tool
        /\ Seen(r).pinChanged = FALSE /\ Seen(r).tainted \in BOOLEAN
    BY DEF CallRequest, ToRequest, Seen, IsDefinition
  <2>9. Seen(r).tainted = TRUE \/ Seen(r).toolBlocked
    <3>1. Decided(r).action = "block"
      BY <2>6
    <3> HIDE DEF r
    <3>2. Seen(r).toolBlocked \/ Evaluate(Rules, EvalInput(r, Seen(r).tainted, Seen(r).pinChanged)).action = "block"
      BY <3>1 DEF Decided, Decision
    <3>3. QED
      BY <2>7, <2>8, <3>2
  <2>10. /\ r.session \in Sessions
         /\ \/ Alive(taint[r.session])
            \/ Alive(blocked[<<r.session, job[c].tool>>])
    <3>1. Inspected(r)
      BY <2>5 DEF Judges
    <3> HIDE DEF r
    <3>2. r.session # NoSession
      BY <2>9 DEF Seen, InSession, IsCall, Keyed
    <3>3. Alive(taint[r.session]) \/ Alive(blocked[Key(r)])
      BY <2>9 DEF Seen, Tainted, ToolBlocked
    <3>4. QED
      BY <2>8, <3>1, <3>2, <3>3 DEF Inspected, Key
  <2>11. job[c].tool \in Tools /\ job[c].agent \in Agents /\ r.session \in Identities(job[c].agent)
    BY <2>8, <2>10, JobsAreTyped, SessionsOfAnAgent
  <2>12. PICK b \in Calls : TaintCause(r.session, b) \/ BlockCause(r.session, job[c].tool, b)
    BY <2>10, <2>11 DEF CauseInv
  <2> HIDE DEF r
  <2>13. Asked(b) /\ r.session \in Identities(job[b].agent) /\ Marked(b, c)
    BY <2>12 DEF TaintCause, BlockCause, Marked
  <2>14. job[b].agent = job[c].agent
    BY <2>11, <2>13, JobsAreTyped, AgentsApart
  <2>15. b # c
    BY <2>4, <2>13 DEF Submits, Asked
  <2>16. QED
    BY <1>2, <1>4, <2>6, <2>13, <2>14, <2>15 DEF SameAgent
<1>5. QED
  BY <1>3, <1>4

----------------------------------------------------------------------------
(* The theorems.                                                           *)

LEMMA McpInvInit == Init => McpInv
<1> SUFFICES ASSUME Init PROVE McpInv
  OBVIOUS
<1>1. McpTypeOK
  BY TypeOKInit
<1>2. StageInv
  BY DEF Init, StageInv, StageOK
<1>3. \A c \in Calls : pc[c] = "idle" /\ answer[c] = "none" /\ removed[c] = {} /\ before[c] = {}
  BY DEF Init
<1>4. ListInv
  <2>1. Len(<<>>) = 0 /\ ListOK(0, 1, <<>>, FALSE, {}, FALSE)
    BY EmptyList
  <2>2. \A c \in Calls : tools[c] = <<>> /\ at[c] = 1 /\ kept[c] = <<>> /\ changed[c] = FALSE /\ failed[c] = FALSE
    BY DEF Init
  <2>3. QED
    BY <1>3, <2>1, <2>2 DEF ListInv, Listed
<1>5. RemovedInv /\ BeforeInv /\ RemovedToolCannotBeCalled
  BY <1>3 DEF RemovedInv, BeforeInv, RemovedToolCannotBeCalled, RemovedToolsStayRemoved
<1>6. PoisonInv /\ PoisonBindsLaterCalls /\ NoCallIsRefusedWithoutCause
  BY <1>3 DEF PoisonInv, TookPoison, PoisonBindsLaterCalls, NoCallIsRefusedWithoutCause, Refused
<1>7. CauseInv
  BY DEF Init, EmptyStore, CauseInv, Alive, Keys
<1>8. QED
  BY <1>2, <1>4, <1>5, <1>6, <1>7 DEF McpInv

LEMMA McpInvIdles ==
    ASSUME McpTypeOK, McpInv, UNCHANGED vars
    PROVE  McpInv'
<1> USE DEF vars, storeVars, listVars, McpInv
<1>1. (StageInv /\ ListInv /\ RemovedInv /\ BeforeInv)'
  BY DEF StageInv, ListInv, Listed, RemovedInv, BeforeInv
<1>2. ASSUME NEW b \in Calls
      PROVE  /\ CallRequest(b)' = CallRequest(b) /\ ChatRequest(b)' = ChatRequest(b)
             /\ ResultRequest(b)' = ResultRequest(b) /\ \A i : DefinitionRequest(b, i)' = DefinitionRequest(b, i)
             /\ IsToolCall(b)' = IsToolCall(b) /\ Tied(b)' = Tied(b) /\ RefusedIfTainted(b)' = RefusedIfTainted(b)
             /\ Asked(b)' = Asked(b) /\ Refused(b)' = Refused(b) /\ \A d : SameAgent(b, d)' = SameAgent(b, d)
             /\ \A tool : RemovedAs(b, tool)' = RemovedAs(b, tool)
  BY <1>2, RequestsStay DEF Asked, Refused, SameAgent, RemovedAs
<1>3. ASSUME NEW b \in Calls
      PROVE  TookPoison(b)' = TookPoison(b) /\ MayHaveTainted(b)' = MayHaveTainted(b)
  <2>1. TookPoison(b)' = TookPoison(b)
    BY <1>2 DEF TookPoison, Poisoned
  <2>2. MayHaveTainted(b)' = MayHaveTainted(b)
    BY <1>2 DEF MayHaveTainted, MayTaint
  <2>3. QED
    BY <2>1, <2>2
<1>4. (PoisonInv /\ PoisonBindsLaterCalls)'
  BY <1>2, <1>3 DEF PoisonInv, PoisonBindsLaterCalls, FailsClosed
<1>5. RemovedToolCannotBeCalled'
  BY <1>2 DEF RemovedToolCannotBeCalled, RemovedToolsStayRemoved, FailsClosed, Unambiguous
<1>6. (CauseInv /\ NoCallIsRefusedWithoutCause)'
  <2>1. \A b, d \in Calls : Marked(b, d)' = Marked(b, d)
    BY <1>2, <1>3 DEF Marked
  <2>2. \A b \in Calls : \A s : TaintCause(s, b)' = TaintCause(s, b)
    BY <1>2, <1>3 DEF TaintCause
  <2>3. \A b \in Calls : \A s, tool : BlockCause(s, tool, b)' = BlockCause(s, tool, b)
    BY <1>2 DEF BlockCause
  <2>4. \A s \in Sessions : Alive(taint[s]) => \E b \in Calls : TaintCause(s, b)'
    BY <2>2 DEF CauseInv
  <2>5. \A s \in Sessions, tool \in Tools : Alive(blocked[<<s, tool>>]) => \E b \in Calls : BlockCause(s, tool, b)'
    BY <2>3 DEF CauseInv
  <2>6. CauseInv'
    BY <2>4, <2>5 DEF CauseInv, Alive
  <2>7. NoCallIsRefusedWithoutCause'
    <3>1. ASSUME NEW d \in Calls, IsToolCall(d)', Refused(d)', ~failed'[d],
                 Evaluate(Rules, EvalInput(CallRequest(d), FALSE, FALSE))'.action # "block"
          PROVE  \E b \in Calls \ {d} : (SameAgent(b, d) /\ Marked(b, d))'
      <4>1. IsToolCall(d) /\ Refused(d) /\ ~failed[d] /\ CallRequest(d)' = CallRequest(d)
        BY <1>2, <3>1
      <4>2. Evaluate(Rules, EvalInput(CallRequest(d), FALSE, FALSE)).action # "block"
        BY <3>1, <4>1
      <4>3. PICK b \in Calls \ {d} : SameAgent(b, d) /\ Marked(b, d)
        BY <4>1, <4>2 DEF NoCallIsRefusedWithoutCause
      <4>4. (SameAgent(b, d) /\ Marked(b, d))'
        BY <1>2, <2>1, <4>3
      <4>5. QED
        BY <4>4
    <3>2. QED
      BY <3>1 DEF NoCallIsRefusedWithoutCause
  <2>8. QED
    BY <2>6, <2>7
<1>7. QED
  BY <1>1, <1>4, <1>5, <1>6

LEMMA McpInvHolds == Spec => [](McpTypeOK /\ McpInv)
<1>1. McpTypeOK /\ McpInv /\ [Next]_vars => McpTypeOK' /\ McpInv'
  <2> SUFFICES ASSUME McpTypeOK, McpInv, [Next]_vars
               PROVE  McpTypeOK' /\ McpInv'
    OBVIOUS
  <2>1. McpTypeOK' /\ (UNCHANGED vars \/ \E c \in Calls : Moved(c))
    BY EveryStep
  <2>2. CASE UNCHANGED vars
    BY <2>1, <2>2, McpInvIdles
  <2>3. CASE \E c \in Calls : Moved(c)
    <3>1. PICK c \in Calls : Moved(c)
      BY <2>3
    <3>2. /\ StageInv /\ ListInv /\ RemovedInv /\ PoisonInv /\ BeforeInv /\ CauseInv
          /\ PoisonBindsLaterCalls /\ RemovedToolCannotBeCalled /\ NoCallIsRefusedWithoutCause
      BY DEF McpInv
    <3>3. StageInv' /\ ListInv' /\ RemovedInv' /\ PoisonInv' /\ BeforeInv' /\ CauseInv' /\ NoCallIsRefusedWithoutCause'
      BY <2>1, <3>1, <3>2, StageStep, ListStep, RemovedStep, PoisonStep, BeforeStep, CauseStep, NoCauseStep
    <3>4. PoisonBindsLaterCalls' /\ RemovedToolCannotBeCalled'
      BY <3>1, <3>2, <3>3, BindsStep, RemovedCannotStep
    <3>5. QED
      BY <2>1, <3>3, <3>4 DEF McpInv
  <2>4. QED
    BY <2>1, <2>2, <2>3
<1>2. QED
  BY <1>1, TypeOKInit, McpInvInit, PTL DEF Spec

(* However calls overlap and inspections fail, poison that was let through   *)
(* has tainted the session that every later call of its agent is checked in, *)
(* though results and chats carry the session in other places than calls do  *)
(* (mcp.go 252-304).                                                         *)
THEOREM PoisonBinds == Spec => []PoisonBindsLaterCalls
<1>1. McpInv => PoisonBindsLaterCalls
  BY DEF McpInv
<1>2. QED
  BY <1>1, McpInvHolds, PTL

(* On every route, a tool removed from a list is refused to the agent that   *)
(* was shown the list, when no other server's name begins the name it was    *)
(* listed by: what nativeToolName cuts off is what the gateway put there     *)
(* (mcp.go 142-181, 235-250).                                                *)
THEOREM RemovedIsRefused == Spec => []RemovedToolCannotBeCalled
<1>1. McpInv => RemovedToolCannotBeCalled
  BY DEF McpInv
<1>2. QED
  BY <1>1, McpInvHolds, PTL

(* Whatever the policy, a call it would allow is refused only where another  *)
(* call of the same agent left a mark: every taint and block in the store    *)
(* was put there by a call of the agent whose session it is on.              *)
THEOREM RefusedForCause == Spec => []NoCallIsRefusedWithoutCause
<1>1. McpInv => NoCallIsRefusedWithoutCause
  BY DEF McpInv
<1>2. QED
  BY <1>1, McpInvHolds, PTL

(* The loop over a list of any length keeps what the policy left, in order,  *)
(* and answers with the list as it came only when all of it was left         *)
(* (mcp.go 142-181).                                                         *)
THEOREM ListKeepsRest == Spec => []ListKeepsTheRest
<1>1. McpTypeOK /\ McpInv => ListKeepsTheRest
  <2> SUFFICES ASSUME McpTypeOK, McpInv, NEW c \in Calls, Listed(c)
               PROVE  /\ Range(Shown(c)) \cap removed[c] = {}
                      /\ ~failed[c] => Range(Shown(c)) = DOMAIN tools[c] \ removed[c]
                      /\ \A i, j \in DOMAIN Shown(c) : i < j => Shown(c)[i] < Shown(c)[j]
    BY DEF ListKeepsTheRest
  <2>1. /\ ListOK(Len(tools[c]), at[c], kept[c], changed[c], removed[c], failed[c])
        /\ at[c] = Len(tools[c]) + 1 /\ (answer[c] = "pass" => changed[c] = FALSE)
    BY DEF McpInv, ListInv
  <2>2. /\ Len(tools[c]) \in Nat /\ DOMAIN tools[c] = 1..Len(tools[c])
        /\ failed[c] \in BOOLEAN /\ at[c] - 1 = Len(tools[c])
    BY <2>1, JobsAreTyped DEF McpTypeOK
  <2>3. CASE answer[c] = "pass"
    <3>1. removed[c] = {}
      BY <2>1, <2>3 DEF ListOK
    <3>2. Shown(c) = [i \in DOMAIN tools[c] |-> i]
      BY <2>3 DEF Shown
    <3>3. Range(Shown(c)) = DOMAIN tools[c]
      BY <3>2 DEF Range
    <3>4. QED
      BY <3>1, <3>2, <3>3
  <2>4. CASE answer[c] # "pass"
    <3>1. Shown(c) = kept[c]
      BY <2>4 DEF Shown
    <3>2. \A p \in DOMAIN kept[c] : kept[c][p] \in DOMAIN tools[c] /\ kept[c][p] \notin removed[c]
      BY <2>1, <2>2 DEF ListOK
    <3>3. ~failed[c] => \A x \in DOMAIN tools[c] : x \in removed[c] \/ \E p \in DOMAIN kept[c] : kept[c][p] = x
      BY <2>1, <2>2 DEF ListOK
    <3>4. \A i, j \in DOMAIN kept[c] : i < j => kept[c][i] < kept[c][j]
      BY <2>1 DEF ListOK
    <3>5. Range(kept[c]) = {kept[c][p] : p \in DOMAIN kept[c]}
      BY DEF Range
    <3>6. QED
      BY <3>1, <3>2, <3>3, <3>4, <3>5
  <2>5. QED
    BY <2>3, <2>4
<1>2. QED
  BY <1>1, McpInvHolds, PTL
================================================================================
