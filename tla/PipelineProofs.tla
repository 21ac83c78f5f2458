---------------------------- MODULE PipelineProofs ----------------------------
(***************************************************************************)
(* Theorems about Pipeline, for every number of hops, requests, rules,     *)
(* findings, faults and crashes and for every TTL.                         *)
(***************************************************************************)
EXTENDS PipelineProps, PolicyProofs

----------------------------------------------------------------------------
(* The store.                                                              *)

LEMMA LifetimeIsLife == Lifetime \in Life /\ Alive(Lifetime)
BY StoreAssumption DEF Lifetime, Life, Forever, Alive

LEMMA OlderIsLife ==
    ASSUME NEW l \in Life
    PROVE  Older(l) \in Life
BY DEF Older, Life, Forever

LEMMA StoreOpsType ==
    ASSUME StoreTypeOK
    PROVE  /\ \A s \in Sessions : Taint(s) => StoreTypeOK'
           /\ \A k \in Keys, hash \in Hashes : PinTool(k, hash) => StoreTypeOK'
           /\ \A k \in Keys : BlockTool(k) => StoreTypeOK'
           /\ TickStore => StoreTypeOK'
           /\ ClearStore => StoreTypeOK'
           /\ UNCHANGED storeVars => StoreTypeOK'
<1> USE DEF StoreTypeOK
<1>1. \A s \in Sessions : Taint(s) => StoreTypeOK'
  BY LifetimeIsLife DEF Taint
<1>2. \A k \in Keys, hash \in Hashes : PinTool(k, hash) => StoreTypeOK'
  BY LifetimeIsLife DEF PinTool
<1>3. \A k \in Keys : BlockTool(k) => StoreTypeOK'
  BY LifetimeIsLife DEF BlockTool
<1>4. TickStore => StoreTypeOK'
  <2>1. \A k \in Keys : OlderPin(pins[k]) \in [hash : Hashes \cup {NoHash}, left : Life]
    BY OlderIsLife DEF OlderPin, NoPin, Life
  <2>2. QED
    BY <2>1, OlderIsLife DEF TickStore
<1>5. ClearStore => StoreTypeOK'
  BY DEF ClearStore, NoPin, Life
<1>6. UNCHANGED storeVars => StoreTypeOK'
  BY DEF storeVars
<1>7. QED
  BY <1>1, <1>2, <1>3, <1>4, <1>5, <1>6

----------------------------------------------------------------------------
(* Requests and decisions.                                                 *)

LEMMA RequestsAreTyped ==
    ASSUME NEW r \in Request
    PROVE  /\ r.content \in Contents /\ ContentHash[r.content] \in Hashes
           /\ InSession(r) => r.session \in Sessions
           /\ Keyed(r) => InSession(r) /\ Key(r) \in Keys
BY PipelineAssumption DEF Request, InSession, Keyed, Key, Keys

LEMMA DecisionIsAVerdict ==
    ASSUME NEW r \in Request, NEW seen
    PROVE  Decision(r, seen) \in Verdict
<1> DEFINE in == EvalInput(r, seen.tainted, seen.pinChanged)
           d == Evaluate(Rules, in)
           spans == UNION {{f.span : f \in FindingsOf[c]} : c \in Contents}
<1>1. d.action \in Actions
  BY MostSevereIsAnAction DEF Evaluate
<1>2. d.taint \in BOOLEAN
  BY DEF Evaluate
<1>3. d.redactions \subseteq spans
  <2> SUFFICES ASSUME NEW s \in d.redactions
               PROVE  s \in spans
    OBVIOUS
  <2>1. PICK rule : s \in {f.span : f \in Selected(rule, in)}
    BY DEF Evaluate
  <2>2. Selected(rule, in) \subseteq FindingsOf[r.content]
    BY DEF Selected, EvalInput
  <2>3. r.content \in Contents
    BY RequestsAreTyped
  <2>4. QED
    BY <2>1, <2>2, <2>3
<1>4. QED
  BY <1>1, <1>2, <1>3 DEF Decision, Verdict, Actions

LEMMA OnErrorIsAVerdict == OnErrorVerdict \in Verdict
BY DEF OnErrorVerdict, OnErrorAction, Verdict, Actions

----------------------------------------------------------------------------
(* Type correctness.  A store stage is reached only by a request that has  *)
(* the session, or the session and tool, it uses: StageOK.                 *)

StageOK ==
    \A h \in Hops :
        /\ pc[h] \in {"tainted", "taint"} => InSession(req[h])
        /\ pc[h] \in {"pin", "pinwrite", "block"} => IsDefinition(req[h])
        /\ pc[h] = "toolblocked" => IsCall(req[h])

TypeInv == TypeOK /\ StageOK

LEMMA TypeInvInit == Init => TypeInv
<1> SUFFICES ASSUME Init PROVE TypeInv
  OBVIOUS
<1>1. StoreTypeOK
  BY DEF Init, EmptyStore, StoreTypeOK, NoPin, Life
<1>2. AnyRequest \in Request
  <2>1. PICK c : c \in Contents
    BY PipelineAssumption
  <2>2. [surface |-> "input", session |-> NoSession, source |-> NoTool, content |-> c] \in Request
    BY <2>1 DEF Request, Surfaces
  <2>3. QED
    BY <2>2 DEF AnyRequest
<1>3. NoVerdict \in Verdict
  BY DEF NoVerdict, Verdict, Actions
<1>4. faults \in 0..MaxFaults /\ crashes \in 0..MaxCrashes
  BY PipelineAssumption DEF Init
<1>5. trail \in [Hops -> Seq([action : Actions, taint : BOOLEAN, error : BOOLEAN])]
  BY DEF Init
<1>6. QED
  BY <1>1, <1>2, <1>3, <1>4, <1>5 DEF Init, TypeInv, TypeOK, StageOK, Stages, NothingRead, Life

LEMMA TypeInvNext == TypeInv /\ [Next]_vars => TypeInv'
<1> SUFFICES ASSUME TypeInv, [Next]_vars
             PROVE  TypeInv'
  OBVIOUS
<1> USE DEF TypeInv, TypeOK, StageOK, Stages, Fallible, Goto, Quiet
<1>1. ASSUME NEW h \in Hops, Begin(h)
      PROVE  TypeInv'
  <2>1. PICK r \in Requests : req' = [req EXCEPT ![h] = r]
    BY <1>1 DEF Begin
  <2>2. r \in Request
    BY <2>1, PipelineAssumption
  <2>3. StoreTypeOK'
    BY <1>1, StoreOpsType DEF Begin
  <2>4. QED
    BY <1>1, <2>1, <2>2, <2>3, LifetimeIsLife DEF Begin
<1>2. ASSUME NEW h \in Hops, Normalize(h)
      PROVE  TypeInv'
  <2>1. StoreTypeOK'
    BY <1>2, StoreOpsType DEF Normalize
  <2>2. QED
    BY <1>2, <2>1 DEF Normalize, AfterNormalize
<1>3. ASSUME NEW h \in Hops, ReadTaint(h)
      PROVE  TypeInv'
  <2>1. StoreTypeOK'
    BY <1>3, StoreOpsType DEF ReadTaint
  <2>2. QED
    BY <1>3, <2>1 DEF ReadTaint, AfterTainted, Tainted, Alive
<1>4. ASSUME NEW h \in Hops, ReadPin(h)
      PROVE  TypeInv'
  <2>1. StoreTypeOK'
    BY <1>4, StoreOpsType DEF ReadPin
  <2>2. pc' \in [Hops -> Stages] /\ read' \in [Hops -> [tainted : BOOLEAN, pinChanged : BOOLEAN, toolBlocked : BOOLEAN]]
    BY <1>4 DEF ReadPin
  <2>3. pc'[h] \in {"pinwrite", "decide"} /\ \A g \in Hops \ {h} : pc'[g] = pc[g]
    BY <1>4 DEF ReadPin
  <2>4. QED
    BY <1>4, <2>1, <2>2, <2>3 DEF ReadPin
<1>5. ASSUME NEW h \in Hops, WritePin(h)
      PROVE  TypeInv'
  <2>1. StoreTypeOK'
    BY <1>5, StoreOpsType, RequestsAreTyped DEF WritePin, IsDefinition
  <2>2. QED
    BY <1>5, <2>1 DEF WritePin
<1>6. ASSUME NEW h \in Hops, ReadBlocked(h)
      PROVE  TypeInv'
  <2>1. StoreTypeOK'
    BY <1>6, StoreOpsType DEF ReadBlocked
  <2>2. QED
    BY <1>6, <2>1 DEF ReadBlocked, ToolBlocked, Alive
<1>7. ASSUME NEW h \in Hops, Decide(h)
      PROVE  TypeInv'
  <2>1. StoreTypeOK'
    BY <1>7, StoreOpsType DEF Decide
  <2>2. Decision(req[h], read[h]) \in Verdict
    BY DecisionIsAVerdict
  <2>3. QED
    BY <1>7, <2>1, <2>2 DEF Decide, AfterDecide, AfterTaint
<1>8. ASSUME NEW h \in Hops, WriteTaint(h)
      PROVE  TypeInv'
  <2>1. StoreTypeOK'
    BY <1>8, StoreOpsType, RequestsAreTyped DEF WriteTaint
  <2>2. QED
    BY <1>8, <2>1 DEF WriteTaint, AfterTaint
<1>9. ASSUME NEW h \in Hops, WriteBlock(h)
      PROVE  TypeInv'
  <2>1. StoreTypeOK'
    BY <1>9, StoreOpsType, RequestsAreTyped DEF WriteBlock, IsDefinition
  <2>2. QED
    BY <1>9, <2>1 DEF WriteBlock
<1>10. ASSUME NEW h \in Hops, FailHop(h), StoreTypeOK'
       PROVE  TypeInv'
  <2>1. faults' \in 0..MaxFaults
    BY <1>10, PipelineAssumption DEF FailHop, ToOnError
  <2>2. QED
    BY <1>10, <2>1, OnErrorIsAVerdict DEF FailHop, ToOnError
<1>11. ASSUME NEW h \in Hops, Fail(h)
       PROVE  TypeInv'
  BY <1>10, <1>11, StoreOpsType DEF Fail
<1>12. ASSUME NEW h \in Hops, FailAfterWrite(h)
       PROVE  TypeInv'
  <2>1. StoreTypeOK'
    BY <1>12, StoreOpsType, RequestsAreTyped DEF FailAfterWrite, Lands, IsDefinition
  <2>2. QED
    BY <1>10, <1>12, <2>1 DEF FailAfterWrite, Lands
<1>13. ASSUME NEW h \in Hops, Emit(h)
       PROVE  TypeInv'
  <2>1. StoreTypeOK'
    BY <1>13, StoreOpsType DEF Emit
  <2> DEFINE Events == [action : Actions, taint : BOOLEAN, error : BOOLEAN]
  <2>2. Event(h) \in Events
    BY DEF Event, Verdict
  <2>3. trail \in [Hops -> Seq(Events)]
    OBVIOUS
  <2>4. trail' \in [Hops -> Seq(Events)]
    <3> HIDE DEF Events
    <3>1. Append(trail[h], Event(h)) \in Seq(Events)
      BY <2>2, <2>3
    <3>2. QED
      BY <1>13, <2>3, <3>1 DEF Emit
  <2>5. QED
    BY <1>13, <2>1, <2>4 DEF Emit
<1>14. ASSUME NEW h \in Hops, EmitLost(h)
       PROVE  TypeInv'
  <2>1. StoreTypeOK'
    BY <1>14, StoreOpsType DEF EmitLost, DropEvent
  <2>2. faults' \in 0..MaxFaults
    BY <1>14, PipelineAssumption DEF EmitLost, DropEvent
  <2>3. QED
    BY <1>14, <2>1, <2>2 DEF EmitLost, DropEvent
<1>15. ASSUME Tick
       PROVE  TypeInv'
  BY <1>15, StoreOpsType, OlderIsLife DEF Tick, hopVars
<1>16. ASSUME Crash
       PROVE  TypeInv'
  <2>1. StoreTypeOK' /\ left' \in [Hops -> Life]
    BY <1>16, StoreOpsType DEF Crash, Life
  <2>2. crashes' \in 0..MaxCrashes
    BY <1>16, PipelineAssumption DEF Crash
  <2>3. pc' \in [Hops -> Stages] /\ \A h \in Hops : pc'[h] \in {pc[h], "aborted"}
    BY <1>16 DEF Crash
  <2>4. QED
    BY <1>16, <2>1, <2>2, <2>3 DEF Crash
<1>17. ASSUME UNCHANGED vars
       PROVE  TypeInv'
  BY <1>17, StoreOpsType DEF vars, hopVars
<1>18. QED
  BY <1>1, <1>2, <1>3, <1>4, <1>5, <1>6, <1>7, <1>8, <1>9, <1>11, <1>12, <1>13, <1>14,
     <1>15, <1>16, <1>17 DEF Next, Step

(* Every variable keeps its kind, and no stage runs for a request that lacks *)
(* the session or the tool name it is about.                                 *)
THEOREM TypeCorrect == Spec => []TypeOK
<1>1. TypeInv => TypeOK
  BY DEF TypeInv
<1>2. QED
  BY <1>1, TypeInvInit, TypeInvNext, PTL DEF Spec

----------------------------------------------------------------------------
(* Lifetimes.  A mark covers l when it is alive at least as long as l is.  *)

Covers(mark, l) == Alive(l) => mark = Forever \/ (l # Forever /\ mark >= l)

LEMMA CoversAlive ==
    ASSUME NEW mark \in Life, NEW l \in Life, Covers(mark, l), Alive(l)
    PROVE  Alive(mark)
BY DEF Covers, Alive, Life, Forever

LEMMA CoversOlder ==
    ASSUME NEW mark \in Life, NEW l \in Life, Covers(mark, l)
    PROVE  Covers(Older(mark), Older(l)) /\ Covers(mark, Older(l))
BY DEF Covers, Alive, Older, Life, Forever

LEMMA OlderAlive ==
    ASSUME NEW l \in Life, Alive(Older(l))
    PROVE  Alive(l)
BY DEF Alive, Older, Life, Forever

(* What Begin starts to count down never exceeds a fresh mark's lifetime, so *)
(* a mark written after Begin covers it.                                     *)
LeftInv == \A h \in Hops : Covers(Lifetime, left[h])

LEMMA LeftInvInit == Init => LeftInv
BY DEF Init, LeftInv, Covers, Alive

LEMMA LeftInvNext == TypeInv /\ LeftInv /\ [Next]_vars => LeftInv'
<1> SUFFICES ASSUME TypeInv, LeftInv, [Next]_vars
             PROVE  LeftInv'
  OBVIOUS
<1> USE DEF LeftInv
<1>1. ASSUME NEW h \in Hops, Begin(h)
      PROVE  LeftInv'
  <2>1. Covers(Lifetime, Lifetime)
    BY LifetimeIsLife DEF Covers, Life, Forever
  <2>2. QED
    BY <1>1, <2>1 DEF Begin, TypeInv, TypeOK
<1>2. CASE UNCHANGED left
  BY <1>2
<1>3. CASE Tick
  BY <1>3, CoversOlder, LifetimeIsLife DEF Tick, TypeInv, TypeOK
<1>4. CASE Crash
  BY <1>4 DEF Crash, Covers, Alive
<1>5. QED
  BY <1>1, <1>2, <1>3, <1>4 DEF Next, Step, vars, Normalize, ReadTaint, ReadPin, WritePin,
     ReadBlocked, Decide, WriteTaint, WriteBlock, Fail, FailAfterWrite, Lands, FailHop, ToOnError, Emit, EmitLost, DropEvent,
     Quiet

----------------------------------------------------------------------------
(* What each hop knows of itself: a verdict is the policy's on what was    *)
(* read, or the on_error one; the hops before it have returned.            *)

Decided == {"taint", "block", "emit", "done"}

HopInv ==
    \A h \in Hops :
        /\ failed[h] => pc[h] \in {"emit", "done", "aborted"} /\ verdict[h] = OnErrorVerdict
        /\ pc[h] \in Decided /\ ~failed[h] => verdict[h] = Decision(req[h], read[h])
        /\ pc[h] = "idle" => before[h] = {}
        /\ \A g \in before[h] : pc[g] = "done"

LEMMA HopInvInit == Init => HopInv
BY DEF Init, HopInv, Decided

LEMMA CrashAborts ==
    ASSUME Crash
    PROVE  \A h \in Hops : \/ pc'[h] = pc[h]
                           \/ pc'[h] = "aborted" /\ pc[h] \notin {"idle", "done", "aborted"}
<1>1. PICK dead \in SUBSET InFlight :
        pc' = [h \in Hops |-> IF h \in dead THEN "aborted" ELSE pc[h]]
  BY DEF Crash
<1>2. QED
  BY <1>1 DEF InFlight, Fallible

LEMMA HopInvNext == TypeInv /\ HopInv /\ [Next]_vars => HopInv'
<1> SUFFICES ASSUME TypeInv, HopInv, [Next]_vars
             PROVE  HopInv'
  OBVIOUS
<1> USE DEF TypeInv, TypeOK, HopInv, Decided, Goto, Quiet
<1>1. ASSUME NEW h \in Hops, Begin(h)
      PROVE  HopInv'
  BY <1>1 DEF Begin
<1>2. ASSUME NEW h \in Hops, Normalize(h)
      PROVE  HopInv'
  BY <1>2 DEF Normalize, AfterNormalize
<1>3. ASSUME NEW h \in Hops, ReadTaint(h)
      PROVE  HopInv'
  BY <1>3 DEF ReadTaint, AfterTainted
<1>4. ASSUME NEW h \in Hops, ReadPin(h)
      PROVE  HopInv'
  BY <1>4 DEF ReadPin
<1>5. ASSUME NEW h \in Hops, WritePin(h)
      PROVE  HopInv'
  BY <1>5 DEF WritePin
<1>6. ASSUME NEW h \in Hops, ReadBlocked(h)
      PROVE  HopInv'
  BY <1>6 DEF ReadBlocked
<1>7. ASSUME NEW h \in Hops, Decide(h)
      PROVE  HopInv'
  <2>1. AfterDecide(req[h], Decision(req[h], read[h])) \in {"taint", "block", "emit"}
    BY DEF AfterDecide, AfterTaint
  <2>2. QED
    BY <1>7, <2>1 DEF Decide
<1>8. ASSUME NEW h \in Hops, WriteTaint(h)
      PROVE  HopInv'
  BY <1>8 DEF WriteTaint, AfterTaint
<1>9. ASSUME NEW h \in Hops, WriteBlock(h)
      PROVE  HopInv'
  BY <1>9 DEF WriteBlock
<1>10. ASSUME NEW h \in Hops, pc[h] \in Fallible, FailHop(h)
       PROVE  HopInv'
  BY <1>10 DEF FailHop, ToOnError, Fallible
<1>11. ASSUME NEW h \in Hops, Emit(h) \/ EmitLost(h)
       PROVE  HopInv'
  <2>1. /\ pc[h] = "emit" /\ pc' = [pc EXCEPT ![h] = "done"]
        /\ UNCHANGED <<req, read, verdict, failed, before>>
    BY <1>11 DEF Emit, EmitLost, DropEvent
  <2>2. QED
    BY <2>1
<1>12. CASE Tick \/ UNCHANGED vars
  <2>1. UNCHANGED hopVars /\ UNCHANGED before
    BY <1>12 DEF Tick, vars
  <2>2. UNCHANGED <<pc, req, read, verdict, failed>>
    BY <2>1 DEF hopVars
  <2>3. QED
    BY <2>1, <2>2
<1>13. CASE Crash
  <2>1. \A h \in Hops : pc'[h] = pc[h] \/ (pc'[h] = "aborted" /\ pc[h] \notin {"idle", "done"})
    BY <1>13, CrashAborts
  <2>2. UNCHANGED <<req, read, verdict, failed, before>>
    BY <1>13 DEF Crash
  <2>3. QED
    BY <2>1, <2>2
<1>14. QED
  BY <1>1, <1>2, <1>3, <1>4, <1>5, <1>6, <1>7, <1>8, <1>9, <1>10, <1>11, <1>12, <1>13
  DEF Next, Step, Fail, FailAfterWrite, Lands, Fallible

----------------------------------------------------------------------------
(* The taint mark of a hop whose verdict taints: written before the        *)
(* verdict leaves, alive as long as the hop's count-down.                  *)

TaintInv ==
    \A h \in Hops :
        pc[h] \in {"block", "emit", "done"} /\ ~failed[h] /\ verdict[h].taint /\ InSession(req[h])
            => Covers(taint[req[h].session], left[h])

LEMMA TaintInvInit == Init => TaintInv
BY DEF Init, TaintInv

(* Writing marks, by a stage or by a reply that got lost, only lengthens them. *)
LEMMA TaintKeepsCover ==
    ASSUME TypeInv, LeftInv, NEW s \in Sessions, Taint(s),
           NEW h \in Hops, NEW t \in Sessions, Covers(taint[t], left[h])
    PROVE  Covers(taint'[t], left[h])
BY DEF Taint, LeftInv, TypeInv, TypeOK, StoreTypeOK

LEMMA TaintInvNext == TypeInv /\ LeftInv /\ HopInv /\ TaintInv /\ [Next]_vars => TaintInv'
<1> SUFFICES ASSUME TypeInv, LeftInv, HopInv, TaintInv, [Next]_vars
             PROVE  TaintInv'
  OBVIOUS
<1> USE DEF TaintInv, Goto
<1>0. /\ pc \in [Hops -> Stages] /\ req \in [Hops -> Request]
      /\ \A h \in Hops : pc[h] \in {"tainted", "taint"} => InSession(req[h])
      /\ \A h \in Hops : InSession(req[h]) => req[h].session \in Sessions
      /\ verdict \in [Hops -> Verdict] /\ failed \in [Hops -> BOOLEAN]
      /\ taint \in [Sessions -> Life] /\ left \in [Hops -> Life]
  BY RequestsAreTyped DEF TypeInv, TypeOK, StageOK, StoreTypeOK
<1>1. ASSUME NEW h \in Hops, Begin(h)
      PROVE  TaintInv'
  BY <1>0, <1>1 DEF Begin, storeVars
<1>2. ASSUME NEW h \in Hops, pc'[h] \notin {"block", "emit", "done"},
             pc' = [pc EXCEPT ![h] = pc'[h]],
             UNCHANGED <<taint, req, verdict, failed, left>>
      PROVE  TaintInv'
  BY <1>0, <1>2
<1>3. ASSUME NEW h \in Hops, Decide(h)
      PROVE  TaintInv'
  <2> DEFINE v == Decision(req[h], read[h])
  <2>1. v.taint /\ InSession(req[h]) => AfterDecide(req[h], v) = "taint"
    BY DEF AfterDecide
  <2>2. verdict' = [verdict EXCEPT ![h] = v] /\ pc' = [pc EXCEPT ![h] = AfterDecide(req[h], v)]
        /\ UNCHANGED <<taint, req, failed, left>>
    BY <1>3 DEF Decide, storeVars, Quiet
  <2> HIDE DEF v
  <2>3. QED
    BY <1>0, <2>1, <2>2
<1>4. ASSUME NEW h \in Hops, WriteTaint(h)
      PROVE  TaintInv'
  <2>1. InSession(req[h]) /\ req[h].session \in Sessions
    BY <1>0, <1>4 DEF WriteTaint
  <2>2. Covers(taint'[req[h].session], left[h])
    BY <1>0, <1>4, <2>1 DEF WriteTaint, Taint, LeftInv
  <2>3. \A g \in Hops, t \in Sessions : Covers(taint[t], left[g]) => Covers(taint'[t], left[g])
    BY <1>4, <2>1, TaintKeepsCover DEF WriteTaint
  <2>4. UNCHANGED <<req, verdict, failed, left>> /\ \A g \in Hops : g # h => pc'[g] = pc[g]
    BY <1>0, <1>4 DEF WriteTaint, Quiet
  <2>5. QED
    BY <1>0, <2>1, <2>2, <2>3, <2>4
<1>5. ASSUME NEW h \in Hops, WriteBlock(h) \/ Emit(h) \/ EmitLost(h)
      PROVE  TaintInv'
  <2>1. /\ pc[h] \in {"block", "emit"} /\ \A g \in Hops : g # h => pc'[g] = pc[g]
        /\ UNCHANGED <<taint, req, verdict, failed, left>>
    BY <1>0, <1>5 DEF WriteBlock, BlockTool, Emit, EmitLost, DropEvent, storeVars, Quiet
  <2>2. QED
    BY <1>0, <2>1
<1>6. ASSUME NEW h \in Hops, FailHop(h),
             \A g \in Hops, t \in Sessions : Covers(taint[t], left[g]) => Covers(taint'[t], left[g])
      PROVE  TaintInv'
  <2>1. /\ failed'[h] /\ UNCHANGED <<req, left>>
        /\ \A g \in Hops : g # h => pc'[g] = pc[g] /\ verdict'[g] = verdict[g] /\ failed'[g] = failed[g]
    BY <1>0, <1>6 DEF FailHop, ToOnError
  <2>2. QED
    BY <1>0, <1>6, <2>1
<1>7. ASSUME NEW h \in Hops, Fail(h) \/ FailAfterWrite(h)
      PROVE  TaintInv'
  <2>1. FailHop(h) /\ (UNCHANGED taint \/ (pc[h] = "taint" /\ Taint(req[h].session)))
    BY <1>7 DEF Fail, FailAfterWrite, Lands, PinTool, BlockTool, storeVars
  <2>2. pc[h] = "taint" => req[h].session \in Sessions
    BY <1>0
  <2>3. \A g \in Hops, t \in Sessions : Covers(taint[t], left[g]) => Covers(taint'[t], left[g])
    BY <2>1, <2>2, TaintKeepsCover
  <2>4. QED
    BY <1>6, <2>1, <2>3
<1>8. CASE Tick
  <2>1. UNCHANGED <<pc, req, verdict, failed>>
    BY <1>8 DEF Tick, hopVars
  <2>2. \A h \in Hops, s \in Sessions : Covers(taint[s], left[h]) => Covers(taint'[s], left'[h])
    BY <1>0, <1>8, CoversOlder DEF Tick, TickStore
  <2>3. QED
    BY <1>0, <2>1, <2>2
<1>9. CASE Crash
  <2>1. UNCHANGED <<req, verdict, failed>>
    BY <1>9 DEF Crash
  <2>2. \A h \in Hops, s \in Sessions : Covers(taint[s], left[h]) => Covers(taint'[s], left'[h])
    BY <1>0, <1>9 DEF Crash, ClearStore, storeVars, Covers, Alive
  <2>3. QED
    BY <1>0, <1>9, <2>1, <2>2, CrashAborts
<1>10. CASE UNCHANGED vars
  BY <1>10 DEF vars, storeVars, hopVars
<1>11. ASSUME NEW h \in Hops, Normalize(h) \/ ReadTaint(h) \/ ReadPin(h) \/ WritePin(h) \/ ReadBlocked(h)
       PROVE  TaintInv'
  <2>1. /\ pc'[h] \notin {"block", "emit", "done"} /\ pc' = [pc EXCEPT ![h] = pc'[h]]
        /\ UNCHANGED <<taint, req, verdict, failed, left>>
    BY <1>0, <1>11 DEF Normalize, ReadTaint, ReadPin, WritePin, ReadBlocked, AfterNormalize,
       AfterTainted, PinTool, storeVars, Quiet
  <2>2. QED
    BY <1>2, <2>1
<1>12. QED
  BY <1>1, <1>3, <1>4, <1>5, <1>7, <1>8, <1>9, <1>10, <1>11 DEF Next, Step

----------------------------------------------------------------------------
(* The mark of a tool whose definition the policy blocked.                 *)

BlockInv ==
    \A h \in Hops :
        pc[h] \in {"emit", "done"} /\ ~failed[h] /\ verdict[h].action = "block"
        /\ IsDefinition(req[h])
            => Covers(blocked[Key(req[h])], left[h])

LEMMA BlockInvInit == Init => BlockInv
BY DEF Init, BlockInv

LEMMA BlockKeepsCover ==
    ASSUME TypeInv, LeftInv, NEW k \in Keys, BlockTool(k),
           NEW h \in Hops, NEW j \in Keys, Covers(blocked[j], left[h])
    PROVE  Covers(blocked'[j], left[h])
BY DEF BlockTool, LeftInv, TypeInv, TypeOK, StoreTypeOK

LEMMA BlockInvNext == TypeInv /\ LeftInv /\ HopInv /\ BlockInv /\ [Next]_vars => BlockInv'
<1> SUFFICES ASSUME TypeInv, LeftInv, HopInv, BlockInv, [Next]_vars
             PROVE  BlockInv'
  OBVIOUS
<1> USE DEF BlockInv, Goto
<1>0. /\ pc \in [Hops -> Stages] /\ req \in [Hops -> Request]
      /\ \A h \in Hops : pc[h] = "block" => IsDefinition(req[h])
      /\ \A h \in Hops : IsDefinition(req[h]) => Key(req[h]) \in Keys
      /\ verdict \in [Hops -> Verdict] /\ failed \in [Hops -> BOOLEAN]
      /\ blocked \in [Keys -> Life] /\ left \in [Hops -> Life]
  BY RequestsAreTyped DEF TypeInv, TypeOK, StageOK, StoreTypeOK, IsDefinition
<1>1. ASSUME NEW h \in Hops, Begin(h)
      PROVE  BlockInv'
  BY <1>0, <1>1 DEF Begin, storeVars
<1>2. ASSUME NEW h \in Hops, Normalize(h) \/ ReadTaint(h) \/ ReadPin(h) \/ WritePin(h) \/ ReadBlocked(h)
      PROVE  BlockInv'
  <2>1. /\ pc'[h] \notin {"emit", "done"} /\ pc' = [pc EXCEPT ![h] = pc'[h]]
        /\ UNCHANGED <<blocked, req, verdict, failed, left>>
    BY <1>0, <1>2 DEF Normalize, ReadTaint, ReadPin, WritePin, ReadBlocked, AfterNormalize,
       AfterTainted, PinTool, storeVars, Quiet
  <2>2. QED
    BY <1>0, <2>1
<1>3. ASSUME NEW h \in Hops, Decide(h)
      PROVE  BlockInv'
  <2> DEFINE v == Decision(req[h], read[h])
  <2>1. v.action = "block" /\ IsDefinition(req[h]) => AfterDecide(req[h], v) \in {"taint", "block"}
    BY DEF AfterDecide, AfterTaint
  <2>2. verdict' = [verdict EXCEPT ![h] = v] /\ pc' = [pc EXCEPT ![h] = AfterDecide(req[h], v)]
        /\ UNCHANGED <<blocked, req, failed, left>>
    BY <1>3 DEF Decide, storeVars, Quiet
  <2> HIDE DEF v
  <2>3. QED
    BY <1>0, <2>1, <2>2
<1>4. ASSUME NEW h \in Hops, WriteTaint(h)
      PROVE  BlockInv'
  <2>1. verdict[h].action = "block" /\ IsDefinition(req[h]) => AfterTaint(req[h], verdict[h]) = "block"
    BY DEF AfterTaint
  <2>2. pc' = [pc EXCEPT ![h] = AfterTaint(req[h], verdict[h])]
        /\ UNCHANGED <<blocked, req, verdict, failed, left>>
    BY <1>4 DEF WriteTaint, Taint, Quiet
  <2>3. QED
    BY <1>0, <2>1, <2>2
<1>5. ASSUME NEW h \in Hops, WriteBlock(h)
      PROVE  BlockInv'
  <2>1. Key(req[h]) \in Keys
    BY <1>0, <1>5 DEF WriteBlock
  <2>2. Covers(blocked'[Key(req[h])], left[h])
    BY <1>0, <1>5, <2>1 DEF WriteBlock, BlockTool, LeftInv
  <2>3. \A g \in Hops, j \in Keys : Covers(blocked[j], left[g]) => Covers(blocked'[j], left[g])
    BY <1>5, <2>1, BlockKeepsCover DEF WriteBlock
  <2>4. UNCHANGED <<req, verdict, failed, left>> /\ \A g \in Hops : g # h => pc'[g] = pc[g]
    BY <1>0, <1>5 DEF WriteBlock, Quiet
  <2>5. QED
    BY <1>0, <2>1, <2>2, <2>3, <2>4
<1>6. ASSUME NEW h \in Hops, Emit(h) \/ EmitLost(h)
      PROVE  BlockInv'
  <2>1. /\ pc[h] = "emit" /\ \A g \in Hops : g # h => pc'[g] = pc[g]
        /\ UNCHANGED <<blocked, req, verdict, failed, left>>
    BY <1>0, <1>6 DEF Emit, EmitLost, DropEvent, storeVars
  <2>2. QED
    BY <1>0, <2>1
<1>7. ASSUME NEW h \in Hops, Fail(h) \/ FailAfterWrite(h)
      PROVE  BlockInv'
  <2>1. FailHop(h) /\ (UNCHANGED blocked \/ (pc[h] = "block" /\ BlockTool(Key(req[h]))))
    BY <1>7 DEF Fail, FailAfterWrite, Lands, PinTool, Taint, storeVars
  <2>2. pc[h] = "block" => Key(req[h]) \in Keys
    BY <1>0
  <2>3. \A g \in Hops, j \in Keys : Covers(blocked[j], left[g]) => Covers(blocked'[j], left[g])
    BY <2>1, <2>2, BlockKeepsCover
  <2>4. /\ failed'[h] /\ UNCHANGED <<req, left>>
        /\ \A g \in Hops : g # h => pc'[g] = pc[g] /\ verdict'[g] = verdict[g] /\ failed'[g] = failed[g]
    BY <1>0, <2>1 DEF FailHop, ToOnError
  <2>5. QED
    BY <1>0, <2>3, <2>4
<1>8. CASE Tick
  <2>1. UNCHANGED <<pc, req, verdict, failed>>
    BY <1>8 DEF Tick, hopVars
  <2>2. \A h \in Hops, k \in Keys : Covers(blocked[k], left[h]) => Covers(blocked'[k], left'[h])
    BY <1>0, <1>8, CoversOlder DEF Tick, TickStore
  <2>3. QED
    BY <1>0, <2>1, <2>2
<1>9. CASE Crash
  <2>1. UNCHANGED <<req, verdict, failed>>
    BY <1>9 DEF Crash
  <2>2. \A h \in Hops, k \in Keys : Covers(blocked[k], left[h]) => Covers(blocked'[k], left'[h])
    BY <1>0, <1>9 DEF Crash, ClearStore, storeVars, Covers, Alive
  <2>3. QED
    BY <1>0, <1>9, <2>1, <2>2, CrashAborts
<1>10. CASE UNCHANGED vars
  BY <1>10 DEF vars, storeVars, hopVars
<1>11. QED
  BY <1>1, <1>2, <1>3, <1>4, <1>5, <1>6, <1>7, <1>8, <1>9, <1>10 DEF Next, Step

----------------------------------------------------------------------------
(* What a hop has read reflects the marks of the hops before it.           *)

HasReadTaint == {"pin", "pinwrite", "toolblocked", "decide", "taint", "block", "emit", "done"}

ReadInv ==
    \A g, h \in Hops :
        StillBinds(g, h) /\ ~failed[g] /\ ~failed[h] =>
            /\ SameSession(g, h) /\ verdict[g].taint /\ pc[h] \in HasReadTaint => read[h].tainted
            /\ SameTool(g, h) /\ IsDefinition(req[g]) /\ verdict[g].action = "block"
               /\ IsCall(req[h]) /\ pc[h] \in HasReadTaint \ {"toolblocked"} => read[h].toolBlocked

LEMMA ReadInvInit == Init => ReadInv
BY DEF Init, ReadInv, StillBinds

LEMMA ReadInvNext ==
    TypeInv /\ LeftInv /\ HopInv /\ TaintInv /\ BlockInv /\ ReadInv /\ [Next]_vars => ReadInv'
<1> SUFFICES ASSUME TypeInv, LeftInv, HopInv, TaintInv, BlockInv, ReadInv, [Next]_vars
             PROVE  ReadInv'
  OBVIOUS
<1> USE DEF ReadInv, HasReadTaint, StillBinds, SameSession, SameTool, Goto
<1>0. /\ pc \in [Hops -> Stages] /\ req \in [Hops -> Request]
      /\ read \in [Hops -> [tainted : BOOLEAN, pinChanged : BOOLEAN, toolBlocked : BOOLEAN]]
      /\ verdict \in [Hops -> Verdict] /\ failed \in [Hops -> BOOLEAN]
      /\ before \in [Hops -> SUBSET Hops] /\ left \in [Hops -> Life]
      /\ taint \in [Sessions -> Life] /\ blocked \in [Keys -> Life]
  BY DEF TypeInv, TypeOK, StoreTypeOK
<1>1. \A h \in Hops : \A g \in before[h] : pc[g] = "done" /\ pc[h] # "idle"
  BY DEF HopInv
<1>2. ASSUME NEW h \in Hops, Begin(h)
      PROVE  ReadInv'
  BY <1>0, <1>1, <1>2 DEF Begin
<1>3. ASSUME NEW h \in Hops, Normalize(h)
      PROVE  ReadInv'
  BY <1>0, <1>1, <1>3 DEF Normalize, AfterNormalize, InSession, IsCall, Keyed, Quiet
<1>4. ASSUME NEW h \in Hops, ReadTaint(h)
      PROVE  ReadInv'
  <2>1. \A g \in before[h] : Alive(left[g]) /\ ~failed[g] /\ SameSession(g, h) /\ verdict[g].taint
                             => Tainted(req[h].session)
    BY <1>0, <1>1, CoversAlive, RequestsAreTyped DEF TaintInv, Tainted
  <2>2. AfterTainted(req[h]) \in {"pin", "toolblocked", "decide"}
        /\ (IsCall(req[h]) => AfterTainted(req[h]) = "toolblocked")
    BY DEF AfterTainted, IsCall, IsDefinition
  <2>3. /\ pc[h] = "tainted" /\ pc' = [pc EXCEPT ![h] = AfterTainted(req[h])]
        /\ read'[h].tainted = Tainted(req[h].session)
        /\ \A i \in Hops : i # h => read'[i] = read[i]
        /\ UNCHANGED <<req, verdict, failed, before, left>>
    BY <1>0, <1>4 DEF ReadTaint, Quiet
  <2>4. ASSUME NEW g \in Hops, NEW i \in Hops, StillBinds(g, i)', ~failed'[g], ~failed'[i]
        PROVE  /\ SameSession(g, i)' /\ verdict'[g].taint /\ pc'[i] \in HasReadTaint => read'[i].tainted
               /\ SameTool(g, i)' /\ IsDefinition(req'[g]) /\ verdict'[g].action = "block"
                  /\ IsCall(req'[i]) /\ pc'[i] \in HasReadTaint \ {"toolblocked"} => read'[i].toolBlocked
    <3>1. CASE i = h
      BY <1>0, <2>1, <2>2, <2>3, <2>4, <3>1
    <3>2. CASE i # h
      BY <1>0, <2>3, <2>4, <3>2
    <3>3. QED
      BY <3>1, <3>2
  <2>5. QED
    BY <2>4
<1>5. ASSUME NEW h \in Hops, ReadPin(h) \/ WritePin(h)
      PROVE  ReadInv'
  <2>1. /\ pc[h] \in {"pin", "pinwrite"} /\ pc' = [pc EXCEPT ![h] = pc'[h]]
        /\ \A g \in Hops : read'[g].tainted = read[g].tainted /\ read'[g].toolBlocked = read[g].toolBlocked
        /\ UNCHANGED <<req, verdict, failed, before, left>>
    <3>1. CASE ReadPin(h)
      BY <1>0, <3>1 DEF ReadPin, Quiet
    <3>2. CASE WritePin(h)
      BY <1>0, <3>2 DEF WritePin, Quiet
    <3>3. QED
      BY <1>5, <3>1, <3>2
  <2>2. IsDefinition(req[h]) /\ ~IsCall(req[h])
    BY <2>1 DEF TypeInv, StageOK, IsDefinition, IsCall
  <2>3. QED
    BY <1>0, <1>1, <2>1, <2>2
<1>6. ASSUME NEW h \in Hops, ReadBlocked(h)
      PROVE  ReadInv'
  <2>1. \A g \in before[h] : Alive(left[g]) /\ ~failed[g] /\ SameTool(g, h) /\ IsDefinition(req[g])
                             /\ verdict[g].action = "block" => ToolBlocked(Key(req[h]))
    BY <1>0, <1>1, CoversAlive, RequestsAreTyped DEF BlockInv, ToolBlocked
  <2>2. /\ pc[h] = "toolblocked" /\ pc' = [pc EXCEPT ![h] = "decide"]
        /\ read'[h].toolBlocked = ToolBlocked(Key(req[h])) /\ read'[h].tainted = read[h].tainted
        /\ \A i \in Hops : i # h => read'[i] = read[i]
        /\ UNCHANGED <<req, verdict, failed, before, left>>
    BY <1>0, <1>6 DEF ReadBlocked, Quiet
  <2>3. ASSUME NEW g \in Hops, NEW i \in Hops, StillBinds(g, i)', ~failed'[g], ~failed'[i]
        PROVE  /\ SameSession(g, i)' /\ verdict'[g].taint /\ pc'[i] \in HasReadTaint => read'[i].tainted
               /\ SameTool(g, i)' /\ IsDefinition(req'[g]) /\ verdict'[g].action = "block"
                  /\ IsCall(req'[i]) /\ pc'[i] \in HasReadTaint \ {"toolblocked"} => read'[i].toolBlocked
    <3>1. CASE i = h
      BY <1>0, <2>1, <2>2, <2>3, <3>1
    <3>2. CASE i # h
      BY <1>0, <2>2, <2>3, <3>2
    <3>3. QED
      BY <3>1, <3>2
  <2>4. QED
    BY <2>3
<1>7. ASSUME NEW h \in Hops, Decide(h)
      PROVE  ReadInv'
  <2>1. /\ pc[h] = "decide" /\ pc' = [pc EXCEPT ![h] = pc'[h]] /\ pc'[h] # "toolblocked"
        /\ verdict' = [verdict EXCEPT ![h] = verdict'[h]]
        /\ UNCHANGED <<req, read, failed, before, left>>
    BY <1>0, <1>7 DEF Decide, AfterDecide, AfterTaint, Quiet
  <2>2. \A g, i \in Hops : g \in before[i] => g # h
    BY <1>1, <2>1
  <2>3. QED
    BY <1>0, <1>1, <2>1, <2>2
<1>8. ASSUME NEW h \in Hops, WriteTaint(h) \/ WriteBlock(h) \/ Emit(h) \/ EmitLost(h)
      PROVE  ReadInv'
  <2>1. /\ pc[h] \in {"taint", "block", "emit"} /\ pc' = [pc EXCEPT ![h] = pc'[h]]
        /\ pc'[h] # "toolblocked"
        /\ UNCHANGED <<req, read, verdict, failed, before, left>>
    BY <1>0, <1>8 DEF WriteTaint, WriteBlock, Emit, EmitLost, DropEvent, AfterTaint, Quiet
  <2>2. QED
    BY <1>0, <1>1, <2>1
<1>9. ASSUME NEW h \in Hops, Fail(h) \/ FailAfterWrite(h)
      PROVE  ReadInv'
  <2>1. /\ pc[h] \in Fallible /\ failed'[h] /\ UNCHANGED <<req, read, before, left>>
        /\ \A g \in Hops : g # h => pc'[g] = pc[g] /\ verdict'[g] = verdict[g] /\ failed'[g] = failed[g]
    BY <1>0, <1>9 DEF Fail, FailAfterWrite, Lands, FailHop, ToOnError, Fallible
  <2>2. \A g, i \in Hops : g \in before[i] => g # h
    BY <1>1, <2>1 DEF Fallible
  <2>3. QED
    BY <1>0, <1>1, <2>1, <2>2
<1>10. CASE Tick
  <2>1. UNCHANGED <<pc, req, read, verdict, failed, before>>
    BY <1>10 DEF Tick, hopVars
  <2>2. \A g \in Hops : Alive(left'[g]) => Alive(left[g])
    BY <1>0, <1>10, OlderAlive DEF Tick
  <2>3. QED
    BY <1>0, <2>1, <2>2
<1>11. CASE Crash
  <2>1. UNCHANGED <<req, read, verdict, failed, before>>
    BY <1>11 DEF Crash
  <2>2. \A g \in Hops : Alive(left'[g]) => Alive(left[g])
    BY <1>11 DEF Crash, Alive
  <2>3. QED
    BY <1>0, <1>11, <2>1, <2>2, CrashAborts
<1>12. CASE UNCHANGED vars
  BY <1>12 DEF vars, hopVars
<1>13. QED
  BY <1>2, <1>3, <1>4, <1>5, <1>6, <1>7, <1>8, <1>9, <1>10, <1>11, <1>12 DEF Next, Step

----------------------------------------------------------------------------
(* The promises.                                                           *)

IInv == TypeInv /\ LeftInv /\ HopInv /\ TaintInv /\ BlockInv /\ ReadInv

LEMMA Inductive == Spec => []IInv
<1>1. Init => IInv
  BY TypeInvInit, LeftInvInit, HopInvInit, TaintInvInit, BlockInvInit, ReadInvInit DEF IInv
<1>2. IInv /\ [Next]_vars => IInv'
  BY TypeInvNext, LeftInvNext, HopInvNext, TaintInvNext, BlockInvNext, ReadInvNext DEF IInv
<1>3. QED
  BY <1>1, <1>2, PTL DEF Spec

LEMMA FailedIsBlocked ==
    ASSUME HopInv, FailsClosed, NEW h \in Hops, failed[h]
    PROVE  verdict[h].action = "block"
BY DEF HopInv, OnErrorVerdict, FailsClosed

(* Once poisoned content has been let through in a session, later hops of    *)
(* the session are evaluated as tainted or refused, for as long as the mark  *)
(* may live.                                                                 *)
THEOREM PoisonRemembered == Spec => []PoisonIsRemembered
<1>1. IInv => PoisonIsRemembered
  <2> SUFFICES ASSUME IInv, NEW g \in Hops, NEW h \in Hops,
                      StillBinds(g, h), SameSession(g, h), FailsClosed,
                      Poisoned(req[g]), verdict[g].action # "block", pc[h] = "done", ~failed[h]
               PROVE  read[h].tainted
    BY FailedIsBlocked DEF IInv, PoisonIsRemembered
  <2>1. ~failed[g]
    BY FailedIsBlocked DEF IInv
  <2>2. pc[g] = "done"
    BY DEF IInv, HopInv, StillBinds
  <2>3. verdict[g] = Decision(req[g], read[g])
    BY <2>1, <2>2 DEF IInv, HopInv, Decided
  <2>4. read[g].tainted \in BOOLEAN /\ read[g].pinChanged \in BOOLEAN
    BY DEF IInv, TypeInv, TypeOK
  <2>5. verdict[g].taint
    BY <2>3, <2>4 DEF Decision, Poisoned
  <2>6. QED
    BY <2>1, <2>5 DEF IInv, ReadInv, HasReadTaint
<1>2. QED
  BY <1>1, Inductive, PTL

(* A call to a tool the policy removed earlier in the session is refused,    *)
(* whatever the rules say of the call, for as long as the mark may live.     *)
THEOREM RemovedToolRefused == Spec => []RemovedToolIsRefused
<1>1. IInv => RemovedToolIsRefused
  <2> SUFFICES ASSUME IInv, NEW g \in Hops, NEW h \in Hops,
                      StillBinds(g, h), SameTool(g, h), FailsClosed,
                      IsDefinition(req[g]), verdict[g].action = "block", ~failed[g],
                      IsCall(req[h]), pc[h] = "done", ~failed[h]
               PROVE  verdict[h].action = "block"
    BY FailedIsBlocked DEF IInv, RemovedToolIsRefused
  <2>1. read[h].toolBlocked
    BY DEF IInv, ReadInv, HasReadTaint
  <2>2. verdict[h] = Decision(req[h], read[h])
    BY DEF IInv, HopInv, Decided
  <2>3. QED
    BY <2>1, <2>2 DEF Decision
<1>2. QED
  BY <1>1, Inductive, PTL

----------------------------------------------------------------------------
(* The approved hash.  A hop about to write a pin found none; if there is  *)
(* one now, another hop of that tool has written it since.                 *)

Overlapped(h) ==
    \E g \in Hops : /\ g # h /\ IsDefinition(req[g]) /\ Key(req[g]) = Key(req[h])
                    /\ pc[g] # "idle" /\ g \notin before[h]

PinInv ==
    /\ \A k \in Keys : pins[k].hash = NoHash => ~Alive(pins[k].left)
    /\ \A h \in Hops : pc[h] = "pinwrite" /\ Alive(pins[Key(req[h])].left) => Overlapped(h)

LEMMA PinInvInit == Init => PinInv
BY DEF Init, EmptyStore, PinInv, NoPin, Alive

LEMMA PinInvNext == TypeInv /\ HopInv /\ PinInv /\ [Next]_vars => PinInv'
<1> SUFFICES ASSUME TypeInv, HopInv, PinInv, [Next]_vars
             PROVE  PinInv'
  OBVIOUS
<1> USE DEF PinInv, Overlapped, Goto
<1>0. /\ pc \in [Hops -> Stages] /\ req \in [Hops -> Request]
      /\ before \in [Hops -> SUBSET Hops]
      /\ pins \in [Keys -> [hash : Hashes \cup {NoHash}, left : Life]]
      /\ \A h \in Hops : pc[h] \in {"pin", "pinwrite"} => IsDefinition(req[h]) /\ Key(req[h]) \in Keys
      /\ \A h \in Hops : \A g \in before[h] : pc[g] = "done"
      /\ \A h \in Hops : pc[h] = "idle" => before[h] = {}
  BY RequestsAreTyped DEF TypeInv, TypeOK, StageOK, StoreTypeOK, IsDefinition, HopInv
<1>1. ASSUME NEW h \in Hops, Begin(h)
      PROVE  PinInv'
  <2>1. /\ pins' = pins /\ pc[h] = "idle" /\ pc' = [pc EXCEPT ![h] = "normalize"]
        /\ \A g \in Hops \ {h} : pc'[g] = pc[g] /\ req'[g] = req[g] /\ before'[g] = before[g]
    BY <1>0, <1>1 DEF Begin, storeVars
  <2>2. ASSUME NEW i \in Hops, pc'[i] = "pinwrite", Alive(pins[Key(req'[i])].left)
        PROVE  Overlapped(i)'
    <3>1. i # h /\ pc[i] = "pinwrite" /\ req'[i] = req[i] /\ before'[i] = before[i]
      BY <1>0, <2>1, <2>2
    <3>2. PICK g \in Hops : /\ g # i /\ IsDefinition(req[g]) /\ Key(req[g]) = Key(req[i])
                            /\ pc[g] # "idle" /\ g \notin before[i]
      BY <2>2, <3>1
    <3>3. QED
      BY <1>0, <2>1, <3>1, <3>2
  <2>3. QED
    BY <2>1, <2>2
<1>2. ASSUME UNCHANGED <<pins, req, before>>,
             \A h \in Hops : /\ pc'[h] = "pinwrite" => pc[h] = "pinwrite"
                             /\ pc'[h] = "idle" => pc[h] = "idle"
      PROVE  PinInv'
  BY <1>0, <1>2
<1>3. ASSUME NEW h \in Hops, ReadPin(h)
      PROVE  PinInv'
  <2>1. /\ pc[h] = "pin" /\ (pc'[h] = "pinwrite" => pins[Key(req[h])].hash = NoHash)
        /\ pc' = [pc EXCEPT ![h] = pc'[h]] /\ pc'[h] # "idle" /\ UNCHANGED <<pins, req, before>>
    BY <1>0, <1>3 DEF ReadPin, ToolPin, storeVars, Quiet
  <2>2. Key(req[h]) \in Keys
    BY <1>0, <2>1
  <2>3. QED
    BY <1>0, <2>1, <2>2
<1>4. ASSUME NEW h \in Hops, pc[h] = "pinwrite", PinTool(Key(req[h]), ContentHash[req[h].content]),
             pc'[h] \in {"decide", "emit"}, pc' = [pc EXCEPT ![h] = pc'[h]], UNCHANGED <<req, before>>
      PROVE  PinInv'
  <2>1. /\ Key(req[h]) \in Keys /\ IsDefinition(req[h]) /\ ContentHash[req[h].content] # NoHash
        /\ \A g \in Hops : h \notin before[g]
    BY <1>0, <1>4, RequestsAreTyped, StoreAssumption
  <2>2. QED
    BY <1>0, <1>4, <2>1 DEF PinTool
<1>5. ASSUME NEW h \in Hops, FailAfterWrite(h)
      PROVE  PinInv'
  <2>1. pc' = [pc EXCEPT ![h] = pc'[h]] /\ pc'[h] = "emit" /\ UNCHANGED <<req, before>>
        /\ pc[h] # "idle"
    BY <1>0, <1>5 DEF FailAfterWrite, Lands, FailHop, ToOnError
  <2>2. CASE pc[h] = "pinwrite"
    BY <1>4, <1>5, <2>1, <2>2 DEF FailAfterWrite, Lands
  <2>3. CASE pc[h] # "pinwrite"
    BY <1>0, <1>2, <1>5, <2>1, <2>3 DEF FailAfterWrite, Lands, Taint, BlockTool
  <2>4. QED
    BY <2>2, <2>3
<1>6. ASSUME NEW h \in Hops, WritePin(h)
      PROVE  PinInv'
  BY <1>0, <1>4, <1>6 DEF WritePin, Quiet
<1>7. CASE Tick
  <2>1. UNCHANGED <<pc, req, before>>
    BY <1>7 DEF Tick, hopVars
  <2>2. \A k \in Keys : /\ Alive(pins'[k].left) => Alive(pins[k].left)
                        /\ pins'[k].hash = NoHash => ~Alive(pins'[k].left)
    BY <1>0, <1>7 DEF Tick, TickStore, OlderPin, NoPin, Older, Alive, Life, Forever
  <2>3. QED
    BY <1>0, <2>1, <2>2
<1>8. CASE Crash
  <2>1. \A k \in Keys : /\ Alive(pins'[k].left) => Alive(pins[k].left)
                        /\ pins'[k].hash = NoHash => ~Alive(pins'[k].left)
    BY <1>8 DEF Crash, ClearStore, NoPin, storeVars, Alive
  <2>2. UNCHANGED <<req, before>>
    BY <1>8 DEF Crash
  <2>3. QED
    BY <1>0, <1>8, <2>1, <2>2, CrashAborts
<1>9. CASE UNCHANGED vars
  BY <1>2, <1>9 DEF vars, storeVars, hopVars
<1>10. ASSUME NEW h \in Hops,
              \/ Normalize(h) \/ ReadTaint(h) \/ ReadBlocked(h) \/ Decide(h) \/ WriteTaint(h)
              \/ WriteBlock(h) \/ Fail(h) \/ Emit(h) \/ EmitLost(h)
       PROVE  PinInv'
  <2>1. /\ pc' = [pc EXCEPT ![h] = pc'[h]] /\ pc'[h] \notin {"idle", "pinwrite"}
        /\ UNCHANGED <<pins, req, before>>
    <3> USE <1>0 DEF Quiet, storeVars
    <3>1. CASE Normalize(h)
      BY <3>1 DEF Normalize, AfterNormalize
    <3>2. CASE ReadTaint(h)
      BY <3>2 DEF ReadTaint, AfterTainted
    <3>3. CASE ReadBlocked(h)
      BY <3>3 DEF ReadBlocked
    <3>4. CASE Decide(h)
      BY <3>4 DEF Decide, AfterDecide, AfterTaint
    <3>5. CASE WriteTaint(h)
      BY <3>5 DEF WriteTaint, Taint, AfterTaint
    <3>6. CASE WriteBlock(h)
      BY <3>6 DEF WriteBlock, BlockTool
    <3>7. CASE Fail(h)
      BY <3>7 DEF Fail, FailHop, ToOnError
    <3>8. CASE Emit(h) \/ EmitLost(h)
      BY <3>8 DEF Emit, EmitLost, DropEvent
    <3>9. QED
      BY <1>10, <3>1, <3>2, <3>3, <3>4, <3>5, <3>6, <3>7, <3>8
  <2>2. QED
    BY <1>0, <1>2, <2>1
<1>11. QED
  BY <1>1, <1>3, <1>5, <1>6, <1>7, <1>8, <1>9, <1>10 DEF Next, Step

(* The hash of a live pin changes only under a hop that found no pin and was *)
(* overtaken by another inspection of the same tool: drift never replaces    *)
(* the approved hash.                                                        *)
THEOREM PinKept == Spec => PinIsKept
<1>1. TypeInv /\ PinInv /\ [Next]_vars => KeepsPins
  <2> SUFFICES ASSUME TypeInv, PinInv, [Next]_vars, NEW k \in Keys,
                      Alive(pins[k].left), Alive(pins'[k].left), pins'[k].hash # pins[k].hash
               PROVE  \E g, h \in Hops : Overtaken(k, g, h)
    BY DEF KeepsPins
  <2>0. pins \in [Keys -> [hash : Hashes \cup {NoHash}, left : Life]]
    BY DEF TypeInv, TypeOK, StoreTypeOK
  <2>1. ~TickStore
    BY <2>0 DEF TickStore, OlderPin, NoPin, Older, Alive, Life, Forever
  <2>2. ~ClearStore
    BY DEF ClearStore, NoPin, Alive
  <2>3. PICK g \in Hops : pc[g] = "pinwrite" /\ PinTool(Key(req[g]), ContentHash[req[g].content])
    BY <2>1, <2>2 DEF Next, Step, vars, storeVars, Begin, Normalize, ReadTaint, ReadPin, WritePin,
       ReadBlocked, Decide, WriteTaint, WriteBlock, Fail, FailAfterWrite, Lands, Emit, EmitLost, DropEvent, Tick,
       Crash, Taint, BlockTool
  <2>4. Key(req[g]) = k /\ IsDefinition(req[g])
    BY <2>0, <2>3 DEF PinTool, TypeInv, StageOK
  <2>5. PICK h \in Hops : /\ h # g /\ IsDefinition(req[h]) /\ Key(req[h]) = Key(req[g])
                          /\ pc[h] # "idle" /\ h \notin before[g]
    BY <2>3, <2>4 DEF PinInv, Overlapped
  <2>6. QED
    BY <2>3, <2>4, <2>5 DEF Overtaken
<1>2. Spec => [](TypeInv /\ HopInv /\ PinInv)
  BY TypeInvInit, HopInvInit, PinInvInit, TypeInvNext, HopInvNext, PinInvNext, PTL DEF Spec
<1>3. QED
  BY <1>1, <1>2, PTL DEF Spec, PinIsKept

----------------------------------------------------------------------------
(* What the pipeline reports: the audit trail accounts for a session's     *)
(* taint, and a definition that drifted is reported.                       *)

(* What the two invariants below are told of a step.                       *)
StateFacts ==
    /\ pc \in [Hops -> Stages] /\ req \in [Hops -> Request]
    /\ read \in [Hops -> [tainted : BOOLEAN, pinChanged : BOOLEAN, toolBlocked : BOOLEAN]]
    /\ verdict \in [Hops -> Verdict] /\ failed \in [Hops -> BOOLEAN]
    /\ before \in [Hops -> SUBSET Hops] /\ left \in [Hops -> Life]
    /\ taint \in [Sessions -> Life]
    /\ pins \in [Keys -> [hash : Hashes \cup {NoHash}, left : Life]]

LEMMA FactsOfTypeInv == TypeInv => StateFacts
BY DEF TypeInv, TypeOK, StoreTypeOK, StateFacts

----------------------------------------------------------------------------
(* The trail: a hop writes at most one event, on its way out, and what it  *)
(* writes is its verdict.                                                  *)

TrailInv ==
    \A h \in Hops : trail[h] = <<>> \/ (pc[h] = "done" /\ trail[h] = <<Event(h)>>)

LEMMA TrailInvInit == Init => TrailInv
BY DEF Init, TrailInv

LEMMA TrailInvNext == TypeInv /\ TrailInv /\ [Next]_vars => TrailInv'
<1> SUFFICES ASSUME TypeInv, TrailInv, [Next]_vars
             PROVE  TrailInv'
  OBVIOUS
<1> USE DEF TrailInv, Event, Goto
<1>0. StateFacts /\ DOMAIN trail = Hops
  BY FactsOfTypeInv DEF TypeInv, TypeOK
<1> USE <1>0 DEF StateFacts
<1>1. ASSUME NEW h \in Hops, pc[h] \notin {"done"}, pc' = [pc EXCEPT ![h] = pc'[h]],
             UNCHANGED trail, \A g \in Hops : g # h => verdict'[g] = verdict[g] /\ failed'[g] = failed[g]
      PROVE  TrailInv'
  BY <1>1
<1>2. ASSUME NEW h \in Hops, Begin(h) \/ Step(h) \/ Fail(h) \/ FailAfterWrite(h) \/ EmitLost(h), ~Emit(h)
      PROVE  TrailInv'
  <2>1. /\ pc[h] # "done" /\ pc' = [pc EXCEPT ![h] = pc'[h]] /\ UNCHANGED trail
    BY <1>2 DEF Step, Begin, Normalize, ReadTaint, ReadPin, WritePin, ReadBlocked, Decide, WriteTaint,
       WriteBlock, Fail, FailAfterWrite, Lands, FailHop, ToOnError, EmitLost, DropEvent, Fallible, Quiet
  <2>2. \A g \in Hops : g # h => verdict'[g] = verdict[g] /\ failed'[g] = failed[g]
    BY <1>2 DEF Step, Begin, Normalize, ReadTaint, ReadPin, WritePin, ReadBlocked, Decide, WriteTaint,
       WriteBlock, Fail, FailAfterWrite, Lands, FailHop, ToOnError, EmitLost, DropEvent, Fallible, Quiet
  <2>3. QED
    BY <1>1, <2>1, <2>2
<1>3. ASSUME NEW h \in Hops, Emit(h)
      PROVE  TrailInv'
  <2>1. /\ pc[h] = "emit" /\ pc' = [pc EXCEPT ![h] = "done"] /\ UNCHANGED <<verdict, failed>>
        /\ trail' = [trail EXCEPT ![h] = Append(trail[h], Event(h))]
    BY <1>3 DEF Emit
  <2>2. trail[h] = <<>>
    BY <2>1
  <2>3. trail' = [trail EXCEPT ![h] = <<Event(h)>>]
    BY <2>1, <2>2
  <2>4. QED
    BY <2>1, <2>3
<1>4. CASE Crash
  <2>1. UNCHANGED <<trail, verdict, failed>>
    BY <1>4 DEF Crash
  <2>2. QED
    BY <1>4, <2>1, CrashAborts
<1>5. CASE Tick \/ UNCHANGED vars
  BY <1>5 DEF Tick, vars, hopVars
<1>6. QED
  BY <1>2, <1>3, <1>4, <1>5 DEF Next

----------------------------------------------------------------------------
(* The cause of a taint: a hop of that session, with a request some rule   *)
(* taints for, that got as far as the write and has not forgotten it.      *)

Causes(h, s) ==
    /\ req[h].session = s /\ Poisonous(req[h])
    /\ pc[h] \in {"taint", "block", "emit", "done", "aborted"}
    /\ failed[h] \/ verdict[h].taint

CauseInv ==
    /\ \A h \in Hops : pc[h] = "taint" => verdict[h].taint
    /\ \A s \in Sessions : Alive(taint[s]) => \E h \in Hops : Causes(h, s)

LEMMA CauseInvInit == Init => CauseInv
BY DEF Init, CauseInv, EmptyStore, Alive

(* No step of any hop takes a cause away. *)
LEMMA CauseStays ==
    ASSUME TypeInv, [Next]_vars, NEW h \in Hops, NEW s \in Sessions, Causes(h, s)
    PROVE  Causes(h, s)'
<1> USE DEF Causes, Goto
<1>0. StateFacts
  BY FactsOfTypeInv
<1> USE <1>0 DEF StateFacts
<1>1. ASSUME NEW g \in Hops, Begin(g) \/ Step(g) \/ Fail(g) \/ FailAfterWrite(g) \/ EmitLost(g)
      PROVE  Causes(h, s)'
  <2>1. CASE g # h
    <3>1. pc'[h] = pc[h] /\ req'[h] = req[h] /\ failed'[h] = failed[h] /\ verdict'[h] = verdict[h]
      BY <1>1, <2>1 DEF Step, Begin, Normalize, ReadTaint, ReadPin, WritePin, ReadBlocked, Decide, WriteTaint,
         WriteBlock, Fail, FailAfterWrite, Lands, FailHop, ToOnError, Emit, EmitLost, DropEvent, Quiet
    <3>2. QED
      BY <3>1
  <2>2. CASE g = h
    <3>1. req' = req
      BY <1>1, <2>2 DEF Step, Begin, Normalize, ReadTaint, ReadPin, WritePin, ReadBlocked, Decide, WriteTaint,
         WriteBlock, Fail, FailAfterWrite, Lands, FailHop, ToOnError, Emit, EmitLost, DropEvent, Quiet
    <3>2. pc'[h] \in {"block", "emit", "done"}
      BY <1>1, <2>2 DEF Step, Begin, Normalize, ReadTaint, ReadPin, WritePin, ReadBlocked, Decide, WriteTaint,
         WriteBlock, Fail, FailAfterWrite, Lands, FailHop, ToOnError, Emit, EmitLost, DropEvent, Quiet, AfterTaint
    <3>3. failed'[h] \/ (failed'[h] = failed[h] /\ verdict'[h] = verdict[h])
      BY <1>1, <2>2 DEF Step, Begin, Normalize, ReadTaint, ReadPin, WritePin, ReadBlocked, Decide, WriteTaint,
         WriteBlock, Fail, FailAfterWrite, Lands, FailHop, ToOnError, Emit, EmitLost, DropEvent, Quiet
    <3>4. QED
      BY <3>1, <3>2, <3>3
  <2>3. QED
    BY <2>1, <2>2
<1>2. CASE Crash
  BY <1>2, CrashAborts DEF Crash
<1>3. CASE Tick \/ UNCHANGED vars
  BY <1>3 DEF Tick, vars, hopVars
<1>4. QED
  BY <1>1, <1>2, <1>3 DEF Next

LEMMA CauseInvNext == TypeInv /\ HopInv /\ CauseInv /\ [Next]_vars => CauseInv'
<1> SUFFICES ASSUME TypeInv, HopInv, CauseInv, [Next]_vars
             PROVE  CauseInv'
  OBVIOUS
<1>0. StateFacts
  BY FactsOfTypeInv
<1> USE <1>0 DEF StateFacts
<1>1. ASSUME NEW h \in Hops, pc'[h] = "taint"
      PROVE  verdict'[h].taint
  <2>1. CASE pc[h] = "taint" /\ verdict'[h] = verdict[h]
    BY <2>1 DEF CauseInv
  <2>2. CASE Decide(h)
    <3> DEFINE v == Decision(req[h], read[h])
    <3>1. verdict' = [verdict EXCEPT ![h] = v] /\ pc' = [pc EXCEPT ![h] = AfterDecide(req[h], v)]
      BY <2>2 DEF Decide, Goto
    <3>2. AfterDecide(req[h], v) = "taint" => v.taint
      BY DEF AfterDecide, AfterTaint
    <3> HIDE DEF v
    <3>3. QED
      BY <1>1, <3>1, <3>2
  <2>3. ASSUME NEW g \in Hops, g # h, Begin(g) \/ Step(g) \/ Fail(g) \/ FailAfterWrite(g) \/ EmitLost(g)
        PROVE  pc'[h] = pc[h] /\ verdict'[h] = verdict[h]
    BY <2>3 DEF Step, Begin, Normalize, ReadTaint, ReadPin, WritePin, ReadBlocked, Decide, WriteTaint,
       WriteBlock, Fail, FailAfterWrite, Lands, FailHop, ToOnError, Emit, EmitLost, DropEvent, Quiet, Goto
  <2>4. CASE Begin(h) \/ Step(h) \/ Fail(h) \/ FailAfterWrite(h) \/ EmitLost(h)
    BY <1>1, <2>2, <2>4 DEF Step, Begin, Normalize, ReadTaint, ReadPin, WritePin, ReadBlocked, WriteTaint,
       WriteBlock, Fail, FailAfterWrite, Lands, FailHop, ToOnError, Emit, EmitLost, DropEvent, Quiet, Goto,
       AfterNormalize, AfterTainted, AfterTaint
  <2>5. CASE Crash
    BY <1>1, <2>1, <2>5, CrashAborts DEF Crash
  <2>6. CASE Tick \/ UNCHANGED vars
    BY <1>1, <2>1, <2>6 DEF Tick, vars, hopVars
  <2>7. QED
    BY <1>1, <2>1, <2>3, <2>4, <2>5, <2>6 DEF Next
<1>2. ASSUME NEW h \in Hops, pc[h] = "taint"
      PROVE  Causes(h, req[h].session) /\ req[h].session \in Sessions
  <2>1. ~failed[h] /\ verdict[h].taint /\ verdict[h] = Decision(req[h], read[h])
    BY <1>2 DEF HopInv, Decided, CauseInv
  <2>2. read[h].tainted \in BOOLEAN /\ read[h].pinChanged \in BOOLEAN
    OBVIOUS
  <2>3. Poisonous(req[h])
    BY <2>1, <2>2 DEF Poisonous, Decision
  <2>4. QED
    BY <1>2, <2>1, <2>3, RequestsAreTyped DEF Causes, TypeInv, StageOK
<1>3. ASSUME NEW s \in Sessions, Alive(taint'[s])
      PROVE  \E h \in Hops : Causes(h, s)'
  <2>1. CASE Alive(taint[s])
    BY <2>1, CauseStays DEF CauseInv
  <2>2. CASE \E h \in Hops : pc[h] = "taint" /\ Taint(req[h].session)
    <3>1. PICK h \in Hops : pc[h] = "taint" /\ Taint(req[h].session)
      BY <2>2
    <3>2. CASE s = req[h].session
      BY <1>2, <3>1, <3>2, CauseStays
    <3>3. CASE s # req[h].session
      BY <1>2, <1>3, <2>1, <3>1, <3>3 DEF Taint
    <3>4. QED
      BY <3>2, <3>3
  <2>3. ASSUME NEW h \in Hops, Begin(h) \/ Step(h) \/ Fail(h) \/ FailAfterWrite(h) \/ EmitLost(h)
        PROVE  taint' = taint \/ (pc[h] = "taint" /\ Taint(req[h].session))
    BY <2>3 DEF Step, Begin, Normalize, ReadTaint, ReadPin, WritePin, ReadBlocked, Decide, WriteTaint,
       WriteBlock, Fail, FailAfterWrite, Lands, FailHop, ToOnError, Emit, EmitLost, DropEvent, storeVars,
       PinTool, BlockTool
  <2>4. CASE Tick
    BY <1>3, <2>1, <2>4, OlderAlive DEF Tick, TickStore
  <2>5. CASE Crash
    BY <1>3, <2>1, <2>5 DEF Crash, ClearStore, storeVars, Alive
  <2>6. CASE UNCHANGED vars
    BY <1>3, <2>1, <2>6 DEF vars, storeVars
  <2>7. QED
    BY <1>3, <2>1, <2>2, <2>3, <2>4, <2>5, <2>6 DEF Next
<1>4. QED
  BY <1>1, <1>3 DEF CauseInv

(* While a session is tainted, an event of that session says so or records   *)
(* an error, or the hop that tainted it is still running, has died, or lost  *)
(* its event to a sink error: for any number of hops, sessions and faults.   *)
THEOREM AuditAccounts == Spec => []AuditAccountsForTaint
<1>1. CauseInv /\ TrailInv => AuditAccountsForTaint
  <2> SUFFICES ASSUME CauseInv, TrailInv, NEW s \in Sessions, Alive(taint[s])
               PROVE  \E h \in Hops :
                        /\ req[h].session = s /\ Poisonous(req[h])
                        /\ \/ pc[h] \notin {"idle", "done"}
                           \/ trail[h] = <<>>
                           \/ trail[h][1].taint \/ trail[h][1].error
    BY DEF AuditAccountsForTaint
  <2>1. PICK h \in Hops : Causes(h, s)
    BY DEF CauseInv
  <2>2. trail[h] = <<>> \/ trail[h] = <<Event(h)>>
    BY DEF TrailInv
  <2>3. trail[h] = <<Event(h)>> => trail[h][1].taint = verdict[h].taint /\ trail[h][1].error = failed[h]
    BY DEF Event
  <2>4. QED
    BY <2>1, <2>2, <2>3 DEF Causes
<1>2. Spec => [](TypeInv /\ HopInv /\ CauseInv /\ TrailInv)
  BY TypeInvInit, HopInvInit, CauseInvInit, TrailInvInit, TypeInvNext, HopInvNext, CauseInvNext,
     TrailInvNext, PTL DEF Spec
<1>3. QED
  BY <1>1, <1>2, PTL
----------------------------------------------------------------------------
(* Drift.  The hops that have begun to inspect the definition of a tool are *)
(* serial when no two of them overlapped and none has outlived the mark it  *)
(* may have written.  What was serial after a step was serial before it.    *)

Defining(k) == {h \in Hops : pc[h] # "idle" /\ IsDefinition(req[h]) /\ Key(req[h]) = k}

Serial(k) ==
    /\ \A h \in Defining(k) : Alive(left[h])
    /\ \A g, h \in Defining(k) : g # h => ~Overlap(g, h)

(* The stages a definition reaches only after its pin was read or written. *)
PinRead == {"decide", "taint", "block", "emit", "done"}

(* While a tool's inspections are serial, a hop that read the pin has one to *)
(* be held against, and reports drift exactly when it differs from it.       *)
DriftInv ==
    /\ \A k \in Keys : Alive(pins[k].left) <=> pins[k].hash # NoHash
    /\ \A k \in Keys : pins[k].hash # NoHash => \E w \in Defining(k) : Covers(pins[k].left, left[w])
    /\ \A h \in Hops : pc[h] = "pinwrite" => ~read[h].pinChanged
    /\ \A k \in Keys : Serial(k) =>
         \A h \in Defining(k) : pc[h] \in PinRead /\ ~failed[h] =>
             /\ pins[k].hash # NoHash
             /\ read[h].pinChanged = (ContentHash[req[h].content] # pins[k].hash)

LEMMA DriftInvInit == Init => DriftInv
<1> SUFFICES ASSUME Init PROVE DriftInv
  OBVIOUS
<1>1. \A k \in Keys : pins[k].hash = NoHash /\ ~Alive(pins[k].left)
  BY DEF Init, EmptyStore, NoPin, Alive
<1>2. \A h \in Hops : pc[h] = "idle"
  BY DEF Init
<1>3. QED
  BY <1>1, <1>2 DEF DriftInv, Defining

(* A hop that has begun keeps its request and its place in time; only the    *)
(* lifetime counted from its beginning runs down.                            *)
LEMMA HopStays ==
    ASSUME TypeInv, [Next]_vars, NEW h \in Hops, pc[h] # "idle"
    PROVE  /\ pc'[h] # "idle" /\ req'[h] = req[h] /\ before'[h] = before[h]
           /\ left'[h] \in {left[h], Older(left[h]), 0}
<1>0. StateFacts
  BY FactsOfTypeInv
<1> USE <1>0 DEF StateFacts
<1>1. ASSUME NEW g \in Hops, Begin(g)
      PROVE  /\ pc'[h] # "idle" /\ req'[h] = req[h] /\ before'[h] = before[h] /\ left'[h] = left[h]
  BY <1>1 DEF Begin, Goto
<1>2. ASSUME NEW g \in Hops, Step(g) \/ Fail(g) \/ FailAfterWrite(g) \/ EmitLost(g)
      PROVE  /\ pc'[h] # "idle" /\ req' = req /\ before' = before /\ left' = left
  BY <1>2 DEF Step, Normalize, ReadTaint, ReadPin, WritePin, ReadBlocked, Decide, WriteTaint,
     WriteBlock, Fail, FailAfterWrite, Lands, FailHop, ToOnError, Emit, EmitLost, DropEvent, Quiet, Goto,
     AfterNormalize, AfterTainted, AfterDecide, AfterTaint
<1>3. CASE Tick
  BY <1>3 DEF Tick, hopVars
<1>4. CASE Crash
  BY <1>4, CrashAborts DEF Crash
<1>5. CASE UNCHANGED vars
  BY <1>5 DEF vars, hopVars
<1>6. QED
  BY <1>1, <1>2, <1>3, <1>4, <1>5 DEF Next

LEMMA SerialShrinks ==
    ASSUME TypeInv, [Next]_vars, NEW k \in Keys
    PROVE  Defining(k) \subseteq Defining(k)' /\ (Serial(k)' => Serial(k))
<1>0. StateFacts
  BY FactsOfTypeInv
<1>1. ASSUME NEW h \in Defining(k)
      PROVE  /\ h \in Defining(k)' /\ before'[h] = before[h]
             /\ Alive(left'[h]) => Alive(left[h])
  <2>1. h \in Hops /\ pc[h] # "idle"
    BY DEF Defining
  <2>2. /\ pc'[h] # "idle" /\ req'[h] = req[h] /\ before'[h] = before[h]
        /\ left'[h] \in {left[h], Older(left[h]), 0}
    BY <2>1, HopStays
  <2>3. h \in Defining(k)'
    BY <2>1, <2>2 DEF Defining
  <2>4. Alive(left'[h]) => Alive(left[h])
    BY <1>0, <2>1, <2>2, OlderAlive DEF Alive, StateFacts
  <2>5. QED
    BY <2>2, <2>3, <2>4
<1>2. QED
  BY <1>1 DEF Serial, Overlap

(* A pin is covered by the beginning of the hop it was written by or after.  *)
LEMMA WitnessStays ==
    ASSUME TypeInv, [Next]_vars, NEW k \in Keys, UNCHANGED pins,
           \E w \in Defining(k) : Covers(pins[k].left, left[w])
    PROVE  (\E w \in Defining(k) : Covers(pins[k].left, left[w]))'
<1>0. StateFacts
  BY FactsOfTypeInv
<1>1. PICK w \in Defining(k) : Covers(pins[k].left, left[w])
  OBVIOUS
<1>2. w \in Hops /\ pc[w] # "idle" /\ w \in Defining(k)'
  BY SerialShrinks DEF Defining
<1>3. left'[w] \in {left[w], Older(left[w]), 0}
  BY <1>2, HopStays
<1>4. Covers(pins[k].left, left'[w])
  BY <1>0, <1>1, <1>2, <1>3, CoversOlder DEF StateFacts, Covers, Alive
<1>5. QED
  BY <1>2, <1>4

(* A step that writes no pin and takes no hop of a definition past its pin.  *)
LEMMA DriftFrame ==
    ASSUME TypeInv, DriftInv, [Next]_vars, UNCHANGED pins,
           \A h \in Hops :
              /\ pc'[h] = "pinwrite" => pc[h] = "pinwrite"
              /\ IsDefinition(req'[h]) /\ pc'[h] \in PinRead /\ ~failed'[h]
                   => pc[h] \in PinRead /\ ~failed[h]
              /\ pc[h] \in PinRead \cup {"pinwrite"} => read'[h].pinChanged = read[h].pinChanged
    PROVE  DriftInv'
<1>1. \A h \in Hops : pc'[h] = "pinwrite" => ~read'[h].pinChanged
  BY DEF DriftInv
<1>2. \A k \in Keys : pins'[k].hash # NoHash => (\E w \in Defining(k) : Covers(pins[k].left, left[w]))'
  BY WitnessStays DEF DriftInv
<1>3. ASSUME NEW k \in Keys, Serial(k)', NEW h \in Defining(k)', pc'[h] \in PinRead, ~failed'[h]
      PROVE  /\ pins'[k].hash # NoHash
             /\ read'[h].pinChanged = (ContentHash[req'[h].content] # pins'[k].hash)
  <2>1. h \in Hops /\ IsDefinition(req'[h]) /\ Key(req'[h]) = k
    BY DEF Defining
  <2>2. pc[h] \in PinRead /\ ~failed[h] /\ read'[h].pinChanged = read[h].pinChanged
    BY <1>3, <2>1
  <2>3. req'[h] = req[h] /\ h \in Defining(k)
    BY <2>1, <2>2, HopStays DEF Defining, PinRead
  <2>4. Serial(k)
    BY <1>3, SerialShrinks
  <2>5. QED
    BY <2>2, <2>3, <2>4 DEF DriftInv
<1>4. QED
  BY <1>1, <1>2, <1>3 DEF DriftInv
(* A hop that reads the pin of a tool either finds one, and is held against  *)
(* it, or finds none, and will write one.                                    *)
LEMMA DriftReadPin ==
    ASSUME TypeInv, DriftInv, NEW g \in Hops, ReadPin(g), [Next]_vars
    PROVE  DriftInv'
<1> USE DEF Goto
<1>0. StateFacts
  BY FactsOfTypeInv
<1>1. /\ pc[g] = "pin" /\ pc' = [pc EXCEPT ![g] = pc'[g]]
      /\ UNCHANGED <<pins, req, before, left, failed>>
      /\ \A h \in Hops : h # g => read'[h] = read[h]
      /\ pc'[g] \in {"pinwrite", "decide"}
      /\ pc'[g] = "pinwrite" <=> pins[Key(req[g])].hash = NoHash
      /\ read'[g].pinChanged = (pins[Key(req[g])].hash \notin {NoHash, ContentHash[req[g].content]})
  BY <1>0 DEF ReadPin, ToolPin, Quiet, storeVars, StateFacts
<1>2. \A h \in Hops : pc'[h] = "pinwrite" => ~read'[h].pinChanged
  BY <1>0, <1>1 DEF DriftInv, StateFacts
<1>3. \A k \in Keys : pins'[k].hash # NoHash => (\E w \in Defining(k) : Covers(pins[k].left, left[w]))'
  BY <1>1, WitnessStays DEF DriftInv
<1>4. ASSUME NEW k \in Keys, Serial(k)', NEW h \in Defining(k)', pc'[h] \in PinRead, ~failed'[h]
      PROVE  /\ pins'[k].hash # NoHash
             /\ read'[h].pinChanged = (ContentHash[req'[h].content] # pins'[k].hash)
  <2>1. h \in Hops /\ Key(req[h]) = k /\ req'[h] = req[h]
    BY <1>1 DEF Defining
  <2>2. CASE h = g
    BY <1>1, <1>4, <2>1, <2>2 DEF PinRead
  <2>3. CASE h # g
    <3>1. pc'[h] = pc[h] /\ read'[h] = read[h] /\ failed'[h] = failed[h]
      BY <1>0, <1>1, <2>1, <2>3 DEF StateFacts
    <3>2. h \in Defining(k) /\ Serial(k)
      BY <1>1, <1>4, <2>1, <3>1, SerialShrinks DEF Defining
    <3>3. QED
      BY <1>1, <1>4, <2>1, <3>1, <3>2 DEF DriftInv
  <2>4. QED
    BY <2>2, <2>3
<1>5. QED
  BY <1>1, <1>2, <1>3, <1>4 DEF DriftInv

(* Under serial inspections a hop that writes the pin is the first to have   *)
(* read it: every earlier one left a pin, which this one would have found.   *)
LEMMA DriftPinWrite ==
    ASSUME TypeInv, LeftInv, HopInv, PinInv, DriftInv, [Next]_vars, NEW g \in Hops, pc[g] = "pinwrite",
           PinTool(Key(req[g]), ContentHash[req[g].content]),
           pc' = [pc EXCEPT ![g] = pc'[g]], UNCHANGED <<req, before, left, read>>,
           \A h \in Hops : h # g => failed'[h] = failed[h],
           pc'[g] = "decide" \/ (pc'[g] = "emit" /\ failed'[g])
    PROVE  DriftInv'
<1> DEFINE key == Key(req[g])
           hash == ContentHash[req[g].content]
<1>0. StateFacts
  BY FactsOfTypeInv
<1>1. IsDefinition(req[g]) /\ key \in Keys /\ hash \in Hashes /\ hash # NoHash
  BY <1>0, RequestsAreTyped, StoreAssumption DEF TypeInv, StageOK, IsDefinition, StateFacts
<1>2. /\ pins'[key] = [hash |-> hash, left |-> Lifetime]
      /\ \A k \in Keys : k # key => pins'[k] = pins[k]
  BY <1>0, <1>1 DEF PinTool, StateFacts
<1>3. g \in Defining(key) /\ g \in Defining(key)'
  BY <1>0, <1>1 DEF Defining, StateFacts
<1>4. Serial(key) => pins[key].hash = NoHash
  <2> SUFFICES ASSUME Serial(key), pins[key].hash # NoHash
               PROVE  FALSE
    OBVIOUS
  <2>1. Overlapped(g)
    BY <1>1 DEF DriftInv, PinInv
  <2>2. PICK h \in Hops : /\ h # g /\ IsDefinition(req[h]) /\ Key(req[h]) = key
                          /\ pc[h] # "idle" /\ h \notin before[g]
    BY <2>1 DEF Overlapped
  <2>3. g \notin before[h]
    BY DEF HopInv
  <2>4. QED
    BY <1>3, <2>2, <2>3 DEF Serial, Overlap, Defining
<1>5. \A k \in Keys : Alive(pins'[k].left) <=> pins'[k].hash # NoHash
  BY <1>1, <1>2, LifetimeIsLife DEF DriftInv
<1>6. \A k \in Keys : pins'[k].hash # NoHash => \E w \in Defining(k)' : Covers(pins'[k].left, left'[w])
  <2>1. Covers(pins'[key].left, left'[g])
    BY <1>2 DEF LeftInv
  <2>2. ASSUME NEW k \in Keys, k # key, pins'[k].hash # NoHash
        PROVE  \E w \in Defining(k)' : Covers(pins'[k].left, left'[w])
    <3>1. PICK w \in Defining(k) : Covers(pins[k].left, left[w])
      BY <1>2, <2>2 DEF DriftInv
    <3>2. w \in Defining(k)'
      BY SerialShrinks
    <3>3. QED
      BY <1>2, <2>2, <3>1, <3>2
  <2>3. QED
    BY <1>3, <2>1, <2>2
<1>7. ASSUME NEW h \in Hops, pc'[h] = "pinwrite"
      PROVE  ~read'[h].pinChanged
  BY <1>0, <1>7 DEF DriftInv, StateFacts
<1>8. ASSUME NEW k \in Keys, Serial(k)', NEW h \in Defining(k)', pc'[h] \in PinRead, ~failed'[h]
      PROVE  /\ pins'[k].hash # NoHash
             /\ read'[h].pinChanged = (ContentHash[req'[h].content] # pins'[k].hash)
  <2>0. h \in Hops /\ Key(req[h]) = k /\ Serial(k)
    BY <1>8, SerialShrinks DEF Defining
  <2>1. CASE h = g
    <3>1. read[g].pinChanged = FALSE
      BY <1>0 DEF DriftInv, StateFacts
    <3>2. k = key /\ pins'[k].hash = hash
      BY <1>2, <2>0, <2>1
    <3>3. QED
      BY <1>1, <2>1, <3>1, <3>2
  <2>2. CASE h # g
    <3>1. pc'[h] = pc[h] /\ failed'[h] = failed[h]
      BY <1>0, <2>0, <2>2 DEF StateFacts
    <3>2. h \in Defining(k)
      BY <1>8, <2>0, <3>1 DEF Defining
    <3>3. pins[k].hash # NoHash /\ read[h].pinChanged = (ContentHash[req[h].content] # pins[k].hash)
      BY <1>8, <2>0, <3>1, <3>2 DEF DriftInv
    <3>4. k # key
      BY <1>4, <2>0, <3>3
    <3>5. QED
      BY <1>2, <3>3, <3>4
  <2>3. QED
    BY <2>1, <2>2
<1>9. QED
  BY <1>5, <1>6, <1>7, <1>8 DEF DriftInv

LEMMA DriftInvNext == TypeInv /\ LeftInv /\ HopInv /\ PinInv /\ DriftInv /\ [Next]_vars => DriftInv'
<1> SUFFICES ASSUME TypeInv, LeftInv, HopInv, PinInv, DriftInv, [Next]_vars
             PROVE  DriftInv'
  OBVIOUS
<1>0. StateFacts
  BY FactsOfTypeInv
<1> USE DEF Goto
<1>1. ASSUME NEW h \in Hops, ReadPin(h)
      PROVE  DriftInv'
  BY <1>1, DriftReadPin
<1>2. ASSUME NEW h \in Hops, WritePin(h)
      PROVE  DriftInv'
  BY <1>0, <1>2, DriftPinWrite DEF WritePin, Quiet, StateFacts
<1>3. ASSUME NEW h \in Hops, FailAfterWrite(h), pc[h] = "pinwrite"
      PROVE  DriftInv'
  <2>1. /\ PinTool(Key(req[h]), ContentHash[req[h].content])
        /\ pc' = [pc EXCEPT ![h] = pc'[h]] /\ UNCHANGED <<req, before, left, read>>
        /\ \A g \in Hops : g # h => failed'[g] = failed[g]
        /\ pc'[h] = "emit" /\ failed'[h]
    BY <1>0, <1>3 DEF FailAfterWrite, Lands, FailHop, ToOnError, StateFacts
  <2>2. QED
    BY <1>3, <2>1, DriftPinWrite
<1>4. ASSUME NEW h \in Hops, pc' = [pc EXCEPT ![h] = pc'[h]], pc'[h] # "pinwrite",
             UNCHANGED <<pins, req>>,
             \A g \in Hops : g # h => failed'[g] = failed[g] /\ read'[g] = read[g],
             read'[h].pinChanged = read[h].pinChanged,
             IsDefinition(req[h]) /\ pc'[h] \in PinRead /\ ~failed'[h] => pc[h] \in PinRead /\ ~failed[h]
      PROVE  DriftInv'
  <2>1. \A g \in Hops :
          /\ pc'[g] = "pinwrite" => pc[g] = "pinwrite"
          /\ IsDefinition(req'[g]) /\ pc'[g] \in PinRead /\ ~failed'[g]
               => pc[g] \in PinRead /\ ~failed[g]
          /\ pc[g] \in PinRead \cup {"pinwrite"} => read'[g].pinChanged = read[g].pinChanged
    BY <1>0, <1>4 DEF StateFacts
  <2>2. QED
    BY <1>4, <2>1, DriftFrame
<1>5. ASSUME NEW h \in Hops, Begin(h)
      PROVE  DriftInv'
  <2>1. \A g \in Hops :
          /\ pc'[g] = "pinwrite" => pc[g] = "pinwrite"
          /\ pc'[g] \in PinRead => pc[g] \in PinRead
    BY <1>0, <1>5 DEF Begin, StateFacts, PinRead
  <2>2. UNCHANGED <<pins, failed, read>>
    BY <1>5 DEF Begin, storeVars
  <2>3. QED
    BY <2>1, <2>2, DriftFrame
<1>6. ASSUME NEW h \in Hops, Normalize(h) \/ ReadTaint(h) \/ ReadBlocked(h)
      PROVE  DriftInv'
  <2>1. /\ pc' = [pc EXCEPT ![h] = pc'[h]] /\ UNCHANGED <<pins, req, failed>>
        /\ \A g \in Hops : g # h => read'[g] = read[g]
        /\ read'[h].pinChanged = read[h].pinChanged
    <3> USE <1>0 DEF StateFacts, Quiet, storeVars
    <3>1. CASE Normalize(h)
      BY <3>1 DEF Normalize
    <3>2. CASE ReadTaint(h)
      BY <3>2 DEF ReadTaint
    <3>3. CASE ReadBlocked(h)
      BY <3>3 DEF ReadBlocked
    <3>4. QED
      BY <1>6, <3>1, <3>2, <3>3
  <2>2. pc'[h] # "pinwrite" /\ (IsDefinition(req[h]) => pc'[h] \notin PinRead)
    <3> USE <1>0 DEF StateFacts, IsDefinition, IsCall, Keyed, PinRead
    <3>1. CASE Normalize(h)
      BY <3>1 DEF Normalize, AfterNormalize
    <3>2. CASE ReadTaint(h)
      BY <3>2 DEF ReadTaint, AfterTainted
    <3>3. CASE ReadBlocked(h)
      BY <3>3 DEF ReadBlocked, TypeInv, StageOK
    <3>4. QED
      BY <1>6, <3>1, <3>2, <3>3
  <2>3. QED
    BY <1>4, <2>1, <2>2
<1>7. ASSUME NEW h \in Hops, Decide(h) \/ WriteTaint(h) \/ WriteBlock(h) \/ Emit(h) \/ EmitLost(h)
      PROVE  DriftInv'
  <2>1. /\ pc' = [pc EXCEPT ![h] = pc'[h]] /\ pc'[h] # "pinwrite" /\ pc[h] \in PinRead
        /\ UNCHANGED <<pins, req, failed, read>>
    BY <1>0, <1>7 DEF Decide, WriteTaint, WriteBlock, Emit, EmitLost, DropEvent, Quiet, storeVars, Taint,
       BlockTool, AfterDecide, AfterTaint, PinRead, StateFacts
  <2>2. QED
    BY <1>4, <2>1
<1>8. ASSUME NEW h \in Hops, Fail(h) \/ (FailAfterWrite(h) /\ pc[h] # "pinwrite")
      PROVE  DriftInv'
  <2>1. /\ pc' = [pc EXCEPT ![h] = pc'[h]] /\ pc'[h] # "pinwrite" /\ failed'[h]
        /\ UNCHANGED <<pins, req, read>> /\ \A g \in Hops : g # h => failed'[g] = failed[g]
    BY <1>0, <1>8 DEF Fail, FailAfterWrite, Lands, FailHop, ToOnError, storeVars, Taint, BlockTool, StateFacts
  <2>2. QED
    BY <1>4, <2>1
<1>9. CASE Tick
  <2>1. UNCHANGED <<pc, req, read, failed, before>> /\ \A h \in Hops : left'[h] = Older(left[h])
    BY <1>9 DEF Tick, hopVars
  <2>2. \A k \in Keys :
          /\ Alive(pins'[k].left) <=> pins'[k].hash # NoHash
          /\ pins'[k].hash # NoHash => pins[k].hash # NoHash /\ pins'[k].left = Older(pins[k].left)
          /\ pins'[k].hash # pins[k].hash => pins'[k].left = 0 /\ Older(pins[k].left) = 0
    BY <1>0, <1>9 DEF Tick, TickStore, OlderPin, NoPin, Older, Alive, Life, Forever, StateFacts, DriftInv
  <2>3. ASSUME NEW k \in Keys, pins[k].hash # NoHash
        PROVE  \E w \in Defining(k)' : Covers(Older(pins[k].left), left'[w])
    <3>1. PICK w \in Defining(k) : Covers(pins[k].left, left[w])
      BY <2>3 DEF DriftInv
    <3>2. w \in Defining(k)' /\ w \in Hops
      BY SerialShrinks DEF Defining
    <3>3. QED
      BY <1>0, <2>1, <3>1, <3>2, CoversOlder DEF StateFacts
  <2>4. ASSUME NEW k \in Keys, Serial(k)', NEW h \in Defining(k)', pc'[h] \in PinRead, ~failed'[h]
        PROVE  /\ pins'[k].hash # NoHash
               /\ read'[h].pinChanged = (ContentHash[req'[h].content] # pins'[k].hash)
    <3>1. h \in Defining(k) /\ Serial(k)
      BY <2>1, <2>4, SerialShrinks DEF Defining
    <3>2. pins[k].hash # NoHash /\ read[h].pinChanged = (ContentHash[req[h].content] # pins[k].hash)
      BY <2>1, <2>4, <3>1 DEF DriftInv
    <3>3. PICK w \in Defining(k)' : Covers(Older(pins[k].left), left'[w])
      BY <2>3, <3>2
    <3>4. Alive(left'[w])
      BY <2>4 DEF Serial
    <3>5. Alive(Older(pins[k].left))
      <4>1. w \in Hops /\ pins[k].left \in Life /\ left[w] \in Life
        BY <1>0 DEF Defining, StateFacts
      <4>2. Older(pins[k].left) \in Life /\ left'[w] \in Life
        BY <2>1, <4>1, OlderIsLife
      <4>3. QED
        BY <3>3, <3>4, <4>2, CoversAlive
    <3>6. pins'[k].hash = pins[k].hash
      BY <2>2, <3>5 DEF Alive
    <3>7. QED
      BY <2>1, <3>2, <3>6
  <2>5. QED
    BY <2>1, <2>2, <2>3, <2>4 DEF DriftInv
<1>10. CASE Crash /\ UNCHANGED storeVars
  <2>1. \A h \in Hops : pc'[h] \in {pc[h], "aborted"}
    BY <1>10, CrashAborts
  <2>2. UNCHANGED <<pins, read, failed>>
    BY <1>10 DEF Crash, storeVars
  <2>3. QED
    BY <2>1, <2>2, DriftFrame DEF PinRead
<1>11. CASE Crash /\ ClearStore
  <2>1. \A k \in Keys : pins'[k].hash = NoHash /\ ~Alive(pins'[k].left)
    BY <1>11 DEF ClearStore, NoPin, Alive
  <2>2. UNCHANGED read /\ \A h \in Hops : pc'[h] = "pinwrite" => pc[h] = "pinwrite"
    BY <1>11, CrashAborts DEF Crash
  <2>3. CASE \A h \in Hops : left'[h] = 0
    <3>1. \A k \in Keys : \A h \in Defining(k)' : ~Alive(left'[h])
      BY <2>3 DEF Defining, Alive
    <3>2. QED
      BY <2>1, <2>2, <3>1 DEF DriftInv, Serial
  <2>4. CASE UNCHANGED storeVars
    BY <1>10, <1>11, <2>4
  <2>5. QED
    BY <1>11, <2>3, <2>4 DEF Crash
<1>12. CASE UNCHANGED vars
  BY <1>12, DriftFrame DEF vars, storeVars, hopVars
<1>13. QED
  <2>1. Crash => UNCHANGED storeVars \/ ClearStore
    BY DEF Crash
  <2>2. QED
    BY <1>1, <1>2, <1>3, <1>5, <1>6, <1>7, <1>8, <1>9, <1>10, <1>11, <1>12, <2>1 DEF Next, Step

(* Of two definitions of one tool that differ, inspected one after the other *)
(* in a session, the policy is told of drift for at least one: whatever came *)
(* in between, failed or crashed, as long as no two inspections of the tool  *)
(* overlapped and their marks may still be alive.                            *)
THEOREM DriftReported == Spec => []DriftIsReported
<1>1. TypeInv /\ HopInv /\ DriftInv => DriftIsReported
  <2> SUFFICES ASSUME TypeInv, HopInv, DriftInv, NEW g \in Hops, NEW h \in Hops,
                      g \in before[h], SameTool(g, h), ReadsAPin(g), ReadsAPin(h),
                      ContentHash[req[g].content] # ContentHash[req[h].content],
                      \A i \in {j \in Hops : pc[j] # "idle" /\ IsDefinition(req[j]) /\ SameTool(j, g)} :
                         Alive(left[i]),
                      \A i, j \in {m \in Hops : pc[m] # "idle" /\ IsDefinition(req[m]) /\ SameTool(m, g)} :
                         i # j => ~Overlap(i, j)
               PROVE  read[g].pinChanged \/ read[h].pinChanged
    BY DEF DriftIsReported
  <2> DEFINE k == Key(req[g])
  <2>1. k \in Keys /\ Key(req[h]) = k
    BY RequestsAreTyped DEF TypeInv, TypeOK, ReadsAPin, IsDefinition, SameTool
  <2>2. Defining(k) = {j \in Hops : pc[j] # "idle" /\ IsDefinition(req[j]) /\ SameTool(j, g)}
    BY DEF Defining, SameTool, IsDefinition, ReadsAPin
  <2>3. Serial(k)
    BY <2>2 DEF Serial
  <2>4. g \in Defining(k) /\ h \in Defining(k)
    BY <2>1 DEF Defining, ReadsAPin
  <2>5. /\ read[g].pinChanged = (ContentHash[req[g].content] # pins[k].hash)
        /\ read[h].pinChanged = (ContentHash[req[h].content] # pins[k].hash)
    BY <2>1, <2>3, <2>4 DEF DriftInv, ReadsAPin, PinRead
  <2>6. QED
    BY <2>5
<1>2. Spec => [](TypeInv /\ LeftInv /\ HopInv /\ PinInv /\ DriftInv)
  BY TypeInvInit, LeftInvInit, HopInvInit, PinInvInit, DriftInvInit, TypeInvNext, LeftInvNext, HopInvNext,
     PinInvNext, DriftInvNext, PTL DEF Spec
<1>3. QED
  BY <1>1, <1>2, PTL
===============================================================================
