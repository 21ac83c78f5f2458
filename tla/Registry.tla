------------------------------- MODULE Registry --------------------------------
(***************************************************************************)
(* detect.Registry (internal/detect/detect.go): detectors registered under *)
(* unique names, run in parallel, and joined.  A detector is a goroutine   *)
(* that writes its own slot when it is done, in whatever order; what it    *)
(* finds, or whether it fails, is its own business.                        *)
(***************************************************************************)
EXTENDS Integers, SequencesExt

CONSTANTS Names,        \* names of detectors
          Places,       \* what tells one finding of a detector from another
          Lists,        \* the lists of names a registry is built from
          Unnamed       \* the empty Detector field of a finding

ASSUME RegistryAssumption == Unnamed \notin Names /\ Lists \subseteq Seq(Names)

VARIABLES todo,         \* the detectors NewRegistry has still to register
          order,        \* Registry.order
          outcome,      \* what each detector is about to return
          slot,         \* results[i] and errs[i]
          live,         \* the goroutines that have not finished
          registry      \* "building", "refused", "built", "detecting", "returned"

registryVars == <<todo, order, outcome, slot, live, registry>>

NoError == "nil"
Empty == [findings |-> <<>>, err |-> NoError]

(* A detector returns some findings, named or not, or fails. *)
Returns(name) ==
    {[findings |-> fs, err |-> NoError] :
        fs \in {<<>>} \cup {<<[detector |-> d, span |-> s]>> : d \in {name, Unnamed}, s \in Places}}
    \cup {[findings |-> <<>>, err |-> name]}

RegistryInit ==
    /\ todo \in Lists /\ order = <<>>
    /\ outcome = <<>> /\ slot = <<>> /\ live = {}
    /\ registry = "building"

Register ==
    /\ registry = "building" /\ todo # <<>>
    /\ IF Head(todo) \in ToSet(order)
       THEN registry' = "refused" /\ UNCHANGED <<todo, order>>
       ELSE order' = Append(order, Head(todo)) /\ todo' = Tail(todo) /\ UNCHANGED registry
    /\ UNCHANGED <<outcome, slot, live>>

Built ==
    /\ registry = "building" /\ todo = <<>> /\ registry' = "built"
    /\ UNCHANGED <<todo, order, outcome, slot, live>>

(* one: a failure carries no findings, and every finding a name. *)
One(name, ret) ==
    IF ret.err # NoError THEN [findings |-> <<>>, err |-> ret.err]
    ELSE [ret EXCEPT !.findings =
            [i \in DOMAIN @ |-> IF @[i].detector = Unnamed THEN [@[i] EXCEPT !.detector = name]
                                ELSE @[i]]]

(* Detect is called: no detector, one, or a goroutine for each. *)
CallDetect ==
    /\ registry = "built"
    /\ outcome' \in {o \in [DOMAIN order -> UNION {Returns(n) : n \in Names}] :
                       \A i \in DOMAIN order : o[i] \in Returns(order[i])}
    /\ slot' = IF Len(order) = 1 THEN <<One(order[1], outcome'[1])>>
               ELSE [i \in DOMAIN order |-> Empty]
    /\ live' = IF Len(order) > 1 THEN DOMAIN order ELSE {}
    /\ registry' = "detecting"
    /\ UNCHANGED <<todo, order>>

(* Mutant: results are collected as they arrive. *)
DetectorDone_Arrival(i) ==
    /\ i \in live /\ live' = live \ {i}
    /\ slot' = [slot EXCEPT ![Len(order) - Cardinality(live) + 1] = One(order[i], outcome[i])]
    /\ UNCHANGED <<todo, order, outcome, registry>>

DetectorDone(i) ==
    /\ i \in live /\ live' = live \ {i}
    /\ slot' = [slot EXCEPT ![i] = One(order[i], outcome[i])]
    /\ UNCHANGED <<todo, order, outcome, registry>>

Join ==
    /\ registry = "detecting" /\ live = {} /\ registry' = "returned"
    /\ UNCHANGED <<todo, order, outcome, slot, live>>

RegistryNext ==
    \/ Register \/ Built \/ CallDetect \/ Join
    \/ \E i \in live : DetectorDone(i)

RegistrySpec == RegistryInit /\ [][RegistryNext]_registryVars

(* The loop after wg.Wait: the first error in order, or the findings in order. *)
Joined ==
    LET upTo[i \in 0..Len(slot)] ==
            IF i = 0 THEN Empty
            ELSE IF upTo[i - 1].err # NoError THEN upTo[i - 1]
            ELSE IF slot[i].err # NoError THEN slot[i]
            ELSE [Empty EXCEPT !.findings = upTo[i - 1].findings \o slot[i].findings]
    IN  upTo[Len(slot)]

----------------------------------------------------------------------------

(* What Detect promises: as if the detectors had run one after another in    *)
(* the order they were registered in, whichever goroutine finishes first;    *)
(* of several errors the first in that order, and no finding with it         *)
(* (detect.go 64-66).                                                        *)
RunsInOrder ==
    registry = "returned" =>
        LET ran == [i \in DOMAIN order |-> One(order[i], outcome[i])]
            failing == {i \in DOMAIN order : ran[i].err # NoError}
        IN  IF failing # {} THEN Joined = ran[Min(failing)]
            ELSE Joined = [findings |-> FlattenSeq([i \in DOMAIN order |-> ran[i].findings]),
                           err |-> NoError]
===============================================================================
