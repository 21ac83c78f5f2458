----------------------------- MODULE SessionStore -----------------------------
(***************************************************************************)
(* What session.Store promises (internal/session/session.go, Store): three *)
(* maps of TTL-bounded marks, each operation one atomic step.  A mark is   *)
(* modelled by the lifetime it has left, which Tick counts down, so expiry *)
(* needs no deletion; this is also exactly what Redis does for the Redis   *)
(* implementation.  MemoryStore shows the in-process one does the same.    *)
(***************************************************************************)
EXTENDS Integers

CONSTANTS Sessions,   \* session ids, the empty one excluded
          Tools,      \* tool names, the empty one excluded
          Hashes,     \* definition hashes
          NoHash,     \* the hash of a tool that has no pin
          TTL         \* ticks a mark survives; <= 0 is "no expiry"

ASSUME StoreAssumption == TTL \in Int /\ NoHash \notin Hashes

VARIABLES taint, pins, blocked

storeVars == <<taint, pins, blocked>>

Keys == Sessions \X Tools

Forever == -1
Life == Nat \cup {Forever}          \* 0: the mark is absent or has expired
Alive(left) == left # 0
Older_ZeroExpires(left) == IF left = 0 THEN 0 ELSE left - 1     \* mutant: "no expiry" is a time
Older(left) == IF left > 0 THEN left - 1 ELSE left
Lifetime == IF TTL <= 0 THEN Forever ELSE TTL

NoPin == [hash |-> NoHash, left |-> 0]
OlderPin(pin) == IF pin.left = 1 THEN NoPin ELSE [pin EXCEPT !.left = Older(@)]

StoreTypeOK ==
    /\ taint \in [Sessions -> Life]
    /\ pins \in [Keys -> [hash : Hashes \cup {NoHash}, left : Life]]
    /\ blocked \in [Keys -> Life]

EmptyStore ==
    /\ taint = [s \in Sessions |-> 0]
    /\ pins = [k \in Keys |-> NoPin]
    /\ blocked = [k \in Keys |-> 0]

(* A process that keeps its marks in memory loses them all. *)
ClearStore ==
    /\ taint' = [s \in Sessions |-> 0]
    /\ pins' = [k \in Keys |-> NoPin]
    /\ blocked' = [k \in Keys |-> 0]

Tainted(s) == Alive(taint[s])
ToolPin(k) == pins[k].hash               \* NoHash: no pin
ToolBlocked(k) == Alive(blocked[k])

Taint(s) ==
    /\ taint' = [taint EXCEPT ![s] = Lifetime]
    /\ UNCHANGED <<pins, blocked>>

PinTool(k, hash) ==
    /\ pins' = [pins EXCEPT ![k] = [hash |-> hash, left |-> Lifetime]]
    /\ UNCHANGED <<taint, blocked>>

(* Mutant: a mark that is there already is not refreshed. *)
BlockTool_IfAbsent(k) ==
    /\ blocked' = [blocked EXCEPT ![k] = IF Alive(@) THEN @ ELSE Lifetime]
    /\ UNCHANGED <<taint, pins>>

BlockTool(k) ==
    /\ blocked' = [blocked EXCEPT ![k] = Lifetime]
    /\ UNCHANGED <<taint, pins>>

TickStore ==
    /\ taint' = [s \in Sessions |-> Older(taint[s])]
    /\ pins' = [k \in Keys |-> OlderPin(pins[k])]
    /\ blocked' = [k \in Keys |-> Older(blocked[k])]
===============================================================================
