----------------------------- MODULE MemoryStore ------------------------------
(***************************************************************************)
(* session.Memory (internal/session/session.go): three maps of entries     *)
(* with an expiry time, deleted only when a read finds them expired.  Each *)
(* method holds the mutex from its first line to its last, so each is one  *)
(* step; the clock is read inside it.                                      *)
(***************************************************************************)
EXTENDS Integers

CONSTANTS Sessions, Tools, Hashes, NoHash, TTL,
          MaxNow               \* the clock stops here

ASSUME MemoryAssumption == TTL \in Int /\ NoHash \notin Hashes /\ MaxNow \in Nat

VARIABLES now,                 \* the clock; it starts at 1, after the zero time
          taintEntry,          \* expiresAt of each session's entry, or Gone
          pinEntry,            \* value and expiresAt of each tool's
          blockedEntry,
          ret                  \* the answer to the last call

memoryVars == <<now, taintEntry, pinEntry, blockedEntry, ret>>

Keys == Sessions \X Tools
Zero == 0                      \* time.Time{}: never expires
Gone == -1                     \* no entry in the map

Absent == [value |-> NoHash, expiresAt |-> Gone]

Live(expiresAt) == expiresAt # Gone /\ (expiresAt = Zero \/ expiresAt > now)

Expiry_Swapped == IF TTL <= 0 THEN Zero ELSE TTL - now      \* mutant: sign of the sum

Expiry == IF TTL <= 0 THEN Zero ELSE now + TTL

MemoryTypeOK ==
    /\ now \in Nat \ {0}
    /\ taintEntry \in [Sessions -> Nat \cup {Gone}]
    /\ pinEntry \in [Keys -> [value : Hashes \cup {NoHash}, expiresAt : Nat \cup {Gone}]]
    /\ blockedEntry \in [Keys -> Nat \cup {Gone}]

MemoryInit ==
    /\ now = 1
    /\ taintEntry = [s \in Sessions |-> Gone]
    /\ pinEntry = [k \in Keys |-> Absent]
    /\ blockedEntry = [k \in Keys |-> Gone]
    /\ ret = <<"none">>

MemTainted(s) ==
    /\ ret' = <<"Tainted", s, Live(taintEntry[s])>>
    /\ taintEntry' = [taintEntry EXCEPT ![s] = IF Live(@) THEN @ ELSE Gone]
    /\ UNCHANGED <<now, pinEntry, blockedEntry>>

MemTaint(s) ==
    /\ taintEntry' = [taintEntry EXCEPT ![s] = Expiry]
    /\ ret' = <<"Taint", s>>
    /\ UNCHANGED <<now, pinEntry, blockedEntry>>

(* Mutant: an expired pin is deleted, but still answered. *)
MemToolPin_Stale(k) ==
    /\ ret' = <<"ToolPin", k, pinEntry[k].value>>
    /\ pinEntry' = [pinEntry EXCEPT ![k] = IF Live(@.expiresAt) THEN @ ELSE Absent]
    /\ UNCHANGED <<now, taintEntry, blockedEntry>>

MemToolPin(k) ==
    /\ ret' = <<"ToolPin", k, IF Live(pinEntry[k].expiresAt) THEN pinEntry[k].value ELSE NoHash>>
    /\ pinEntry' = [pinEntry EXCEPT ![k] = IF Live(@.expiresAt) THEN @ ELSE Absent]
    /\ UNCHANGED <<now, taintEntry, blockedEntry>>

MemPinTool(k, hash) ==
    /\ pinEntry' = [pinEntry EXCEPT ![k] = [value |-> hash, expiresAt |-> Expiry]]
    /\ ret' = <<"PinTool", k>>
    /\ UNCHANGED <<now, taintEntry, blockedEntry>>

MemToolBlocked(k) ==
    /\ ret' = <<"ToolBlocked", k, Live(blockedEntry[k])>>
    /\ blockedEntry' = [blockedEntry EXCEPT ![k] = IF Live(@) THEN @ ELSE Gone]
    /\ UNCHANGED <<now, taintEntry, pinEntry>>

MemBlockTool(k) ==
    /\ blockedEntry' = [blockedEntry EXCEPT ![k] = Expiry]
    /\ ret' = <<"BlockTool", k>>
    /\ UNCHANGED <<now, taintEntry, pinEntry>>

ClockTick ==
    /\ now < MaxNow
    /\ now' = now + 1
    /\ UNCHANGED <<taintEntry, pinEntry, blockedEntry, ret>>

MemoryNext ==
    \/ \E s \in Sessions : MemTainted(s) \/ MemTaint(s)
    \/ \E k \in Keys : MemToolPin(k) \/ MemToolBlocked(k) \/ MemBlockTool(k)
    \/ \E k \in Keys, hash \in Hashes : MemPinTool(k, hash)
    \/ ClockTick

MemorySpec == MemoryInit /\ [][MemoryNext]_memoryVars

----------------------------------------------------------------------------
(* An entry as the mark it stands for: what is left of its lifetime.       *)

LifeLeft(expiresAt) ==
    IF ~Live(expiresAt) THEN 0 ELSE IF expiresAt = Zero THEN -1 ELSE expiresAt - now

taintMark == [s \in Sessions |-> LifeLeft(taintEntry[s])]
pinMark == [k \in Keys |->
              [hash |-> IF Live(pinEntry[k].expiresAt) THEN pinEntry[k].value ELSE NoHash,
               left |-> LifeLeft(pinEntry[k].expiresAt)]]
blockedMark == [k \in Keys |-> LifeLeft(blockedEntry[k])]

Service == INSTANCE SessionService
             WITH taint <- taintMark, pins <- pinMark, blocked <- blockedMark

(* Memory keeps the Store interface's promise: each answer is the one the    *)
(* marks alive at that instant give, and lazy deletion is never seen.        *)
KeepsStorePromise == Service!ServiceSpec
===============================================================================
