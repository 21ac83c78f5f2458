------------------------------ MODULE Inspection -------------------------------
(***************************************************************************)
(* core.Inspector as an adapter sees it: one call of Pipeline.Inspect,     *)
(* taken as a single step of the store.  Pipeline has the steps inside and *)
(* what happens when calls overlap; the adapters are modelled over this.   *)
(***************************************************************************)
EXTENDS Decisions

(* What an inspection reads of the session. *)
Seen(r) ==
    [tainted |-> InSession(r) /\ Tainted(r.session),
     pinChanged |-> IsDefinition(r) /\ ToolPin(Key(r)) \notin {NoHash, ContentHash[r.content]},
     toolBlocked |-> IsCall(r) /\ ToolBlocked(Key(r))]

Decided(r) == Decision(r, Seen(r))

(* What it writes there: a first pin, the taint, the block, in that order. *)
Pins(r) == IsDefinition(r) /\ ToolPin(Key(r)) = NoHash
Taints(r) == InSession(r) /\ Decided(r).taint
Removes(r) == IsDefinition(r) /\ Decided(r).action = "block"

Writes(r, pin, tainting, blocking) ==
    /\ pins' = IF pin
               THEN [pins EXCEPT ![Key(r)] = [hash |-> ContentHash[r.content], left |-> Lifetime]]
               ELSE pins
    /\ taint' = IF tainting THEN [taint EXCEPT ![r.session] = Lifetime] ELSE taint
    /\ blocked' = IF blocking THEN [blocked EXCEPT ![Key(r)] = Lifetime] ELSE blocked

Inspect(r, v) ==
    /\ v = Decided(r)
    /\ Writes(r, Pins(r), Taints(r), Removes(r))

(* A stage fails: what was written before it, or at most by it, remains. *)
InspectFails(r, v) ==
    /\ v = OnErrorVerdict
    /\ \E done \in 0..3 :
         Writes(r, done >= 1 /\ Pins(r), done >= 2 /\ Taints(r), done >= 3 /\ Removes(r))

(* The verdicts an inspection can return. *)
Outcomes(r) == {Decided(r), OnErrorVerdict}
===============================================================================
