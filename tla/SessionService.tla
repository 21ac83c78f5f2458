---------------------------- MODULE SessionService ----------------------------
(***************************************************************************)
(* The promise of the session.Store interface as a specification: what     *)
(* each call answers and leaves behind, as time passes.  `ret` is the      *)
(* answer to the last call.                                                *)
(***************************************************************************)
EXTENDS SessionStore

VARIABLE ret

serviceVars == <<storeVars, ret>>

NoAnswer == <<"none">>

ServiceInit == EmptyStore /\ ret = NoAnswer

AskTainted(s) == ret' = <<"Tainted", s, Tainted(s)>> /\ UNCHANGED storeVars
AskToolPin(k) == ret' = <<"ToolPin", k, ToolPin(k)>> /\ UNCHANGED storeVars
AskToolBlocked(k) == ret' = <<"ToolBlocked", k, ToolBlocked(k)>> /\ UNCHANGED storeVars

DoTaint(s) == Taint(s) /\ ret' = <<"Taint", s>>
DoPinTool(k, hash) == PinTool(k, hash) /\ ret' = <<"PinTool", k>>
DoBlockTool(k) == BlockTool(k) /\ ret' = <<"BlockTool", k>>

TimePasses == TickStore /\ UNCHANGED ret

ServiceNext ==
    \/ \E s \in Sessions : AskTainted(s) \/ DoTaint(s)
    \/ \E k \in Keys : AskToolPin(k) \/ AskToolBlocked(k) \/ DoBlockTool(k)
    \/ \E k \in Keys, hash \in Hashes : DoPinTool(k, hash)
    \/ TimePasses

ServiceSpec == ServiceInit /\ [][ServiceNext]_serviceVars
===============================================================================
