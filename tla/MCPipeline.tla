------------------------------ MODULE MCPipeline ------------------------------
(***************************************************************************)
(* A small deployment: one tool, one session, and the rules of             *)
(* deploy/e2e/policy.yaml and DESIGN 3.6 that use the session state.  An   *)
(* injected definition taints as well as blocks, so that a hop has two     *)
(* marks to write and may fail between them.                               *)
(***************************************************************************)
EXTENDS PipelineProps, TLC

CONSTANTS h1, h2, h3, s1, t1, none

MCSessions == {s1}
MCTools == {t1}

(* The definition that gets approved, one that drifted, one with an          *)
(* instruction hidden in it, and a poisoned tool result.                     *)
MCContents == {"approved", "drifted", "poison"}
MCHashes == {"H1", "H2", "H3"}
MCContentHash == [approved |-> "H1", drifted |-> "H2", poison |-> "H3"]

Injection == [detector |-> "injection", type |-> "instruction", score |-> 9, span |-> "S"]
MCFindingsOf == [approved |-> {}, drifted |-> {}, poison |-> {Injection}]

Hop(surface, session, source, content) ==
    [surface |-> surface, session |-> session, source |-> source, content |-> content]

MCRequests ==
    {Hop("tool_definition", s1, t1, c) : c \in MCContents}
    \cup {Hop("tool_call", s1, t1, "approved"), Hop("tool_result", s1, t1, "poison")}

(* The same with one definition that differs from the approved one: the      *)
(* poisoned one, which is drift and removes the tool whether first or not.   *)
MCFewRequests == MCRequests \ {Hop("tool_definition", s1, t1, "drifted")}

(* The requests with no session, or with no tool name, as well. *)
MCAllRequests ==
    MCRequests \cup
    {Hop("input", none, none, "poison"), Hop("output", s1, none, "poison"),
     Hop("tool_call", s1, none, "approved"), Hop("tool_definition", none, t1, "drifted")}

AnyHop == [detector |-> {}, typeIn |-> {}, scoreGTE |-> {}, tool |-> {},
        sessionTainted |-> {}, pinChanged |-> {}]
Rule(surfaces, when, action, taints) ==
    [surface |-> surfaces, when |-> when, action |-> action, taint |-> taints]
Detects(d) == [AnyHop EXCEPT !.detector = {d}, !.scoreGTE = {5}]

MCRules ==
    {Rule({"tool_definition"}, [AnyHop EXCEPT !.pinChanged = {TRUE}], "block", FALSE),
     Rule({"tool_definition"}, Detects("injection"), "block", TRUE),
     Rule({"tool_result", "output"}, Detects("injection"), "redact", TRUE),
     Rule({"tool_call"}, [AnyHop EXCEPT !.sessionTainted = {TRUE}], "flag", FALSE)}

HopSymmetry == Permutations(Hops)
===============================================================================
