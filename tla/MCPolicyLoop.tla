----------------------------- MODULE MCPolicyLoop -----------------------------
(***************************************************************************)
(* Every bundle of up to three of the rules below, against every hop that  *)
(* differs in what the rules look at.                                      *)
(***************************************************************************)
EXTENDS PolicyLoop

Unset == [detector |-> {}, typeIn |-> {}, scoreGTE |-> {}, tool |-> {},
          sessionTainted |-> {}, pinChanged |-> {}]

Rule(surface, when, action, taint) ==
    [surface |-> surface, when |-> when, action |-> action, taint |-> taint]

MCRules ==
    {Rule({}, [Unset EXCEPT !.detector = {"injection"}, !.scoreGTE = {5}], "block", TRUE),
     Rule({"tool_result"}, [Unset EXCEPT !.typeIn = {"email", "card"}], "redact", FALSE),
     Rule({}, [Unset EXCEPT !.detector = {"pii", "injection"}], "flag", FALSE),
     Rule({"tool_call"}, [Unset EXCEPT !.sessionTainted = {TRUE}, !.tool = {"erp"}], "block", FALSE),
     Rule({"tool_result"}, [Unset EXCEPT !.sessionTainted = {TRUE}], "redact", FALSE),
     Rule({"tool_definition"}, [Unset EXCEPT !.pinChanged = {TRUE}], "block", FALSE),
     Rule({"tool_call", "tool_result"}, [Unset EXCEPT !.pinChanged = {FALSE}], "allow", TRUE),
     Rule({}, Unset, "blok", FALSE)}

MCBundles == UNION {[1..n -> MCRules] : n \in 0..3}

MCFindings ==
    {[detector |-> "injection", type |-> "override", score |-> 9, span |-> "S1"],
     [detector |-> "injection", type |-> "override", score |-> 1, span |-> "S2"],
     [detector |-> "pii", type |-> "email", score |-> 9, span |-> "S3"]}

MCInputs ==
    [surface : {"tool_definition", "tool_call", "tool_result"}, source : {"erp"},
     findings : SUBSET MCFindings, sessionTainted : BOOLEAN, pinChanged : {FALSE}]
    \cup
    [surface : {"tool_definition"}, source : {"erp", "crm"},
     findings : {{}}, sessionTainted : {FALSE}, pinChanged : {TRUE}]
===============================================================================
