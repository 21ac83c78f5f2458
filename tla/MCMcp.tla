---------------------------------- MODULE MCMcp --------------------------------
(***************************************************************************)
(* A route with two servers, the policy of mcp_test.go, and agents that    *)
(* send an x-session-id, or only have the gateway's Mcp-Session-Id.        *)
(***************************************************************************)
EXTENDS McpProps, TLC

CONSTANTS x1, m1, m2, i2, none

MCSessions == {x1, m1, m2, i2}

(* A stateful gateway mints an Mcp-Session-Id whatever the agent sends. *)
ByHeader == [xSession |-> x1, mcpSession |-> m1, trace |-> none]
ByGateway == [xSession |-> none, mcpSession |-> m2, trace |-> i2]

MCAgents == {ByHeader, ByGateway}

Mail == <<"mail">>
Files == <<"files">>
MailArchive == <<"mail", "archive">>
MCServices == <<Mail, Files>>
MCPrefixServices == <<Mail, MailArchive>>

Send == <<"send", "mail">>
Get == <<"get">>

(* Every name a request's source may have: bare, listed, a server's. *)
MCTools == {Send, Get, Mail, Files, MailArchive, Mail \o Send, Files \o Get, <<"archive", "get">>}

MCContents == {"plain", "plain2", "poison", "card"}
MCHashes == {"H1", "H2", "H3", "H4"}
MCContentHash == [plain |-> "H1", plain2 |-> "H2", poison |-> "H3", card |-> "H4"]
MCFindingsOf ==
    [plain |-> {}, plain2 |-> {},
     poison |-> {[detector |-> "injection", type |-> "instruction", score |-> 9, span |-> "S"]},
     card |-> {[detector |-> "pii", type |-> "card", score |-> 9, span |-> "S"]}]

AnyHop == [detector |-> {}, typeIn |-> {}, scoreGTE |-> {}, tool |-> {},
           sessionTainted |-> {}, pinChanged |-> {}]
Rule(surfaces, when, action, taints) ==
    [surface |-> surfaces, when |-> when, action |-> action, taint |-> taints]

MCRules ==
    {Rule({"tool_definition"}, [AnyHop EXCEPT !.detector = {"injection"}], "block", FALSE),
     Rule({"tool_definition"}, [AnyHop EXCEPT !.pinChanged = {TRUE}], "block", FALSE),
     Rule({"tool_call", "tool_result"}, [AnyHop EXCEPT !.detector = {"pii"}, !.typeIn = {"card"}],
          "redact", FALSE),
     Rule({"tool_result"}, [AnyHop EXCEPT !.detector = {"injection"}], "flag", TRUE),
     Rule({"tool_call"}, [AnyHop EXCEPT !.tool = {Send}, !.sessionTainted = {TRUE}], "block", FALSE)}

Ask(method, agent, server, tool, content) ==
    [method |-> method, agent |-> agent, server |-> server, tool |-> tool, content |-> content]

Asks(agent) ==
    {Ask("tools/list", agent, Mail, Send, NoText),
     Ask("tools/call", agent, Mail, Send, "plain"),
     Ask("chat", agent, Files, Get, "poison")}

MCJobs == UNION {Asks(agent) : agent \in Agents}
              \cup {Ask("tools/call", ByGateway, Files, Get, "card"),
                    Ask("tools/call", ByHeader, Mail, Send, Malformed)}

Defined(server, tool, content) == [server |-> server, tool |-> tool, content |-> content]

MCCatalogs ==
    {<<Defined(Mail, Send, "plain"), Defined(Files, Get, "poison")>>,
     <<Defined(Mail, Send, "plain2"), Defined(Mail, Send, NotAnObject), Defined(Files, Get, "plain")>>}

(* Jobs and lists of the route whose server names overlap. *)
MCPrefixJobs == {Ask("prompts/get", ByHeader, Mail, Send, NoText),
                 Ask("tools/list", ByHeader, Mail, Send, NoText),
                 Ask("tools/call", ByHeader, MailArchive, Get, "plain")}
MCPrefixCatalogs == {<<Defined(MailArchive, Get, "poison")>>, <<Defined(Mail, Get, "poison")>>,
                     <<Defined(Mail, Send, "plain"), Defined(MailArchive, Get, "poison")>>}

CallSymmetry == Permutations(Calls)

MCResults == {"card", "poison", Malformed, NoText}
================================================================================
