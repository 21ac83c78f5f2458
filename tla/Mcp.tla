---------------------------------- MODULE Mcp ----------------------------------
(***************************************************************************)
(* The MCP adapter (agentgateway/mcp.go): agents list and call tools, and  *)
(* read resources, through a gateway that shows the inspector each request *)
(* before a server sees it and each result before the agent does.  Beside  *)
(* them the agents chat with a model, which llm.go inspects under the      *)
(* session of the same agent (LlmExchange has that path's own steps).      *)
(*                                                                         *)
(* Each inspection is one step (Inspection); a tools/list result takes one *)
(* per tool, and other calls run in between.  The store does not forget.   *)
(* A name is a sequence of words: the gateway joins words with "_".        *)
(***************************************************************************)
EXTENDS Inspection, SequencesExt

CONSTANTS Calls,
          Agents,            \* each with the session ids it sends
          Services,          \* the MCP servers of the route, in order
          Jobs,              \* what agents may ask
          Catalogs,          \* the tool lists servers may answer, in order
          Results,           \* the results they may answer
          Malformed, NoText, NotAnObject,   \* payloads there is nothing to read in
          MaxFaults

Methods == {"tools/list", "tools/call", "resources/read", "prompts/get", "chat"}

Agent == [xSession : Sessions \cup {NoSession}, mcpSession : Sessions \cup {NoSession},
          trace : Sessions \cup {NoSession}]

Job == [method : Methods, agent : Agents, server : Range(Services), tool : Tools,
        content : Contents \cup {Malformed, NoText}]

Definition == [server : Range(Services), tool : Tools, content : Contents \cup {NotAnObject}]

(* What an agent may be known by. *)
Identities(agent) == {agent.xSession, agent.mcpSession, agent.trace} \ {NoSession}

(* A name is some words. *)
IsName(name) == name \in Seq(Range(name)) /\ name # <<>>

(* The session ids of two agents differ: clients and the gateway draw them   *)
(* at random, and nothing in the code could tell agents that share one.      *)
ASSUME McpAssumption ==
    /\ NoSession \notin Sessions /\ NoTool \notin Tools
    /\ ContentHash \in [Contents -> Hashes]
    /\ {Malformed, NoText, NotAnObject} \cap Contents = {} /\ Malformed # NoText
    /\ Agents \subseteq Agent /\ Jobs \subseteq Job /\ Jobs # {}
    /\ \A a, b \in Agents : Identities(a) \cap Identities(b) # {} => a = b
    /\ \A j \in Jobs : j.method = "chat" => j.content \in Contents
    /\ Services \in Seq(Range(Services)) /\ Catalogs \subseteq Seq(Definition)
    /\ \A name \in Range(Services) \cup Tools : IsName(name)
    /\ Results \subseteq Contents \cup {Malformed, NoText}
    /\ MaxFaults \in Nat

VARIABLES pc, job, answer,      \* where each call is, what it asks, its outcome
          tools, result,        \* what the server answered it
          at, kept, changed,    \* toolsList: next tool, tools kept, whether any changed
          faults,
          \* Histories, for stating properties:
          removed,              \* the tools of the list that the policy removed
          failed,               \* whether some inspection of the call failed
          before                \* the calls that had ended when it began

listVars == <<at, kept, changed, removed>>
vars == <<storeVars, pc, job, answer, tools, result, listVars, faults, failed, before>>

----------------------------------------------------------------------------
(* The session.                                                            *)

FirstOf(a, b) == IF a # NoSession THEN a ELSE b

(* sessionFrom, on the headers an agent sends. *)
SessionFrom(agent) == FirstOf(agent.xSession, FirstOf(agent.mcpSession, agent.trace))

(* Requests carry metadata_context and headers, responses only the former;   *)
(* the gateway fills `session` and `mcp_session` from the request's headers. *)
RequestSession(agent) == FirstOf(agent.xSession, SessionFrom(agent))

(* Mutant: the mcp_session key is not read. *)
ResponseSession_OneKey(agent) == agent.xSession

ResponseSession(agent) == FirstOf(agent.xSession, agent.mcpSession)

(* Model routes are not MCP, so no Mcp-Session-Id comes with a chat. *)
ChatSession(agent) == SessionFrom([agent EXCEPT !.mcpSession = NoSession])

----------------------------------------------------------------------------
(* The names of tools.                                                     *)

(* How a list shows a tool when the gateway joins several servers. *)
ListedName(d) == IF Len(Services) > 1 THEN d.server \o d.tool ELSE d.tool

(* Mutant: the server's name is left on. *)
NativeToolName_Muxed(name) == name

(* The first server whose name and a "_" begin the listed name is cut off. *)
NativeToolName(name) ==
    LET prefixing == {i \in DOMAIN Services : IsStrictPrefix(Services[i], name)}
    IN  IF Len(Services) < 2 \/ prefixing = {} THEN name
        ELSE SubSeq(name, Len(Services[Min(prefixing)]) + 1, Len(name))

----------------------------------------------------------------------------

ToRequest(surface, session, source, content) ==
    [surface |-> surface, session |-> session, source |-> source, content |-> content]

DefinitionRequest(c, i) ==
    LET d == tools[c][i]
    IN  ToRequest("tool_definition", ResponseSession(job[c].agent),
                  NativeToolName(ListedName(d)), d.content)

CallRequest(c) ==
    ToRequest("tool_call", RequestSession(job[c].agent), job[c].tool, job[c].content)

(* The response names no tool, only the server it came from. *)
ResultRequest(c) ==
    ToRequest("tool_result", ResponseSession(job[c].agent), job[c].server, result[c])

ChatRequest(c) ==
    ToRequest("tool_result", ChatSession(job[c].agent), NoTool, job[c].content)

(* One inspection: with the policy's verdict, or with on_error's. *)
Inspects(c, r, v) ==
    \/ /\ Inspect(r, v)
       /\ UNCHANGED <<faults, failed>>
    \/ /\ faults < MaxFaults
       /\ faults' = faults + 1
       /\ InspectFails(r, v)
       /\ failed' = [failed EXCEPT ![c] = TRUE]

NotInspected == UNCHANGED <<storeVars, faults, failed>>

Redacts(v) == v.action = "redact" /\ v.redactions # {}

Goto(c, stage) == pc' = [pc EXCEPT ![c] = stage]

Ends(c, outcome) == Goto(c, "done") /\ answer' = [answer EXCEPT ![c] = outcome]

Init ==
    /\ EmptyStore
    /\ pc = [c \in Calls |-> "idle"]
    /\ job = [c \in Calls |-> CHOOSE j \in Jobs : TRUE]
    /\ answer = [c \in Calls |-> "none"]
    /\ tools = [c \in Calls |-> <<>>]
    /\ result = [c \in Calls |-> NoText]
    /\ at = [c \in Calls |-> 1]
    /\ kept = [c \in Calls |-> <<>>]
    /\ changed = [c \in Calls |-> FALSE]
    /\ removed = [c \in Calls |-> {}]
    /\ failed = [c \in Calls |-> FALSE]
    /\ faults = 0
    /\ before = [c \in Calls |-> {}]

Begin(c) ==
    /\ pc[c] = "idle"
    /\ \E j \in Jobs : job' = [job EXCEPT ![c] = j]
    /\ before' = [before EXCEPT ![c] = {b \in Calls : pc[b] = "done"}]
    /\ Goto(c, "request")
    /\ UNCHANGED <<answer, tools, result, listVars>> /\ NotInspected

(* CheckRequest: every method passes but tools/call with params. *)
PassRequest(c) ==
    /\ pc[c] = "request" /\ job[c].method # "chat"
    /\ job[c].method = "tools/call" => job[c].content = NoText
    /\ Goto(c, "server")
    /\ UNCHANGED <<job, answer, tools, result, listVars, before>> /\ NotInspected

(* Mutant: neither a result nor an error is returned. *)
RejectParams_Silent(c) ==
    /\ pc[c] = "request" /\ job[c].method = "tools/call"
    /\ job[c].content = Malformed
    /\ Ends(c, "none")
    /\ UNCHANGED <<job, tools, result, listVars, before>> /\ NotInspected

RejectParams(c) ==
    /\ pc[c] = "request" /\ job[c].method = "tools/call"
    /\ job[c].content = Malformed
    /\ Ends(c, "error")
    /\ UNCHANGED <<job, tools, result, listVars, before>> /\ NotInspected

CheckCall(c) ==
    /\ pc[c] = "request" /\ job[c].method = "tools/call"
    /\ job[c].content \in Contents
    /\ \E v \in Outcomes(CallRequest(c)) :
         /\ Inspects(c, CallRequest(c), v)
         /\ IF v.action = "block" THEN Ends(c, "denied")
                                  ELSE Goto(c, "server") /\ UNCHANGED answer
    /\ UNCHANGED <<job, tools, result, listVars, before>>

(* llm.go inspectRequest, the batch of tool messages. *)
CheckChat(c) ==
    /\ pc[c] = "request" /\ job[c].method = "chat"
    /\ job[c].content \in Contents
    /\ \E v \in Outcomes(ChatRequest(c)) :
         /\ Inspects(c, ChatRequest(c), v)
         /\ Ends(c, IF v.action = "block" THEN "denied"
                    ELSE IF Redacts(v) THEN "mutated" ELSE "pass")
    /\ UNCHANGED <<job, tools, result, listVars, before>>

ServerAnswers(c) ==
    /\ pc[c] = "server"
    /\ \/ /\ job[c].method = "tools/list"
          /\ \E catalog \in Catalogs : tools' = [tools EXCEPT ![c] = catalog]
          /\ UNCHANGED result
       \/ /\ \E r \in Results : result' = [result EXCEPT ![c] = r]
          /\ job[c].method = "tools/list" => result'[c] = Malformed
          /\ UNCHANGED tools
    /\ Goto(c, "response")
    /\ UNCHANGED <<job, answer, listVars, before>> /\ NotInspected

(* CheckResponse: other methods pass, and so does a result without text. *)
PassResponse(c) ==
    /\ pc[c] = "response" /\ job[c].method # "tools/list"
    /\ job[c].method = "prompts/get" \/ result[c] = NoText
    /\ Ends(c, "pass")
    /\ UNCHANGED <<job, tools, result, listVars, before>> /\ NotInspected

RejectResult(c) ==
    /\ pc[c] = "response" /\ job[c].method # "prompts/get"
    /\ result[c] = Malformed
    /\ Ends(c, "error")
    /\ UNCHANGED <<job, tools, result, listVars, before>> /\ NotInspected

CheckResult(c) ==
    /\ pc[c] = "response" /\ job[c].method \in {"tools/call", "resources/read"}
    /\ result[c] \in Contents
    /\ \E v \in Outcomes(ResultRequest(c)) :
         /\ Inspects(c, ResultRequest(c), v)
         /\ Ends(c, IF v.action = "block" THEN "denied"
                    ELSE IF Redacts(v) THEN "mutated" ELSE "pass")
    /\ UNCHANGED <<job, tools, result, listVars, before>>

Listing(c) ==
    /\ pc[c] = "response" /\ job[c].method = "tools/list" /\ result[c] # Malformed
    /\ at[c] <= Len(tools[c])
    /\ at' = [at EXCEPT ![c] = @ + 1]
    /\ UNCHANGED <<pc, job, answer, tools, result, before>>

Keep(c) == kept' = [kept EXCEPT ![c] = Append(@, at[c])]

KeepOddEntry(c) ==
    /\ Listing(c)
    /\ tools[c][at[c]].content = NotAnObject
    /\ Keep(c)
    /\ UNCHANGED <<changed, removed>> /\ NotInspected

(* Mutant: only a redaction counts as a change. *)
CheckDefinition_BlockUnchanged(c) ==
    /\ Listing(c)
    /\ tools[c][at[c]].content \in Contents
    /\ \E v \in Outcomes(DefinitionRequest(c, at[c])) :
         /\ Inspects(c, DefinitionRequest(c, at[c]), v)
         /\ IF v.action = "block" THEN UNCHANGED kept ELSE Keep(c)
         /\ changed' = [changed EXCEPT ![c] = @ \/ Redacts(v)]
         /\ removed' = [removed EXCEPT ![c] =
              IF v.action = "block" /\ faults' = faults THEN @ \cup {at[c]} ELSE @]

(* toolsList, one tool: a blocked one is left out. *)
CheckDefinition(c) ==
    /\ Listing(c)
    /\ tools[c][at[c]].content \in Contents
    /\ \E v \in Outcomes(DefinitionRequest(c, at[c])) :
         /\ Inspects(c, DefinitionRequest(c, at[c]), v)
         /\ IF v.action = "block" THEN UNCHANGED kept ELSE Keep(c)
         /\ changed' = [changed EXCEPT ![c] = @ \/ v.action = "block" \/ Redacts(v)]
         /\ removed' = [removed EXCEPT ![c] =
              IF v.action = "block" /\ faults' = faults THEN @ \cup {at[c]} ELSE @]

ListDone(c) ==
    /\ pc[c] = "response" /\ job[c].method = "tools/list" /\ result[c] # Malformed
    /\ at[c] > Len(tools[c])
    /\ Ends(c, IF changed[c] THEN "mutated" ELSE "pass")
    /\ UNCHANGED <<job, tools, result, listVars, before>> /\ NotInspected

CheckRequest(c) == PassRequest(c) \/ RejectParams(c) \/ CheckCall(c) \/ CheckChat(c)

CheckResponse(c) ==
    \/ PassResponse(c) \/ RejectResult(c) \/ CheckResult(c)
    \/ KeepOddEntry(c) \/ CheckDefinition(c) \/ ListDone(c)

Next ==
    \E c \in Calls : Begin(c) \/ CheckRequest(c) \/ ServerAnswers(c) \/ CheckResponse(c)

Spec == Init /\ [][Next]_vars
===============================================================================
