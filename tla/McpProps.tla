-------------------------------- MODULE McpProps -------------------------------
(***************************************************************************)
(* What the MCP adapter promises the agents' owner (mcp.go, DESIGN 4 and   *)
(* its decision 2 on session identity).                                    *)
(***************************************************************************)
EXTENDS Mcp

(* Every variable holds a value of its kind, and a call ends with an answer. *)
McpTypeOK ==
    /\ StoreTypeOK
    /\ pc \in [Calls -> {"idle", "request", "server", "response", "done"}]
    /\ job \in [Calls -> Jobs]
    /\ answer \in [Calls -> {"none", "pass", "mutated", "denied", "error"}]
    /\ \A c \in Calls : pc[c] = "done" <=> answer[c] # "none"
    /\ tools \in [Calls -> Catalogs \cup {<<>>}]
    /\ result \in [Calls -> Results \cup {NoText}]
    /\ at \in [Calls -> Nat] /\ kept \in [Calls -> Seq(Nat)]
    /\ changed \in [Calls -> BOOLEAN] /\ failed \in [Calls -> BOOLEAN]
    /\ removed \in [Calls -> SUBSET Nat] /\ before \in [Calls -> SUBSET Calls]
    /\ faults \in 0..MaxFaults

(* The call was refused: what came of it never reached a server. *)
Refused(c) == answer[c] \in {"denied", "error"} /\ tools[c] = <<>> /\ result[c] = NoText

Asked(c) == pc[c] \in {"server", "response", "done"}
IsToolCall(c) == job[c].method = "tools/call" /\ job[c].content \in Contents

SameAgent(b, c) == job[b].agent = job[c].agent

(* A poisoned result, or chat message, that went through to the agent. *)
TookPoison(c) ==
    /\ pc[c] = "done" /\ answer[c] \in {"pass", "mutated"}
    /\ \/ /\ job[c].method \in {"tools/call", "resources/read"}
          /\ result[c] \in Contents /\ Poisoned(ResultRequest(c))
       \/ job[c].method = "chat" /\ Poisoned(ChatRequest(c))

(* A call the rules refuse in a tainted session. *)
RefusedIfTainted(c) ==
    Evaluate(Rules, EvalInput(CallRequest(c), TRUE, FALSE)).action = "block"

(* What an agent sends that ties its requests and results together: an agent *)
(* that sends only a trace id has results in no session, since responses     *)
(* carry no headers, and a chat carries no Mcp-Session-Id.                   *)
Tied(c) ==
    LET agent == job[c].agent
    IN  \/ agent.xSession # NoSession
        \/ agent.mcpSession # NoSession /\ job[c].method # "chat"

(* Poison an agent took, from a tool or by way of its model, marks the       *)
(* session its later calls are checked in, although requests, results and    *)
(* chats carry the session id in different places (mcp.go 252-304).          *)
PoisonBindsLaterCalls ==
    \A b, c \in Calls :
        /\ b \in before[c] /\ SameAgent(b, c) /\ Tied(b) /\ FailsClosed
        /\ TookPoison(b) /\ IsToolCall(c) /\ RefusedIfTainted(c) /\ Asked(c)
        => Refused(c)

RemovedToolsStayRemoved(Named(_)) ==
    \A b, c \in Calls : \A i \in removed[b] :
        /\ b \in before[c] /\ SameAgent(b, c) /\ Tied(b) /\ FailsClosed
        /\ IsToolCall(c) /\ job[c].tool = tools[b][i].tool /\ job[c].server = tools[b][i].server
        /\ Named(tools[b][i]) /\ Asked(c)
        => Refused(c)

(* No server's name, with its "_", begins a name another server is listed by. *)
Unambiguous(d) ==
    \A i \in DOMAIN Services : Services[i] # d.server => ~IsPrefix(Services[i], d.server \o d.tool)

(* A tool the policy removed from a list cannot be called by the agent that  *)
(* was shown the list, under the name and session the call comes with, which *)
(* are not those of the list (mcp.go 142-181, 235-250).                      *)
RemovedToolCannotBeCalled == RemovedToolsStayRemoved(Unambiguous)

(* "Pins and blocks are keyed by the bare name so the two methods agree"     *)
(* (mcp.go 238-239), whatever the servers are called.                        *)
RemovedWhateverItsName == RemovedToolsStayRemoved(LAMBDA d : TRUE)

Listed(c) == job[c].method = "tools/list" /\ answer[c] \in {"pass", "mutated"}

(* The gateway shows the list it has when the answer is pass. *)
Shown(c) == IF answer[c] = "pass" THEN [i \in DOMAIN tools[c] |-> i] ELSE kept[c]

(* The list an agent is shown has every tool the server answered but those   *)
(* the policy removed, or failed to inspect, in the server's order: one      *)
(* poisoned tool is removed without hiding the rest, and is not shown        *)
(* because the list was taken for unchanged (mcp.go 132-134, 142-181).       *)
ListKeepsTheRest ==
    \A c \in Calls : Listed(c) =>
        /\ Range(Shown(c)) \cap removed[c] = {}
        /\ ~failed[c] => Range(Shown(c)) = DOMAIN tools[c] \ removed[c]
        /\ \A i, j \in DOMAIN Shown(c) : i < j => Shown(c)[i] < Shown(c)[j]

(* A request that some rule may taint the session for. *)
MayTaint(r) ==
    \E tainted, pinChanged \in BOOLEAN : Evaluate(Rules, EvalInput(r, tainted, pinChanged)).taint

(* A call that had something inspected which may have tainted its session. *)
MayHaveTainted(b) ==
    \/ job[b].method = "chat" /\ MayTaint(ChatRequest(b))
    \/ IsToolCall(b) /\ MayTaint(CallRequest(b))
    \/ job[b].method # "tools/list" /\ result[b] \in Contents /\ MayTaint(ResultRequest(b))
    \/ \E i \in DOMAIN tools[b] :
          i < at[b] /\ tools[b][i].content \in Contents /\ MayTaint(DefinitionRequest(b, i))

(* A call that had a tool removed which is recorded under this name. *)
RemovedAs(b, tool) == \E i \in removed[b] : NativeToolName(ListedName(tools[b][i])) = tool

(* What may have marked the session of c: a tool of its name removed, a      *)
(* taint, or an inspection that failed half way.                             *)
Marked(b, c) == Asked(b) /\ (failed[b] \/ MayHaveTainted(b) \/ RemovedAs(b, job[c].tool))

(* A call that the rules allow in an untainted session is refused only for   *)
(* what the same agent was shown or took by another call: the marks of one   *)
(* agent's session do not spill into another's, nor those of one tool onto   *)
(* another.                                                                  *)
NoCallIsRefusedWithoutCause ==
    \A c \in Calls :
        /\ IsToolCall(c) /\ Refused(c) /\ ~failed[c]
        /\ Evaluate(Rules, EvalInput(CallRequest(c), FALSE, FALSE)).action # "block"
        => \E b \in Calls \ {c} : SameAgent(b, c) /\ Marked(b, c)
===============================================================================
