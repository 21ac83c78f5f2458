----------------------------- MODULE LlmExchange ------------------------------
(***************************************************************************)
(* One HTTP exchange of the LLM adapter (agentgateway/llm.go): an ext_proc *)
(* stream in full-duplex mode, where the gateway keeps no copy of a body   *)
(* and forwards only what the inspector sends back.                        *)
(*                                                                         *)
(* The gateway streams its messages without waiting for replies, except    *)
(* that the model is called with what came back of the request, so the     *)
(* response starts once the request is answered.  It may go away at any    *)
(* moment.  A body is the sequence of its chunks' numbers; what it says is *)
(* in the exchange's record.                                               *)
(***************************************************************************)
EXTENDS Naturals, Sequences, FiniteSets, Verdicts

CONSTANTS MaxChunks, Exchanges   \* the exchanges the gateway may carry

Sides == {"request", "response"}
TextKinds == {"message", "tool", "other"}   \* where in a body its text is

(* ends: which message carries end_of_stream, or that trailers follow the  *)
(* body.  inspectable: a 2xx response declared as JSON.                    *)
Side == [chunks : 0..MaxChunks, json : BOOLEAN, text : SUBSET TextKinds,
         ends : {"headers", "body", "trailers"}, inspectable : BOOLEAN]
Exchange == [chat : BOOLEAN, request : Side, response : Side]

ASSUME ExchangeAssumption ==
    /\ MaxChunks \in Nat \ {0}
    /\ Exchanges \subseteq Exchange
    /\ \A ex \in Exchanges, side \in Sides :
         ex[side].chunks = 0 <=> ex[side].ends = "headers"

VARIABLES ex, sent, stream,          \* the gateway's side of the stream
          taken, out, status,        \* Process: messages read, replies to send
          isChat, reqBody, inspectResponse, heldHeaders, respBody,  \* llmStream
          replies,                   \* what has reached the gateway
          inspected                  \* the inspections made, a history

llmStream == <<isChat, reqBody, inspectResponse, heldHeaders, respBody>>
vars == <<ex, sent, stream, taken, out, status, llmStream, replies, inspected>>

----------------------------------------------------------------------------
(* What the gateway sends.                                                 *)

Message(side, kind, chunk, eos) == [side |-> side, kind |-> kind, chunk |-> chunk, eos |-> eos]

SideScript(side) ==
    LET s == ex[side]
    IN  <<Message(side, "headers", 0, s.ends = "headers")>>
        \o [i \in 1..s.chunks |-> Message(side, "body", i, s.ends = "body" /\ i = s.chunks)]
        \o IF s.ends = "trailers" THEN <<Message(side, "trailers", 0, FALSE)>> ELSE <<>>

Script == SideScript("request") \o SideScript("response")

(* A reply carries the chunks of the body it sends back; 0 stands for a body *)
(* encoded anew with its redactions.                                         *)
Rewritten == 0
Reply(side, kind, body, eos) == [side |-> side, kind |-> kind, body |-> body, eos |-> eos]
HeadersReply(side) == Reply(side, "headers", <<>>, FALSE)
TrailersReply(side) == Reply(side, "trailers", <<>>, FALSE)
Immediate == Reply("response", "immediate", <<>>, TRUE)

Came(side, kind) == \E i \in DOMAIN replies : replies[i].side = side /\ replies[i].kind = kind

BlockCame == Came("response", "immediate")

RequestAnswered ==
    \/ ex.request.ends = "headers" /\ Came("request", "headers")
    \/ ex.request.ends = "body" /\ Came("request", "body")
    \/ ex.request.ends = "trailers" /\ Came("request", "trailers")

GatewaySends ==
    /\ stream = "open" /\ sent < Len(Script) /\ ~BlockCame
    /\ sent = Len(SideScript("request")) => RequestAnswered
    /\ sent' = sent + 1
    /\ UNCHANGED <<ex, stream, taken, out, status, llmStream, replies, inspected>>

GatewayFinishes ==
    /\ stream = "open" /\ (sent = Len(Script) \/ BlockCame)
    /\ stream' = "finished"
    /\ UNCHANGED <<ex, sent, taken, out, status, llmStream, replies, inspected>>

GatewayAborts ==
    /\ stream = "open"
    /\ stream' = "aborted"
    /\ UNCHANGED <<ex, sent, taken, out, status, llmStream, replies, inspected>>

----------------------------------------------------------------------------
(* Inspecting a buffered body.                                             *)

(* decodeJSON succeeds on a whole JSON body only. *)
Decodes(side, buffer) == ex[side].json /\ buffer = [i \in 1..ex[side].chunks |-> i]

(* Mutant: a chat request's tool messages join the conversation. *)
Batches_OneSurface(side, buffer) ==
    IF ~Decodes(side, buffer) \/ ex[side].text = {} THEN <<>>
    ELSE IF side = "request" THEN <<"input">> ELSE <<"output">>

When(surface, found) == IF found THEN <<surface>> ELSE <<>>

(* A chat body is read by message, any other one as a whole; no text, no *)
(* inspection.                                                            *)
RequestBatches(text) ==
    IF isChat THEN When("input", "message" \in text) \o When("tool_result", "tool" \in text)
              ELSE When("input", text # {})

ResponseBatches(text) ==
    When("output", IF isChat THEN "message" \in text ELSE text # {})

(* The surfaces a buffered body is inspected on, in order. *)
Batches(side, buffer) ==
    IF ~Decodes(side, buffer) THEN <<>>
    ELSE IF side = "request" THEN RequestBatches(ex[side].text) ELSE ResponseBatches(ex[side].text)

(* Mutant: an inspector that returns no action at all. *)
Answers_Empty == [action : Actions \cup {""}, changes : {FALSE}]

(* What the inspector answers, and whether its redactions hit a field. *)
Answers == {[action |-> a, changes |-> FALSE] : a \in Actions}
               \cup {[action |-> "redact", changes |-> TRUE]}

Blocks(answers) == \E i \in DOMAIN answers : answers[i].action = "block"
Changes(answers) == \E i \in DOMAIN answers : answers[i].changes

(* A block ends the loop over the batches. *)
Reached(answers) == {i \in DOMAIN answers : \A j \in 1..(i - 1) : answers[j].action # "block"}

Inspections(side, batches, answers) ==
    [i \in 1..Cardinality(Reached(answers)) |->
        [side |-> side, surface |-> batches[i], action |-> answers[i].action]]

Result(buffer, answers) == IF Changes(answers) THEN <<Rewritten>> ELSE buffer

----------------------------------------------------------------------------
(* Process: receive one message, handle it, send its replies.              *)

Init ==
    /\ ex \in Exchanges
    /\ sent = 0 /\ stream = "open"
    /\ taken = 0 /\ out = <<>> /\ status = "serving"
    /\ isChat = FALSE /\ reqBody = <<>> /\ inspectResponse = FALSE
    /\ heldHeaders = FALSE /\ respBody = <<>>
    /\ replies = <<>> /\ inspected = <<>>

Incoming == Script[taken + 1]

(* The next message, once the replies to the last one are sent. *)
Receives(side, kind) ==
    /\ status = "serving" /\ out = <<>> /\ taken < sent
    /\ Incoming.side = side /\ Incoming.kind = kind
    /\ taken' = taken + 1
    /\ UNCHANGED <<ex, sent, stream, replies>>

RequestHeaders ==
    /\ Receives("request", "headers")
    /\ isChat' = ex.chat
    /\ out' = <<HeadersReply("request")>>
    /\ UNCHANGED <<status, reqBody, inspectResponse, heldHeaders, respBody, inspected>>

(* inspectRequest or inspectResponse, and the replies to the last chunk: *)
(* the body, after whatever was held back for it, or a block.            *)
SendsBack(side, buffer, held) ==
    LET batches == Batches(side, buffer)
    IN  \E answers \in [DOMAIN batches -> Answers] :
          /\ inspected' = inspected \o Inspections(side, batches, answers)
          /\ IF Blocks(answers)
             THEN out' = <<Immediate>> /\ status' = "done"
             ELSE /\ out' = Append(held, Reply(side, "body", Result(buffer, answers), TRUE))
                  /\ UNCHANGED status

Silently == UNCHANGED <<out, status, inspected>>

RequestBody ==
    /\ Receives("request", "body")
    /\ reqBody' = Append(reqBody, Incoming.chunk)
    /\ IF Incoming.eos THEN SendsBack("request", reqBody', <<>>) ELSE Silently
    /\ UNCHANGED <<isChat, inspectResponse, heldHeaders, respBody>>

(* Mutant: the headers are replied to at once. *)
ResponseHeaders_NotHeld ==
    /\ Receives("response", "headers")
    /\ inspectResponse' = (~Incoming.eos /\ ex.response.inspectable)
    /\ out' = <<HeadersReply("response")>>
    /\ UNCHANGED <<status, isChat, reqBody, heldHeaders, respBody, inspected>>

(* Mutant: a bodyless JSON response is inspected too. *)
ResponseHeaders_AlwaysHeld ==
    /\ Receives("response", "headers")
    /\ inspectResponse' = ex.response.inspectable
    /\ heldHeaders' = inspectResponse'
    /\ out' = IF inspectResponse' THEN <<>> ELSE <<HeadersReply("response")>>
    /\ UNCHANGED <<status, isChat, reqBody, respBody, inspected>>

ResponseHeaders ==
    /\ Receives("response", "headers")
    /\ inspectResponse' = (~Incoming.eos /\ ex.response.inspectable)
    /\ heldHeaders' = inspectResponse'
    /\ out' = IF inspectResponse' THEN <<>> ELSE <<HeadersReply("response")>>
    /\ UNCHANGED <<status, isChat, reqBody, respBody, inspected>>

ResponseBodyPassed ==
    /\ ~inspectResponse
    /\ Receives("response", "body")
    /\ out' = <<Reply("response", "body", <<Incoming.chunk>>, Incoming.eos)>>
    /\ UNCHANGED <<status, llmStream, inspected>>

(* Mutant: the last chunk is not appended. *)
ResponseBodyInspected_DropsLast ==
    /\ inspectResponse
    /\ Receives("response", "body")
    /\ IF Incoming.eos
       THEN /\ SendsBack("response", respBody, <<HeadersReply("response")>>)
            /\ heldHeaders' = FALSE /\ UNCHANGED respBody
       ELSE /\ respBody' = Append(respBody, Incoming.chunk)
            /\ Silently /\ UNCHANGED heldHeaders
    /\ UNCHANGED <<isChat, reqBody, inspectResponse>>

(* Mutant: the held headers are forgotten. *)
ResponseBodyInspected_ForgetsHeaders ==
    /\ inspectResponse
    /\ Receives("response", "body")
    /\ respBody' = Append(respBody, Incoming.chunk)
    /\ IF Incoming.eos THEN SendsBack("response", respBody', <<>>) ELSE Silently
    /\ UNCHANGED <<isChat, reqBody, inspectResponse, heldHeaders>>

ResponseBodyInspected ==
    /\ inspectResponse
    /\ Receives("response", "body")
    /\ respBody' = Append(respBody, Incoming.chunk)
    /\ IF Incoming.eos
       THEN SendsBack("response", respBody',
                      IF heldHeaders THEN <<HeadersReply("response")>> ELSE <<>>)
       ELSE Silently
    /\ heldHeaders' = (heldHeaders /\ ~(Incoming.eos /\ status' = "serving"))
    /\ UNCHANGED <<isChat, reqBody, inspectResponse>>

Trailers ==
    \E side \in Sides :
      /\ Receives(side, "trailers")
      /\ out' = <<TrailersReply(side)>>
      /\ UNCHANGED <<status, llmStream, inspected>>

(* Send; an immediate response is the last. *)
SendReply ==
    /\ status # "over" /\ out # <<>> /\ stream # "aborted"
    /\ replies' = Append(replies, Head(out))
    /\ out' = Tail(out)
    /\ status' = IF status = "done" /\ Len(out) = 1 THEN "over" ELSE status
    /\ UNCHANGED <<ex, sent, stream, taken, llmStream, inspected>>

(* Recv finds the end of the stream, or Recv or Send an error. *)
Returns ==
    /\ status # "over"
    /\ \/ stream = "finished" /\ taken = sent /\ out = <<>>
       \/ stream = "aborted"
    /\ status' = "over"
    /\ UNCHANGED <<ex, sent, stream, taken, out, llmStream, replies, inspected>>

Process ==
    \/ RequestHeaders \/ RequestBody
    \/ ResponseHeaders \/ ResponseBodyPassed \/ ResponseBodyInspected
    \/ Trailers \/ SendReply \/ Returns

Gateway == GatewaySends \/ GatewayFinishes

Next == Process \/ Gateway \/ GatewayAborts

Spec == Init /\ [][Next]_vars

(* The inspector's goroutine is scheduled and Inspect returns; the gateway   *)
(* sends what it has as long as it stays.                                    *)
FairSpec == Spec /\ WF_vars(Process) /\ WF_vars(Gateway)
===============================================================================
