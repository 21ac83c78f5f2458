--------------------------- MODULE LlmExchangeProps ---------------------------
(***************************************************************************)
(* What the LLM adapter owes the gateway and the policy (llm.go 18-39, and *)
(* the full-duplex contract of docs/spikes/agentgateway-extproc.md).       *)
(***************************************************************************)
EXTENDS LlmExchange, SequencesExt

Bodies == Seq(0..MaxChunks)
Replies == [side : Sides, kind : {"headers", "body", "trailers", "immediate"},
            body : Bodies, eos : BOOLEAN]

(* Every variable holds a value of its kind. *)
LlmTypeOK ==
    /\ ex \in Exchanges
    /\ sent \in 0..Len(Script) /\ taken \in 0..sent
    /\ stream \in {"open", "finished", "aborted"}
    /\ status \in {"serving", "done", "over"}
    /\ isChat \in BOOLEAN /\ inspectResponse \in BOOLEAN /\ heldHeaders \in BOOLEAN
    /\ reqBody \in Bodies /\ respBody \in Bodies
    /\ out \in Seq(Replies) /\ replies \in Seq(Replies)
    /\ inspected \in Seq([side : Sides, surface : Surfaces, action : Actions])

(* The bodies the adapter undertakes to inspect. *)
Inspectable(side) == side = "request" \/ ex.response.inspectable

(* The surfaces a side's whole body must be inspected on. *)
Owed(side) ==
    LET s == ex[side]
    IN  IF ~s.json THEN {}
        ELSE IF ~ex.chat THEN IF s.text = {} THEN {}
                              ELSE {IF side = "request" THEN "input" ELSE "output"}
        ELSE IF side = "response" THEN IF "message" \in s.text THEN {"output"} ELSE {}
        ELSE (IF "message" \in s.text THEN {"input"} ELSE {})
                 \cup (IF "tool" \in s.text THEN {"tool_result"} ELSE {})

Made(side) == {i \in DOMAIN inspected : inspected[i].side = side}

(* Nothing of a body the adapter inspects goes on before the whole of it has *)
(* been received and inspected on every surface its text belongs to, none    *)
(* of the inspections blocking: a chunk, or a batch, that slipped past would *)
(* reach the model or the agent unread (llm.go 98-110, 121-143, 188-217).    *)
NothingLeavesUninspected ==
    \A side \in Sides : Inspectable(side) /\ Came(side, "body") =>
        /\ \A surface \in Owed(side) :
             \E i \in Made(side) : inspected[i].surface = surface
        /\ \A i \in Made(side) : inspected[i].action # "block"

(* A block is a clean error response: the client has seen nothing of the     *)
(* response when it comes, and nothing follows it (llm.go 28-30, "so a block *)
(* can still become a clean error response").                                *)
BlockIsClean ==
    BlockCame =>
        /\ replies[Len(replies)] = Immediate
        /\ Cardinality({i \in DOMAIN replies : replies[i].side = "response"}) = 1
        /\ \E i \in DOMAIN inspected : inspected[i].action = "block"

Position(side, kind) ==
    {i \in DOMAIN replies : replies[i].side = side /\ replies[i].kind = kind}

(* On each side the headers are answered once, before any of the body, and   *)
(* end of stream is said once, by the last body reply: the order HTTP needs, *)
(* held headers or not.                                                      *)
RepliesAreOrdered ==
    \A side \in Sides :
        LET bodies == Position(side, "body")
        IN  /\ Cardinality(Position(side, "headers")) <= 1
            /\ \A i \in bodies : \E h \in Position(side, "headers") : h < i
            /\ \A i, j \in bodies : replies[i].eos => j <= i
            /\ ex[side].ends = "body" /\ bodies # {} /\ Inspectable(side)
               => \E i \in bodies : replies[i].eos

(* What a reply sends back of a side's body, and what the replies h send back *)
(* of it between them.                                                       *)
BodyIn(r, side) == IF r.side = side /\ r.kind = "body" THEN r.body ELSE <<>>

Joined(h, side) == FlattenSeq([i \in 1..Len(h) |-> BodyIn(h[i], side)])

Returned(side) == Joined(replies, side)

Whole(side) == [i \in 1..ex[side].chunks |-> i]

Redacted(side) == \E i \in Made(side) : inspected[i].action = "redact"

(* A body comes back as it was, chunk for chunk and in order, whole if it    *)
(* was inspected; only a redaction replaces it, and then by one encoding of  *)
(* the whole (llm.go 22-26, "changed or not", and 218-221).                  *)
BodyComesBackIntact ==
    \A side \in Sides :
        LET body == Returned(side)
        IN  \/ body = <<Rewritten>> /\ Redacted(side)
            \/ body = SubSeq(Whole(side), 1, Len(body))
               /\ (Inspectable(side) => body \in {<<>>, Whole(side)})

Arrived(side) ==
    \/ ex[side].ends = "headers" /\ Came(side, "headers")
    \/ ex[side].ends = "body"
       /\ \E i \in Position(side, "body") :
             replies[i].eos /\ \A j \in Position(side, "body") : j <= i

(* Whatever the gateway has sent whole comes back whole, unless the exchange *)
(* is blocked or the gateway goes away: no reply stays held.                 *)
WhatIsSentComesBack ==
    \A side \in Sides :
        /\ ex[side].ends # "trailers"
        /\ sent >= IF side = "request" THEN Len(SideScript("request")) ELSE Len(Script)
        ~> Arrived(side) \/ BlockCame \/ stream = "aborted"

(* "Every path below sends the body back, changed or not" (llm.go 22-24):    *)
(* when trailers are answered, the body before them has come back.           *)
BodyPrecedesTrailers ==
    \A side \in Sides : Came(side, "trailers") =>
        Returned(side) \in {Whole(side), <<Rewritten>>}
===============================================================================
