----------------------------- MODULE MCLlmExchange -----------------------------
(* The exchanges TLC tries: each side cut in up to two chunks, chat or not.  *)
EXTENDS LlmExchangeProps

Body(chunks, json, text, ends, inspectable) ==
    [chunks |-> chunks, json |-> json, text |-> text, ends |-> ends, inspectable |-> inspectable]

MCTexts == {{}, {"message"}, {"tool"}, {"message", "tool"}, {"other"}}

MCRequests ==
    {Body(0, FALSE, {}, "headers", FALSE)}
    \cup {Body(2, json, text, "body", FALSE) : json \in BOOLEAN, text \in MCTexts}
    \cup {Body(1, TRUE, {"message", "tool"}, ends, FALSE) : ends \in {"body", "trailers"}}

MCResponses ==
    {Body(0, FALSE, {}, "headers", i) : i \in BOOLEAN}
    \cup {Body(2, json, text, ends, i) : json \in BOOLEAN, text \in {{}, {"message"}, {"other"}},
                                         ends \in {"body", "trailers"}, i \in BOOLEAN}

MCExchanges == [chat : BOOLEAN, request : MCRequests, response : MCResponses]

=================================================================================
