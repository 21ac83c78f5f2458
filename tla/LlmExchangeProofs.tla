--------------------------- MODULE LlmExchangeProofs ---------------------------
(***************************************************************************)
(* For every set of exchanges and every length of body: the adapter's      *)
(* state is a function of how much of the stream it has taken, and what it *)
(* has said of each side is bounded by it.  The replies sent and the ones  *)
(* still to be sent are one history: sending does not change it.           *)
(***************************************************************************)
EXTENDS LlmExchangeProps, LoopProofs

History == replies \o out

(* Where a side begins in the script, and how much of it was taken. *)
Offset(side) == IF side = "request" THEN 0 ELSE Len(SideScript("request"))
Begun(side) == taken > Offset(side)
WholeTaken(side) == taken > Offset(side) + ex[side].chunks

(* What llmStream holds follows from how much was taken. *)
Chunks(k) == [i \in 1..k |-> i]

StreamInv ==
    /\ Begun("request") => isChat = ex.chat
    /\ ~Begun("request") => reqBody = <<>>
    /\ Begun("request") /\ ~WholeTaken("request") => reqBody = Chunks(taken - 1)
    /\ ~Begun("response") => respBody = <<>> /\ ~inspectResponse /\ ~heldHeaders
    /\ Begun("response") => inspectResponse = (ex.response.chunks # 0 /\ ex.response.inspectable)
    /\ inspectResponse /\ ~WholeTaken("response")
       => heldHeaders /\ respBody = Chunks(taken - Offset("response") - 1)
    /\ heldHeaders => inspectResponse

(* What a history h of replies may hold when t messages were taken of the     *)
(* exchange e, whose response begins at o.                                    *)
At(side, o) == IF side = "request" THEN 0 ELSE o
IsHeaders(r, side) == r.side = side /\ r.kind = "headers"
IsBody(r, side) == r.side = side /\ r.kind = "body"

Due(r, t, held, e, o) ==
    /\ t > At(r.side, o)
    /\ r.side = "response" /\ r.kind \in {"headers", "body"} => ~held
    /\ r.kind = "body" /\ (r.eos \/ r.side = "request" \/ e.response.inspectable)
         => r.eos /\ t > At(r.side, o) + e[r.side].chunks
    /\ r.kind = "trailers" => t > At(r.side, o) + e[r.side].chunks + 1

(* Headers come once, a body after them, its end last. *)
Ordered(h) ==
    \A side \in Sides : \A i, j \in DOMAIN h :
        /\ IsHeaders(h[i], side) /\ IsHeaders(h[j], side) => i = j
        /\ IsBody(h[i], side) /\ IsBody(h[j], side) /\ h[i].eos => j <= i
        /\ IsBody(h[j], side) => \E k \in DOMAIN h : IsHeaders(h[k], side) /\ k < j

Answered(h, t, held, o) ==
    \A side \in Sides : t > At(side, o) =>
        (side = "response" /\ held) \/ \E i \in DOMAIN h : IsHeaders(h[i], side)

AllDue(h, t, held, e, o) == \A i \in DOMAIN h : h[i].kind # "immediate" => Due(h[i], t, held, e, o)

HistoryInv ==
    /\ AllDue(History, taken, heldHeaders, ex, Offset("response"))
    /\ Answered(History, taken, heldHeaders, Offset("response"))
    /\ Ordered(History)

(* A block is the last word, and the first about the response. *)
LastWord(h) ==
    \A i \in DOMAIN h : h[i].kind = "immediate" =>
        h[i] = Immediate /\ i = Len(h) /\ \A j \in DOMAIN h : j # i => h[j].side = "request"

LastWordInv ==
    /\ LastWord(History)
    /\ status = "done" => out = <<Immediate>>
    /\ (\E i \in DOMAIN History : History[i].kind = "immediate") =>
         status # "serving" /\ \E k \in DOMAIN inspected : inspected[k].action = "block"

(* A side is inspected once the whole of it was taken, and a body goes on after that. *)
InspectedInv ==
    \A side \in Sides :
        /\ \A i \in DOMAIN inspected : inspected[i].side = side => WholeTaken(side)
        /\ Inspectable(side) /\ (\E i \in DOMAIN History : IsBody(History[i], side)) =>
             /\ \A surface \in Owed(side) : \E i \in DOMAIN inspected :
                  inspected[i].side = side /\ inspected[i].surface = surface
             /\ \A i \in DOMAIN inspected : inspected[i].side = side => inspected[i].action # "block"

LlmInv == StreamInv /\ HistoryInv /\ LastWordInv /\ InspectedInv

----------------------------------------------------------------------------
(* What the gateway sends, by position.                                    *)

Messages == [side : Sides, kind : {"headers", "body", "trailers"}, chunk : 0..MaxChunks, eos : BOOLEAN]

LEMMA Pieces ==
    ASSUME NEW S, NEW x \in S
    PROVE  /\ <<x>> \in Seq(S) /\ Len(<<x>>) = 1 /\ <<x>>[1] = x
           /\ <<>> \in Seq(S) /\ Len(<<>>) = 0
  OBVIOUS

LEMMA Joins ==
    \A s, t, u \in Seq(Messages) : Len(s) = 1 =>
        /\ (s \o t) \o u \in Seq(Messages) /\ Len((s \o t) \o u) = 1 + Len(t) + Len(u)
        /\ ((s \o t) \o u)[1] = s[1]
        /\ \A i \in 1..Len(t) : ((s \o t) \o u)[1 + i] = t[i]
        /\ \A i \in 1..Len(u) : ((s \o t) \o u)[1 + Len(t) + i] = u[i]
<1>1. TAKE s, t, u \in Seq(Messages)
<1>2. HAVE Len(s) = 1
<1>3. s \o t \in Seq(Messages) /\ Len(s \o t) = 1 + Len(t) /\ Len(t) \in Nat /\ Len(u) \in Nat
  <2>1. s \o t \in Seq(Messages) /\ Len(s \o t) = Len(s) + Len(t)
    OBVIOUS
  <2>2. Len(t) \in Nat /\ Len(u) \in Nat
    OBVIOUS
  <2>3. QED
    BY <1>2, <2>1, <2>2
<1>4. (s \o t)[1] = s[1] /\ \A i \in 1..Len(t) : (s \o t)[1 + i] = t[i]
  <2>1. \A i \in 1..(Len(s) + Len(t)) : (s \o t)[i] = IF i <= Len(s) THEN s[i] ELSE t[i - Len(s)]
    BY ConcatProperties
  <2>2. QED
    BY <1>2, <1>3, <2>1
<1>5. (s \o t) \o u \in Seq(Messages) /\ Len((s \o t) \o u) = 1 + Len(t) + Len(u)
  BY <1>3
<1>6. \A i \in 1..(1 + Len(t)) : ((s \o t) \o u)[i] = (s \o t)[i]
  BY <1>3
<1>7. \A i \in 1..Len(u) : ((s \o t) \o u)[1 + Len(t) + i] = u[i]
  BY <1>3
<1>8. QED
  BY <1>3, <1>4, <1>5, <1>6, <1>7

LEMMA MessageIs ==
    ASSUME NEW side \in Sides, NEW kind \in {"headers", "body", "trailers"}, NEW chunk \in 0..MaxChunks,
           NEW eos \in BOOLEAN
    PROVE  /\ Message(side, kind, chunk, eos) \in Messages
           /\ Message(side, kind, chunk, eos).side = side /\ Message(side, kind, chunk, eos).kind = kind
           /\ Message(side, kind, chunk, eos).chunk = chunk /\ Message(side, kind, chunk, eos).eos = eos
  BY DEF Message, Messages

LEMMA SideIs ==
    ASSUME ex \in Exchanges, NEW side \in Sides
    PROVE  /\ ex[side] \in Side /\ ex[side].chunks \in 0..MaxChunks /\ ex[side].chunks \in Nat
           /\ 0 \in 0..MaxChunks
           /\ ex[side].chunks = 0 <=> ex[side].ends = "headers"
<1>1. ex[side] \in Side
  BY ExchangeAssumption DEF Exchange, Sides
<1>2. ex[side].chunks \in 0..MaxChunks /\ ex[side].chunks \in Nat /\ 0 \in 0..MaxChunks
  BY <1>1, ExchangeAssumption DEF Side
<1>3. QED
  BY <1>1, <1>2, ExchangeAssumption

LEMMA SideScriptIs ==
    ASSUME ex \in Exchanges, NEW side \in Sides
    PROVE  /\ SideScript(side) \in Seq(Messages)
           /\ Len(SideScript(side)) = 1 + ex[side].chunks + (IF ex[side].ends = "trailers" THEN 1 ELSE 0)
           /\ SideScript(side)[1] = Message(side, "headers", 0, ex[side].chunks = 0)
           /\ \A i \in 1..ex[side].chunks :
                SideScript(side)[1 + i] =
                  Message(side, "body", i, ex[side].ends = "body" /\ i = ex[side].chunks)
           /\ ex[side].ends = "trailers" =>
                SideScript(side)[2 + ex[side].chunks] = Message(side, "trailers", 0, FALSE)
<1> DEFINE n == ex[side].chunks
           first == <<Message(side, "headers", 0, ex[side].ends = "headers")>>
           body == [i \in 1..n |-> Message(side, "body", i, ex[side].ends = "body" /\ i = n)]
           last == IF ex[side].ends = "trailers" THEN <<Message(side, "trailers", 0, FALSE)>> ELSE <<>>
           trailing == IF ex[side].ends = "trailers" THEN 1 ELSE 0
<1>1. n \in Nat /\ (n = 0 <=> ex[side].ends = "headers") /\ \A i \in 1..n : i \in 0..MaxChunks
  BY SideIs, ExchangeAssumption
<1>2. first \in Seq(Messages) /\ Len(first) = 1 /\ first[1] = Message(side, "headers", 0, n = 0)
  <2>1. first[1] = Message(side, "headers", 0, n = 0) /\ Len(first) = 1
    BY <1>1
  <2>2. Message(side, "headers", 0, n = 0) \in Messages
    BY MessageIs, SideIs
  <2>3. QED
    BY <2>1, <2>2
<1>3. /\ body \in Seq(Messages) /\ Len(body) = n
      /\ \A i \in 1..n : body[i] = Message(side, "body", i, ex[side].ends = "body" /\ i = n)
  <2>1. \A i \in 1..n : Message(side, "body", i, ex[side].ends = "body" /\ i = n) \in Messages
    <3>1. TAKE i \in 1..n
    <3>2. (ex[side].ends = "body" /\ i = n) \in BOOLEAN
      OBVIOUS
    <3>3. QED
      BY <1>1, <3>2, MessageIs
  <2>2. body \in [1..n -> Messages]
    BY <2>1
  <2>3. QED
    BY <1>1, <2>2
<1>4. /\ last \in Seq(Messages) /\ Len(last) = trailing
      /\ ex[side].ends = "trailers" => last[1] = Message(side, "trailers", 0, FALSE)
  <2> DEFINE m == Message(side, "trailers", 0, FALSE)
  <2>1. m \in Messages
    BY MessageIs, SideIs
  <2> HIDE DEF m
  <2>2. /\ <<m>> \in Seq(Messages) /\ Len(<<m>>) = 1 /\ <<m>>[1] = m
        /\ <<>> \in Seq(Messages) /\ Len(<<>>) = 0
    BY <2>1, Pieces
  <2>3. CASE ex[side].ends = "trailers"
    <3>1. last = <<m>> /\ trailing = 1
      BY <2>3 DEF m
    <3> HIDE DEF last, trailing
    <3>2. QED
      BY <2>2, <3>1 DEF m
  <2>4. CASE ex[side].ends # "trailers"
    <3>1. last = <<>> /\ trailing = 0
      BY <2>4
    <3> HIDE DEF last, trailing
    <3>2. QED
      BY <2>2, <2>4, <3>1
  <2>5. QED
    BY <2>3, <2>4
<1>5. SideScript(side) = (first \o body) \o last
  BY DEF SideScript
<1>6. trailing \in {0, 1} /\ (ex[side].ends = "trailers" => trailing = 1)
  OBVIOUS
<1> HIDE DEF first, body, last, trailing
<1>7. /\ SideScript(side) \in Seq(Messages) /\ Len(SideScript(side)) = 1 + n + trailing
      /\ SideScript(side)[1] = first[1]
      /\ \A i \in 1..n : SideScript(side)[1 + i] = body[i]
      /\ \A i \in 1..trailing : SideScript(side)[1 + n + i] = last[i]
  <2>1. first \in Seq(Messages) /\ body \in Seq(Messages) /\ last \in Seq(Messages) /\ Len(first) = 1
    BY <1>2, <1>3, <1>4
  <2>2. /\ (first \o body) \o last \in Seq(Messages)
        /\ Len((first \o body) \o last) = 1 + Len(body) + Len(last)
        /\ ((first \o body) \o last)[1] = first[1]
        /\ \A i \in 1..Len(body) : ((first \o body) \o last)[1 + i] = body[i]
        /\ \A i \in 1..Len(last) : ((first \o body) \o last)[1 + Len(body) + i] = last[i]
    BY <2>1, Joins, ZenonT(40)
  <2>3. Len(body) = n /\ Len(last) = trailing
    BY <1>3, <1>4
  <2>4. QED
    BY <1>5, <2>2, <2>3
<1>8. ex[side].ends = "trailers" => SideScript(side)[2 + n] = last[1]
  <2>1. trailing = 1 => 1 \in 1..trailing /\ 1 + n + 1 = 2 + n
    BY <1>1
  <2>2. QED
    BY <1>6, <1>7, <2>1
<1>9. Len(SideScript(side)) = 1 + n + (IF ex[side].ends = "trailers" THEN 1 ELSE 0)
  BY <1>7 DEF trailing
<1> HIDE DEF n
<1>10. /\ SideScript(side)[1] = Message(side, "headers", 0, n = 0)
       /\ \A i \in 1..n : SideScript(side)[1 + i] = Message(side, "body", i, ex[side].ends = "body" /\ i = n)
       /\ ex[side].ends = "trailers" => SideScript(side)[2 + n] = Message(side, "trailers", 0, FALSE)
  BY <1>2, <1>3, <1>4, <1>7, <1>8
<1>11. QED
  BY <1>7, <1>9, <1>10 DEF n

(* What the message at a position of one side's script is. *)
Fits(m, side, i) ==
    LET n == ex[side].chunks
    IN  /\ m.side = side
        /\ m.kind = "headers" <=> i = 1
        /\ m.kind = "headers" => m.eos = (n = 0)
        /\ m.kind = "body" => /\ i >= 2 /\ i <= 1 + n /\ m.chunk = i - 1
                              /\ m.eos = (ex[side].ends = "body" /\ i = 1 + n)
        /\ m.kind = "trailers" => i = 2 + n

LEMMA MessagesFit ==
    ASSUME ex \in Exchanges, NEW side \in Sides, NEW i \in 1..Len(SideScript(side))
    PROVE  Fits(SideScript(side)[i], side, i)
<1> DEFINE n == ex[side].chunks
<1>1. n \in Nat
  BY SideIs
<1>2. CASE i = 1
  <2>1. SideScript(side)[i] = Message(side, "headers", 0, n = 0)
    BY <1>2, SideScriptIs
  <2>2. QED
    BY <1>1, <1>2, <2>1 DEF Message, Fits
<1>3. CASE i \in 2..(1 + n)
  <2>1. i - 1 \in 1..n /\ 1 + (i - 1) = i
    BY <1>1, <1>3
  <2>2. SideScript(side)[i] = Message(side, "body", i - 1, ex[side].ends = "body" /\ i - 1 = n)
    BY <2>1, SideScriptIs
  <2>3. QED
    BY <1>1, <1>3, <2>2 DEF Message, Fits
<1>4. CASE i > 1 + n
  <2>1. Len(SideScript(side)) = 1 + n + (IF ex[side].ends = "trailers" THEN 1 ELSE 0)
    BY SideScriptIs
  <2>2. i = 2 + n /\ ex[side].ends = "trailers"
    BY <1>1, <1>4, <2>1
  <2>3. SideScript(side)[i] = Message(side, "trailers", 0, FALSE)
    BY <2>2, SideScriptIs
  <2>4. QED
    BY <1>1, <2>2, <2>3 DEF Message, Fits
<1>5. QED
  BY <1>1, <1>2, <1>3, <1>4

(* And of the whole script: the request, then the response. *)
LEMMA ScriptIs ==
    ASSUME ex \in Exchanges
    PROVE  /\ Offset("request") = 0 /\ Offset("response") \in Nat
           /\ Offset("response") > ex["request"].chunks
           /\ ex["request"].ends = "trailers" => Offset("response") > ex["request"].chunks + 1
           /\ Len(Script) \in Nat
           /\ \A k \in 1..Len(Script) :
                /\ Script[k] \in Messages
                /\ Script[k].side = "request" <=> k <= Offset("response")
                /\ Fits(Script[k], Script[k].side, k - Offset(Script[k].side))
<1> DEFINE a == SideScript("request")  b == SideScript("response")
<1>1. a \in Seq(Messages) /\ b \in Seq(Messages) /\ Script = a \o b
  BY SideScriptIs DEF Script, Sides
<1>2. Offset("request") = 0 /\ Offset("response") = Len(a)
  BY DEF Offset
<1>3. /\ ex["request"].chunks \in Nat
      /\ Len(a) = 1 + ex["request"].chunks + (IF ex["request"].ends = "trailers" THEN 1 ELSE 0)
  BY SideIs, SideScriptIs DEF Sides
<1>4. /\ \A i \in 1..Len(a) : Fits(a[i], "request", i)
      /\ \A i \in 1..Len(b) : Fits(b[i], "response", i)
  BY MessagesFit DEF Sides
<1>5. /\ Offset("response") \in Nat /\ Offset("response") > ex["request"].chunks
      /\ ex["request"].ends = "trailers" => Offset("response") > ex["request"].chunks + 1
  BY <1>2, <1>3
<1> HIDE DEF a, b
<1>6. Len(Script) = Len(a) + Len(b) /\ Len(a) \in Nat /\ Len(b) \in Nat
  BY <1>1
<1>7. ASSUME NEW k \in 1..Len(Script)
      PROVE  /\ Script[k] \in Messages
             /\ Script[k].side = "request" <=> k <= Offset("response")
             /\ Fits(Script[k], Script[k].side, k - Offset(Script[k].side))
  <2>1. Script[k] \in Messages
    BY <1>1, <1>6
  <2>2. CASE k <= Len(a)
    <3>1. k \in 1..Len(a) /\ Script[k] = a[k]
      BY <1>1, <1>6, <2>2
    <3>2. Fits(Script[k], "request", k)
      BY <1>4, <3>1
    <3>3. Script[k].side = "request" /\ k - 0 = k
      BY <3>2, <1>6 DEF Fits
    <3>4. QED
      BY <1>2, <2>1, <2>2, <3>2, <3>3
  <2>3. CASE k > Len(a)
    <3>1. k - Len(a) \in 1..Len(b) /\ Script[k] = b[k - Len(a)]
      BY <1>1, <1>6, <2>3
    <3>2. Fits(Script[k], "response", k - Len(a))
      BY <1>4, <3>1
    <3>3. Script[k].side = "response"
      BY <3>2 DEF Fits
    <3>4. ~(k <= Len(a))
      BY <1>6, <2>3
    <3>5. QED
      BY <1>2, <2>1, <3>2, <3>3, <3>4
  <2>4. QED
    BY <1>6, <2>2, <2>3
<1>8. QED
  BY <1>2, <1>5, <1>6, <1>7

----------------------------------------------------------------------------
(* What an inspection of a body does.                                      *)

Inspection == [side : Sides, surface : Surfaces, action : Actions]

LEMMA BatchesAre ==
    ASSUME NEW side \in Sides, ex \in Exchanges, isChat \in BOOLEAN, NEW buffer
    PROVE  Batches(side, buffer) \in Seq(Surfaces) /\ Len(Batches(side, buffer)) <= 2
<1>1. \A surface \in Surfaces : \A found :
        When(surface, found) \in Seq(Surfaces) /\ Len(When(surface, found)) <= 1
  BY DEF When
<1>2. "input" \in Surfaces /\ "output" \in Surfaces /\ "tool_result" \in Surfaces
  BY DEF Surfaces
<1>3. \A text : /\ RequestBatches(text) \in Seq(Surfaces) /\ Len(RequestBatches(text)) <= 2
                /\ ResponseBatches(text) \in Seq(Surfaces) /\ Len(ResponseBatches(text)) <= 2
  <2>1. TAKE text
  <2> DEFINE a == When("input", "message" \in text)  b == When("tool_result", "tool" \in text)
             c == When("input", text # {})
             d == When("output", IF isChat THEN "message" \in text ELSE text # {})
  <2>2. /\ a \in Seq(Surfaces) /\ Len(a) <= 1 /\ b \in Seq(Surfaces) /\ Len(b) <= 1
        /\ c \in Seq(Surfaces) /\ Len(c) <= 1 /\ d \in Seq(Surfaces) /\ Len(d) <= 1
    BY <1>1, <1>2
  <2>3. RequestBatches(text) = (IF isChat THEN a \o b ELSE c) /\ ResponseBatches(text) = d
    BY DEF RequestBatches, ResponseBatches
  <2>4. \A x, y \in Seq(Surfaces) : Len(x) <= 1 /\ Len(y) <= 1 =>
          x \o y \in Seq(Surfaces) /\ Len(x \o y) <= 2
    <3>1. TAKE x, y \in Seq(Surfaces)
    <3>2. x \o y \in Seq(Surfaces) /\ Len(x \o y) = Len(x) + Len(y)
      OBVIOUS
    <3>3. QED
      BY <3>2
  <2> HIDE DEF a, b, c, d
  <2>5. a \o b \in Seq(Surfaces) /\ Len(a \o b) <= 2
    BY <2>2, <2>4
  <2>6. QED
    BY <2>2, <2>3, <2>5
<1>4. <<>> \in Seq(Surfaces) /\ Len(<<>>) <= 2
  OBVIOUS
<1>5. QED
  BY <1>3, <1>4 DEF Batches

LEMMA BatchesOwed ==
    ASSUME NEW side \in Sides, ex \in Exchanges, isChat = ex.chat
    PROVE  \A surface \in Owed(side) :
             \E i \in 1..Len(Batches(side, Whole(side))) : Batches(side, Whole(side))[i] = surface
<1> DEFINE text == ex[side].text
<1>1. CASE ~ex[side].json
  BY <1>1 DEF Owed
<1>2. CASE ex[side].json
  <2>1. Batches(side, Whole(side)) = IF side = "request" THEN RequestBatches(text) ELSE ResponseBatches(text)
    BY <1>2 DEF Batches, Decodes, Whole
  <2>2. CASE side = "response"
    <3>1. Batches(side, Whole(side)) = When("output", IF isChat THEN "message" \in text ELSE text # {})
      BY <2>1, <2>2 DEF ResponseBatches
    <3>2. Owed(side) # {} => Owed(side) = {"output"} /\ (IF isChat THEN "message" \in text ELSE text # {})
      BY <1>2, <2>2 DEF Owed
    <3>3. Owed(side) # {} => Batches(side, Whole(side)) = <<"output">>
      BY <3>1, <3>2 DEF When
    <3>4. QED
      BY <3>2, <3>3
  <2>3. CASE side = "request" /\ ~isChat
    <3>1. Batches(side, Whole(side)) = When("input", text # {})
      BY <2>1, <2>3 DEF RequestBatches
    <3>2. Owed(side) # {} => Owed(side) = {"input"} /\ text # {}
      BY <1>2, <2>3 DEF Owed
    <3>3. Owed(side) # {} => Batches(side, Whole(side)) = <<"input">>
      BY <3>1, <3>2 DEF When
    <3>4. QED
      BY <3>2, <3>3
  <2>4. CASE side = "request" /\ isChat
    <3>1. Batches(side, Whole(side)) =
            When("input", "message" \in text) \o When("tool_result", "tool" \in text)
      BY <2>1, <2>4 DEF RequestBatches
    <3>2. Owed(side) = (IF "message" \in text THEN {"input"} ELSE {})
                         \cup (IF "tool" \in text THEN {"tool_result"} ELSE {})
      BY <1>2, <2>4 DEF Owed
    <3>3. CASE "message" \in text /\ "tool" \in text
      BY <3>1, <3>2, <3>3 DEF When
    <3>4. CASE "message" \in text /\ "tool" \notin text
      BY <3>1, <3>2, <3>4 DEF When
    <3>5. CASE "message" \notin text /\ "tool" \in text
      BY <3>1, <3>2, <3>5 DEF When
    <3>6. CASE "message" \notin text /\ "tool" \notin text
      BY <3>2, <3>6
    <3>7. QED
      BY <3>3, <3>4, <3>5, <3>6
  <2>5. QED
    BY <2>2, <2>3, <2>4 DEF Sides
<1>3. QED
  BY <1>1, <1>2

(* One inspection per batch and its answer, up to the first block. *)
AnswersTo(made, side, batches, answers) ==
    /\ made \in Seq(Inspection)
    /\ \A i \in 1..Len(made) : made[i].side = side
    /\ Blocks(answers) => \E i \in 1..Len(made) : made[i].action = "block"
    /\ ~Blocks(answers) => /\ Len(made) = Len(batches)
                           /\ \A i \in 1..Len(made) : made[i].action # "block"
                           /\ \A i \in 1..Len(made) : made[i].surface = batches[i]
                           /\ \A i \in 1..Len(made) : made[i].action = answers[i].action

LEMMA InspectionsAre ==
    ASSUME NEW side \in Sides, NEW batches \in Seq(Surfaces), Len(batches) <= 2,
           NEW answers \in [DOMAIN batches -> Answers]
    PROVE  AnswersTo(Inspections(side, batches, answers), side, batches, answers)
<1> DEFINE n == Len(batches)  c == Cardinality(Reached(answers))
           made == Inspections(side, batches, answers)
<1>1. n \in {0, 1, 2} /\ DOMAIN batches = 1..n /\ DOMAIN answers = 1..n
  <2>1. n \in Nat /\ n <= 2 /\ DOMAIN batches = 1..n /\ DOMAIN answers = 1..n
    OBVIOUS
  <2> HIDE DEF n
  <2>2. n \in {0, 1, 2}
    BY <2>1
  <2>3. QED
    BY <2>1, <2>2
<1>2. \A i \in 1..n : answers[i] \in Answers /\ answers[i].action \in Actions /\ batches[i] \in Surfaces
  BY DEF Answers, Actions
<1>3. \A k \in Nat : Cardinality(1..k) = k
  <2>1. TAKE k \in Nat
  <2>2. 1 \in Int /\ k \in Int
    OBVIOUS
  <2>3. QED
    BY <2>2, FS_Interval
<1>4. /\ c \in 0..n
      /\ Blocks(answers) => \E i \in 1..c : answers[i].action = "block"
      /\ ~Blocks(answers) => c = n
  <2>1. CASE ~Blocks(answers)
    <3>1. Reached(answers) = 1..n
      BY <1>1, <2>1 DEF Reached, Blocks
    <3>2. QED
      BY <1>1, <1>3, <2>1, <3>1
  <2>2. CASE Blocks(answers) /\ answers[1].action = "block" /\ n >= 1
    <3>1. Reached(answers) = 1..1
      BY <1>1, <2>2 DEF Reached
    <3>2. c = 1
      BY <1>3, <3>1
    <3> HIDE DEF c
    <3>3. QED
      BY <1>1, <2>2, <3>2
  <2>3. CASE Blocks(answers) /\ answers[1].action # "block"
    <3>1. n = 2 /\ answers[2].action = "block"
      BY <1>1, <2>3 DEF Blocks
    <3>2. Reached(answers) = 1..2
      BY <1>1, <2>3, <3>1 DEF Reached
    <3>3. c = 2
      BY <1>3, <3>2
    <3> HIDE DEF c
    <3>4. QED
      BY <1>1, <2>3, <3>1, <3>3
  <2>4. QED
    BY <1>1, <2>1, <2>2, <2>3 DEF Blocks
<1> HIDE DEF n, c
<1>5. made = [i \in 1..c |-> [side |-> side, surface |-> batches[i], action |-> answers[i].action]]
  BY DEF Inspections, c
<1>6. \A i \in 1..c : i \in 1..n
  BY <1>1, <1>4
<1>7. made \in [1..c -> Inspection] /\ c \in Nat
  BY <1>1, <1>2, <1>4, <1>5, <1>6 DEF Inspection
<1>8. /\ made \in Seq(Inspection) /\ Len(made) = c
      /\ \A i \in 1..c : made[i].side = side /\ made[i].surface = batches[i] /\ made[i].action = answers[i].action
  <2>1. made \in Seq(Inspection) /\ Len(made) = c
    BY <1>7
  <2> HIDE DEF made
  <2>2. \A i \in 1..c : made[i] = [side |-> side, surface |-> batches[i], action |-> answers[i].action]
    BY <1>5
  <2>3. QED
    BY <2>1, <2>2
<1> HIDE DEF made
<1>9. /\ \A i \in 1..Len(made) : made[i].side = side
      /\ Blocks(answers) => \E i \in 1..Len(made) : made[i].action = "block"
      /\ ~Blocks(answers) => \A i \in 1..n : answers[i].action # "block"
  <2>1. ~Blocks(answers) => \A i \in 1..n : answers[i].action # "block"
    BY <1>1 DEF Blocks
  <2>2. QED
    BY <1>4, <1>8, <2>1
<1>10. /\ ~Blocks(answers) => /\ Len(made) = Len(batches)
                              /\ \A i \in 1..Len(made) : made[i].action # "block"
                              /\ \A i \in 1..Len(made) : made[i].surface = batches[i]
                              /\ \A i \in 1..Len(made) : made[i].action = answers[i].action
  BY <1>4, <1>6, <1>8, <1>9 DEF n
<1>11. AnswersTo(made, side, batches, answers)
  BY <1>8, <1>9, <1>10 DEF AnswersTo
<1>12. QED
  BY <1>11 DEF made

LEMMA Extends ==
    \A s, t \in Seq(Inspection) :
        /\ s \o t \in Seq(Inspection) /\ Len(s \o t) = Len(s) + Len(t) /\ Len(s) \in Nat /\ Len(t) \in Nat
        /\ \A i \in 1..Len(s) : (s \o t)[i] = s[i]
        /\ \A i \in 1..Len(t) : (s \o t)[Len(s) + i] = t[i]
<1>1. TAKE s, t \in Seq(Inspection)
<1>2. s \o t \in Seq(Inspection) /\ Len(s \o t) = Len(s) + Len(t) /\ Len(s) \in Nat /\ Len(t) \in Nat
  OBVIOUS
<1>3. \A i \in 1..Len(s) : (s \o t)[i] = s[i]
  OBVIOUS
<1>4. \A i \in 1..Len(t) : (s \o t)[Len(s) + i] = t[i]
  OBVIOUS
<1>5. QED
  BY <1>2, <1>3, <1>4

(* A whole body inspected: it goes on with everything owed inspected and no *)
(* block among it, or a block takes its place.                              *)
LEMMA SendsBackEffect ==
    ASSUME LlmTypeOK, NEW side \in Sides, NEW buffer \in Bodies, NEW held \in Seq(Replies),
           SendsBack(side, buffer, held)
    PROVE  /\ inspected' \in Seq(Inspection)
           /\ \A i \in DOMAIN inspected : i \in DOMAIN inspected' /\ inspected'[i] = inspected[i]
           /\ \A i \in DOMAIN inspected' : i \notin DOMAIN inspected => inspected'[i].side = side
           /\ \/ /\ status' = "done" /\ out' = <<Immediate>>
                 /\ \E i \in DOMAIN inspected' : inspected'[i].action = "block"
              \/ /\ status' = status
                 /\ \E r \in Replies : IsBody(r, side) /\ r.eos /\ out' = Append(held, r)
                 /\ \A i \in DOMAIN inspected' : i \notin DOMAIN inspected => inspected'[i].action # "block"
                 /\ isChat = ex.chat /\ buffer = Whole(side) =>
                      \A surface \in Owed(side) : \E i \in DOMAIN inspected' :
                        inspected'[i].side = side /\ inspected'[i].surface = surface
<1> DEFINE batches == Batches(side, buffer)
<1>0. ex \in Exchanges /\ isChat \in BOOLEAN /\ inspected \in Seq(Inspection)
  BY DEF LlmTypeOK, Inspection
<1>1. batches \in Seq(Surfaces) /\ Len(batches) <= 2 /\ DOMAIN batches = 1..Len(batches)
  BY <1>0, BatchesAre
<1>2. isChat = ex.chat /\ buffer = Whole(side) =>
        \A surface \in Owed(side) : \E i \in 1..Len(batches) : batches[i] = surface
  BY <1>0, BatchesOwed
<1> HIDE DEF batches
<1>3. PICK answers \in [DOMAIN batches -> Answers] :
        /\ inspected' = inspected \o Inspections(side, batches, answers)
        /\ IF Blocks(answers)
           THEN out' = <<Immediate>> /\ status' = "done"
           ELSE /\ out' = Append(held, Reply(side, "body", Result(buffer, answers), TRUE))
                /\ UNCHANGED status
  BY DEF SendsBack, batches
<1> DEFINE made == Inspections(side, batches, answers)  n == Len(inspected)
<1> HIDE DEF made
<1>4. /\ made \in Seq(Inspection)
      /\ \A i \in 1..Len(made) : made[i].side = side
      /\ Blocks(answers) => \E i \in 1..Len(made) : made[i].action = "block"
      /\ ~Blocks(answers) => /\ Len(made) = Len(batches)
                             /\ \A i \in 1..Len(made) : made[i].action # "block"
                             /\ \A i \in 1..Len(made) : made[i].surface = batches[i]
  <2>1. AnswersTo(made, side, batches, answers)
    BY <1>1, InspectionsAre DEF made
  <2>2. QED
    BY <2>1 DEF AnswersTo
<1>5. inspected' = inspected \o made
  BY <1>3 DEF made
<1>6. /\ inspected \o made \in Seq(Inspection)
      /\ Len(inspected \o made) = n + Len(made) /\ n \in Nat /\ Len(made) \in Nat
      /\ \A i \in 1..n : (inspected \o made)[i] = inspected[i]
      /\ \A i \in 1..Len(made) : (inspected \o made)[n + i] = made[i]
  BY <1>0, <1>4, Extends, Zenon
<1>7. inspected' \in Seq(Inspection) /\ DOMAIN inspected' = 1..(n + Len(made)) /\ DOMAIN inspected = 1..n
  BY <1>0, <1>5, <1>6
<1>8. /\ \A i \in 1..n : inspected'[i] = inspected[i]
      /\ \A i \in 1..Len(made) : inspected'[n + i] = made[i]
  BY <1>5, <1>6
<1> HIDE DEF n
<1>9. /\ \A i \in 1..n : i \in 1..(n + Len(made))
      /\ \A i \in 1..Len(made) : n + i \in 1..(n + Len(made))
      /\ \A i \in 1..(n + Len(made)) : i \notin 1..n => \E j \in 1..Len(made) : i = n + j
  <2>1. ASSUME NEW i \in 1..(n + Len(made)), i \notin 1..n
        PROVE  \E j \in 1..Len(made) : i = n + j
    <3>1. i - n \in 1..Len(made) /\ i = n + (i - n)
      BY <1>6, <2>1
    <3>2. QED
      BY <3>1
  <2>2. QED
    BY <1>6, <2>1
<1>10. /\ \A i \in DOMAIN inspected : i \in DOMAIN inspected' /\ inspected'[i] = inspected[i]
       /\ \A i \in DOMAIN inspected' : i \notin DOMAIN inspected => inspected'[i].side = side
  <2>1. ASSUME NEW i \in DOMAIN inspected', i \notin DOMAIN inspected
        PROVE  inspected'[i].side = side
    <3>1. PICK j \in 1..Len(made) : i = n + j
      BY <1>7, <1>9, <2>1, Zenon
    <3>2. made[j].side = side /\ inspected'[n + j] = made[j]
      BY <1>4, <1>8, Zenon
    <3>3. QED
      BY <3>1, <3>2, Zenon
  <2>2. \A i \in DOMAIN inspected : i \in DOMAIN inspected' /\ inspected'[i] = inspected[i]
    BY <1>7, <1>8, <1>9, Zenon
  <2>3. QED
    BY <2>1, <2>2
<1>11. CASE Blocks(answers)
  <2>1. \E i \in DOMAIN inspected' : inspected'[i].action = "block"
    <3>1. PICK j \in 1..Len(made) : made[j].action = "block"
      BY <1>4, <1>11, Zenon
    <3>2. n + j \in DOMAIN inspected' /\ inspected'[n + j] = made[j]
      BY <1>7, <1>8, <1>9, Zenon
    <3>3. QED
      BY <3>1, <3>2, Zenon
  <2>2. QED
    BY <1>3, <1>7, <1>10, <1>11, <2>1
<1>12. CASE ~Blocks(answers)
  <2>1. ASSUME NEW i \in DOMAIN inspected', i \notin DOMAIN inspected
        PROVE  inspected'[i].action # "block"
    <3>1. PICK j \in 1..Len(made) : i = n + j
      BY <1>7, <1>9, <2>1, Zenon
    <3>2. made[j].action # "block" /\ inspected'[n + j] = made[j]
      BY <1>4, <1>8, <1>12, Zenon
    <3>3. QED
      BY <3>1, <3>2, Zenon
  <2>2. isChat = ex.chat /\ buffer = Whole(side) =>
          \A surface \in Owed(side) : \E i \in DOMAIN inspected' :
            inspected'[i].side = side /\ inspected'[i].surface = surface
    <3> SUFFICES ASSUME isChat = ex.chat, buffer = Whole(side), NEW surface \in Owed(side)
                 PROVE  \E i \in DOMAIN inspected' : inspected'[i].side = side /\ inspected'[i].surface = surface
      OBVIOUS
    <3>1. PICK j \in 1..Len(batches) : batches[j] = surface
      BY <1>2, Zenon
    <3>2. Len(made) = Len(batches) /\ \A i \in 1..Len(made) : made[i].surface = batches[i] /\ made[i].side = side
      BY <1>4, <1>12, Zenon
    <3>3. j \in 1..Len(made) /\ made[j].side = side /\ made[j].surface = surface
      BY <3>1, <3>2
    <3>4. n + j \in DOMAIN inspected' /\ inspected'[n + j] = made[j]
      BY <1>7, <1>8, <1>9, <3>3, Zenon
    <3>5. QED
      BY <3>3, <3>4, Zenon
  <2>3. \E r \in Replies : IsBody(r, side) /\ r.eos /\ out' = Append(held, r)
    <3> DEFINE r == Reply(side, "body", Result(buffer, answers), TRUE)
    <3>1. Result(buffer, answers) \in Bodies
      <4>1. <<Rewritten>> \in Bodies
        BY ExchangeAssumption DEF Bodies, Rewritten
      <4>2. QED
        BY <4>1 DEF Result
    <3>2. r \in Replies /\ IsBody(r, side) /\ r.eos
      BY <3>1 DEF Reply, Replies, IsBody
    <3>3. out' = Append(held, r)
      BY <1>3, <1>12
    <3>4. QED
      BY <3>2, <3>3
  <2>4. status' = status
    BY <1>3, <1>12
  <2>5. QED
    BY <1>7, <1>10, <2>1, <2>2, <2>3, <2>4
<1>13. QED
  BY <1>11, <1>12

----------------------------------------------------------------------------
(* Types.                                                                  *)

(* What is known of the message being received. *)
LEMMA Received ==
    ASSUME LlmTypeOK, NEW side \in Sides, NEW kind, Receives(side, kind)
    PROVE  /\ status = "serving" /\ out = <<>> /\ taken' = taken + 1 /\ taken \in Nat
           /\ ex' = ex /\ sent' = sent /\ stream' = stream /\ replies' = replies
           /\ taken' \in 0..sent'
           /\ Incoming.chunk \in 0..MaxChunks /\ Incoming.eos \in BOOLEAN
           /\ Fits(Incoming, side, taken' - Offset(side)) /\ Incoming.kind = kind
           /\ side = "request" <=> taken' <= Offset("response")
<1>1. ex \in Exchanges /\ sent \in 0..Len(Script) /\ taken \in 0..sent
  BY DEF LlmTypeOK
<1>2. /\ status = "serving" /\ out = <<>> /\ taken < sent /\ taken' = taken + 1
      /\ ex' = ex /\ sent' = sent /\ stream' = stream /\ replies' = replies
      /\ Incoming.side = side /\ Incoming.kind = kind
  BY DEF Receives
<1>3. taken + 1 \in 1..Len(Script) /\ taken \in Nat /\ taken + 1 \in 0..sent
  BY <1>1, <1>2, ScriptIs
<1>4. /\ Incoming \in Messages
      /\ Incoming.side = "request" <=> taken' <= Offset("response")
      /\ Fits(Incoming, Incoming.side, taken' - Offset(Incoming.side))
  <2>1. PICK k \in 1..Len(Script) : k = taken + 1
    BY <1>3
  <2>2. /\ Script[k] \in Messages
        /\ Script[k].side = "request" <=> k <= Offset("response")
        /\ Fits(Script[k], Script[k].side, k - Offset(Script[k].side))
    BY <1>1, ScriptIs
  <2>3. Incoming = Script[k]
    BY <2>1 DEF Incoming
  <2>4. /\ Incoming \in Messages
        /\ Incoming.side = "request" <=> k <= Offset("response")
        /\ Fits(Incoming, Incoming.side, k - Offset(Incoming.side))
    BY <2>2, <2>3, Zenon
  <2>5. k = taken'
    BY <1>2, <2>1
  <2>6. QED
    BY <2>4, <2>5, Zenon
<1>5. QED
  BY <1>2, <1>3, <1>4 DEF Messages

LEMMA RepliesAre ==
    /\ \A side \in Sides : HeadersReply(side) \in Replies /\ TrailersReply(side) \in Replies
    /\ \A side \in Sides, chunk \in 0..MaxChunks, eos \in BOOLEAN :
         Reply(side, "body", <<chunk>>, eos) \in Replies
    /\ Immediate \in Replies
<1>1. <<>> \in Bodies /\ \A chunk \in 0..MaxChunks : <<chunk>> \in Bodies
  BY DEF Bodies
<1>2. QED
  BY <1>1 DEF Reply, HeadersReply, TrailersReply, Immediate, Replies, Sides

LEMMA LlmTypeInit == Init => LlmTypeOK
<1> SUFFICES ASSUME Init
             PROVE  LlmTypeOK
  OBVIOUS
<1>1. ex \in Exchanges /\ Len(Script) \in Nat
  BY ScriptIs DEF Init
<1>2. sent \in 0..Len(Script) /\ taken \in 0..sent
  BY <1>1 DEF Init
<1>3. \A S : <<>> \in Seq(S)
  OBVIOUS
<1>4. QED
  BY <1>1, <1>2, <1>3 DEF Init, LlmTypeOK, Bodies

LEMMA LlmTypeNext ==
    ASSUME LlmTypeOK, [Next]_vars
    PROVE  LlmTypeOK'
<1>0. /\ ex \in Exchanges
      /\ sent \in 0..Len(Script) /\ taken \in 0..sent
      /\ stream \in {"open", "finished", "aborted"}
      /\ status \in {"serving", "done", "over"}
      /\ isChat \in BOOLEAN /\ inspectResponse \in BOOLEAN /\ heldHeaders \in BOOLEAN
      /\ reqBody \in Bodies /\ respBody \in Bodies
      /\ out \in Seq(Replies) /\ replies \in Seq(Replies)
      /\ inspected \in Seq(Inspection)
  BY DEF LlmTypeOK, Inspection
<1>1. ex.chat \in BOOLEAN /\ ex.response.inspectable \in BOOLEAN /\ Len(Script) \in Nat
  BY <1>0, ScriptIs, ExchangeAssumption DEF Exchange, Side
<1>2. ex' = ex => Script' = Script
  BY DEF Script, SideScript
<1>3. ASSUME ex' = ex, sent' \in 0..Len(Script), taken' \in 0..sent', stream' \in {"open", "finished", "aborted"},
             status' \in {"serving", "done", "over"},
             isChat' \in BOOLEAN, inspectResponse' \in BOOLEAN, heldHeaders' \in BOOLEAN,
             reqBody' \in Bodies, respBody' \in Bodies, out' \in Seq(Replies), replies' \in Seq(Replies),
             inspected' \in Seq(Inspection)
      PROVE  LlmTypeOK'
  BY <1>0, <1>2, <1>3 DEF LlmTypeOK, Inspection
<1>4. \A body \in Bodies, chunk \in 0..MaxChunks : Append(body, chunk) \in Bodies
  BY DEF Bodies
<1>5. /\ \A r \in Replies : <<r>> \in Seq(Replies) /\ Append(<<>>, r) \in Seq(Replies)
      /\ <<>> \in Seq(Replies)
      /\ \A r, h \in Replies : Append(<<h>>, r) \in Seq(Replies)
  OBVIOUS
<1>6. "request" \in Sides /\ "response" \in Sides
  BY DEF Sides
<1>7. CASE RequestHeaders
  <2>1. Receives("request", "headers") /\ isChat' = ex.chat /\ out' = <<HeadersReply("request")>>
        /\ UNCHANGED <<status, reqBody, inspectResponse, heldHeaders, respBody, inspected>>
    BY <1>7 DEF RequestHeaders
  <2>2. QED
    BY <1>0, <1>1, <1>3, <1>5, <1>6, <2>1, Received, RepliesAre
<1>8. CASE RequestBody
  <2>1. /\ Receives("request", "body") /\ reqBody' = Append(reqBody, Incoming.chunk)
        /\ IF Incoming.eos THEN SendsBack("request", reqBody', <<>>) ELSE UNCHANGED <<out, status, inspected>>
        /\ UNCHANGED <<isChat, inspectResponse, heldHeaders, respBody>>
    BY <1>8 DEF RequestBody, Silently
  <2>2. reqBody' \in Bodies
    BY <1>0, <1>4, <1>6, <2>1, Received
  <2>3. out' \in Seq(Replies) /\ status' \in {"serving", "done", "over"} /\ inspected' \in Seq(Inspection)
    <3>1. CASE Incoming.eos
      <4> DEFINE held == <<>>
      <4>1. SendsBack("request", reqBody', held) /\ held \in Seq(Replies)
        BY <1>5, <2>1, <3>1
      <4>2. \A r \in Replies : Append(held, r) \in Seq(Replies)
        BY <1>5
      <4> HIDE DEF held
      <4>3. /\ inspected' \in Seq(Inspection)
            /\ \/ status' = "done" /\ out' = <<Immediate>>
               \/ status' = status /\ \E r \in Replies : out' = Append(held, r)
        BY <1>6, <2>2, <4>1, SendsBackEffect
      <4>4. QED
        BY <1>0, <1>5, <4>2, <4>3, RepliesAre
    <3>2. CASE ~Incoming.eos
      BY <1>0, <2>1, <3>2
    <3>3. QED
      BY <3>1, <3>2
  <2>4. QED
    BY <1>0, <1>3, <1>6, <2>1, <2>2, <2>3, Received
<1>9. CASE ResponseHeaders
  <2>1. /\ Receives("response", "headers")
        /\ inspectResponse' = (~Incoming.eos /\ ex.response.inspectable)
        /\ heldHeaders' = inspectResponse'
        /\ out' = IF inspectResponse' THEN <<>> ELSE <<HeadersReply("response")>>
        /\ UNCHANGED <<status, isChat, reqBody, respBody, inspected>>
    BY <1>9 DEF ResponseHeaders
  <2>2. inspectResponse' \in BOOLEAN /\ heldHeaders' \in BOOLEAN
    BY <2>1
  <2>3. out' \in Seq(Replies)
    BY <1>5, <1>6, <2>1, RepliesAre
  <2>4. QED
    BY <1>0, <1>3, <1>6, <2>1, <2>2, <2>3, Received
<1>10. CASE ResponseBodyPassed
  <2>1. /\ Receives("response", "body")
        /\ out' = <<Reply("response", "body", <<Incoming.chunk>>, Incoming.eos)>>
        /\ UNCHANGED <<status, isChat, reqBody, inspectResponse, heldHeaders, respBody, inspected>>
    BY <1>10 DEF ResponseBodyPassed, llmStream
  <2>2. out' \in Seq(Replies)
    BY <1>5, <1>6, <2>1, RepliesAre, Received
  <2>3. QED
    BY <1>0, <1>3, <1>6, <2>1, <2>2, Received
<1>11. CASE ResponseBodyInspected
  <2> DEFINE held == IF heldHeaders THEN <<HeadersReply("response")>> ELSE <<>>
  <2>1. /\ Receives("response", "body") /\ respBody' = Append(respBody, Incoming.chunk)
        /\ IF Incoming.eos THEN SendsBack("response", respBody', held) ELSE UNCHANGED <<out, status, inspected>>
        /\ heldHeaders' = (heldHeaders /\ ~(Incoming.eos /\ status' = "serving"))
        /\ UNCHANGED <<isChat, reqBody, inspectResponse>>
    BY <1>11 DEF ResponseBodyInspected, Silently
  <2>2. respBody' \in Bodies /\ heldHeaders' \in BOOLEAN
    BY <1>0, <1>4, <1>6, <2>1, Received
  <2>3. out' \in Seq(Replies) /\ status' \in {"serving", "done", "over"} /\ inspected' \in Seq(Inspection)
    <3>1. CASE Incoming.eos
      <4>1. SendsBack("response", respBody', held) /\ held \in Seq(Replies)
        BY <1>5, <1>6, <2>1, <3>1, RepliesAre
      <4>2. \A r \in Replies : Append(held, r) \in Seq(Replies)
        BY <1>5, <1>6, RepliesAre
      <4> HIDE DEF held
      <4>3. /\ inspected' \in Seq(Inspection)
            /\ \/ status' = "done" /\ out' = <<Immediate>>
               \/ status' = status /\ \E r \in Replies : out' = Append(held, r)
        BY <1>6, <2>2, <4>1, SendsBackEffect
      <4>4. QED
        BY <1>0, <1>5, <4>2, <4>3, RepliesAre
    <3>2. CASE ~Incoming.eos
      BY <1>0, <2>1, <3>2
    <3>3. QED
      BY <3>1, <3>2
  <2>4. QED
    BY <1>0, <1>3, <1>6, <2>1, <2>2, <2>3, Received
<1>12. CASE Trailers
  <2>1. PICK side \in Sides : /\ Receives(side, "trailers") /\ out' = <<TrailersReply(side)>>
                              /\ UNCHANGED <<status, llmStream, inspected>>
    BY <1>12 DEF Trailers
  <2>2. out' \in Seq(Replies)
    BY <1>5, <2>1, RepliesAre
  <2>3. QED
    BY <1>0, <1>3, <2>1, <2>2, Received DEF llmStream
<1>13. CASE SendReply
  <2>1. out # <<>> => Head(out) \in Replies /\ Tail(out) \in Seq(Replies)
    BY <1>0
  <2>2. Append(replies, Head(out)) \in Seq(Replies) /\ Tail(out) \in Seq(Replies)
    BY <1>0, <1>13, <2>1 DEF SendReply
  <2>3. QED
    BY <1>0, <1>3, <1>13, <2>2 DEF SendReply, llmStream
<1>14. CASE Returns
  BY <1>0, <1>3, <1>14 DEF Returns, llmStream
<1>15. CASE Gateway \/ GatewayAborts
  <2>1. /\ UNCHANGED <<ex, taken, out, status, llmStream, replies, inspected>>
        /\ sent' \in 0..Len(Script) /\ taken \in 0..sent' /\ stream' \in {"open", "finished", "aborted"}
    BY <1>0, <1>1, <1>15 DEF Gateway, GatewaySends, GatewayFinishes, GatewayAborts
  <2>2. QED
    BY <1>0, <1>3, <2>1 DEF llmStream
<1>16. CASE UNCHANGED vars
  BY <1>0, <1>3, <1>16 DEF vars, llmStream
<1>17. QED
  BY <1>7, <1>8, <1>9, <1>10, <1>11, <1>12, <1>13, <1>14, <1>15, <1>16 DEF Next, Process

(* The adapter's state and what it exchanges with the gateway keep their    *)
(* types, and it never takes a message that was not sent (llm.go 52-110).   *)
THEOREM LlmTypeCorrect == Spec => []LlmTypeOK
  BY LlmTypeInit, LlmTypeNext, PTL DEF Spec

----------------------------------------------------------------------------
(* The adapter's state follows from how much was taken.                    *)

LEMMA ChunksGrow ==
    /\ Chunks(0) = <<>>
    /\ \A k \in Nat : Chunks(k) \in Seq(Nat) /\ Append(Chunks(k), k + 1) = Chunks(k + 1)
<1>1. \A k \in Nat : Chunks(k) \in Seq(Nat) /\ Len(Chunks(k)) = k /\ \A i \in 1..k : Chunks(k)[i] = i
  BY DEF Chunks
<1>2. Chunks(0) = <<>>
  BY DEF Chunks
<1>3. ASSUME NEW k \in Nat
      PROVE  Append(Chunks(k), k + 1) = Chunks(k + 1)
  BY <1>1 DEF Chunks
<1>4. QED
  BY <1>1, <1>2, <1>3

LEMMA ExKept ==
    ASSUME [Next]_vars
    PROVE  ex' = ex /\ \A side \in Sides : Offset(side)' = Offset(side)
<1>1. ex' = ex
  BY DEF Next, vars, Process, Gateway, RequestHeaders, RequestBody, ResponseHeaders, ResponseBodyPassed,
     ResponseBodyInspected, Trailers, SendReply, Returns, GatewaySends, GatewayFinishes, GatewayAborts, Receives
<1>2. QED
  BY <1>1 DEF Offset, SideScript

(* The positions that matter: o is where the response begins. *)
LEMMA Places ==
    ASSUME LlmTypeOK
    PROVE  /\ taken \in Nat /\ Offset("request") = 0 /\ Offset("response") \in Nat
           /\ ex.request.chunks \in Nat /\ ex.response.chunks \in Nat
           /\ ex["request"] = ex.request /\ ex["response"] = ex.response
           /\ Offset("response") > ex.request.chunks
           /\ ex.request.ends = "trailers" => Offset("response") > ex.request.chunks + 1
           /\ ex.chat \in BOOLEAN /\ ex.response.inspectable \in BOOLEAN
           /\ "request" \in Sides /\ "response" \in Sides
<1>1. ex \in Exchanges /\ sent \in 0..Len(Script) /\ taken \in 0..sent
  BY DEF LlmTypeOK
<1>2. taken \in Nat
  BY <1>1, ScriptIs
<1>3. ex["request"] = ex.request /\ ex["response"] = ex.response
  OBVIOUS
<1>4. ex["request"].chunks \in Nat /\ ex["response"].chunks \in Nat
  BY <1>1, SideIs DEF Sides
<1>5. ex.chat \in BOOLEAN /\ ex.response.inspectable \in BOOLEAN
  BY <1>1, ExchangeAssumption DEF Exchange, Side
<1>6. QED
  BY <1>1, <1>2, <1>3, <1>4, <1>5, ScriptIs DEF Sides

(* Where a message of each kind stands. *)
LEMMA Placed ==
    ASSUME LlmTypeOK, NEW side \in Sides, NEW kind, Receives(side, kind)
    PROVE  /\ taken' = taken + 1
           /\ side = "request" <=> taken' <= Offset("response")
           /\ kind = "headers" <=> taken' = Offset(side) + 1
           /\ kind = "headers" => Incoming.eos = (ex[side].chunks = 0)
           /\ kind = "body" => /\ taken' >= Offset(side) + 2 /\ taken' <= Offset(side) + 1 + ex[side].chunks
                               /\ Incoming.chunk = taken - Offset(side)
                               /\ Incoming.eos = (ex[side].ends = "body" /\ taken' = Offset(side) + 1 + ex[side].chunks)
           /\ kind = "trailers" => taken' = Offset(side) + 2 + ex[side].chunks
<1>1. Offset(side) \in Nat /\ ex[side].chunks \in Nat /\ taken \in Nat
  BY Places DEF Sides
<1>2. /\ taken' = taken + 1
      /\ side = "request" <=> taken' <= Offset("response")
      /\ Fits(Incoming, side, taken' - Offset(side)) /\ Incoming.kind = kind
  BY Received
<1> DEFINE i == taken' - Offset(side)  n == ex[side].chunks
<1>3. /\ kind = "headers" <=> i = 1
      /\ kind = "headers" => Incoming.eos = (n = 0)
      /\ kind = "body" => i >= 2 /\ i <= 1 + n /\ Incoming.chunk = i - 1
      /\ kind = "trailers" => i = 2 + n
  BY <1>2 DEF Fits
<1>4. kind = "body" => Incoming.eos = (ex[side].ends = "body" /\ i = 1 + n)
  BY <1>2 DEF Fits
<1>5. /\ i = 1 <=> taken' = Offset(side) + 1
      /\ i >= 2 <=> taken' >= Offset(side) + 2
      /\ i <= 1 + n <=> taken' <= Offset(side) + 1 + n
      /\ i = 1 + n <=> taken' = Offset(side) + 1 + n
      /\ i = 2 + n <=> taken' = Offset(side) + 2 + n
      /\ i - 1 = taken - Offset(side)
  <2>1. taken' = taken + 1
    BY <1>2
  <2>2. QED
    BY <1>1, <2>1
<1> HIDE DEF i, n
<1>6. kind = "body" => Incoming.eos = (ex[side].ends = "body" /\ taken' = Offset(side) + 1 + n)
  BY <1>4, <1>5
<1>7. /\ kind = "headers" <=> taken' = Offset(side) + 1
      /\ kind = "headers" => Incoming.eos = (n = 0)
      /\ kind = "body" => /\ taken' >= Offset(side) + 2 /\ taken' <= Offset(side) + 1 + n
                          /\ Incoming.chunk = taken - Offset(side)
      /\ kind = "trailers" => taken' = Offset(side) + 2 + n
  BY <1>3, <1>5, Zenon
<1>8. QED
  <2>1. /\ taken' = taken + 1
        /\ side = "request" <=> taken' <= Offset("response")
    BY <1>2
  <2>2. QED
    BY <1>6, <1>7, <2>1 DEF n

LEMMA StreamInvNext ==
    ASSUME LlmTypeOK, StreamInv, [Next]_vars
    PROVE  StreamInv'
<1> DEFINE o == Offset("response")  n == ex.request.chunks  m == ex.response.chunks
<1>1. /\ taken \in Nat /\ Offset("request") = 0 /\ o \in Nat /\ n \in Nat /\ m \in Nat
      /\ ex["request"] = ex.request /\ ex["response"] = ex.response
      /\ o > n /\ (ex.request.ends = "trailers" => o > n + 1)
      /\ ex.chat \in BOOLEAN /\ ex.response.inspectable \in BOOLEAN
      /\ "request" \in Sides /\ "response" \in Sides
  BY Places
<1>2. ex' = ex /\ Offset("request")' = 0 /\ Offset("response")' = o
  BY <1>1, ExKept
<1>3. /\ taken > 0 => isChat = ex.chat
      /\ ~(taken > 0) => reqBody = <<>>
      /\ taken > 0 /\ ~(taken > n) => reqBody = Chunks(taken - 1)
      /\ ~(taken > o) => respBody = <<>> /\ ~inspectResponse /\ ~heldHeaders
      /\ taken > o => inspectResponse = (m # 0 /\ ex.response.inspectable)
      /\ inspectResponse /\ ~(taken > o + m) => heldHeaders /\ respBody = Chunks(taken - o - 1)
      /\ heldHeaders => inspectResponse
  BY <1>1 DEF StreamInv, Begun, WholeTaken
<1>4. ASSUME /\ taken' > 0 => isChat' = ex.chat
             /\ ~(taken' > 0) => reqBody' = <<>>
             /\ taken' > 0 /\ ~(taken' > n) => reqBody' = Chunks(taken' - 1)
             /\ ~(taken' > o) => respBody' = <<>> /\ ~inspectResponse' /\ ~heldHeaders'
             /\ taken' > o => inspectResponse' = (m # 0 /\ ex.response.inspectable)
             /\ inspectResponse' /\ ~(taken' > o + m) => heldHeaders' /\ respBody' = Chunks(taken' - o - 1)
             /\ heldHeaders' => inspectResponse'
      PROVE  StreamInv'
  BY <1>1, <1>2, <1>4 DEF StreamInv, Begun, WholeTaken, Chunks
<1> HIDE DEF o, n, m
<1>5. CASE UNCHANGED <<taken, llmStream>>
  BY <1>1, <1>3, <1>4, <1>5 DEF llmStream
<1>6. CASE RequestHeaders
  <2>1. taken = 0 /\ taken' = 1 /\ isChat' = ex.chat
        /\ UNCHANGED <<reqBody, inspectResponse, heldHeaders, respBody>>
    BY <1>1, <1>6, Placed DEF RequestHeaders
  <2>2. reqBody' = Chunks(taken' - 1)
    BY <1>3, <2>1, ChunksGrow
  <2>3. QED
    BY <1>1, <1>3, <1>4, <2>1, <2>2
<1>7. CASE RequestBody
  <2>1. /\ taken' = taken + 1 /\ taken' >= 2 /\ taken' <= 1 + n /\ Incoming.chunk = taken
        /\ reqBody' = Append(reqBody, Incoming.chunk)
        /\ UNCHANGED <<isChat, inspectResponse, heldHeaders, respBody>>
    BY <1>1, <1>7, Placed DEF RequestBody, n
  <2>2. taken - 1 \in Nat /\ (taken - 1) + 1 = taken /\ taken' - 1 = taken
    BY <1>1, <2>1
  <2>3. reqBody = Chunks(taken - 1)
    BY <1>1, <1>3, <2>1
  <2>4. reqBody' = Chunks(taken' - 1)
    BY <2>1, <2>2, <2>3, ChunksGrow
  <2>5. taken > 0 /\ taken' > 0 /\ ~(taken > o) /\ ~(taken' > o)
    BY <1>1, <2>1
  <2>6. QED
    BY <1>1, <1>3, <1>4, <2>1, <2>4, <2>5
<1>8. CASE ResponseHeaders
  <2>1. /\ taken' = taken + 1 /\ taken' = o + 1
        /\ inspectResponse' = (m # 0 /\ ex.response.inspectable) /\ heldHeaders' = inspectResponse'
        /\ UNCHANGED <<isChat, reqBody, respBody>>
    BY <1>1, <1>8, Placed DEF ResponseHeaders, o, m
  <2>2. respBody' = Chunks(taken' - o - 1)
    <3>1. taken' - o - 1 = 0 /\ ~(taken > o)
      BY <1>1, <2>1
    <3>2. QED
      BY <1>3, <2>1, <3>1, ChunksGrow
  <2>3. taken > 0 /\ taken' > n /\ taken' > o
    BY <1>1, <2>1
  <2>4. QED
    BY <1>1, <1>3, <1>4, <2>1, <2>2, <2>3
<1>9. CASE ResponseBodyPassed
  <2>1. /\ taken' = taken + 1 /\ taken' >= o + 2 /\ ~inspectResponse /\ UNCHANGED llmStream
    BY <1>1, <1>9, Placed DEF ResponseBodyPassed, o
  <2>2. taken > 0 /\ taken > o /\ taken' > n /\ taken' > o
    BY <1>1, <2>1
  <2>3. QED
    BY <1>1, <1>3, <1>4, <2>1, <2>2 DEF llmStream
<1>10. CASE ResponseBodyInspected
  <2>1. /\ taken' = taken + 1 /\ taken' >= o + 2 /\ taken' <= o + 1 + m /\ Incoming.chunk = taken - o
        /\ Incoming.eos => taken' = o + 1 + m
        /\ inspectResponse /\ respBody' = Append(respBody, Incoming.chunk)
        /\ heldHeaders' = (heldHeaders /\ ~(Incoming.eos /\ status' = "serving"))
        /\ UNCHANGED <<isChat, reqBody, inspectResponse>>
    BY <1>1, <1>10, Placed DEF ResponseBodyInspected, o, m
  <2>2. taken > 0 /\ taken' > 0 /\ taken > o /\ taken' > n /\ taken' > o /\ ~(taken > o + m)
    BY <1>1, <2>1
  <2>3. respBody' = Chunks(taken' - o - 1)
    <3>1. taken - o - 1 \in Nat /\ (taken - o - 1) + 1 = taken - o /\ taken' - o - 1 = taken - o
      BY <1>1, <2>1
    <3>2. respBody = Chunks(taken - o - 1)
      BY <1>3, <2>1, <2>2
    <3>3. PICK k \in Nat : k = taken - o - 1
      BY <3>1
    <3>4. k + 1 = taken - o /\ k + 1 = taken' - o - 1
      BY <3>1, <3>3
    <3>5. Append(Chunks(k), k + 1) = Chunks(k + 1)
      BY ChunksGrow
    <3>6. respBody = Chunks(k) /\ respBody' = Append(respBody, taken - o)
      BY <2>1, <3>2, <3>3
    <3>7. QED
      BY <3>4, <3>5, <3>6
  <2>4. ~(taken' > o + m) => heldHeaders'
    <3>1. ~(taken' > o + m) => ~Incoming.eos
      BY <1>1, <2>1
    <3>2. heldHeaders
      BY <1>3, <2>1, <2>2
    <3>3. QED
      BY <2>1, <3>1, <3>2
  <2>5. isChat' = ex.chat /\ inspectResponse' /\ inspectResponse' = (m # 0 /\ ex.response.inspectable)
    BY <1>3, <2>1, <2>2
  <2>6. QED
    BY <1>4, <2>2, <2>3, <2>4, <2>5, Zenon
<1>11. CASE Trailers
  <2>1. PICK side \in Sides : Receives(side, "trailers") /\ UNCHANGED llmStream
    BY <1>11 DEF Trailers
  <2>2. CASE side = "request"
    <3>1. taken' = taken + 1 /\ taken' = 2 + n /\ taken' <= o
      BY <1>1, <2>1, <2>2, Placed DEF n, o
    <3>2. QED
      BY <1>1, <1>3, <1>4, <2>1, <3>1 DEF llmStream
  <2>3. CASE side = "response"
    <3>1. taken' = taken + 1 /\ taken' = o + 2 + m
      BY <1>1, <2>1, <2>3, Placed DEF m, o
    <3>2. taken > 0 /\ taken > o /\ taken' > n /\ taken' > o + m
      BY <1>1, <3>1
    <3>3. QED
      BY <1>1, <1>3, <1>4, <2>1, <3>1, <3>2 DEF llmStream
  <2>4. QED
    BY <2>2, <2>3 DEF Sides
<1>12. CASE SendReply \/ Returns \/ Gateway \/ GatewayAborts \/ UNCHANGED vars
  BY <1>5, <1>12 DEF SendReply, Returns, Gateway, GatewaySends, GatewayFinishes, GatewayAborts, vars, llmStream
<1>13. QED
  BY <1>6, <1>7, <1>8, <1>9, <1>10, <1>11, <1>12 DEF Next, Process

----------------------------------------------------------------------------
(* The history of replies.                                                 *)

LEMMA Appends ==
    ASSUME NEW h \in Seq(Replies), NEW r \in Replies
    PROVE  /\ Append(h, r) \in Seq(Replies) /\ Len(h) \in Nat
           /\ DOMAIN h = 1..Len(h) /\ DOMAIN Append(h, r) = 1..(Len(h) + 1) /\ Len(Append(h, r)) = Len(h) + 1
           /\ \A i \in DOMAIN h : Append(h, r)[i] = h[i] /\ h[i] \in Replies
           /\ Append(h, r)[Len(h) + 1] = r
           /\ \A i \in DOMAIN Append(h, r) : i \in DOMAIN h \/ i = Len(h) + 1
           /\ \A i \in DOMAIN h : i \in DOMAIN Append(h, r) /\ i < Len(h) + 1
           /\ Len(h) + 1 \in DOMAIN Append(h, r)
<1>1. /\ Append(h, r) \in Seq(Replies) /\ Len(h) \in Nat
      /\ DOMAIN h = 1..Len(h) /\ DOMAIN Append(h, r) = 1..(Len(h) + 1) /\ Len(Append(h, r)) = Len(h) + 1
      /\ \A i \in DOMAIN h : Append(h, r)[i] = h[i] /\ h[i] \in Replies
      /\ Append(h, r)[Len(h) + 1] = r
  OBVIOUS
<1>2. QED
  BY <1>1

LEMMA AllDueLater ==
    ASSUME NEW h \in Seq(Replies), NEW t \in Nat, NEW u \in Nat, u >= t, NEW held, NEW soon,
           NEW e \in Exchange, NEW o \in Nat, AllDue(h, t, held, e, o), soon => held \/ t <= o
    PROVE  AllDue(h, u, soon, e, o)
<1> SUFFICES ASSUME NEW i \in DOMAIN h, h[i].kind # "immediate"
             PROVE  Due(h[i], u, soon, e, o)
  BY DEF AllDue
<1> DEFINE r == h[i]  p == At(r.side, o)  n == e[r.side].chunks
<1>1. Due(r, t, held, e, o)
  BY DEF AllDue
<1>2. r \in Replies
  OBVIOUS
<1>3. p \in Nat /\ n \in Nat /\ (r.side = "response" => p = o)
  <2>1. r.side \in Sides
    BY <1>2 DEF Replies
  <2>2. e[r.side] \in Side
    BY <2>1 DEF Exchange, Sides
  <2>3. n \in Nat
    BY <2>2, ExchangeAssumption DEF Side
  <2>4. QED
    BY <2>1, <2>3 DEF At, Sides
<1>4. u > p /\ (t > p + n => u > p + n) /\ (t > p + n + 1 => u > p + n + 1)
  <2>1. t > p
    BY <1>1 DEF Due
  <2> HIDE DEF p, n
  <2>2. QED
    BY <1>3, <2>1
<1>5. r.side = "response" /\ r.kind \in {"headers", "body"} => ~soon
  <2>1. r.side = "response" => t > o
    BY <1>1, <1>3 DEF Due
  <2>2. QED
    BY <1>1, <2>1 DEF Due
<1>6. QED
  BY <1>1, <1>4, <1>5 DEF Due

LEMMA AllDueAppend ==
    ASSUME NEW h \in Seq(Replies), NEW r \in Replies, NEW t, NEW held, NEW e, NEW o,
           AllDue(h, t, held, e, o), r.kind = "immediate" \/ Due(r, t, held, e, o)
    PROVE  AllDue(Append(h, r), t, held, e, o)
  BY Appends DEF AllDue

LEMMA OrderedAppend ==
    ASSUME NEW h \in Seq(Replies), NEW r \in Replies, Ordered(h),
           \A side \in Sides :
             /\ IsHeaders(r, side) => \A i \in DOMAIN h : ~IsHeaders(h[i], side)
             /\ IsBody(r, side) => /\ \E i \in DOMAIN h : IsHeaders(h[i], side)
                                   /\ \A i \in DOMAIN h : ~(IsBody(h[i], side) /\ h[i].eos)
    PROVE  Ordered(Append(h, r))
<1> DEFINE g == Append(h, r)  n == Len(h)
<1>1. /\ n \in Nat /\ \A i \in DOMAIN h : i \in Nat /\ i < n + 1
      /\ \A i \in DOMAIN h : g[i] = h[i] /\ i \in DOMAIN g
      /\ g[n + 1] = r /\ n + 1 \in DOMAIN g
      /\ \A i \in DOMAIN g : i \in DOMAIN h \/ i = n + 1
  BY Appends
<1> HIDE DEF g, n
<1>2. SUFFICES ASSUME NEW side \in Sides, NEW i \in DOMAIN g, NEW j \in DOMAIN g
               PROVE  /\ IsHeaders(g[i], side) /\ IsHeaders(g[j], side) => i = j
                      /\ IsBody(g[i], side) /\ IsBody(g[j], side) /\ g[i].eos => j <= i
                      /\ IsBody(g[j], side) => \E k \in DOMAIN g : IsHeaders(g[k], side) /\ k < j
  BY DEF Ordered, g
<1>3. CASE i \in DOMAIN h /\ j \in DOMAIN h
  BY <1>1, <1>3 DEF Ordered
<1>4. CASE i = n + 1 /\ j = n + 1
  BY <1>1, <1>4
<1>5. CASE i = n + 1 /\ j \in DOMAIN h
  <2>1. g[i] = r /\ g[j] = h[j] /\ j <= i
    BY <1>1, <1>5
  <2>2. IsHeaders(r, side) => ~IsHeaders(h[j], side)
    BY <1>5
  <2>3. IsBody(h[j], side) => \E k \in DOMAIN h : IsHeaders(h[k], side) /\ k < j
    BY <1>5 DEF Ordered
  <2>4. QED
    BY <1>1, <2>1, <2>2, <2>3
<1>6. CASE i \in DOMAIN h /\ j = n + 1
  <2>1. g[i] = h[i] /\ g[j] = r
    BY <1>1, <1>6
  <2>2. IsHeaders(r, side) => ~IsHeaders(h[i], side)
    BY <1>6
  <2>3. IsBody(r, side) => /\ \E k \in DOMAIN h : IsHeaders(h[k], side)
                           /\ ~(IsBody(h[i], side) /\ h[i].eos)
    BY <1>6
  <2>4. QED
    BY <1>1, <1>6, <2>1, <2>2, <2>3
<1>7. QED
  BY <1>1, <1>3, <1>4, <1>5, <1>6

LEMMA AnsweredAppend ==
    ASSUME NEW h \in Seq(Replies), NEW r \in Replies, NEW t, NEW held, NEW o, NEW u, NEW soon,
           Answered(h, t, held, o),
           \A side \in Sides : u > At(side, o) =>
             \/ t > At(side, o) /\ (side = "response" /\ held => soon)
             \/ side = "response" /\ soon
             \/ IsHeaders(r, side)
    PROVE  Answered(Append(h, r), u, soon, o)
<1> SUFFICES ASSUME NEW side \in Sides, u > At(side, o)
             PROVE  \/ side = "response" /\ soon
                    \/ \E i \in DOMAIN Append(h, r) : IsHeaders(Append(h, r)[i], side)
  BY DEF Answered
<1>1. CASE IsHeaders(r, side)
  BY <1>1, Appends
<1>2. CASE \E i \in DOMAIN h : IsHeaders(h[i], side)
  BY <1>2, Appends
<1>3. QED
  BY <1>1, <1>2 DEF Answered

LEMMA LastWordAppend ==
    ASSUME NEW h \in Seq(Replies), NEW r \in Replies,
           \A i \in DOMAIN h : h[i].kind # "immediate",
           r.kind = "immediate" => r = Immediate /\ \A i \in DOMAIN h : h[i].side = "request"
    PROVE  LastWord(Append(h, r))
<1> SUFFICES ASSUME NEW i \in DOMAIN Append(h, r), Append(h, r)[i].kind = "immediate"
             PROVE  /\ Append(h, r)[i] = Immediate /\ i = Len(Append(h, r))
                    /\ \A j \in DOMAIN Append(h, r) : j # i => Append(h, r)[j].side = "request"
  BY DEF LastWord
<1>1. i = Len(h) + 1 /\ Append(h, r)[i] = r
  BY Appends
<1>2. QED
  BY <1>1, Appends

(* What the replies to a message make of the history. *)
LEMMA HistoryAppends ==
    /\ \A h \in Seq(Replies) : h \o <<>> = h /\ h \in Seq(Replies)
    /\ \A h \in Seq(Replies), r \in Replies : h \o <<r>> = Append(h, r)
    /\ \A h \in Seq(Replies), q, r \in Replies : h \o Append(<<q>>, r) = Append(Append(h, q), r)
    /\ \A h, g \in Seq(Replies) : g # <<>> => Append(h, Head(g)) \o Tail(g) = h \o g
<1>1. \A h \in Seq(Replies) : h \o <<>> = h
  OBVIOUS
<1>2. \A h \in Seq(Replies), r \in Replies : h \o <<r>> = Append(h, r)
  OBVIOUS
<1>3. \A h \in Seq(Replies), q, r \in Replies : h \o Append(<<q>>, r) = Append(Append(h, q), r)
  OBVIOUS
<1>4. \A h, g \in Seq(Replies) : g # <<>> => Append(h, Head(g)) \o Tail(g) = h \o g
  OBVIOUS
<1>5. QED
  BY <1>1, <1>2, <1>3, <1>4

LEMMA SameExchange ==
    ASSUME LlmTypeOK, ex' = ex
    PROVE  /\ Offset("response")' = Offset("response")
           /\ \A side \in Sides : /\ Offset(side)' = Offset(side) /\ Offset(side) = At(side, Offset("response"))
                                  /\ Inspectable(side)' = Inspectable(side) /\ Owed(side)' = Owed(side)
                                  /\ WholeTaken(side)' = (taken' > Offset(side) + ex[side].chunks)
<1>1. SideScript("request")' = SideScript("request")
  BY DEF SideScript
<1>2. \A side \in Sides : Offset(side)' = Offset(side) /\ Offset(side) = At(side, Offset("response"))
  BY <1>1 DEF Offset, At, Sides
<1>3. Offset("response")' = Offset("response")
  BY <1>2 DEF Sides
<1>4. \A side \in Sides : Inspectable(side)' = Inspectable(side) /\ Owed(side)' = Owed(side)
  BY DEF Inspectable, Owed
<1>5. \A side \in Sides : WholeTaken(side)' = (taken' > Offset(side) + ex[side].chunks)
  BY <1>2 DEF WholeTaken
<1>6. QED
  BY <1>2, <1>3, <1>4, <1>5

LEMMA InspectedKept ==
    ASSUME LlmTypeOK, InspectedInv, ex' = ex, inspected' = inspected, taken' \in Nat, taken' >= taken,
           \A side \in Sides : Inspectable(side) /\ (\E i \in DOMAIN History' : IsBody(History'[i], side)) =>
             \E i \in DOMAIN History : IsBody(History[i], side)
    PROVE  InspectedInv'
<1>1. \A side \in Sides : WholeTaken(side) => WholeTaken(side)'
  <2>1. TAKE side \in Sides
  <2>2. WholeTaken(side)' = (taken' > Offset(side) + ex[side].chunks)
    BY SameExchange
  <2>3. Offset(side) \in Nat /\ ex[side].chunks \in Nat /\ taken \in Nat
    BY Places DEF Sides
  <2>4. QED
    BY <2>2, <2>3 DEF WholeTaken
<1>2. \A side \in Sides : Inspectable(side)' = Inspectable(side) /\ Owed(side)' = Owed(side)
  BY SameExchange
<1>3. SUFFICES ASSUME NEW side \in Sides
               PROVE  /\ \A i \in DOMAIN inspected' : inspected'[i].side = side => WholeTaken(side)'
                      /\ Inspectable(side)' /\ (\E i \in DOMAIN History' : IsBody(History'[i], side)) =>
                           /\ \A surface \in Owed(side)' : \E i \in DOMAIN inspected' :
                                inspected'[i].side = side /\ inspected'[i].surface = surface
                           /\ \A i \in DOMAIN inspected' :
                                inspected'[i].side = side => inspected'[i].action # "block"
  BY DEF InspectedInv
<1>4. \A i \in DOMAIN inspected : inspected[i].side = side => WholeTaken(side)
  BY DEF InspectedInv
<1>5. Inspectable(side) /\ (\E i \in DOMAIN History : IsBody(History[i], side)) =>
        /\ \A surface \in Owed(side) : \E i \in DOMAIN inspected :
             inspected[i].side = side /\ inspected[i].surface = surface
        /\ \A i \in DOMAIN inspected : inspected[i].side = side => inspected[i].action # "block"
  BY DEF InspectedInv
<1> HIDE DEF IsBody
<1>6. QED
  BY <1>1, <1>2, <1>4, <1>5

(* What holds of the history when a message is received. *)
LEMMA Receiving ==
    ASSUME LlmTypeOK, HistoryInv, LastWordInv, NEW side \in Sides, NEW kind, Receives(side, kind)
    PROVE  /\ History \in Seq(Replies) /\ History' = History \o out'
           /\ \A i \in DOMAIN History : /\ History[i] \in Replies /\ History[i].kind # "immediate"
                                        /\ Due(History[i], taken, heldHeaders, ex, Offset("response"))
<1>1. status = "serving" /\ out = <<>> /\ replies' = replies
  BY Received
<1>2. replies \in Seq(Replies)
  BY DEF LlmTypeOK
<1>3. History = replies
  BY <1>1, <1>2, HistoryAppends DEF History
<1>4. \A i \in DOMAIN History : History[i].kind # "immediate"
  BY <1>1 DEF LastWordInv
<1>5. \A i \in DOMAIN History : Due(History[i], taken, heldHeaders, ex, Offset("response"))
  BY <1>4 DEF HistoryInv, AllDue
<1>6. \A i \in DOMAIN History : History[i] \in Replies
  BY <1>2, <1>3
<1>7. History' = History \o out'
  BY <1>1, <1>3 DEF History
<1>8. QED
  BY <1>2, <1>3, <1>4, <1>5, <1>6, <1>7

(* A message that is answered with one reply, due now. *)
LEMMA ReplyStep ==
    ASSUME LlmTypeOK, HistoryInv, LastWordInv, NEW side \in Sides, NEW kind, Receives(side, kind),
           NEW r \in Replies, out' = <<r>>,
           heldHeaders' => heldHeaders \/ taken <= Offset("response"),
           \/ r.kind # "immediate" /\ Due(r, taken', heldHeaders', ex, Offset("response")) /\ status' = status
           \/ /\ r = Immediate /\ status' = "done" /\ \A i \in DOMAIN History : History[i].side = "request"
              /\ \E k \in DOMAIN inspected' : inspected'[k].action = "block",
           \A s \in Sides :
             /\ IsHeaders(r, s) => \A i \in DOMAIN History : ~IsHeaders(History[i], s)
             /\ IsBody(r, s) => /\ \E i \in DOMAIN History : IsHeaders(History[i], s)
                                /\ \A i \in DOMAIN History : ~(IsBody(History[i], s) /\ History[i].eos),
           \A s \in Sides : taken' > At(s, Offset("response")) =>
             \/ taken > At(s, Offset("response")) /\ (s = "response" /\ heldHeaders => heldHeaders')
             \/ s = "response" /\ heldHeaders'
             \/ IsHeaders(r, s)
    PROVE  HistoryInv' /\ LastWordInv' /\ History' = Append(History, r) /\ History \in Seq(Replies)
<1> DEFINE o == Offset("response")
<1>1. /\ taken \in Nat /\ taken' \in Nat /\ taken' >= taken /\ o \in Nat /\ ex \in Exchange
      /\ ex' = ex /\ status = "serving" /\ o' = o
  <2>1. taken' = taken + 1 /\ taken \in Nat /\ ex' = ex /\ status = "serving"
    BY Received
  <2>2. QED
    BY <2>1, Places, SameExchange, ExchangeAssumption DEF LlmTypeOK
<1>2. /\ History \in Seq(Replies) /\ History' = History \o out'
      /\ \A i \in DOMAIN History : History[i].kind # "immediate"
  BY Receiving
<1>3. History' = Append(History, r)
  BY <1>2, HistoryAppends
<1>4. AllDue(History, taken, heldHeaders, ex, o) /\ Answered(History, taken, heldHeaders, o) /\ Ordered(History)
  BY DEF HistoryInv
<1>5. LastWord(History')
  BY <1>2, <1>3, LastWordAppend
<1>6. r.kind = "immediate" \/ Due(r, taken', heldHeaders', ex, o)
  BY DEF Immediate, Reply
<1> HIDE DEF o
<1>7. AllDue(History', taken', heldHeaders', ex, o)
  <2>1. AllDue(History, taken', heldHeaders', ex, o)
    BY <1>1, <1>2, <1>4, AllDueLater, Zenon DEF o
  <2>2. QED
    BY <1>2, <1>3, <1>6, <2>1, AllDueAppend, Zenon
<1>8. Ordered(History')
  BY <1>2, <1>3, <1>4, OrderedAppend
<1>9. Answered(History', taken', heldHeaders', o)
  <2>1. \A s \in Sides : taken' > At(s, o) =>
          \/ taken > At(s, o) /\ (s = "response" /\ heldHeaders => heldHeaders')
          \/ s = "response" /\ heldHeaders'
          \/ IsHeaders(r, s)
    BY DEF o
  <2>2. \E i \in DOMAIN History' : History'[i] = r
    BY <1>2, <1>3, Appends
  <2>3. \A i \in DOMAIN History : \E j \in DOMAIN History' : History'[j] = History[i]
    BY <1>2, <1>3, Appends
  <2>4. QED
    BY <1>4, <2>1, <2>2, <2>3 DEF Answered
<1>10. HistoryInv'
  BY <1>1, <1>7, <1>8, <1>9 DEF HistoryInv, o
<1>11. LastWordInv'
  <2>1. CASE r.kind # "immediate" /\ status' = status
    <3>1. \A i \in DOMAIN History' : History'[i].kind # "immediate"
      BY <1>2, <1>3, <2>1, Appends
    <3>2. QED
      BY <1>1, <1>5, <2>1, <3>1 DEF LastWordInv
  <2>2. CASE r = Immediate /\ status' = "done" /\ \E k \in DOMAIN inspected' : inspected'[k].action = "block"
    BY <1>5, <2>2 DEF LastWordInv
  <2>3. QED
    BY <2>1, <2>2
<1>12. QED
  BY <1>2, <1>3, <1>10, <1>11

(* A message that is taken and not answered yet. *)
LEMMA SilentStep ==
    ASSUME LlmTypeOK, HistoryInv, LastWordInv, InspectedInv, NEW side \in Sides, NEW kind, Receives(side, kind),
           out' = <<>>, UNCHANGED <<status, inspected>>,
           heldHeaders' => heldHeaders \/ taken <= Offset("response"),
           \A s \in Sides : taken' > At(s, Offset("response")) =>
             \/ taken > At(s, Offset("response")) /\ (s = "response" /\ heldHeaders => heldHeaders')
             \/ s = "response" /\ heldHeaders'
    PROVE  HistoryInv' /\ LastWordInv' /\ InspectedInv'
<1> DEFINE o == Offset("response")
<1>1. /\ taken \in Nat /\ taken' \in Nat /\ taken' >= taken /\ o \in Nat /\ ex \in Exchange
      /\ ex' = ex /\ status = "serving" /\ o' = o
  <2>1. taken' = taken + 1 /\ taken \in Nat /\ ex' = ex /\ status = "serving"
    BY Received
  <2>2. QED
    BY <2>1, Places, SameExchange, ExchangeAssumption DEF LlmTypeOK
<1>2. /\ History \in Seq(Replies) /\ History' = History
      /\ \A i \in DOMAIN History : History[i].kind # "immediate"
  BY Receiving, HistoryAppends
<1>3. AllDue(History, taken, heldHeaders, ex, o) /\ Answered(History, taken, heldHeaders, o) /\ Ordered(History)
  BY DEF HistoryInv
<1>4. AllDue(History, taken', heldHeaders', ex, o)
  BY <1>1, <1>2, <1>3, AllDueLater, Zenon
<1>5. Answered(History, taken', heldHeaders', o)
  BY <1>3 DEF Answered
<1>6. HistoryInv'
  BY <1>1, <1>2, <1>3, <1>4, <1>5 DEF HistoryInv
<1>7. LastWordInv'
  BY <1>1, <1>2 DEF LastWordInv, LastWord
<1>8. InspectedInv'
  BY <1>1, <1>2, InspectedKept
<1>9. QED
  BY <1>6, <1>7, <1>8

LEMMA RequestHeadersStep ==
    ASSUME LlmTypeOK, StreamInv, HistoryInv, LastWordInv, InspectedInv, RequestHeaders
    PROVE  HistoryInv' /\ LastWordInv' /\ InspectedInv'
<1> DEFINE o == Offset("response")  r == HeadersReply("request")
<1>1. /\ Receives("request", "headers") /\ out' = <<r>>
      /\ UNCHANGED <<status, heldHeaders, inspected>>
  BY DEF RequestHeaders
<1>2. /\ o \in Nat /\ o > 0 /\ ex \in Exchange /\ taken = 0 /\ taken' = 1 /\ ~heldHeaders /\ ex' = ex
      /\ status = "serving"
  <2>1. ex \in Exchange
    BY ExchangeAssumption DEF LlmTypeOK
  <2>2. taken = 0 /\ taken' = 1 /\ o \in Nat /\ o > 0
    BY <1>1, Places, Placed
  <2>3. ~heldHeaders
    BY <2>2 DEF StreamInv, Begun
  <2>4. QED
    BY <1>1, <2>1, <2>2, <2>3, Received, Places
<1>3. r \in Replies /\ IsHeaders(r, "request") /\ r.kind = "headers" /\ r.side = "request"
  BY RepliesAre DEF HeadersReply, Reply, IsHeaders, Sides
<1>4. /\ History \in Seq(Replies) /\ History' = History \o out'
      /\ \A i \in DOMAIN History : History[i].kind # "immediate" /\ Due(History[i], taken, heldHeaders, ex, o)
  BY <1>1, Receiving DEF Sides
<1> HIDE DEF r
<1>5. HistoryInv' /\ LastWordInv' /\ History' = Append(History, r) /\ History \in Seq(Replies)
  <2>1. r.kind # "immediate" /\ Due(r, taken', heldHeaders', ex, o)
    BY <1>2, <1>3 DEF Due, At
  <2>2. \A i \in DOMAIN History : ~IsHeaders(History[i], "request")
    BY <1>2, <1>4 DEF Due, At, IsHeaders
  <2>3. \A s \in Sides : (IsHeaders(r, s) => s = "request") /\ ~IsBody(r, s)
    BY <1>3 DEF IsHeaders, IsBody
  <2>4. \A s \in Sides : taken' > At(s, o) => IsHeaders(r, s)
    BY <1>2, <1>3 DEF At, Sides
  <2>5. "request" \in Sides
    BY DEF Sides
  <2>6. QED
    BY <1>1, <1>3, <2>1, <2>2, <2>3, <2>4, <2>5, ReplyStep
<1>6. \A side \in Sides : (\E i \in DOMAIN History' : IsBody(History'[i], side)) =>
         \E i \in DOMAIN History : IsBody(History[i], side)
  BY <1>3, <1>5, Appends DEF IsBody
<1>7. taken' \in Nat /\ taken' >= taken
  BY <1>2
<1>8. InspectedInv'
  BY <1>1, <1>2, <1>6, <1>7, InspectedKept
<1>9. QED
  BY <1>5, <1>8

LEMMA WholeIs ==
    ASSUME LlmTypeOK, NEW side \in Sides
    PROVE  Whole(side) \in Bodies
<1>1. \A k \in Nat : \A S : \A f \in [1..k -> S] : f \in Seq(S)
  OBVIOUS
<1>2. ex[side].chunks \in 0..MaxChunks /\ ex[side].chunks \in Nat
  BY SideIs DEF LlmTypeOK
<1>3. Whole(side) \in [1..ex[side].chunks -> 0..MaxChunks]
  BY <1>2, ExchangeAssumption DEF Whole
<1>4. QED
  BY <1>1, <1>2, <1>3 DEF Bodies

(* The end of a body that is inspected. *)
LEMMA InspectedStep ==
    ASSUME LlmTypeOK, InspectedInv, NEW side \in Sides, Receives(side, "body"), Incoming.eos,
           NEW held \in Seq(Replies), SendsBack(side, Whole(side), held), isChat = ex.chat,
           \A s \in Sides : s # side /\ (\E i \in DOMAIN History' : IsBody(History'[i], s)) =>
             \E i \in DOMAIN History : IsBody(History[i], s),
           status' # "serving" => \A i \in DOMAIN History' : ~IsBody(History'[i], side)
    PROVE  InspectedInv'
<1>1. /\ ex' = ex /\ status = "serving" /\ taken \in Nat /\ Offset(side) \in Nat /\ ex[side].chunks \in Nat
      /\ taken' = taken + 1 /\ taken' = Offset(side) + 1 + ex[side].chunks
  <2>1. ex' = ex /\ status = "serving" /\ taken' = taken + 1
    BY Received
  <2>2. taken' = Offset(side) + 1 + ex[side].chunks
    BY Placed
  <2>3. QED
    BY <2>1, <2>2, Places DEF Sides
<1>2. Whole(side) \in Bodies
  BY WholeIs
<1>3. /\ \A i \in DOMAIN inspected : i \in DOMAIN inspected' /\ inspected'[i] = inspected[i]
      /\ \A i \in DOMAIN inspected' : i \notin DOMAIN inspected => inspected'[i].side = side
      /\ \/ status' = "done"
         \/ /\ \A i \in DOMAIN inspected' : i \notin DOMAIN inspected => inspected'[i].action # "block"
            /\ \A surface \in Owed(side) : \E i \in DOMAIN inspected' :
                 inspected'[i].side = side /\ inspected'[i].surface = surface
  BY <1>2, SendsBackEffect
<1>4. ~WholeTaken(side) /\ WholeTaken(side)'
  BY <1>1, SameExchange DEF WholeTaken
<1>5. \A i \in DOMAIN inspected : inspected[i].side # side
  BY <1>4 DEF InspectedInv
<1>6. \A s \in Sides : WholeTaken(s) => WholeTaken(s)'
  <2>1. TAKE s \in Sides
  <2>2. Offset(s) \in Nat /\ ex[s].chunks \in Nat
    BY Places DEF Sides
  <2>3. WholeTaken(s)' = (taken' > Offset(s) + ex[s].chunks)
    BY <1>1, SameExchange
  <2>4. QED
    BY <1>1, <2>2, <2>3 DEF WholeTaken
<1>7. \A s \in Sides : Inspectable(s)' = Inspectable(s) /\ Owed(s)' = Owed(s)
  BY <1>1, SameExchange
<1>8. SUFFICES ASSUME NEW s \in Sides
               PROVE  /\ \A i \in DOMAIN inspected' : inspected'[i].side = s => WholeTaken(s)'
                      /\ Inspectable(s)' /\ (\E i \in DOMAIN History' : IsBody(History'[i], s)) =>
                           /\ \A surface \in Owed(s)' : \E i \in DOMAIN inspected' :
                                inspected'[i].side = s /\ inspected'[i].surface = surface
                           /\ \A i \in DOMAIN inspected' :
                                inspected'[i].side = s => inspected'[i].action # "block"
  BY DEF InspectedInv
<1>9. CASE s = side
  <2>1. \A i \in DOMAIN inspected' : inspected'[i].side = s => WholeTaken(s)'
    BY <1>4, <1>9
  <2>2. ASSUME \E i \in DOMAIN History' : IsBody(History'[i], s)
        PROVE  /\ \A surface \in Owed(s)' : \E i \in DOMAIN inspected' :
                    inspected'[i].side = s /\ inspected'[i].surface = surface
               /\ \A i \in DOMAIN inspected' : inspected'[i].side = s => inspected'[i].action # "block"
    <3>1. status' # "done"
      BY <1>9, <2>2
    <3>2. \A i \in DOMAIN inspected' : inspected'[i].side = s => i \notin DOMAIN inspected
      BY <1>3, <1>5, <1>9
    <3>3. QED
      BY <1>3, <1>7, <1>9, <3>1, <3>2
  <2>3. QED
    BY <2>1, <2>2
<1>10. CASE s # side
  <2>1. \A i \in DOMAIN inspected' : inspected'[i].side = s => i \in DOMAIN inspected /\ inspected[i].side = s
    BY <1>3, <1>10
  <2>2. \A i \in DOMAIN inspected : inspected[i].side = s => WholeTaken(s)
    BY DEF InspectedInv
  <2>3. Inspectable(s) /\ (\E i \in DOMAIN History : IsBody(History[i], s)) =>
          /\ \A surface \in Owed(s) : \E i \in DOMAIN inspected :
               inspected[i].side = s /\ inspected[i].surface = surface
          /\ \A i \in DOMAIN inspected : inspected[i].side = s => inspected[i].action # "block"
    BY DEF InspectedInv
  <2>4. (\E i \in DOMAIN History' : IsBody(History'[i], s)) => \E i \in DOMAIN History : IsBody(History[i], s)
    BY <1>10
  <2> HIDE DEF IsBody
  <2>5. QED
    BY <1>3, <1>6, <1>7, <2>1, <2>2, <2>3, <2>4
<1>11. QED
  BY <1>9, <1>10

LEMMA RequestBodyStep ==
    ASSUME LlmTypeOK, StreamInv, StreamInv', HistoryInv, LastWordInv, InspectedInv, RequestBody
    PROVE  HistoryInv' /\ LastWordInv' /\ InspectedInv'
<1> DEFINE o == Offset("response")  n == ex["request"].chunks
<1>1. /\ Receives("request", "body") /\ reqBody' = Append(reqBody, Incoming.chunk)
      /\ IF Incoming.eos THEN SendsBack("request", reqBody', <<>>) ELSE UNCHANGED <<out, status, inspected>>
      /\ UNCHANGED <<isChat, inspectResponse, heldHeaders, respBody>>
  BY DEF RequestBody, Silently
<1>2. "request" \in Sides /\ "response" \in Sides
  BY DEF Sides
<1>3. /\ o \in Nat /\ taken \in Nat /\ n \in Nat /\ Offset("request") = 0 /\ o > n
      /\ taken' = taken + 1 /\ taken' >= 2 /\ taken' <= 1 + n
      /\ Incoming.eos => taken' = 1 + n
      /\ ex' = ex /\ status = "serving" /\ out = <<>>
  <2>1. /\ o \in Nat /\ taken \in Nat /\ n \in Nat /\ Offset("request") = 0 /\ o > n
    BY Places
  <2>2. ex' = ex /\ status = "serving" /\ out = <<>>
    BY <1>1, <1>2, Received
  <2>3. /\ taken' = taken + 1 /\ taken' >= Offset("request") + 2 /\ taken' <= Offset("request") + 1 + n
        /\ Incoming.eos => taken' = Offset("request") + 1 + n
    BY <1>1, <1>2, Placed
  <2>4. QED
    BY <2>1, <2>2, <2>3
<1>4. ~heldHeaders /\ ~heldHeaders' /\ isChat = ex.chat
  BY <1>1, <1>3 DEF StreamInv, Begun
<1>5. /\ History \in Seq(Replies) /\ History' = History \o out'
      /\ \A i \in DOMAIN History : /\ History[i] \in Replies /\ History[i].kind # "immediate"
                                   /\ Due(History[i], taken, heldHeaders, ex, o)
  BY <1>1, <1>2, Receiving
<1>6. \A s \in Sides : taken' > At(s, o) => taken > At(s, o) /\ (s = "response" => ~heldHeaders)
  BY <1>3, <1>4 DEF At, Sides
<1>7. CASE ~Incoming.eos
  <2>1. out' = <<>> /\ UNCHANGED <<status, inspected>>
    BY <1>1, <1>3, <1>7
  <2>2. QED
    BY <1>1, <1>2, <1>4, <1>6, <2>1, SilentStep
<1>8. CASE Incoming.eos
  <2>1. reqBody' = Whole("request")
    <3>1. taken' = 1 + n
      BY <1>3, <1>8
    <3>2. PICK k \in Nat : taken - 1 = k /\ k + 1 = n
      BY <1>3, <3>1
    <3>3. reqBody = Chunks(k)
      BY <1>3, <3>1, <3>2, Places DEF StreamInv, Begun, WholeTaken
    <3>4. Incoming.chunk = n
      BY <1>1, <1>2, <1>3, <3>1, Placed
    <3>5. reqBody' = Chunks(n)
      BY <1>1, <3>2, <3>3, <3>4, ChunksGrow
    <3>6. QED
      BY <3>5 DEF Chunks, Whole
  <2> DEFINE held == <<>>
  <2>2. held \in Seq(Replies) /\ SendsBack("request", Whole("request"), held)
    BY <1>1, <1>8, <2>1
  <2>3. Whole("request") \in Bodies
    BY <1>2, WholeIs
  <2> HIDE DEF held
  <2>4. \/ /\ status' = "done" /\ out' = <<Immediate>>
           /\ \E i \in DOMAIN inspected' : inspected'[i].action = "block"
        \/ /\ status' = status
           /\ \E r \in Replies : IsBody(r, "request") /\ r.eos /\ out' = Append(held, r)
    BY <1>2, <2>2, <2>3, SendsBackEffect
  <2>5. \A i \in DOMAIN History : ~IsBody(History[i], "request") /\ History[i].side = "request"
    <3>1. ASSUME NEW i \in DOMAIN History
          PROVE  ~IsBody(History[i], "request") /\ History[i].side = "request"
      <4>1. Due(History[i], taken, heldHeaders, ex, o) /\ History[i].side \in Sides
        BY <1>5 DEF Replies
      <4>2. History[i].side = "request"
        BY <1>3, <4>1 DEF Due, At, Sides
      <4>3. taken = n
        BY <1>3, <1>8
      <4>4. ~IsBody(History[i], "request")
        BY <1>3, <4>1, <4>3 DEF Due, At, IsBody
      <4>5. QED
        BY <4>2, <4>4
    <3>2. QED
      BY <3>1
  <2>6. \E i \in DOMAIN History : IsHeaders(History[i], "request")
    BY <1>2, <1>3 DEF HistoryInv, Answered, At
  <2>7. CASE /\ status' = "done" /\ out' = <<Immediate>>
             /\ \E i \in DOMAIN inspected' : inspected'[i].action = "block"
    <3>1. Immediate \in Replies /\ Immediate.kind = "immediate" /\ Immediate.side = "response"
      BY RepliesAre DEF Immediate, Reply
    <3>2. \A s \in Sides : ~IsHeaders(Immediate, s) /\ ~IsBody(Immediate, s)
      BY <3>1 DEF IsHeaders, IsBody
    <3>3. HistoryInv' /\ LastWordInv' /\ History' = Append(History, Immediate)
      BY <1>1, <1>2, <1>4, <1>6, <2>5, <2>7, <3>1, <3>2, ReplyStep
    <3>4. \A s \in Sides : \A i \in DOMAIN History' : IsBody(History'[i], s) =>
            s # "request" /\ \E j \in DOMAIN History : IsBody(History[j], s)
      BY <1>5, <2>5, <3>1, <3>2, <3>3, Appends
    <3>5. InspectedInv'
      BY <1>1, <1>2, <1>4, <1>8, <2>2, <3>4, InspectedStep
    <3>6. QED
      BY <3>3, <3>5
  <2>8. CASE status' = status /\ \E r \in Replies : IsBody(r, "request") /\ r.eos /\ out' = Append(held, r)
    <3>1. PICK r \in Replies : IsBody(r, "request") /\ r.eos /\ out' = <<r>>
      BY <2>8 DEF held
    <3>2. r.kind # "immediate" /\ Due(r, taken', heldHeaders', ex, o)
      BY <1>3, <1>8, <3>1 DEF Due, At, IsBody
    <3>3. \A s \in Sides : ~IsHeaders(r, s) /\ (IsBody(r, s) => s = "request")
      BY <3>1 DEF IsHeaders, IsBody
    <3>4. HistoryInv' /\ LastWordInv' /\ History' = Append(History, r)
      BY <1>1, <1>2, <1>4, <1>6, <2>5, <2>6, <2>8, <3>1, <3>2, <3>3, ReplyStep
    <3>5. \A s \in Sides : s # "request" => \A i \in DOMAIN History' : IsBody(History'[i], s) =>
            \E j \in DOMAIN History : IsBody(History[j], s)
      BY <1>5, <3>1, <3>3, <3>4, Appends
    <3>6. InspectedInv'
      BY <1>1, <1>2, <1>3, <1>4, <1>8, <2>2, <2>8, <3>5, InspectedStep
    <3>7. QED
      BY <3>4, <3>6
  <2>9. QED
    BY <2>4, <2>7, <2>8
<1>9. QED
  BY <1>7, <1>8

LEMMA ResponseHeadersStep ==
    ASSUME LlmTypeOK, StreamInv, HistoryInv, LastWordInv, InspectedInv, ResponseHeaders
    PROVE  HistoryInv' /\ LastWordInv' /\ InspectedInv'
<1> DEFINE o == Offset("response")  r == HeadersReply("response")
<1>1. /\ Receives("response", "headers") /\ heldHeaders' = inspectResponse' /\ inspectResponse' \in BOOLEAN
      /\ out' = IF inspectResponse' THEN <<>> ELSE <<r>>
      /\ UNCHANGED <<status, inspected>>
  BY DEF ResponseHeaders
<1>2. "request" \in Sides /\ "response" \in Sides
  BY DEF Sides
<1>3. /\ o \in Nat /\ o > 0 /\ taken = o /\ taken' = o + 1 /\ ex' = ex
  BY <1>1, <1>2, Places, Placed, Received
<1>4. ~heldHeaders
  BY <1>3 DEF StreamInv, Begun
<1>5. /\ History \in Seq(Replies) /\ History' = History \o out'
      /\ \A i \in DOMAIN History : /\ History[i] \in Replies /\ History[i].kind # "immediate"
                                   /\ Due(History[i], taken, heldHeaders, ex, o)
  BY <1>1, <1>2, Receiving
<1>6. r \in Replies /\ r.kind = "headers" /\ r.side = "response"
  BY <1>2, RepliesAre DEF HeadersReply, Reply
<1> HIDE DEF r
<1>7. CASE inspectResponse'
  <2>1. out' = <<>> /\ heldHeaders'
    BY <1>1, <1>7
  <2>2. \A s \in Sides : taken' > At(s, o) => taken > At(s, o) \/ s = "response"
    BY <1>3 DEF At, Sides
  <2>3. \A s \in Sides : taken' > At(s, o) =>
          \/ taken > At(s, o) /\ (s = "response" /\ heldHeaders => heldHeaders')
          \/ s = "response" /\ heldHeaders'
    BY <2>1, <2>2
  <2>4. taken <= o
    BY <1>3
  <2>5. QED
    BY <1>1, <1>2, <2>1, <2>3, <2>4, SilentStep
<1>8. CASE ~inspectResponse'
  <2>1. out' = <<r>> /\ ~heldHeaders'
    BY <1>1, <1>8
  <2>2. r.kind # "immediate" /\ Due(r, taken', heldHeaders', ex, o)
    BY <1>3, <1>6, <2>1 DEF Due, At
  <2>3. \A i \in DOMAIN History : ~IsHeaders(History[i], "response")
    BY <1>3, <1>5 DEF Due, At, IsHeaders
  <2>4. \A s \in Sides : (IsHeaders(r, s) => s = "response") /\ ~IsBody(r, s) /\ IsHeaders(r, "response")
    BY <1>6 DEF IsHeaders, IsBody
  <2>5. \A s \in Sides : taken' > At(s, o) => taken > At(s, o) \/ s = "response"
    BY <1>3 DEF At, Sides
  <2>6. \A s \in Sides : taken' > At(s, o) =>
          \/ taken > At(s, o) /\ (s = "response" /\ heldHeaders => heldHeaders')
          \/ s = "response" /\ heldHeaders'
          \/ IsHeaders(r, s)
    BY <1>4, <2>4, <2>5
  <2>7. HistoryInv' /\ LastWordInv' /\ History' = Append(History, r)
    BY <1>1, <1>2, <1>6, <2>1, <2>2, <2>3, <2>4, <2>6, ReplyStep
  <2>8. \A side \in Sides : (\E i \in DOMAIN History' : IsBody(History'[i], side)) =>
          \E i \in DOMAIN History : IsBody(History[i], side)
    BY <1>5, <1>6, <2>7, Appends DEF IsBody
  <2>9. taken' \in Nat /\ taken' >= taken
    BY <1>3
  <2>10. InspectedInv'
    BY <1>1, <1>3, <2>8, <2>9, InspectedKept
  <2>11. QED
    BY <2>7, <2>10
<1>9. QED
  BY <1>1, <1>7, <1>8

LEMMA ResponseBodyPassedStep ==
    ASSUME LlmTypeOK, StreamInv, HistoryInv, LastWordInv, InspectedInv, ResponseBodyPassed
    PROVE  HistoryInv' /\ LastWordInv' /\ InspectedInv'
<1> DEFINE o == Offset("response")  m == ex["response"].chunks
           r == Reply("response", "body", <<Incoming.chunk>>, Incoming.eos)
<1>1. /\ Receives("response", "body") /\ ~inspectResponse /\ out' = <<r>>
      /\ UNCHANGED <<status, heldHeaders, inspected>>
  BY DEF ResponseBodyPassed, llmStream
<1>2. "request" \in Sides /\ "response" \in Sides
  BY DEF Sides
<1>3. /\ o \in Nat /\ m \in Nat /\ taken \in Nat /\ taken' = taken + 1 /\ taken' >= o + 2 /\ taken' <= o + 1 + m
      /\ Incoming.eos => taken' = o + 1 + m
  BY <1>1, <1>2, Places, Placed
<1>4. ~heldHeaders /\ ~ex.response.inspectable
  <2>1. taken > o /\ m # 0 /\ m = ex.response.chunks
    BY <1>3
  <2> HIDE DEF m
  <2>2. QED
    BY <1>1, <2>1, Places DEF StreamInv, Begun
<1>5. /\ History \in Seq(Replies)
      /\ \A i \in DOMAIN History : /\ History[i] \in Replies /\ History[i].kind # "immediate"
                                   /\ Due(History[i], taken, heldHeaders, ex, o)
  BY <1>1, <1>2, Receiving
<1>6. r \in Replies /\ r.kind = "body" /\ r.side = "response" /\ r.eos = Incoming.eos
  <2>1. Incoming.chunk \in 0..MaxChunks /\ Incoming.eos \in BOOLEAN
    BY <1>1, <1>2, Received
  <2>2. QED
    BY <1>2, <2>1, RepliesAre DEF Reply
<1> HIDE DEF r
<1>7. r.kind # "immediate" /\ Due(r, taken', heldHeaders', ex, o)
  BY <1>1, <1>3, <1>4, <1>6 DEF Due, At
<1>8. \A s \in Sides : ~IsHeaders(r, s) /\ (IsBody(r, s) => s = "response")
  BY <1>6 DEF IsHeaders, IsBody
<1>9. \E i \in DOMAIN History : IsHeaders(History[i], "response")
  <2>1. taken > At("response", o)
    BY <1>3 DEF At
  <2>2. QED
    BY <1>2, <1>4, <2>1 DEF HistoryInv, Answered
<1>10. \A i \in DOMAIN History : ~(IsBody(History[i], "response") /\ History[i].eos)
  <2> SUFFICES ASSUME NEW q \in Replies, Due(q, taken, heldHeaders, ex, o), IsBody(q, "response"), q.eos
               PROVE  FALSE
    BY <1>5
  <2>1. taken <= o + m
    BY <1>3
  <2>2. taken > o + ex["response"].chunks
    BY DEF Due, At, IsBody
  <2>3. QED
    BY <1>3, <2>1, <2>2
<1>11. \A s \in Sides : taken' > At(s, o) => taken > At(s, o)
  BY <1>3 DEF At, Sides
<1>12. HistoryInv' /\ LastWordInv' /\ History' = Append(History, r)
  BY <1>1, <1>2, <1>4, <1>6, <1>7, <1>8, <1>9, <1>10, <1>11, ReplyStep
<1>13. \A side \in Sides : Inspectable(side) /\ (\E i \in DOMAIN History' : IsBody(History'[i], side)) =>
          \E i \in DOMAIN History : IsBody(History[i], side)
  <2>1. \A side \in Sides : Inspectable(side) => ~IsBody(r, side)
    BY <1>4, <1>8 DEF Inspectable
  <2>2. QED
    BY <1>5, <1>6, <1>12, <2>1, Appends
<1>14. taken' \in Nat /\ taken' >= taken /\ ex' = ex
  BY <1>1, <1>2, <1>3, Received
<1>15. InspectedInv'
  BY <1>1, <1>13, <1>14, InspectedKept
<1>16. QED
  BY <1>12, <1>15

LEMMA TrailersStep ==
    ASSUME LlmTypeOK, StreamInv, HistoryInv, LastWordInv, InspectedInv, Trailers
    PROVE  HistoryInv' /\ LastWordInv' /\ InspectedInv'
<1> DEFINE o == Offset("response")
<1>1. PICK side \in Sides : /\ Receives(side, "trailers") /\ out' = <<TrailersReply(side)>>
                            /\ UNCHANGED <<status, heldHeaders, inspected>>
  BY DEF Trailers, llmStream
<1> DEFINE r == TrailersReply(side)  n == ex[side].chunks
<1>2. /\ o \in Nat /\ n \in Nat /\ taken \in Nat /\ Offset("request") = 0 /\ Offset(side) = At(side, o)
      /\ taken' = taken + 1 /\ taken' = Offset(side) + 2 + n /\ ex' = ex
      /\ side = "request" <=> taken' <= o
  <2>1. ex' = ex
    BY <1>1, Received
  <2>2. Offset(side) = At(side, o)
    BY <2>1, SameExchange
  <2>3. o \in Nat /\ n \in Nat /\ taken \in Nat /\ Offset("request") = 0
    BY Places DEF Sides
  <2>4. QED
    BY <1>1, <2>1, <2>2, <2>3, Placed
<1>3. History \in Seq(Replies)
  BY <1>1, Receiving
<1>4. r \in Replies /\ r.kind = "trailers" /\ r.side = side
  BY RepliesAre DEF TrailersReply, Reply
<1> HIDE DEF r
<1>5. r.kind # "immediate" /\ Due(r, taken', heldHeaders', ex, o)
  BY <1>2, <1>4 DEF Due, At
<1>6. \A s \in Sides : ~IsHeaders(r, s) /\ ~IsBody(r, s)
  BY <1>4 DEF IsHeaders, IsBody
<1>7. \A s \in Sides : taken' > At(s, o) => taken > At(s, o)
  BY <1>2 DEF At, Sides
<1>8. HistoryInv' /\ LastWordInv' /\ History' = Append(History, r)
  <2>1. out' = <<r>>
    BY <1>1 DEF r
  <2>2. heldHeaders' => heldHeaders
    BY <1>1
  <2>3. QED
    BY <1>1, <1>4, <1>5, <1>6, <1>7, <2>1, <2>2, ReplyStep
<1>9. \A s \in Sides : (\E i \in DOMAIN History' : IsBody(History'[i], s)) =>
        \E i \in DOMAIN History : IsBody(History[i], s)
  BY <1>3, <1>4, <1>6, <1>8, Appends
<1>10. taken' \in Nat /\ taken' >= taken
  BY <1>2
<1>11. InspectedInv'
  BY <1>1, <1>2, <1>9, <1>10, InspectedKept
<1>12. QED
  BY <1>8, <1>11

(* Sending a reply moves it within the history, and the rest leaves it alone. *)
LEMMA SteadyStep ==
    ASSUME LlmTypeOK, HistoryInv, LastWordInv, InspectedInv,
           SendReply \/ Returns \/ Gateway \/ GatewayAborts \/ UNCHANGED vars
    PROVE  HistoryInv' /\ LastWordInv' /\ InspectedInv'
<1>1. UNCHANGED <<ex, taken, heldHeaders, inspected>> /\ History' = History
  <2>1. CASE SendReply
    <3>1. /\ replies' = Append(replies, Head(out)) /\ out' = Tail(out) /\ out # <<>>
          /\ UNCHANGED <<ex, taken, heldHeaders, inspected>>
      BY <2>1 DEF SendReply, llmStream
    <3>2. History' = History
      BY <3>1, HistoryAppends DEF History, LlmTypeOK
    <3>3. QED
      BY <3>1, <3>2
  <2>2. CASE Returns \/ Gateway \/ GatewayAborts \/ UNCHANGED vars
    BY <2>2 DEF Returns, Gateway, GatewaySends, GatewayFinishes, GatewayAborts, vars, llmStream, History
  <2>3. QED
    BY <2>1, <2>2
<1>2. status' # status => status' = "over"
  BY DEF SendReply, Returns, Gateway, GatewaySends, GatewayFinishes, GatewayAborts, vars
<1>3. status' = "done" => status = "done" /\ out' = <<Immediate>>
  <2>1. CASE SendReply
    <3>1. status = "done" => out = <<Immediate>>
      BY DEF LastWordInv
    <3>2. status = "done" => status' = "over"
      BY <2>1, <3>1 DEF SendReply
    <3>3. QED
      BY <2>1, <3>2 DEF SendReply
  <2>2. CASE Returns
    BY <2>2 DEF Returns
  <2>3. CASE Gateway \/ GatewayAborts \/ UNCHANGED vars
    BY <2>3 DEF Gateway, GatewaySends, GatewayFinishes, GatewayAborts, vars, LastWordInv
  <2>4. QED
    BY <2>1, <2>2, <2>3
<1>4. taken \in Nat
  BY Places
<1>5. HistoryInv'
  BY <1>1, SameExchange DEF HistoryInv
<1>6. InspectedInv'
  BY <1>1, <1>4, InspectedKept
<1>7. LastWordInv'
  BY <1>1, <1>2, <1>3 DEF LastWordInv, LastWord
<1>8. QED
  BY <1>5, <1>6, <1>7
(* What is in a history one reply longer. *)
LEMMA AppendHas ==
    \A h \in Seq(Replies) : \A x \in Replies : \A a :
      a = Append(h, x) =>
        /\ \A i \in DOMAIN a : (i \in DOMAIN h /\ a[i] = h[i]) \/ a[i] = x
        /\ \A i \in DOMAIN h : i \in DOMAIN a /\ a[i] = h[i]
        /\ \E i \in DOMAIN a : a[i] = x
<1> TAKE h \in Seq(Replies)
<1> TAKE x \in Replies
<1> TAKE a
<1> HAVE a = Append(h, x)
<1>1. QED
  BY Appends

(* The headers that were held, and the body they were held for. *)
LEMMA HeldStep ==
    ASSUME LlmTypeOK, HistoryInv, LastWordInv, Receives("response", "body"), status' = status,
           ~heldHeaders', taken > Offset("response"), taken' > Offset("response") + ex["response"].chunks,
           NEW q \in Replies, NEW r \in Replies, out' = Append(<<q>>, r),
           IsHeaders(q, "response"), IsBody(r, "response"), r.eos,
           \A i \in DOMAIN History : History[i].side = "request"
    PROVE  HistoryInv' /\ LastWordInv' /\ \A s \in Sides : s # "response" =>
             ((\E i \in DOMAIN History' : IsBody(History'[i], s)) => \E i \in DOMAIN History : IsBody(History[i], s))
<1> DEFINE o == Offset("response")  g == Append(History, q)
<1>1. "request" \in Sides /\ "response" \in Sides
  BY DEF Sides
<1>2. /\ taken \in Nat /\ taken' \in Nat /\ taken' >= taken /\ o \in Nat /\ ex \in Exchange
      /\ ex["response"].chunks \in Nat /\ ex' = ex /\ status = "serving" /\ o' = o
  <2>1. taken' = taken + 1 /\ taken \in Nat /\ ex' = ex /\ status = "serving"
    BY <1>1, Received
  <2>2. QED
    BY <2>1, Places, SameExchange, ExchangeAssumption DEF LlmTypeOK
<1>3. /\ History \in Seq(Replies) /\ History' = History \o out'
      /\ \A i \in DOMAIN History : History[i].kind # "immediate"
  BY <1>1, Receiving
<1>4. g \in Seq(Replies) /\ History' = Append(g, r)
  BY <1>3, HistoryAppends, Appends
<1>5. AllDue(History, taken, heldHeaders, ex, o) /\ Answered(History, taken, heldHeaders, o) /\ Ordered(History)
  BY DEF HistoryInv
<1>6. /\ \A i \in DOMAIN g : i \in DOMAIN History \/ g[i] = q
      /\ \A i \in DOMAIN History : i \in DOMAIN g /\ g[i] = History[i]
      /\ \E i \in DOMAIN g : g[i] = q
  <2>1. g = Append(History, q)
    OBVIOUS
  <2> HIDE DEF g
  <2>2. /\ \A i \in DOMAIN g : (i \in DOMAIN History /\ g[i] = History[i]) \/ g[i] = q
        /\ \A i \in DOMAIN History : i \in DOMAIN g /\ g[i] = History[i]
        /\ \E i \in DOMAIN g : g[i] = q
    <3>1. History \in Seq(Replies) /\ q \in Replies
      BY <1>3
    <3>2. QED
      BY <2>1, <3>1, AppendHas
  <2>3. QED
    BY <2>2
<1>7. /\ \A i \in DOMAIN History' : History'[i] = r \/ (i \in DOMAIN g /\ History'[i] = g[i])
      /\ \A i \in DOMAIN g : i \in DOMAIN History' /\ History'[i] = g[i]
  <2>1. \A a : a = Append(g, r) =>
          /\ \A i \in DOMAIN a : a[i] = r \/ (i \in DOMAIN g /\ a[i] = g[i])
          /\ \A i \in DOMAIN g : i \in DOMAIN a /\ a[i] = g[i]
    BY <1>4, AppendHas
  <2>2. QED
    BY <1>4, <2>1
<1> HIDE DEF g, o
<1>8. AllDue(History', taken', heldHeaders', ex, o)
  <2>1. AllDue(History, taken', heldHeaders', ex, o)
    BY <1>2, <1>3, <1>5, AllDueLater, Zenon
  <2>2. Due(q, taken', heldHeaders', ex, o) /\ Due(r, taken', heldHeaders', ex, o)
    BY <1>2 DEF Due, At, IsHeaders, IsBody, o
  <2>3. QED
    BY <1>6, <1>7, <2>1, <2>2 DEF AllDue
<1>9. Ordered(g)
  <2>1. \A s \in Sides : /\ IsHeaders(q, s) => \A i \in DOMAIN History : ~IsHeaders(History[i], s)
                         /\ ~IsBody(q, s)
    BY DEF IsHeaders, IsBody
  <2>2. QED
    BY <1>3, <1>5, <2>1, OrderedAppend DEF g
<1>10. Ordered(History')
  <2>1. \A s \in Sides : ~IsHeaders(r, s) /\ (IsBody(r, s) => s = "response")
    BY DEF IsHeaders, IsBody
  <2>2. \E i \in DOMAIN g : IsHeaders(g[i], "response")
    BY <1>6
  <2>3. \A i \in DOMAIN g : ~IsBody(g[i], "response")
    BY <1>6 DEF IsBody, IsHeaders
  <2>4. QED
    BY <1>4, <1>9, <2>1, <2>2, <2>3, OrderedAppend
<1>11. Answered(History', taken', heldHeaders', o)
  <2>1. \E i \in DOMAIN History' : IsHeaders(History'[i], "response")
    BY <1>6, <1>7
  <2>2. taken > At("request", o)
    BY <1>2 DEF At, o
  <2>3. \E i \in DOMAIN History : IsHeaders(History[i], "request")
    BY <1>1, <1>5, <2>2 DEF Answered
  <2>4. \E i \in DOMAIN History' : IsHeaders(History'[i], "request")
    BY <1>6, <1>7, <2>3
  <2>5. QED
    BY <2>1, <2>4 DEF Answered, Sides
<1>12. \A i \in DOMAIN History' : History'[i].kind # "immediate"
  BY <1>3, <1>6, <1>7 DEF IsHeaders, IsBody
<1>13. LastWordInv'
  BY <1>2, <1>12 DEF LastWordInv, LastWord
<1>14. HistoryInv'
  BY <1>2, <1>8, <1>10, <1>11 DEF HistoryInv, o
<1>15. \A s \in Sides : s # "response" => ~IsBody(r, s) /\ ~IsBody(q, s)
  BY DEF IsHeaders, IsBody
<1>16. QED
  BY <1>6, <1>7, <1>13, <1>14, <1>15

LEMMA ResponseBodyInspectedStep ==
    ASSUME LlmTypeOK, StreamInv, StreamInv', HistoryInv, LastWordInv, InspectedInv, ResponseBodyInspected
    PROVE  HistoryInv' /\ LastWordInv' /\ InspectedInv'
<1> DEFINE o == Offset("response")  m == ex["response"].chunks  q == HeadersReply("response")
           held == IF heldHeaders THEN <<q>> ELSE <<>>
<1>1. /\ Receives("response", "body") /\ inspectResponse /\ respBody' = Append(respBody, Incoming.chunk)
      /\ IF Incoming.eos THEN SendsBack("response", respBody', held) ELSE UNCHANGED <<out, status, inspected>>
      /\ heldHeaders' = (heldHeaders /\ ~(Incoming.eos /\ status' = "serving"))
      /\ UNCHANGED <<isChat, reqBody, inspectResponse>>
  BY DEF ResponseBodyInspected, Silently
<1>2. "request" \in Sides /\ "response" \in Sides
  BY DEF Sides
<1>3. /\ o \in Nat /\ m \in Nat /\ m = ex.response.chunks /\ taken \in Nat /\ taken' = taken + 1
      /\ taken' >= o + 2 /\ taken' <= o + 1 + m /\ Incoming.chunk = taken - o
      /\ Incoming.eos => taken' = o + 1 + m
      /\ ex' = ex /\ status = "serving" /\ out = <<>>
  <2>1. /\ o \in Nat /\ m \in Nat /\ m = ex.response.chunks /\ taken \in Nat
    BY Places
  <2>2. ex' = ex /\ status = "serving" /\ out = <<>>
    BY <1>1, <1>2, Received
  <2>3. /\ taken' = taken + 1 /\ taken' >= o + 2 /\ taken' <= o + 1 + m /\ Incoming.chunk = taken - o
        /\ Incoming.eos => taken' = o + 1 + m
    BY <1>1, <1>2, Placed
  <2>4. QED
    BY <2>1, <2>2, <2>3
<1>4. heldHeaders /\ isChat = ex.chat /\ respBody = Chunks(taken - o - 1)
  <2>1. taken > 0 /\ taken <= o + m
    BY <1>3
  <2>2. Begun("request") /\ ~WholeTaken("response")
    BY <1>3, <2>1, Places DEF Begun, WholeTaken
  <2>3. QED
    BY <1>1, <2>2 DEF StreamInv
<1>5. /\ History \in Seq(Replies) /\ History' = History \o out'
      /\ \A i \in DOMAIN History : /\ History[i] \in Replies /\ History[i].kind # "immediate"
                                   /\ Due(History[i], taken, heldHeaders, ex, o)
  BY <1>1, <1>2, Receiving
<1>6. \A s \in Sides : taken' > At(s, o) => taken > At(s, o)
  BY <1>3 DEF At, Sides
<1>7. CASE ~Incoming.eos
  <2>1. out' = <<>> /\ UNCHANGED <<status, inspected>> /\ heldHeaders'
    BY <1>1, <1>3, <1>4, <1>7
  <2>2. QED
    BY <1>1, <1>2, <1>4, <1>6, <2>1, SilentStep
<1>8. CASE Incoming.eos
  <2>1. respBody' = Whole("response")
    <3>1. PICK k \in Nat : k = taken - o - 1
      BY <1>3
    <3>2. k + 1 = m /\ Incoming.chunk = k + 1
      BY <1>3, <1>8, <3>1
    <3>3. respBody' = Append(Chunks(k), k + 1)
      BY <1>1, <1>4, <3>1, <3>2
    <3>4. respBody' = Chunks(m)
      BY <3>2, <3>3, ChunksGrow
    <3>5. QED
      BY <3>4 DEF Chunks, Whole
  <2>2. q \in Replies /\ IsHeaders(q, "response") /\ held = <<q>>
    BY <1>2, <1>4, RepliesAre DEF HeadersReply, Reply, IsHeaders
  <2>3. held \in Seq(Replies) /\ SendsBack("response", Whole("response"), held)
    BY <1>1, <1>8, <2>1, <2>2
  <2>4. Whole("response") \in Bodies
    BY <1>2, WholeIs
  <2> HIDE DEF held, q
  <2>5. \/ /\ status' = "done" /\ out' = <<Immediate>>
           /\ \E i \in DOMAIN inspected' : inspected'[i].action = "block"
        \/ /\ status' = status
           /\ \E r \in Replies : IsBody(r, "response") /\ r.eos /\ out' = Append(held, r)
    BY <1>2, <2>3, <2>4, SendsBackEffect
  <2>6. \A i \in DOMAIN History : History[i].side = "request"
    <3>1. ASSUME NEW i \in DOMAIN History
          PROVE  History[i].side = "request"
      <4>1. History[i].side \in Sides /\ History[i].kind \in {"headers", "body", "trailers"}
        BY <1>5 DEF Replies
      <4>2. Due(History[i], taken, heldHeaders, ex, o)
        BY <1>5
      <4>3. ~(taken > o + m + 1)
        BY <1>3
      <4>4. QED
        BY <1>4, <4>1, <4>2, <4>3 DEF Due, At, Sides
    <3>2. QED
      BY <3>1
  <2>7. CASE /\ status' = "done" /\ out' = <<Immediate>>
             /\ \E i \in DOMAIN inspected' : inspected'[i].action = "block"
    <3>1. Immediate \in Replies /\ Immediate.kind = "immediate" /\ Immediate.side = "response"
      BY RepliesAre DEF Immediate, Reply
    <3>2. \A s \in Sides : ~IsHeaders(Immediate, s) /\ ~IsBody(Immediate, s)
      BY <3>1 DEF IsHeaders, IsBody
    <3>3. heldHeaders'
      BY <1>1, <1>4, <2>7
    <3>4. HistoryInv' /\ LastWordInv' /\ History' = Append(History, Immediate)
      BY <1>1, <1>2, <1>4, <1>6, <2>6, <2>7, <3>1, <3>2, <3>3, ReplyStep
    <3>5. \A s \in Sides : \A i \in DOMAIN History' : IsBody(History'[i], s) =>
            s # "response" /\ \E j \in DOMAIN History : IsBody(History[j], s)
      <4>1. \A i \in DOMAIN History : ~IsBody(History[i], "response")
        BY <2>6 DEF IsBody
      <4>2. QED
        BY <1>5, <3>1, <3>2, <3>4, <4>1, Appends
    <3>6. InspectedInv'
      BY <1>1, <1>2, <1>4, <1>8, <2>3, <3>5, InspectedStep
    <3>7. QED
      BY <3>4, <3>6
  <2>8. CASE status' = status /\ \E r \in Replies : IsBody(r, "response") /\ r.eos /\ out' = Append(held, r)
    <3>1. PICK r \in Replies : IsBody(r, "response") /\ r.eos /\ out' = Append(<<q>>, r)
      BY <2>2, <2>8
    <3>2. ~heldHeaders'
      BY <1>1, <1>3, <1>8, <2>8
    <3>3. taken > o /\ taken' > o + m
      BY <1>3, <1>8
    <3>4. /\ HistoryInv' /\ LastWordInv'
          /\ \A s \in Sides : s # "response" => ((\E i \in DOMAIN History' : IsBody(History'[i], s)) =>
               \E i \in DOMAIN History : IsBody(History[i], s))
      BY <1>1, <2>2, <2>6, <2>8, <3>1, <3>2, <3>3, HeldStep
    <3>5. InspectedInv'
      BY <1>1, <1>2, <1>3, <1>4, <1>8, <2>3, <2>8, <3>4, InspectedStep
    <3>6. QED
      BY <3>4, <3>5
  <2>9. QED
    BY <2>5, <2>7, <2>8
<1>9. QED
  BY <1>7, <1>8
----------------------------------------------------------------------------

LEMMA LlmInvInit == Init => LlmInv
<1> SUFFICES ASSUME Init
             PROVE  LlmInv
  OBVIOUS
<1>1. LlmTypeOK
  BY LlmTypeInit
<1>2. History = <<>> /\ inspected = <<>> /\ DOMAIN History = {} /\ DOMAIN inspected = {}
  BY DEF Init, History
<1>3. taken = 0 /\ ~heldHeaders /\ ~inspectResponse /\ reqBody = <<>> /\ respBody = <<>> /\ status = "serving"
  BY DEF Init
<1>4. StreamInv
  BY <1>1, <1>3, Places DEF StreamInv, Begun
<1>5. \A side \in Sides : ~(taken > At(side, Offset("response")))
  BY <1>1, <1>3, Places DEF At, Sides
<1>6. HistoryInv
  BY <1>2, <1>5 DEF HistoryInv, AllDue, Answered, Ordered
<1>7. LastWordInv
  BY <1>2, <1>3 DEF LastWordInv, LastWord
<1>8. InspectedInv
  BY <1>2 DEF InspectedInv
<1>9. QED
  BY <1>4, <1>6, <1>7, <1>8 DEF LlmInv

LEMMA LlmInvNext ==
    ASSUME LlmTypeOK, LlmInv, [Next]_vars
    PROVE  LlmInv'
<1>1. StreamInv /\ HistoryInv /\ LastWordInv /\ InspectedInv
  BY DEF LlmInv
<1>2. StreamInv'
  BY <1>1, StreamInvNext
<1>3. \/ RequestHeaders \/ RequestBody \/ ResponseHeaders \/ ResponseBodyPassed \/ ResponseBodyInspected
      \/ Trailers \/ (SendReply \/ Returns \/ Gateway \/ GatewayAborts \/ UNCHANGED vars)
  BY DEF Next, Process
<1>4. HistoryInv' /\ LastWordInv' /\ InspectedInv'
  BY <1>1, <1>2, <1>3, RequestHeadersStep, RequestBodyStep, ResponseHeadersStep, ResponseBodyPassedStep,
     ResponseBodyInspectedStep, TrailersStep, SteadyStep
<1>5. QED
  BY <1>2, <1>4 DEF LlmInv

LEMMA LlmInvHolds == Spec => []LlmInv
  BY LlmInvInit, LlmInvNext, LlmTypeCorrect, PTL DEF Spec

(* What reached the gateway is the beginning of the history. *)
LEMMA RepliesBegin ==
    ASSUME LlmTypeOK
    PROVE  /\ Len(replies) \in Nat /\ Len(History) \in Nat /\ Len(replies) <= Len(History)
           /\ DOMAIN replies = 1..Len(replies) /\ DOMAIN History = 1..Len(History)
           /\ \A i \in DOMAIN replies : i \in DOMAIN History /\ History[i] = replies[i]
<1>1. replies \in Seq(Replies) /\ out \in Seq(Replies)
  BY DEF LlmTypeOK
<1>2. /\ Len(History) = Len(replies) + Len(out) /\ Len(replies) \in Nat /\ Len(out) \in Nat
      /\ DOMAIN replies = 1..Len(replies) /\ DOMAIN History = 1..Len(History)
      /\ \A i \in DOMAIN replies : History[i] = replies[i]
  BY <1>1 DEF History
<1>3. QED
  BY <1>2

(* Nothing of a body the adapter inspects reaches the gateway before the     *)
(* whole of it was inspected on every surface its text belongs to, and none  *)
(* of the inspections blocked it (llm.go 98-110, 121-143, 188-217).          *)
THEOREM NothingSlipsPast == Spec => []NothingLeavesUninspected
<1>1. LlmTypeOK /\ LlmInv => NothingLeavesUninspected
  <2> SUFFICES ASSUME LlmTypeOK, LlmInv, NEW side \in Sides, Inspectable(side), Came(side, "body")
               PROVE  /\ \A surface \in Owed(side) : \E i \in Made(side) : inspected[i].surface = surface
                      /\ \A i \in Made(side) : inspected[i].action # "block"
    BY DEF NothingLeavesUninspected
  <2>1. \E i \in DOMAIN History : IsBody(History[i], side)
    BY RepliesBegin DEF Came, IsBody
  <2>2. /\ \A surface \in Owed(side) : \E i \in DOMAIN inspected :
             inspected[i].side = side /\ inspected[i].surface = surface
        /\ \A i \in DOMAIN inspected : inspected[i].side = side => inspected[i].action # "block"
    BY <2>1 DEF LlmInv, InspectedInv
  <2>3. QED
    BY <2>2 DEF Made
<1>2. QED
  BY <1>1, LlmTypeCorrect, LlmInvHolds, PTL

(* A block is the last reply, comes before anything of the response was      *)
(* answered, and some inspection asked for it (llm.go 28-30).                *)
THEOREM BlocksAreClean == Spec => []BlockIsClean
<1>1. LlmTypeOK /\ LlmInv => BlockIsClean
  <2> SUFFICES ASSUME LlmTypeOK, LlmInv, BlockCame
               PROVE  /\ replies[Len(replies)] = Immediate
                      /\ Cardinality({i \in DOMAIN replies : replies[i].side = "response"}) = 1
                      /\ \E i \in DOMAIN inspected : inspected[i].action = "block"
    BY DEF BlockIsClean
  <2>1. PICK i \in DOMAIN replies : replies[i].kind = "immediate"
    BY DEF BlockCame, Came
  <2>2. i \in DOMAIN History /\ History[i] = replies[i]
    BY RepliesBegin
  <2>3. /\ History[i] = Immediate /\ i = Len(History)
        /\ \A j \in DOMAIN History : j # i => History[j].side = "request"
        /\ \E k \in DOMAIN inspected : inspected[k].action = "block"
    BY <2>1, <2>2 DEF LlmInv, LastWordInv, LastWord
  <2>4. i = Len(replies)
    BY <2>1, <2>3, RepliesBegin
  <2>5. Immediate.side = "response"
    BY DEF Immediate, Reply
  <2>6. {j \in DOMAIN replies : replies[j].side = "response"} = {i}
    BY <2>1, <2>2, <2>3, <2>5, RepliesBegin
  <2>7. QED
    BY <2>2, <2>3, <2>4, <2>6, FS_Singleton
<1>2. QED
  BY <1>1, LlmTypeCorrect, LlmInvHolds, PTL

(* On each side the headers are answered once and before the body, and end   *)
(* of stream is said once, by the last reply of the body (llm.go 121-143,    *)
(* 176-236).                                                                 *)
THEOREM RepliesInOrder == Spec => []RepliesAreOrdered
<1>1. LlmTypeOK /\ LlmInv => RepliesAreOrdered
  <2> SUFFICES ASSUME LlmTypeOK, LlmInv, NEW side \in Sides
               PROVE  /\ Cardinality(Position(side, "headers")) <= 1
                      /\ \A i \in Position(side, "body") : \E h \in Position(side, "headers") : h < i
                      /\ \A i, j \in Position(side, "body") : replies[i].eos => j <= i
                      /\ ex[side].ends = "body" /\ Position(side, "body") # {} /\ Inspectable(side)
                         => \E i \in Position(side, "body") : replies[i].eos
    BY DEF RepliesAreOrdered
  <2>1. Ordered(History) /\ AllDue(History, taken, heldHeaders, ex, Offset("response"))
    BY DEF LlmInv, HistoryInv
  <2>2. \A kind : \A i \in Position(side, kind) :
          /\ i \in DOMAIN replies /\ i \in DOMAIN History /\ History[i] = replies[i]
          /\ replies[i].side = side /\ replies[i].kind = kind
    BY RepliesBegin DEF Position
  <2>3. \A i, j \in Position(side, "headers") : i = j
    BY <2>1, <2>2 DEF Ordered, IsHeaders
  <2>4. Cardinality(Position(side, "headers")) <= 1
    <3>1. CASE Position(side, "headers") = {}
      BY <3>1, FS_EmptySet
    <3>2. CASE Position(side, "headers") # {}
      <4>1. PICK i : i \in Position(side, "headers")
        BY <3>2
      <4>2. Position(side, "headers") = {i}
        BY <2>3, <4>1
      <4>3. Cardinality({i}) = 1
        BY FS_Singleton, Zenon
      <4>4. QED
        BY <4>2, <4>3
    <3>3. QED
      BY <3>1, <3>2
  <2>5. \A i \in Position(side, "body") : \E h \in Position(side, "headers") : h < i
    <3>1. TAKE i \in Position(side, "body")
    <3>2. PICK h \in DOMAIN History : IsHeaders(History[h], side) /\ h < i
      BY <2>1, <2>2 DEF Ordered, IsBody
    <3>3. h \in DOMAIN replies
      BY <2>2, <3>2, RepliesBegin
    <3>4. h \in Position(side, "headers")
      BY <3>2, <3>3, RepliesBegin DEF Position, IsHeaders
    <3>5. QED
      BY <3>2, <3>4
  <2>6. \A i, j \in Position(side, "body") : replies[i].eos => j <= i
    BY <2>1, <2>2 DEF Ordered, IsBody
  <2>7. \A i \in Position(side, "body") : Inspectable(side) => replies[i].eos
    BY <2>1, <2>2 DEF AllDue, Due, Inspectable
  <2>8. QED
    BY <2>4, <2>5, <2>6, <2>7
<1>2. QED
  BY <1>1, LlmTypeCorrect, LlmInvHolds, PTL

----------------------------------------------------------------------------
(* What the replies send back.                                             *)

LEMMA JoinedGrows ==
    ASSUME NEW h \in Seq(Replies), NEW r \in Replies, NEW side
    PROVE  /\ Joined(<<>>, side) = <<>> /\ Joined(h, side) \in Bodies
           /\ Joined(Append(h, r), side) = Joined(h, side) \o BodyIn(r, side)
           /\ BodyIn(r, side) \in Bodies
<1> DEFINE n == Len(h)  more == Append(h, r)
           parts == [i \in 1..n |-> BodyIn(h[i], side)]
<1>1. <<>> \in Bodies /\ \A x \in Replies : x.body \in Bodies
  BY DEF Bodies, Replies
<1>2. \A x \in Replies : BodyIn(x, side) \in Bodies
  BY <1>1 DEF BodyIn
<1>3. /\ n \in Nat /\ Len(more) = n + 1 /\ more[n + 1] = r
      /\ \A i \in 1..n : more[i] = h[i] /\ h[i] \in Replies
  BY LenProperties, AppendProperties, ElementOfSeq
<1> HIDE DEF n, more
<1>4. parts \in [1..n -> Bodies]
  BY <1>2, <1>3
<1>5. parts \in Seq(Bodies) /\ Len(parts) = n
  <2> HIDE DEF parts
  <2>1. \A k \in Nat : \A S : \A f \in [1..k -> S] : f \in Seq(S) /\ Len(f) = k
    OBVIOUS
  <2>2. QED
    BY <1>3, <1>4, <2>1
<1>6. [i \in 1..Len(more) |-> BodyIn(more[i], side)] = Append(parts, BodyIn(r, side))
  <2> DEFINE all == [i \in 1..Len(more) |-> BodyIn(more[i], side)]  one == BodyIn(r, side)
  <2>1. \A i \in 1..n : all[i] = parts[i]
    BY <1>3
  <2>2. all[n + 1] = one /\ DOMAIN all = 1..(n + 1)
    BY <1>3
  <2>3. one \in Bodies
    BY <1>2
  <2> HIDE DEF all, parts, one
  <2>4. Append(parts, one) = [i \in 1..(n + 1) |-> IF i = n + 1 THEN one ELSE parts[i]]
    <3>1. /\ Append(parts, one) \in Seq(Bodies) /\ Len(Append(parts, one)) = n + 1
          /\ Append(parts, one)[n + 1] = one /\ \A i \in 1..n : Append(parts, one)[i] = parts[i]
      BY <1>3, <1>5, <2>3, AppendProperties
    <3>2. \A S : \A s \in Seq(S) : s = [i \in 1..Len(s) |-> s[i]]
      OBVIOUS
    <3>3. \A i \in 1..(n + 1) : i # n + 1 => i \in 1..n
      BY <1>3
    <3>4. QED
      BY <3>1, <3>2, <3>3
  <2>5. all = [i \in 1..(n + 1) |-> all[i]]
    BY <1>3 DEF all
  <2>6. \A i \in 1..(n + 1) : i # n + 1 => i \in 1..n
    BY <1>3
  <2>7. all = Append(parts, one)
    BY <2>1, <2>2, <2>4, <2>5, <2>6
  <2>8. QED
    BY <2>7 DEF all, one
<1>7. parts \in Seq(Seq(0..MaxChunks)) /\ BodyIn(r, side) \in Seq(0..MaxChunks)
  BY <1>2, <1>5 DEF Bodies
<1>8. Joined(h, side) = FlattenSeq(parts)
  BY DEF Joined, parts, n
<1>9. Joined(more, side) = FlattenSeq(Append(parts, BodyIn(r, side)))
  BY <1>6 DEF Joined
<1> HIDE DEF parts
<1>10. Joined(more, side) = Joined(h, side) \o BodyIn(r, side) /\ Joined(h, side) \in Bodies
  BY <1>7, <1>8, <1>9, FlatteningAppends DEF Bodies
<1>11. Joined(<<>>, side) = <<>>
  <2>1. [i \in 1..Len(<<>>) |-> BodyIn(<<>>[i], side)] = <<>>
    OBVIOUS
  <2>2. <<>> \in Seq(Seq(0..MaxChunks)) /\ <<>> \in Seq(0..MaxChunks)
    OBVIOUS
  <2>3. FlattenSeq(<<>>) = <<>>
    BY <2>2, FlatteningAppends
  <2>4. QED
    BY <2>1, <2>3 DEF Joined
<1>12. QED
  BY <1>2, <1>10, <1>11 DEF more

LEMMA NothingJoined ==
    ASSUME NEW h \in Seq(Replies), NEW side, \A i \in DOMAIN h : ~IsBody(h[i], side)
    PROVE  Joined(h, side) = <<>>
<1> DEFINE parts == [i \in 1..Len(h) |-> BodyIn(h[i], side)]
<1>1. Len(h) \in Nat /\ DOMAIN h = 1..Len(h)
  BY LenProperties
<1>2. \A i \in 1..Len(h) : BodyIn(h[i], side) = <<>>
  BY <1>1 DEF BodyIn, IsBody
<1>3. <<>> \in Seq(0..MaxChunks)
  OBVIOUS
<1>4. parts \in [1..Len(h) -> Seq(0..MaxChunks)]
  BY <1>2, <1>3
<1>5. parts \in Seq(Seq(0..MaxChunks)) /\ Len(parts) = Len(h)
  BY <1>1, <1>4
<1>6. \A i \in 1..Len(parts) : parts[i] = <<>>
  BY <1>2, <1>5
<1> HIDE DEF parts
<1>7. FlattenSeq(parts) = <<>>
  BY <1>5, <1>6, FlatteningNothing
<1>8. QED
  BY <1>7 DEF Joined, parts

(* How much of a response that is not inspected has come. *)
Passed ==
    LET o == Offset("response")  n == ex.response.chunks
    IN  IF taken <= o + 1 THEN 0 ELSE IF taken > o + 1 + n THEN n ELSE taken - o - 1

(* What the history sends back of a side: nothing or all of it, when it is    *)
(* inspected, and the chunks that have come, when it is not.                  *)
ReturnedInv ==
    /\ Len(out) <= 2
    /\ \A side \in Sides : Inspectable(side) =>
         \/ Joined(History, side) \in {<<>>, Whole(side)}
         \/ Joined(History, side) = <<Rewritten>> /\ Redacted(side)
    /\ ~ex.response.inspectable => Joined(History, "response") = Chunks(Passed)

(* A body that goes on is the one received, or was redacted. *)
LEMMA SendsBackWhat ==
    ASSUME LlmTypeOK, NEW side \in Sides, NEW buffer \in Bodies, NEW held \in Seq(Replies),
           SendsBack(side, buffer, held)
    PROVE  \/ out' = <<Immediate>>
           \/ \E r \in Replies :
                /\ IsBody(r, side) /\ out' = Append(held, r)
                /\ r.body = buffer \/ (r.body = <<Rewritten>> /\ Redacted(side)')
<1> DEFINE batches == Batches(side, buffer)
<1>0. ex \in Exchanges /\ isChat \in BOOLEAN /\ inspected \in Seq(Inspection)
  BY DEF LlmTypeOK, Inspection
<1>1. batches \in Seq(Surfaces) /\ Len(batches) <= 2 /\ DOMAIN batches = 1..Len(batches)
  BY <1>0, BatchesAre
<1> HIDE DEF batches
<1>2. PICK answers \in [DOMAIN batches -> Answers] :
        /\ inspected' = inspected \o Inspections(side, batches, answers)
        /\ IF Blocks(answers)
           THEN out' = <<Immediate>> /\ status' = "done"
           ELSE /\ out' = Append(held, Reply(side, "body", Result(buffer, answers), TRUE))
                /\ UNCHANGED status
  BY DEF SendsBack, batches
<1> DEFINE made == Inspections(side, batches, answers)  n == Len(inspected)
           r == Reply(side, "body", Result(buffer, answers), TRUE)
<1> HIDE DEF made
<1>3. /\ made \in Seq(Inspection) /\ \A i \in 1..Len(made) : made[i].side = side
      /\ ~Blocks(answers) => /\ Len(made) = Len(batches)
                             /\ \A i \in 1..Len(made) : made[i].action = answers[i].action
  <2>1. AnswersTo(made, side, batches, answers)
    BY <1>1, InspectionsAre DEF made
  <2>2. QED
    BY <2>1 DEF AnswersTo
<1>4. ASSUME ~Blocks(answers), Changes(answers)
      PROVE  Redacted(side)'
  <2>1. PICK j \in DOMAIN answers : answers[j].changes
    BY <1>4 DEF Changes
  <2>2. j \in 1..Len(made) /\ answers[j] \in Answers
    BY <1>1, <1>3, <1>4, <2>1
  <2>3. answers[j].action = "redact"
    BY <2>1, <2>2 DEF Answers
  <2>4. made[j].action = "redact" /\ made[j].side = side
    BY <1>3, <1>4, <2>2, <2>3
  <2>5. /\ inspected \o made \in Seq(Inspection)
        /\ Len(inspected \o made) = n + Len(made) /\ n \in Nat /\ Len(made) \in Nat
        /\ (inspected \o made)[n + j] = made[j]
    BY <1>0, <1>3, <2>2, Extends, Zenon
  <2>6. inspected' = inspected \o made
    BY <1>2 DEF made
  <2>7. n + j \in 1..(n + Len(made))
    BY <2>2, <2>5
  <2>8. n + j \in DOMAIN inspected' /\ inspected'[n + j] = made[j]
    BY <2>5, <2>6, <2>7
  <2> HIDE DEF n
  <2>9. QED
    BY <2>4, <2>8 DEF Redacted, Made
<1>5. CASE Blocks(answers)
  BY <1>2, <1>5
<1>6. CASE ~Blocks(answers)
  <2>1. out' = Append(held, r) /\ IsBody(r, side) /\ r.body = Result(buffer, answers)
    BY <1>2, <1>6 DEF Reply, IsBody
  <2>2. <<Rewritten>> \in Bodies
    BY ExchangeAssumption DEF Bodies, Rewritten
  <2>3. Result(buffer, answers) \in Bodies
    BY <2>2 DEF Result
  <2>4. r \in Replies
    BY <2>3 DEF Reply, Replies
  <2>5. r.body = buffer \/ (r.body = <<Rewritten>> /\ Redacted(side)')
    BY <1>4, <1>6, <2>1 DEF Result
  <2> HIDE DEF r
  <2>6. QED
    BY <2>1, <2>4, <2>5
<1>7. QED
  BY <1>5, <1>6

LEMMA StillRedacted ==
    ASSUME NEW side, \A i \in DOMAIN inspected : i \in DOMAIN inspected' /\ inspected'[i] = inspected[i]
    PROVE  Redacted(side) => Redacted(side)'
BY DEF Redacted, Made

LEMMA ReturnedKept ==
    ASSUME LlmTypeOK, ReturnedInv, ex' = ex, Len(out') <= 2,
           \A side \in Sides : Redacted(side) => Redacted(side)',
           \A side \in Sides : Inspectable(side) =>
             \/ Joined(History', side) \in {Joined(History, side), <<>>, Whole(side)}
             \/ Joined(History', side) = <<Rewritten>> /\ Redacted(side)',
           ~ex.response.inspectable => Joined(History', "response") = Chunks(Passed')
    PROVE  ReturnedInv'
<1>1. \A side \in Sides : Inspectable(side)' = Inspectable(side) /\ Whole(side)' = Whole(side)
  BY DEF Inspectable, Whole
<1>2. \A side \in Sides : Inspectable(side) =>
         \/ Joined(History, side) \in {<<>>, Whole(side)}
         \/ Joined(History, side) = <<Rewritten>> /\ Redacted(side)
  BY DEF ReturnedInv
<1>3. \A side \in Sides : Inspectable(side)' =>
         \/ Joined(History', side) \in {<<>>, Whole(side)'}
         \/ Joined(History', side) = <<Rewritten>> /\ Redacted(side)'
  BY <1>1, <1>2
<1>4. QED
  BY <1>3 DEF ReturnedInv
LEMMA NothingAdded == \A u \in Bodies : u \o <<>> = u /\ <<>> \o u = u
BY DEF Bodies

(* What a message adds to what was sent back. *)
LEMMA JoinedAfter ==
    ASSUME LlmTypeOK, NEW side \in Sides, NEW kind, Receives(side, kind)
    PROVE  /\ out' = <<>> => \A s \in Sides : Joined(History', s) = Joined(History, s)
           /\ \A r \in Replies : out' = <<r>> =>
                \A s \in Sides : Joined(History', s) = Joined(History, s) \o BodyIn(r, s)
           /\ \A q, r \in Replies : out' = Append(<<q>>, r) /\ (\A s \in Sides : ~IsBody(q, s)) =>
                \A s \in Sides : Joined(History', s) = Joined(History, s) \o BodyIn(r, s)
           /\ \A s \in Sides : Joined(History, s) \in Bodies
<1>1. out = <<>> /\ replies' = replies /\ replies \in Seq(Replies)
  BY Received DEF LlmTypeOK
<1>2. History = replies /\ History' = replies \o out' /\ History \in Seq(Replies)
  BY <1>1, HistoryAppends DEF History
<1>3. out' = <<>> => History' = History
  BY <1>2, HistoryAppends
<1>4. ASSUME NEW r \in Replies, out' = <<r>>
      PROVE  \A s \in Sides : Joined(History', s) = Joined(History, s) \o BodyIn(r, s)
  <2>1. History' = Append(History, r)
    BY <1>2, <1>4, HistoryAppends
  <2>2. QED
    BY <1>2, <2>1, JoinedGrows
<1>5. ASSUME NEW q \in Replies, NEW r \in Replies, out' = Append(<<q>>, r), \A s \in Sides : ~IsBody(q, s)
      PROVE  \A s \in Sides : Joined(History', s) = Joined(History, s) \o BodyIn(r, s)
  <2>1. History' = Append(Append(History, q), r)
    BY <1>2, <1>5, HistoryAppends
  <2>2. PICK h \in Seq(Replies) : h = Append(History, q)
    BY <1>2, AppendProperties
  <2>3. \A s \in Sides : Joined(History', s) = Joined(h, s) \o BodyIn(r, s)
    BY <2>1, <2>2, JoinedGrows
  <2>4. \A s \in Sides : Joined(h, s) = Joined(History, s) \o BodyIn(q, s)
    BY <1>2, <2>2, JoinedGrows
  <2>5. \A s \in Sides : BodyIn(q, s) = <<>>
    BY <1>5 DEF BodyIn, IsBody
  <2>6. \A s \in Sides : Joined(History, s) \in Bodies
    BY <1>2, <1>5, JoinedGrows
  <2>7. QED
    BY <2>3, <2>4, <2>5, <2>6, NothingAdded
<1>6. \A s \in Sides : Joined(History, s) \in Bodies
  <2>1. Immediate \in Replies
    BY RepliesAre
  <2>2. QED
    BY <1>2, <2>1, JoinedGrows
<1>7. QED
  BY <1>3, <1>4, <1>5, <1>6

(* The chunks that have passed are counted by the messages of the body. *)
LEMMA PassedKept ==
    ASSUME LlmTypeOK, ex' = ex, taken' = taken + 1,
           \/ taken' <= Offset("response") + 1
           \/ taken' = Offset("response") + 2 + ex.response.chunks
    PROVE  Passed' = Passed
<1> DEFINE o == Offset("response")  n == ex.response.chunks
<1>1. o \in Nat /\ n \in Nat /\ taken \in Nat
  BY Places
<1>2. Offset("response")' = o
  BY SameExchange
<1>3. Passed' = IF taken' <= o + 1 THEN 0 ELSE IF taken' > o + 1 + n THEN n ELSE taken' - o - 1
  BY <1>2 DEF Passed
<1>4. Passed = IF taken <= o + 1 THEN 0 ELSE IF taken > o + 1 + n THEN n ELSE taken - o - 1
  BY DEF Passed
<1>5. taken' <= o + 1 \/ taken' = o + 2 + n
  OBVIOUS
<1> HIDE DEF o, n
<1>6. QED
  BY <1>1, <1>3, <1>4, <1>5

(* A message answered with no body. *)
LEMMA QuietStep ==
    ASSUME LlmTypeOK, ReturnedInv, NEW side \in Sides, NEW kind, Receives(side, kind),
           out' = <<>> \/ \E r \in Replies : out' = <<r>> /\ \A s \in Sides : ~IsBody(r, s),
           \A i \in DOMAIN inspected : i \in DOMAIN inspected' /\ inspected'[i] = inspected[i],
           ex.response.inspectable \/ Passed' = Passed
    PROVE  ReturnedInv'
<1>1. ex' = ex
  BY Received
<1>2. \A s \in Sides : Joined(History', s) = Joined(History, s)
  <2>1. CASE out' = <<>>
    BY <2>1, JoinedAfter
  <2>2. ASSUME NEW r \in Replies, out' = <<r>>, \A s \in Sides : ~IsBody(r, s)
        PROVE  \A s \in Sides : Joined(History', s) = Joined(History, s)
    <3>1. \A s \in Sides : BodyIn(r, s) = <<>>
      BY <2>2 DEF BodyIn, IsBody
    <3>2. \A s \in Sides : Joined(History', s) = Joined(History, s) \o BodyIn(r, s)
      BY <2>2, JoinedAfter
    <3>3. \A s \in Sides : Joined(History, s) \in Bodies
      BY JoinedAfter
    <3>4. QED
      BY <3>1, <3>2, <3>3, NothingAdded
  <2>3. QED
    BY <2>1, <2>2
<1>3. Len(out') <= 2
  <2>1. \A r \in Replies : Len(<<r>>) <= 2
    OBVIOUS
  <2>2. Len(<<>>) <= 2
    OBVIOUS
  <2>3. QED
    BY <2>1, <2>2
<1>4. \A s \in Sides : Redacted(s) => Redacted(s)'
  BY StillRedacted
<1>5. ~ex.response.inspectable => Joined(History', "response") = Chunks(Passed')
  BY <1>2 DEF ReturnedInv, Sides
<1>6. QED
  BY <1>1, <1>2, <1>3, <1>4, <1>5, ReturnedKept

(* The last chunk of an inspected body. *)
LEMMA WholeStep ==
    ASSUME LlmTypeOK, ReturnedInv, NEW side \in Sides, Receives(side, "body"), Inspectable(side),
           Joined(History, side) = <<>>, NEW held \in Seq(Replies),
           held = <<>> \/ \E q \in Replies : held = <<q>> /\ \A s \in Sides : ~IsBody(q, s),
           SendsBack(side, Whole(side), held), ex.response.inspectable \/ Passed' = Passed
    PROVE  ReturnedInv'
<1>1. ex' = ex /\ Whole(side) \in Bodies
  BY Received, WholeIs
<1>2. \A i \in DOMAIN inspected : i \in DOMAIN inspected' /\ inspected'[i] = inspected[i]
  BY <1>1, SendsBackEffect
<1>3. CASE out' = <<Immediate>>
  <2>1. Immediate \in Replies /\ \A s \in Sides : ~IsBody(Immediate, s)
    BY RepliesAre DEF Immediate, Reply, IsBody
  <2>2. QED
    BY <1>2, <1>3, <2>1, QuietStep
<1>4. ASSUME NEW r \in Replies, IsBody(r, side), out' = Append(held, r),
             r.body = Whole(side) \/ (r.body = <<Rewritten>> /\ Redacted(side)')
      PROVE  ReturnedInv'
  <2>1. \A s \in Sides : Joined(History', s) = Joined(History, s) \o BodyIn(r, s)
    <3>1. CASE held = <<>>
      <4>1. out' = <<r>>
        BY <1>4, <3>1
      <4>2. QED
        BY <4>1, JoinedAfter
    <3>2. ASSUME NEW q \in Replies, held = <<q>>, \A s \in Sides : ~IsBody(q, s)
          PROVE  \A s \in Sides : Joined(History', s) = Joined(History, s) \o BodyIn(r, s)
      BY <1>4, <3>2, JoinedAfter
    <3>3. QED
      BY <3>1, <3>2
  <2>2. \A s \in Sides : Joined(History, s) \in Bodies
    BY JoinedAfter
  <2>3. BodyIn(r, side) = r.body /\ r.body \in Bodies /\ \A s \in Sides : s # side => BodyIn(r, s) = <<>>
    BY <1>4 DEF BodyIn, IsBody, Replies
  <2>4. Joined(History', side) = r.body /\ \A s \in Sides : s # side => Joined(History', s) = Joined(History, s)
    BY <2>1, <2>2, <2>3, NothingAdded
  <2>5. Len(out') <= 2
    <3>1. \A q \in Replies : Len(Append(<<q>>, r)) <= 2
      OBVIOUS
    <3>2. Len(Append(<<>>, r)) <= 2
      OBVIOUS
    <3>3. QED
      BY <1>4, <3>1, <3>2
  <2>6. \A s \in Sides : Redacted(s) => Redacted(s)'
    BY <1>2, StillRedacted
  <2>7. ~ex.response.inspectable => Joined(History', "response") = Chunks(Passed')
    <3>1. ~ex.response.inspectable => side # "response"
      BY DEF Inspectable
    <3>2. QED
      BY <2>4, <3>1 DEF ReturnedInv, Sides
  <2>8. \A s \in Sides : Inspectable(s) =>
          \/ Joined(History', s) \in {Joined(History, s), <<>>, Whole(s)}
          \/ Joined(History', s) = <<Rewritten>> /\ Redacted(s)'
    BY <1>4, <2>4
  <2>9. QED
    BY <1>1, <2>5, <2>6, <2>7, <2>8, ReturnedKept
<1>5. QED
  BY <1>1, <1>3, <1>4, SendsBackWhat
LEMMA RequestBodyReturns ==
    ASSUME LlmTypeOK, StreamInv, HistoryInv, LastWordInv, ReturnedInv, RequestBody
    PROVE  ReturnedInv'
<1> DEFINE o == Offset("response")  n == ex["request"].chunks
<1>1. /\ Receives("request", "body") /\ reqBody' = Append(reqBody, Incoming.chunk)
      /\ IF Incoming.eos THEN SendsBack("request", reqBody', <<>>) ELSE UNCHANGED <<out, status, inspected>>
  BY DEF RequestBody, Silently
<1>2. "request" \in Sides /\ Inspectable("request")
  BY DEF Sides, Inspectable
<1>3. /\ o \in Nat /\ taken \in Nat /\ n \in Nat /\ Offset("request") = 0 /\ o > n
      /\ taken' = taken + 1 /\ taken' >= 2 /\ taken' <= 1 + n /\ Incoming.chunk = taken
      /\ Incoming.eos => taken' = 1 + n
      /\ ex' = ex /\ out = <<>>
  <2>1. /\ o \in Nat /\ taken \in Nat /\ n \in Nat /\ Offset("request") = 0 /\ o > n
    BY Places
  <2>2. ex' = ex /\ out = <<>>
    BY <1>1, <1>2, Received
  <2>3. /\ taken' = taken + 1 /\ taken' >= Offset("request") + 2 /\ taken' <= Offset("request") + 1 + n
        /\ Incoming.chunk = taken - Offset("request")
        /\ Incoming.eos => taken' = Offset("request") + 1 + n
    BY <1>1, <1>2, Placed
  <2>4. QED
    BY <2>1, <2>2, <2>3
<1>4. Passed' = Passed
  <2>1. taken' <= o + 1
    BY <1>3
  <2>2. QED
    BY <1>3, <2>1, PassedKept
<1>5. CASE ~Incoming.eos
  <2>1. out' = <<>> /\ inspected' = inspected
    BY <1>1, <1>3, <1>5
  <2>2. QED
    BY <1>1, <1>2, <1>4, <2>1, QuietStep
<1>6. CASE Incoming.eos
  <2>1. reqBody' = Whole("request")
    <3>1. taken' = 1 + n
      BY <1>3, <1>6
    <3>2. PICK k \in Nat : taken - 1 = k /\ k + 1 = n
      BY <1>3, <3>1
    <3>3. reqBody = Chunks(k)
      BY <1>3, <3>1, <3>2, Places DEF StreamInv, Begun, WholeTaken
    <3>4. Incoming.chunk = k + 1
      BY <1>3, <3>2
    <3>5. reqBody' = Append(Chunks(k), k + 1)
      BY <1>1, <3>3, <3>4
    <3>6. reqBody' = Chunks(n)
      BY <3>2, <3>5, ChunksGrow
    <3>7. QED
      BY <3>6 DEF Chunks, Whole
  <2>2. Joined(History, "request") = <<>>
    <3>1. \A i \in DOMAIN History : ~IsBody(History[i], "request")
      <4>1. TAKE i \in DOMAIN History
      <4>2. Due(History[i], taken, heldHeaders, ex, o)
        BY <1>1, <1>2, Receiving
      <4>3. taken = n
        BY <1>3, <1>6
      <4>4. QED
        BY <1>3, <4>2, <4>3 DEF Due, At, IsBody
    <3>2. History \in Seq(Replies)
      BY <1>1, <1>2, Receiving
    <3>3. QED
      BY <3>1, <3>2, NothingJoined
  <2> DEFINE held == <<>>
  <2>3. held \in Seq(Replies) /\ held = <<>> /\ SendsBack("request", Whole("request"), held)
    BY <1>1, <1>6, <2>1
  <2> HIDE DEF held
  <2>4. QED
    BY <1>1, <1>2, <1>4, <2>2, <2>3, WholeStep
<1>7. QED
  BY <1>5, <1>6

LEMMA ResponseBodyPassedReturns ==
    ASSUME LlmTypeOK, StreamInv, ReturnedInv, ResponseBodyPassed
    PROVE  ReturnedInv'
<1> DEFINE o == Offset("response")  n == ex.response.chunks
           r == Reply("response", "body", <<Incoming.chunk>>, Incoming.eos)
<1>1. Receives("response", "body") /\ ~inspectResponse /\ out' = <<r>> /\ inspected' = inspected
  BY DEF ResponseBodyPassed
<1>2. "response" \in Sides
  BY DEF Sides
<1>3. /\ o \in Nat /\ n \in Nat /\ taken \in Nat /\ taken' = taken + 1
      /\ taken' >= o + 2 /\ taken' <= o + 1 + n /\ Incoming.chunk = taken - o
      /\ ex' = ex
  <2>1. o \in Nat /\ n \in Nat /\ taken \in Nat
    BY Places
  <2>2. ex' = ex
    BY <1>1, <1>2, Received
  <2>3. /\ taken' = taken + 1 /\ taken' >= o + 2 /\ taken' <= o + 1 + n /\ Incoming.chunk = taken - o
    BY <1>1, <1>2, Placed
  <2>4. QED
    BY <2>1, <2>2, <2>3
<1>4. ~ex.response.inspectable
  <2>1. taken > o /\ n # 0
    BY <1>3
  <2>2. QED
    BY <1>1, <2>1 DEF StreamInv, Begun
<1>5. r \in Replies /\ r.side = "response" /\ r.kind = "body" /\ r.body = <<Incoming.chunk>>
  <2>1. Incoming.chunk \in 0..MaxChunks /\ Incoming.eos \in BOOLEAN
    BY <1>1, <1>2, Received
  <2>2. QED
    BY <1>2, <2>1, RepliesAre DEF Reply
<1> HIDE DEF r
<1>6. /\ BodyIn(r, "response") = <<Incoming.chunk>> /\ BodyIn(r, "request") = <<>>
      /\ \A s \in Sides : Joined(History', s) = Joined(History, s) \o BodyIn(r, s)
      /\ \A s \in Sides : Joined(History, s) \in Bodies
  BY <1>1, <1>2, <1>5, JoinedAfter DEF BodyIn
<1>7. Joined(History', "request") = Joined(History, "request")
  BY <1>6, NothingAdded DEF Sides
<1>8. Joined(History', "response") = Chunks(Passed')
  <2>1. PICK k \in Nat : k = taken - o - 1
    BY <1>3
  <2>2. Passed = k
    BY <1>3, <2>1 DEF Passed
  <2>3. Passed' = k + 1
    <3>1. Offset("response")' = o
      BY <1>3, SameExchange
    <3>2. Passed' = IF taken' <= o + 1 THEN 0 ELSE IF taken' > o + 1 + n THEN n ELSE taken' - o - 1
      BY <1>3, <3>1 DEF Passed
    <3> HIDE DEF o, n
    <3>3. QED
      BY <1>3, <2>1, <3>2
  <2>4. Incoming.chunk = k + 1
    BY <1>3, <2>1
  <2>5. Joined(History, "response") = Chunks(k)
    BY <1>4, <2>2 DEF ReturnedInv
  <2>6. Joined(History', "response") = Chunks(k) \o <<k + 1>>
    BY <1>2, <1>6, <2>4, <2>5
  <2>7. Chunks(k) \o <<k + 1>> = Append(Chunks(k), k + 1)
    <3>1. Chunks(k) \in Seq(Nat) /\ k + 1 \in Nat
      BY ChunksGrow
    <3>2. QED
      BY <3>1, AppendIsConcat
  <2>8. QED
    BY <2>3, <2>6, <2>7, ChunksGrow
<1>9. Len(out') <= 2
  BY <1>1
<1>10. \A s \in Sides : Inspectable(s) => s = "request"
  BY <1>4 DEF Inspectable
<1>11. \A s \in Sides : Redacted(s) => Redacted(s)'
  BY <1>1, StillRedacted
<1>12. QED
  BY <1>3, <1>7, <1>8, <1>9, <1>10, <1>11, ReturnedKept

LEMMA ResponseBodyInspectedReturns ==
    ASSUME LlmTypeOK, StreamInv, HistoryInv, LastWordInv, ReturnedInv, ResponseBodyInspected
    PROVE  ReturnedInv'
<1> DEFINE o == Offset("response")  m == ex["response"].chunks  q == HeadersReply("response")
           held == IF heldHeaders THEN <<q>> ELSE <<>>
<1>1. /\ Receives("response", "body") /\ inspectResponse /\ respBody' = Append(respBody, Incoming.chunk)
      /\ IF Incoming.eos THEN SendsBack("response", respBody', held) ELSE UNCHANGED <<out, status, inspected>>
  BY DEF ResponseBodyInspected, Silently
<1>2. "response" \in Sides
  BY DEF Sides
<1>3. /\ o \in Nat /\ m \in Nat /\ m = ex.response.chunks /\ taken \in Nat /\ taken' = taken + 1
      /\ taken' >= o + 2 /\ taken' <= o + 1 + m /\ Incoming.chunk = taken - o
      /\ Incoming.eos => taken' = o + 1 + m
      /\ out = <<>>
  <2>1. /\ o \in Nat /\ m \in Nat /\ m = ex.response.chunks /\ taken \in Nat
    BY Places
  <2>2. out = <<>>
    BY <1>1, <1>2, Received
  <2>3. /\ taken' = taken + 1 /\ taken' >= o + 2 /\ taken' <= o + 1 + m /\ Incoming.chunk = taken - o
        /\ Incoming.eos => taken' = o + 1 + m
    BY <1>1, <1>2, Placed
  <2>4. QED
    BY <2>1, <2>2, <2>3
<1>4. heldHeaders /\ respBody = Chunks(taken - o - 1) /\ ex.response.inspectable
  <2>1. taken > o /\ taken <= o + m
    BY <1>3
  <2>2. Begun("response") /\ ~WholeTaken("response")
    BY <1>3, <2>1, Places DEF Begun, WholeTaken
  <2>3. QED
    BY <1>1, <2>2 DEF StreamInv
<1>5. Inspectable("response")
  BY <1>4 DEF Inspectable
<1>6. CASE ~Incoming.eos
  <2>1. out' = <<>> /\ inspected' = inspected
    BY <1>1, <1>3, <1>6
  <2>2. QED
    BY <1>1, <1>2, <1>4, <2>1, QuietStep
<1>7. CASE Incoming.eos
  <2>1. respBody' = Whole("response")
    <3>1. PICK k \in Nat : k = taken - o - 1
      BY <1>3
    <3>2. k + 1 = m /\ Incoming.chunk = k + 1
      BY <1>3, <1>7, <3>1
    <3>3. respBody' = Append(Chunks(k), k + 1)
      BY <1>1, <1>4, <3>1, <3>2
    <3>4. respBody' = Chunks(m)
      BY <3>2, <3>3, ChunksGrow
    <3>5. QED
      BY <3>4 DEF Chunks, Whole
  <2>2. q \in Replies /\ (\A s \in Sides : ~IsBody(q, s)) /\ held = <<q>>
    BY <1>2, <1>4, RepliesAre DEF HeadersReply, Reply, IsBody
  <2>3. held \in Seq(Replies) /\ SendsBack("response", Whole("response"), held)
    BY <1>1, <1>7, <2>1, <2>2
  <2>4. Joined(History, "response") = <<>>
    <3>1. \A i \in DOMAIN History : ~IsBody(History[i], "response")
      <4>1. TAKE i \in DOMAIN History
      <4>2. Due(History[i], taken, heldHeaders, ex, o)
        BY <1>1, <1>2, Receiving
      <4>3. QED
        BY <1>4, <4>2 DEF Due, IsBody
    <3>2. History \in Seq(Replies)
      BY <1>1, <1>2, Receiving
    <3>3. QED
      BY <3>1, <3>2, NothingJoined
  <2> HIDE DEF held, q
  <2>5. QED
    BY <1>1, <1>2, <1>4, <1>5, <2>2, <2>3, <2>4, WholeStep
<1>8. QED
  BY <1>6, <1>7
(* Every other step sends back no body, and sending changes no history. *)
LEMMA HeadersAndTrailersReturn ==
    ASSUME LlmTypeOK, ReturnedInv, RequestHeaders \/ ResponseHeaders \/ Trailers
    PROVE  ReturnedInv'
<1> DEFINE Bodyless(r) == r \in Replies /\ \A s \in Sides : ~IsBody(r, s)
<1>1. \A side \in Sides : Bodyless(HeadersReply(side)) /\ Bodyless(TrailersReply(side))
  BY RepliesAre DEF HeadersReply, TrailersReply, Reply, IsBody
<1>2. "request" \in Sides /\ "response" \in Sides
  BY DEF Sides
<1>3. /\ Offset("request") = 0 /\ Offset("response") \in Nat /\ taken \in Nat
      /\ ex["request"].chunks \in Nat
      /\ ex["request"] = ex.request /\ ex["response"] = ex.response
  BY Places
<1>4. ASSUME NEW side \in Sides, NEW kind \in {"headers", "trailers"}, Receives(side, kind)
      PROVE  ex' = ex /\ Passed' = Passed
  <2>1. ex' = ex /\ taken' = taken + 1
    BY <1>4, Received
  <2>2. CASE side = "request"
    <3>1. taken' <= Offset("response")
      BY <1>4, <2>2, Placed
    <3>2. taken' <= Offset("response") + 1
      BY <1>3, <2>1, <3>1
    <3>3. QED
      BY <2>1, <3>2, PassedKept
  <2>3. CASE side = "response" /\ kind = "headers"
    <3>1. taken' = Offset("response") + 1
      BY <1>4, <2>3, Placed
    <3>2. taken' <= Offset("response") + 1
      BY <1>3, <3>1
    <3>3. QED
      BY <2>1, <3>2, PassedKept
  <2>4. CASE side = "response" /\ kind = "trailers"
    <3>1. taken' = Offset("response") + 2 + ex.response.chunks
      BY <1>3, <1>4, <2>4, Placed
    <3>2. QED
      BY <2>1, <3>1, PassedKept
  <2>5. QED
    BY <2>2, <2>3, <2>4 DEF Sides
<1>5. PICK side \in Sides, kind \in {"headers", "trailers"} :
        /\ Receives(side, kind) /\ inspected' = inspected
        /\ out' = <<>> \/ out' = <<HeadersReply(side)>> \/ out' = <<TrailersReply(side)>>
  BY <1>2 DEF RequestHeaders, ResponseHeaders, Trailers
<1>6. out' = <<>> \/ \E r \in Replies : out' = <<r>> /\ \A s \in Sides : ~IsBody(r, s)
  BY <1>1, <1>5
<1>7. QED
  BY <1>4, <1>5, <1>6, QuietStep

LEMMA SteadyReturns ==
    ASSUME LlmTypeOK, ReturnedInv, SendReply \/ Returns \/ Gateway \/ GatewayAborts \/ UNCHANGED vars
    PROVE  ReturnedInv'
<1>1. ex' = ex /\ taken' = taken /\ inspected' = inspected
  BY DEF SendReply, Returns, Gateway, GatewaySends, GatewayFinishes, GatewayAborts, vars
<1>2. History' = History /\ Len(out') <= 2
  <2>1. CASE SendReply
    <3>1. /\ replies \in Seq(Replies) /\ out \in Seq(Replies) /\ out # <<>>
          /\ replies' = Append(replies, Head(out)) /\ out' = Tail(out)
      BY <2>1 DEF SendReply, LlmTypeOK
    <3>2. History' = History
      BY <3>1, HistoryAppends DEF History
    <3>3. Len(out) <= 2
      BY DEF ReturnedInv
    <3>4. \A s \in Seq(Replies) : s # <<>> /\ Len(s) <= 2 => Len(Tail(s)) <= 2
      OBVIOUS
    <3>5. QED
      BY <3>1, <3>2, <3>3, <3>4
  <2>2. CASE Returns \/ Gateway \/ GatewayAborts \/ UNCHANGED vars
    <3>1. replies' = replies /\ out' = out
      BY <2>2 DEF Returns, Gateway, GatewaySends, GatewayFinishes, GatewayAborts, vars
    <3>2. QED
      BY <3>1 DEF History, ReturnedInv
  <2>3. QED
    BY <2>1, <2>2
<1>3. \A s \in Sides : Redacted(s) => Redacted(s)'
  BY <1>1, StillRedacted
<1>4. Passed' = Passed
  BY <1>1, SameExchange DEF Passed
<1>5. ~ex.response.inspectable => Joined(History', "response") = Chunks(Passed')
  BY <1>2, <1>4 DEF ReturnedInv
<1>6. QED
  BY <1>1, <1>2, <1>3, <1>5, ReturnedKept

LEMMA ReturnedInvNext ==
    ASSUME LlmTypeOK, LlmInv, ReturnedInv, [Next]_vars
    PROVE  ReturnedInv'
<1>1. StreamInv /\ HistoryInv /\ LastWordInv
  BY DEF LlmInv
<1>2. \/ (RequestHeaders \/ ResponseHeaders \/ Trailers) \/ RequestBody \/ ResponseBodyPassed
      \/ ResponseBodyInspected
      \/ (SendReply \/ Returns \/ Gateway \/ GatewayAborts \/ UNCHANGED vars)
  BY DEF Next, Process
<1>3. QED
  BY <1>1, <1>2, HeadersAndTrailersReturn, RequestBodyReturns, ResponseBodyPassedReturns,
     ResponseBodyInspectedReturns, SteadyReturns

LEMMA ReturnedInvInit == Init => ReturnedInv
<1> SUFFICES ASSUME Init
             PROVE  ReturnedInv
  OBVIOUS
<1>1. LlmTypeOK
  BY LlmTypeInit
<1>2. replies = <<>> /\ out = <<>> /\ taken = 0
  BY DEF Init
<1>3. History = <<>> /\ Len(out) <= 2
  BY <1>2 DEF History
<1>4. \A s \in Sides : Joined(<<>>, s) = <<>>
  <2>1. <<>> \in Seq(Replies)
    OBVIOUS
  <2>2. QED
    BY <2>1, RepliesAre, JoinedGrows
<1>5. Passed = 0
  <2>1. 0 <= Offset("response") + 1
    BY <1>1, Places
  <2>2. QED
    BY <1>2, <2>1 DEF Passed
<1>6. QED
  BY <1>3, <1>4, <1>5, ChunksGrow DEF ReturnedInv, Sides

LEMMA ReturnedInvHolds == Spec => []ReturnedInv
  BY ReturnedInvInit, ReturnedInvNext, LlmTypeCorrect, LlmInvHolds, PTL DEF Spec
(* What has not reached the gateway yet would come after what has. *)
LEMMA HistoryJoins ==
    ASSUME LlmTypeOK, Len(out) <= 2, NEW side
    PROVE  \E v \in Bodies :
              /\ Joined(History, side) = Joined(replies, side) \o v
              /\ (\A i \in DOMAIN out : ~IsBody(out[i], side)) => v = <<>>
<1>1. replies \in Seq(Replies) /\ out \in Seq(Replies) /\ <<>> \in Bodies
  BY DEF LlmTypeOK, Bodies
<1>2. Joined(replies, side) \in Bodies /\ \A r \in Replies : BodyIn(r, side) \in Bodies
  BY <1>1, RepliesAre, JoinedGrows
<1>3. \A r \in Replies : ~IsBody(r, side) => BodyIn(r, side) = <<>>
  BY DEF IsBody, BodyIn
<1>4. CASE Len(out) = 0
  <2>1. out = <<>>
    BY <1>1, <1>4, EmptySeq
  <2>2. Joined(History, side) = Joined(replies, side) \o <<>>
    BY <1>1, <1>2, <2>1, HistoryAppends, NothingAdded DEF History
  <2>3. QED
    BY <1>1, <2>2
<1>5. CASE Len(out) = 1
  <2>1. out[1] \in Replies /\ 1 \in DOMAIN out /\ out = <<out[1]>>
    <3>1. \A s \in Seq(Replies) : Len(s) = 1 => s = <<s[1]>>
      OBVIOUS
    <3>2. \A s \in Seq(Replies) : Len(s) = 1 => s[1] \in Replies /\ 1 \in DOMAIN s
      OBVIOUS
    <3>3. QED
      BY <1>1, <1>5, <3>1, <3>2
  <2>2. PICK r \in Replies : r = out[1]
    BY <2>1
  <2>3. History = Append(replies, r)
    BY <1>1, <2>1, <2>2, HistoryAppends DEF History
  <2>4. Joined(History, side) = Joined(replies, side) \o BodyIn(r, side)
    BY <1>1, <2>3, JoinedGrows
  <2>5. QED
    BY <1>2, <1>3, <2>1, <2>2, <2>4
<1>6. CASE Len(out) = 2
  <2>1. out[1] \in Replies /\ out[2] \in Replies /\ 1 \in DOMAIN out /\ 2 \in DOMAIN out
        /\ out = Append(<<out[1]>>, out[2])
    <3>1. \A s \in Seq(Replies) : Len(s) = 2 => s[1] \in Replies /\ s[2] \in Replies /\ DOMAIN s = 1..2
      OBVIOUS
    <3>2. \A s \in Seq(Replies) : Len(s) = 2 => s = <<s[1], s[2]>>
      OBVIOUS
    <3>3. \A q, r \in Replies : <<q, r>> = Append(<<q>>, r)
      OBVIOUS
    <3>4. QED
      BY <1>1, <1>6, <3>1, <3>2, <3>3
  <2>2. PICK q \in Replies, r \in Replies : q = out[1] /\ r = out[2]
    BY <2>1
  <2>3. PICK h \in Seq(Replies) : h = Append(replies, q)
    BY <1>1, AppendProperties
  <2>4. History = Append(h, r)
    <3>1. out = Append(<<q>>, r)
      BY <2>1, <2>2
    <3>2. replies \o Append(<<q>>, r) = Append(Append(replies, q), r)
      BY <1>1, HistoryAppends, Zenon
    <3>3. QED
      BY <2>3, <3>1, <3>2, Zenon DEF History
  <2>5. Joined(History, side) = (Joined(replies, side) \o BodyIn(q, side)) \o BodyIn(r, side)
    <3>1. Joined(History, side) = Joined(h, side) \o BodyIn(r, side)
      BY <2>4, JoinedGrows
    <3>2. Joined(h, side) = Joined(replies, side) \o BodyIn(q, side)
      BY <1>1, <2>3, JoinedGrows
    <3>3. QED
      BY <3>1, <3>2
  <2>6. Joined(History, side) = Joined(replies, side) \o (BodyIn(q, side) \o BodyIn(r, side))
    <3>1. \A u, v, w \in Bodies : (u \o v) \o w = u \o (v \o w)
      BY ConcatAssociative DEF Bodies
    <3>2. QED
      BY <1>2, <2>5, <3>1
  <2>7. BodyIn(q, side) \o BodyIn(r, side) \in Bodies
    BY <1>2, ConcatProperties DEF Bodies
  <2>8. (\A i \in DOMAIN out : ~IsBody(out[i], side)) => BodyIn(q, side) \o BodyIn(r, side) = <<>>
    BY <1>1, <1>3, <2>1, <2>2, NothingAdded
  <2>9. QED
    BY <2>6, <2>7, <2>8
<1>7. Len(out) \in {0, 1, 2}
  <2>1. PICK n \in Nat : n = Len(out) /\ n <= 2
    BY <1>1, LenProperties
  <2>2. n \in {0, 1, 2}
    BY <2>1
  <2>3. QED
    BY <2>1, <2>2
<1>8. QED
  BY <1>4, <1>5, <1>6, <1>7

(* A body comes back as it was, chunk for chunk and in order, whole if it    *)
(* was inspected; only a redaction replaces it, and then by one encoding of  *)
(* the whole (llm.go 22-26, 121-143, 218-236).                               *)
THEOREM BodyReturnsIntact == Spec => []BodyComesBackIntact
<1>1. LlmTypeOK /\ LlmInv /\ ReturnedInv => BodyComesBackIntact
  <2> SUFFICES ASSUME LlmTypeOK, LlmInv, ReturnedInv, NEW side \in Sides
               PROVE  \/ Returned(side) = <<Rewritten>> /\ Redacted(side)
                      \/ /\ Returned(side) = SubSeq(Whole(side), 1, Len(Returned(side)))
                         /\ Inspectable(side) => Returned(side) \in {<<>>, Whole(side)}
    BY DEF BodyComesBackIntact
  <2>0. Whole(side) \in Bodies /\ SubSeq(Whole(side), 1, 0) = <<>> /\ Len(<<>>) = 0
        /\ SubSeq(Whole(side), 1, Len(Whole(side))) = Whole(side)
    <3>1. \A S : \A s \in Seq(S) : SubSeq(s, 1, 0) = <<>> /\ SubSeq(s, 1, Len(s)) = s
      OBVIOUS
    <3>2. QED
      BY <3>1, WholeIs DEF Bodies
  <2>1. PICK v \in Bodies :
          /\ Joined(History, side) = Returned(side) \o v
          /\ (\A i \in DOMAIN out : ~IsBody(out[i], side)) => v = <<>>
    BY HistoryJoins DEF ReturnedInv, Returned
  <2>2. Returned(side) \in Bodies
    <3>1. replies \in Seq(Replies)
      BY DEF LlmTypeOK
    <3>2. QED
      BY <3>1, RepliesAre, JoinedGrows DEF Returned
  <2>3. CASE Inspectable(side) /\ \A i \in DOMAIN replies : ~IsBody(replies[i], side)
    <3>1. Returned(side) = <<>>
      BY <2>3, NothingJoined DEF Returned, LlmTypeOK
    <3>2. QED
      BY <2>0, <3>1
  <2>4. CASE Inspectable(side) /\ \E i \in DOMAIN replies : IsBody(replies[i], side)
    <3>1. PICK i \in DOMAIN replies : IsBody(replies[i], side)
      BY <2>4
    <3>2. i \in DOMAIN History /\ History[i] = replies[i] /\ i <= Len(replies)
      BY RepliesBegin
    <3>3. ASSUME NEW j \in DOMAIN out
          PROVE  ~IsBody(out[j], side)
      <4>1. j + Len(replies) \in DOMAIN History /\ History[j + Len(replies)] = out[j] /\ j + Len(replies) > i
        <5>1. replies \in Seq(Replies) /\ out \in Seq(Replies)
          BY DEF LlmTypeOK
        <5>2. \A s, t \in Seq(Replies) : \A k \in DOMAIN t :
                k + Len(s) \in DOMAIN (s \o t) /\ (s \o t)[k + Len(s)] = t[k] /\ k + Len(s) > Len(s)
          OBVIOUS
        <5>3. PICK k \in Nat : k = j + Len(replies) /\ k > Len(replies)
          BY <5>1
        <5>4. QED
          BY <3>2, <5>1, <5>2, RepliesBegin DEF History
      <4>2. IsBody(out[j], side) => History[i].eos
        BY <2>4, <3>1, <3>2 DEF LlmInv, HistoryInv, AllDue, Due, IsBody, Inspectable
      <4>3. IsBody(out[j], side) => j + Len(replies) <= i
        BY <3>1, <3>2, <4>1, <4>2 DEF LlmInv, HistoryInv, Ordered
      <4>4. j + Len(replies) \in Nat /\ i \in Nat
        BY <3>2, <4>1, RepliesBegin
      <4>5. QED
        BY <4>1, <4>3, <4>4
    <3>4. v = <<>>
      BY <2>1, <3>3
    <3>5. Joined(History, side) = Returned(side)
      BY <2>1, <2>2, <3>4, NothingAdded
    <3>6. \/ Returned(side) \in {<<>>, Whole(side)}
          \/ Returned(side) = <<Rewritten>> /\ Redacted(side)
      BY <2>4, <3>5 DEF ReturnedInv
    <3>7. QED
      BY <2>0, <3>6
  <2>5. CASE ~Inspectable(side)
    <3>1. side = "response" /\ ~ex.response.inspectable
      BY <2>5 DEF Inspectable, Sides
    <3>2. Returned(side) \o v = Chunks(Passed)
      BY <2>1, <3>1 DEF ReturnedInv
    <3>3. Passed \in Nat /\ Passed <= ex.response.chunks /\ ex.response.chunks \in Nat
      <4> DEFINE o == Offset("response")  n == ex.response.chunks
      <4>1. o \in Nat /\ n \in Nat /\ taken \in Nat
        BY Places
      <4>2. Passed = IF taken <= o + 1 THEN 0 ELSE IF taken > o + 1 + n THEN n ELSE taken - o - 1
        BY DEF Passed
      <4> HIDE DEF o, n
      <4>3. Passed \in Nat /\ Passed <= n
        BY <4>1, <4>2
      <4>4. QED
        BY <4>1, <4>3 DEF n
    <3>4. PICK p \in Nat, n \in Nat : p = Passed /\ n = ex.response.chunks /\ p <= n
      BY <3>3
    <3>5. Returned(side) \in Seq(Nat) /\ v \in Seq(Nat) /\ Returned(side) \o v = Chunks(p)
      <4>1. 0..MaxChunks \subseteq Nat
        OBVIOUS
      <4>2. \A s \in Bodies : s \in Seq(Nat)
        <5>1. \A S, T : S \subseteq T => \A s \in Seq(S) : s \in [1..Len(s) -> T] /\ Len(s) \in Nat
          OBVIOUS
        <5>2. \A T : \A k \in Nat : \A s \in [1..k -> T] : s \in Seq(T)
          OBVIOUS
        <5>3. QED
          BY <4>1, <5>1, <5>2 DEF Bodies
      <4>3. QED
        BY <2>1, <2>2, <3>2, <3>4, <4>2
    <3>6. \A s, t \in Seq(Nat) : s \o t = Chunks(p) => s = SubSeq(Chunks(n), 1, Len(s))
      <4>1. SUFFICES ASSUME NEW s \in Seq(Nat), NEW t \in Seq(Nat), s \o t = Chunks(p)
                     PROVE  s = SubSeq(Chunks(n), 1, Len(s))
        OBVIOUS
      <4>2. Len(s) + Len(t) = p /\ Len(s) \in Nat /\ Len(t) \in Nat
        <5>1. Len(s \o t) = Len(s) + Len(t) /\ Len(s) \in Nat /\ Len(t) \in Nat
          OBVIOUS
        <5>2. Len(Chunks(p)) = p
          BY DEF Chunks
        <5>3. QED
          BY <4>1, <5>1, <5>2
      <4>3. \A i \in 1..Len(s) : s[i] = i
        <5>1. \A i \in 1..Len(s) : (s \o t)[i] = s[i]
          OBVIOUS
        <5>2. \A i \in 1..p : Chunks(p)[i] = i
          BY DEF Chunks
        <5>3. \A i \in 1..Len(s) : i \in 1..p
          BY <4>2
        <5>4. QED
          BY <4>1, <5>1, <5>2, <5>3
      <4>4. \A i \in 1..Len(s) : i \in 1..n /\ Chunks(n)[i] = i
        BY <3>4, <4>2 DEF Chunks
      <4>5. SubSeq(Chunks(n), 1, Len(s)) = [i \in 1..Len(s) |-> i]
        <5>1. Chunks(n) \in Seq(Nat) /\ Len(Chunks(n)) = n
          BY ChunksGrow DEF Chunks
        <5>2. Len(s) \in 0..n
          BY <3>4, <4>2
        <5>3. \A c \in Seq(Nat) : \A k \in 0..Len(c) : SubSeq(c, 1, k) = [i \in 1..k |-> c[i]]
          OBVIOUS
        <5>4. SubSeq(Chunks(n), 1, Len(s)) = [i \in 1..Len(s) |-> Chunks(n)[i]]
          BY <5>1, <5>2, <5>3
        <5>5. QED
          BY <4>4, <5>4
      <4>6. s = [i \in 1..Len(s) |-> i]
        <5>1. s = [i \in 1..Len(s) |-> s[i]]
          OBVIOUS
        <5>2. QED
          BY <4>3, <5>1
      <4>7. QED
        BY <4>5, <4>6
    <3>7. Chunks(n) = Whole(side)
      BY <3>1, <3>4 DEF Chunks, Whole
    <3>8. Returned(side) = SubSeq(Whole(side), 1, Len(Returned(side)))
      BY <3>5, <3>6, <3>7
    <3>9. QED
      BY <2>5, <3>8
  <2>6. QED
    BY <2>3, <2>4, <2>5
<1>2. QED
  BY <1>1, LlmTypeCorrect, LlmInvHolds, ReturnedInvHolds, PTL
================================================================================
