----------------------------- MODULE MCAlgorithms ------------------------------
(***************************************************************************)
(* The sequential parts of the system side by side.  They share no state:  *)
(* a behaviour takes one of them through its inputs while the others stay  *)
(* at rest, so that the run is the sum of theirs and not the product.      *)
(***************************************************************************)
EXTENDS MCPolicyLoop, Registry, Dictionary, Spans, Checksums, EvalGate

VARIABLE subject     \* the part that runs

allVars == <<subject, loopVars, registryVars, dictionaryVars, spanVars, checksumVars, gateVars>>

PolicyAtRest == bundle = <<>> /\ in = <<>> /\ next = 0 /\ actions = <<>> /\ taints = FALSE /\ spans = <<>>
RegistryAtRest ==
    todo = <<>> /\ order = <<>> /\ outcome = <<>> /\ slot = <<>> /\ live = {} /\ registry = "building"
DictionaryAtRest ==
    /\ given = <<>> /\ terms = <<>> /\ nodes = {} /\ fail = <<>> /\ output = <<>>
    /\ queue = <<>> /\ phase = "adding" /\ text = <<>> /\ cur = <<>> /\ found = <<>>
SpansAtRest == detector = "pii" /\ matches = <<>>
ChecksumAtRest == kind = "card" /\ number = <<>> /\ copy = <<>>
GateAtRest == cases = <<>> /\ file = <<>> /\ exit = "none" /\ checked = FALSE /\ accepted = <<>>

Parts == {"policy", "registry", "dictionary", "spans", "checksums", "gate"}

AlgorithmsInit ==
    /\ subject \in Parts
    /\ IF subject = "policy" THEN LoopInit ELSE PolicyAtRest
    /\ IF subject = "registry" THEN RegistryInit ELSE RegistryAtRest
    /\ IF subject = "dictionary" THEN DictionaryInit ELSE DictionaryAtRest
    /\ IF subject = "spans" THEN SpansInit ELSE SpansAtRest
    /\ IF subject = "checksums" THEN ChecksumInit ELSE ChecksumAtRest
    /\ IF subject = "gate" THEN GateInit ELSE GateAtRest

(* Everything but the subject's own variables. *)
OthersRest ==
    /\ UNCHANGED subject
    /\ subject # "policy" => UNCHANGED loopVars
    /\ subject # "registry" => UNCHANGED registryVars
    /\ subject # "dictionary" => UNCHANGED dictionaryVars
    /\ subject # "spans" => UNCHANGED spanVars
    /\ subject # "checksums" => UNCHANGED checksumVars
    /\ subject # "gate" => UNCHANGED gateVars

AlgorithmsNext ==
    \/ subject = "policy" /\ LoopRule /\ OthersRest
    \/ subject = "registry" /\ RegistryNext /\ OthersRest
    \/ subject = "dictionary" /\ DictionaryNext /\ OthersRest
    \/ subject = "spans" /\ SpansNext /\ OthersRest
    \/ subject = "checksums" /\ ChecksumNext /\ OthersRest
    \/ subject = "gate" /\ GateNext /\ OthersRest

AlgorithmsSpec == AlgorithmsInit /\ [][AlgorithmsNext]_allVars

----------------------------------------------------------------------------

(* Registry: up to three detectors, one of them registered twice or not. *)
MCNames == {"pii", "secrets", "injection"}
MCLists == UNION {[1..n -> MCNames] : n \in 0..3}

(* Terms that contain, end and repeat one another, in either case. *)
MCTerms ==
    {<<>>, <<"a">>, <<"b">>, <<"B", "a">>, <<"b", "b">>, <<"a", "b", "b">>, <<"a", "a", "b">>,
     <<"b", "a", "b">>}
MCDictionaries == UNION {[1..n -> MCTerms] : n \in 0..2}
    \cup {s \in [1..3 -> MCTerms \ {<<>>}] : s[1] = <<"a", "b", "b">>}
MCAlphabet == {"a", "b", "A"}

MCTypesOf ==
    [pii |-> <<"aadhaar", "email", "ifsc", "bank_account">>,
     secrets |-> <<"aws_key", "openai_key", "high_entropy">>,
     custom_dict |-> <<"custom_term">>]
MCDetectors == {"pii", "secrets", "custom_dict"}
MCBacked == {"aadhaar", "high_entropy"}

(* Every pair of neighbours in a scheme, at every position and in each order. *)
Alternating(n, vs) ==
    {[i \in 1..n |-> IF i % 2 = 1 THEN a ELSE b] : a \in vs, b \in vs}
MCPatterns ==
    [aadhaar |-> Alternating(11, 0..9), card |-> Alternating(15, 0..9),
     gstin |-> Alternating(14, {0, 1, 9, 17, 18, 35})]
MCKinds == {"aadhaar", "card", "gstin"}

(* Cases of two ids, one repeated id, and labels of two detectors. *)
Email == [detector |-> "pii", type |-> "email"]
Card == [detector |-> "pii", type |-> "card"]
Key == [detector |-> "secrets", type |-> "aws_key"]
Cases(id) ==
    [id : {id}, expect : {{}, {Email}, {Email, Key}},
     produced : {{}, {Email}, {Card}, {Key}, {Email, Key}}]
SmallCorpora ==
    {<<>>} \cup {<<c>> : c \in Cases(1)} \cup {<<c, d>> : c \in Cases(1), d \in Cases(2)}
    \cup {<<c, c>> : c \in Cases(1)}

(* Twenty cases that each hold the ten types of pii.go: among 200 labels the *)
(* tolerance is worth one.  n of them are missed, all in one case.           *)
PiiTypes ==
    <<"aadhaar", "card", "gstin", "pan", "passport", "mobile", "email", "upi", "ifsc", "account">>
PiiLabels(from) == {[detector |-> "pii", type |-> PiiTypes[k]] : k \in from..10}
LargeCorpus(n) ==
    [i \in 1..20 |-> [id |-> i, expect |-> PiiLabels(1),
                      produced |-> PiiLabels(IF i = 1 THEN n + 1 ELSE 1)]]

MCCorpora == SmallCorpora \cup {LargeCorpus(n) : n \in 0..3}
===============================================================================
