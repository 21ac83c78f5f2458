------------------------------ MODULE Dictionary -------------------------------
(***************************************************************************)
(* The automaton behind custom_dict (ahocorasick.go): terms are added to a *)
(* trie, failure links are wired breadth-first, and a text is read byte by *)
(* byte.  A node is named by the bytes that lead to it, the root by <<>>.  *)
(* Go ranges over a map in any order, so the children of a node are queued *)
(* in any order.                                                           *)
(***************************************************************************)
EXTENDS Integers, SequencesExt

CONSTANTS Dictionaries,   \* the lists of terms considered
          Alphabet,       \* the bytes of the texts
          MaxText         \* bound on the length of a text

(* Dictionaries are lists of words. *)
ASSUME DictionaryAssumption ==
    \A d \in Dictionaries : d \in Seq(ToSet(d)) /\ \A i \in DOMAIN d : d[i] \in Seq(ToSet(d[i]))

VARIABLES given,          \* the terms newAhoCorasick has still to look at
          terms,          \* ahoCorasick.terms
          nodes,          \* the trie
          fail, output,   \* acNode.fail and acNode.output
          queue,          \* build's queue
          phase,          \* "adding", "wiring", "reading"
          text,           \* what find has read
          cur,            \* the node find is in
          found           \* find's result: [start, end, term]

dictionaryVars == <<given, terms, nodes, fail, output, queue, phase, text, cur, found>>

LowerByte(c) == CASE c = "A" -> "a" [] c = "B" -> "b" [] OTHER -> c
Lower(s) == [i \in DOMAIN s |-> LowerByte(s[i])]

Children(node) == {n \in nodes : n # <<>> /\ Front(n) = node}

DictionaryInit ==
    /\ given \in Dictionaries /\ terms = <<>>
    /\ nodes = {<<>>} /\ fail = [n \in {<<>>} |-> <<>>] /\ output = [n \in {<<>>} |-> <<>>]
    /\ queue = <<>> /\ phase = "adding"
    /\ text = <<>> /\ cur = <<>> /\ found = <<>>

(* newAhoCorasick's loop: the empty term is skipped, the others added. *)
AddTerm ==
    /\ phase = "adding" /\ given # <<>> /\ given' = Tail(given)
    /\ LET term == Lower(Head(given))
       IN  IF term = <<>> THEN UNCHANGED <<terms, nodes, fail, output>>
           ELSE /\ terms' = Append(terms, term)
                /\ nodes' = nodes \cup Prefixes(term)
                /\ fail' = [n \in nodes' |-> <<>>]
                /\ output' = [n \in nodes' |->
                      (IF n \in nodes THEN output[n] ELSE <<>>)
                      \o (IF n = term THEN <<Len(terms')>> ELSE <<>>)]
    /\ UNCHANGED <<queue, phase, text, cur, found>>

StartWiring ==
    /\ phase = "adding" /\ given = <<>> /\ phase' = "wiring"
    /\ queue' \in SetToSeqs(Children(<<>>))
    /\ UNCHANGED <<given, terms, nodes, fail, output, text, cur, found>>

(* Along the failure links from a node to one with a child c, or the root. *)
Walk(from, c) ==
    LET walk[n \in nodes] == IF n = <<>> \/ Append(n, c) \in nodes THEN n ELSE walk[fail[n]]
    IN  walk[from]

FailOf(node) ==
    LET c == Last(node)
        next == Append(Walk(fail[Front(node)], c), c)
    IN  IF next \in nodes /\ next # node THEN next ELSE <<>>

(* Mutant: the queue is used as a stack. *)
Wire_DepthFirst ==
    /\ phase = "wiring" /\ queue # <<>>
    /\ LET children == Children(Head(queue))
       IN  /\ fail' = [n \in nodes |-> IF n \in children THEN FailOf(n) ELSE fail[n]]
           /\ output' = [n \in nodes |-> IF n \in children THEN output[n] \o output[FailOf(n)]
                                         ELSE output[n]]
           /\ \E cs \in SetToSeqs(children) : queue' = cs \o Tail(queue)
    /\ UNCHANGED <<given, terms, nodes, phase, text, cur, found>>

(* One node leaves the queue and its children are wired. *)
Wire ==
    /\ phase = "wiring" /\ queue # <<>>
    /\ LET children == Children(Head(queue))
       IN  /\ fail' = [n \in nodes |-> IF n \in children THEN FailOf(n) ELSE fail[n]]
           /\ output' = [n \in nodes |-> IF n \in children THEN output[n] \o output[FailOf(n)]
                                         ELSE output[n]]
           /\ \E cs \in SetToSeqs(children) : queue' = Tail(queue) \o cs
    /\ UNCHANGED <<given, terms, nodes, phase, text, cur, found>>

(* build returns; find is called, and with no terms returns at once. *)
StartReading ==
    /\ phase = "wiring" /\ queue = <<>>
    /\ phase' = IF terms = <<>> THEN "returned" ELSE "reading"
    /\ UNCHANGED <<given, terms, nodes, fail, output, queue, text, cur, found>>

(* find's loop on one byte of the text. *)
ReadByte(b) ==
    /\ phase = "reading" /\ Len(text) < MaxText
    /\ text' = Append(text, b)
    /\ LET c == LowerByte(b)
           next == Append(Walk(cur, c), c)
       IN  cur' = IF next \in nodes THEN next ELSE <<>>
    /\ found' = found \o [i \in DOMAIN output[cur'] |->
                   LET t == output[cur'][i]
                   IN  [start |-> Len(text') - Len(terms[t]), end |-> Len(text'), term |-> t]]
    /\ UNCHANGED <<given, terms, nodes, fail, output, queue, phase>>

DictionaryNext ==
    \/ AddTerm \/ StartWiring \/ Wire \/ StartReading
    \/ \E b \in Alphabet : ReadByte(b)

DictionarySpec == DictionaryInit /\ [][DictionaryNext]_dictionaryVars

----------------------------------------------------------------------------

(* Where the terms are in the text, whatever the automaton says. *)
Occurrences ==
    {o \in [start : 0..Len(text), end : 0..Len(text), term : DOMAIN terms] :
        /\ o.end = o.start + Len(terms[o.term])
        /\ Lower(SubSeq(text, o.start + 1, o.end)) = terms[o.term]}

(* However long the terms, whichever contain, end or repeat one another, and *)
(* in whatever order the map yields a node's children: find reports every    *)
(* occurrence of every term exactly once, in order of end offset, in any     *)
(* case (ahocorasick.go 3-5 and 81).                                         *)
FindsEveryOccurrence ==
    phase \in {"reading", "returned"} =>
        /\ ToSet(found) = Occurrences
        /\ \A i, j \in DOMAIN found : i < j => found[i] # found[j] /\ found[i].end <= found[j].end
===============================================================================
