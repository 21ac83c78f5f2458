--------------------------- MODULE AlgorithmProofs ---------------------------
(***************************************************************************)
(* Theorems about the parts that MCAlgorithms checks, and about the store: *)
(* the in-memory store keeps the Store interface's promise, the evaluation *)
(* gate keeps the cases that passed and loses little of the others, the    *)
(* policy evaluator's loop computes one decision whatever the order of     *)
(* findings and rules, the registry reports as if the detectors had run in *)
(* turn, the Aho-Corasick automaton reports exactly the terms that occur,  *)
(* what is dropped of the matches of patterns is covered by what is kept,  *)
(* and the check digits catch every single mistake.  For every size of the *)
(* inputs and all values of the constants.                                 *)
(***************************************************************************)
EXTENDS MemoryStore, PolicyLoop, EvalGate, Registry, Dictionary, Spans, Checksums,
        PolicyProofs, LoopProofs

----------------------------------------------------------------------------
(* The in-memory session store: MemorySpec implements SessionService.      *)

LEMMA ExpiryIsATime ==
    ASSUME MemoryTypeOK
    PROVE  Expiry \in Nat
BY MemoryAssumption DEF MemoryTypeOK, Expiry, Zero

(* Every entry is absent, without expiry, or a time the clock can reach.      *)
THEOREM MemoryTyped == MemorySpec => []MemoryTypeOK
<1>1. MemoryInit => MemoryTypeOK
  BY DEF MemoryInit, MemoryTypeOK, Absent
<1>2. MemoryTypeOK /\ [MemoryNext]_memoryVars => MemoryTypeOK'
  <2> SUFFICES ASSUME MemoryTypeOK, [MemoryNext]_memoryVars
               PROVE  MemoryTypeOK'
    OBVIOUS
  <2> USE DEF MemoryTypeOK
  <2>1. ASSUME NEW s \in Sessions, MemTainted(s) \/ MemTaint(s)
        PROVE  MemoryTypeOK'
    BY <2>1, ExpiryIsATime DEF MemTainted, MemTaint
  <2>2. ASSUME NEW k \in Keys, MemToolPin(k) \/ MemToolBlocked(k) \/ MemBlockTool(k)
        PROVE  MemoryTypeOK'
    BY <2>2, ExpiryIsATime DEF MemToolPin, MemToolBlocked, MemBlockTool, Absent
  <2>3. ASSUME NEW k \in Keys, NEW hash \in Hashes, MemPinTool(k, hash)
        PROVE  MemoryTypeOK'
    BY <2>3, ExpiryIsATime DEF MemPinTool
  <2>4. CASE ClockTick
    BY <2>4 DEF ClockTick
  <2>5. CASE UNCHANGED memoryVars
    BY <2>5 DEF memoryVars
  <2>6. QED
    BY <2>1, <2>2, <2>3, <2>4, <2>5 DEF MemoryNext
<1>3. QED
  BY <1>1, <1>2, PTL DEF MemorySpec

----------------------------------------------------------------------------
(* Entries and what they stand for.                                        *)

LEMMA LiveIsAlive ==
    ASSUME MemoryTypeOK, NEW e \in Nat \cup {Gone}
    PROVE  Live(e) = (LifeLeft(e) # 0)
BY DEF MemoryTypeOK, Live, LifeLeft, Zero, Gone

LEMMA FreshLife ==
    ASSUME MemoryTypeOK
    PROVE  LifeLeft(Expiry) = Service!Lifetime
BY MemoryAssumption DEF MemoryTypeOK, Live, LifeLeft, Expiry, Zero, Gone,
   Service!Lifetime, Service!Forever

LEMMA DeletedLife ==
    ASSUME NEW e
    PROVE  LifeLeft(IF Live(e) THEN e ELSE Gone) = LifeLeft(e)
BY DEF LifeLeft, Live

LEMMA TickedLife ==
    ASSUME MemoryTypeOK, now' = now + 1, NEW e \in Nat \cup {Gone}
    PROVE  /\ LifeLeft(e)' = Service!Older(LifeLeft(e))
           /\ Live(e)' <=> Live(e) /\ LifeLeft(e) # 1
BY DEF MemoryTypeOK, LifeLeft, Live, Zero, Gone, Service!Older

----------------------------------------------------------------------------
(* Every step is the abstract one, or a deletion nobody sees.              *)

LEMMA Simulates == MemoryTypeOK /\ [MemoryNext]_memoryVars
                     => [Service!ServiceNext]_(Service!serviceVars)
<1> SUFFICES ASSUME MemoryTypeOK, [MemoryNext]_memoryVars
             PROVE  Service!ServiceNext \/ UNCHANGED Service!serviceVars
  OBVIOUS
<1> USE DEF Service!storeVars, Service!serviceVars
<1>0. /\ taintEntry \in [Sessions -> Nat \cup {Gone}]
      /\ pinEntry \in [Keys -> [value : Hashes \cup {NoHash}, expiresAt : Nat \cup {Gone}]]
      /\ blockedEntry \in [Keys -> Nat \cup {Gone}]
  BY DEF MemoryTypeOK
<1>1. ASSUME NEW s \in Sessions, MemTainted(s)
      PROVE  Service!AskTainted(s)
  <2>1. UNCHANGED <<taintMark, pinMark, blockedMark>>
    BY <1>0, <1>1, DeletedLife DEF MemTainted, taintMark, pinMark, blockedMark, LifeLeft, Live
  <2>2. Live(taintEntry[s]) = Service!Tainted(s)
    BY <1>0, LiveIsAlive DEF Service!Tainted, Service!Alive, taintMark
  <2>3. QED
    BY <1>1, <2>1, <2>2 DEF MemTainted, Service!AskTainted
<1>2. ASSUME NEW s \in Sessions, MemTaint(s)
      PROVE  Service!DoTaint(s)
  <2>1. taintMark' = [taintMark EXCEPT ![s] = Service!Lifetime]
    BY <1>0, <1>2, FreshLife DEF MemTaint, taintMark, LifeLeft, Live
  <2>2. UNCHANGED <<pinMark, blockedMark>>
    BY <1>2 DEF MemTaint, pinMark, blockedMark, LifeLeft, Live
  <2>3. QED
    BY <1>2, <2>1, <2>2 DEF MemTaint, Service!DoTaint, Service!Taint
<1>3. ASSUME NEW k \in Keys, MemToolPin(k)
      PROVE  Service!AskToolPin(k)
  <2>1. UNCHANGED <<taintMark, pinMark, blockedMark>>
    BY <1>0, <1>3 DEF MemToolPin, taintMark, pinMark, blockedMark, LifeLeft, Live, Absent, Gone
  <2>2. (IF Live(pinEntry[k].expiresAt) THEN pinEntry[k].value ELSE NoHash) = Service!ToolPin(k)
    BY DEF Service!ToolPin, pinMark
  <2>3. QED
    BY <1>3, <2>1, <2>2 DEF MemToolPin, Service!AskToolPin
<1>4. ASSUME NEW k \in Keys, NEW hash \in Hashes, MemPinTool(k, hash)
      PROVE  Service!DoPinTool(k, hash)
  <2>1. Live(Expiry)
    BY MemoryAssumption DEF MemoryTypeOK, Live, Expiry, Zero, Gone
  <2>2. pinMark' = [pinMark EXCEPT ![k] = [hash |-> hash, left |-> Service!Lifetime]]
    BY <1>0, <1>4, <2>1, FreshLife DEF MemPinTool, pinMark, LifeLeft, Live
  <2>3. UNCHANGED <<taintMark, blockedMark>>
    BY <1>4 DEF MemPinTool, taintMark, blockedMark, LifeLeft, Live
  <2>4. QED
    BY <1>4, <2>2, <2>3 DEF MemPinTool, Service!DoPinTool, Service!PinTool
<1>5. ASSUME NEW k \in Keys, MemToolBlocked(k)
      PROVE  Service!AskToolBlocked(k)
  <2>1. UNCHANGED <<taintMark, pinMark, blockedMark>>
    BY <1>0, <1>5, DeletedLife DEF MemToolBlocked, taintMark, pinMark, blockedMark, LifeLeft, Live
  <2>2. Live(blockedEntry[k]) = Service!ToolBlocked(k)
    BY <1>0, LiveIsAlive DEF Service!ToolBlocked, Service!Alive, blockedMark
  <2>3. QED
    BY <1>5, <2>1, <2>2 DEF MemToolBlocked, Service!AskToolBlocked
<1>6. ASSUME NEW k \in Keys, MemBlockTool(k)
      PROVE  Service!DoBlockTool(k)
  <2>1. blockedMark' = [blockedMark EXCEPT ![k] = Service!Lifetime]
    BY <1>0, <1>6, FreshLife DEF MemBlockTool, blockedMark, LifeLeft, Live
  <2>2. UNCHANGED <<taintMark, pinMark>>
    BY <1>6 DEF MemBlockTool, taintMark, pinMark, LifeLeft, Live
  <2>3. QED
    BY <1>6, <2>1, <2>2 DEF MemBlockTool, Service!DoBlockTool, Service!BlockTool
<1>7. CASE ClockTick
  <2>1. now' = now + 1 /\ UNCHANGED <<taintEntry, pinEntry, blockedEntry, ret>>
    BY <1>7 DEF ClockTick
  <2>2. taintMark' = [s \in Sessions |-> Service!Older(taintMark[s])]
    BY <1>0, <2>1, TickedLife DEF taintMark
  <2>3. blockedMark' = [k \in Keys |-> Service!Older(blockedMark[k])]
    BY <1>0, <2>1, TickedLife DEF blockedMark
  <2>4. ASSUME NEW k \in Keys
        PROVE  pinMark'[k] = Service!OlderPin(pinMark[k])
    <3> DEFINE e == pinEntry[k].expiresAt
    <3>1. e \in Nat \cup {Gone}
      BY <1>0
    <3>2. /\ LifeLeft(e)' = Service!Older(LifeLeft(e))
          /\ Live(e)' <=> Live(e) /\ LifeLeft(e) # 1
          /\ ~Live(e) => LifeLeft(e) = 0
      BY <2>1, <3>1, TickedLife, LiveIsAlive
    <3>3. pinMark[k] = [hash |-> IF Live(e) THEN pinEntry[k].value ELSE NoHash, left |-> LifeLeft(e)]
      BY DEF pinMark
    <3>4. pinMark'[k] = [hash |-> IF Live(e)' THEN pinEntry[k].value ELSE NoHash, left |-> LifeLeft(e)']
      BY <2>1 DEF pinMark
    <3> HIDE DEF e
    <3>5. QED
      BY <3>2, <3>3, <3>4 DEF Service!OlderPin, Service!NoPin, Service!Older
  <2>5. pinMark' = [k \in Keys |-> Service!OlderPin(pinMark[k])]
    BY <2>4 DEF pinMark
  <2>6. QED
    BY <2>1, <2>2, <2>3, <2>5 DEF Service!ServiceNext, Service!TimePasses, Service!TickStore, Service!Keys, Keys
<1>8. CASE UNCHANGED memoryVars
  BY <1>8 DEF memoryVars, taintMark, pinMark, blockedMark, LifeLeft, Live
<1>9. QED
  BY <1>1, <1>2, <1>3, <1>4, <1>5, <1>6, <1>7, <1>8 DEF MemoryNext, Service!ServiceNext,
     Service!Keys, Keys

(* Whatever the TTL, each answer of the in-memory store is the one the       *)
(* Store interface promises: lazy deletion and the clock are invisible.      *)
THEOREM MemoryKeepsPromise == MemorySpec => KeepsStorePromise
<1>1. MemoryInit => Service!ServiceInit
  <2> SUFFICES ASSUME MemoryInit PROVE Service!ServiceInit
    OBVIOUS
  <2>1. ~Live(Gone) /\ LifeLeft(Gone) = 0
    BY DEF Live, LifeLeft
  <2>2. /\ taintMark = [s \in Sessions |-> 0] /\ blockedMark = [k \in Keys |-> 0]
        /\ pinMark = [k \in Keys |-> [hash |-> NoHash, left |-> 0]]
    BY <2>1 DEF MemoryInit, Absent, taintMark, pinMark, blockedMark
  <2>3. QED
    BY <2>2 DEF MemoryInit, Service!ServiceInit, Service!EmptyStore, Service!NoPin,
       Service!NoAnswer, Service!Keys, Keys
<1>2. QED
  BY <1>1, MemoryTyped, Simulates, PTL DEF MemorySpec, KeepsStorePromise, Service!ServiceSpec

----------------------------------------------------------------------------
(* Lists of cases.                                                         *)

LEMMA CorporaAreLists ==
    ASSUME NEW cs \in Corpora
    PROVE  /\ Len(cs) \in Nat /\ DOMAIN cs = 1..Len(cs)
           /\ ToSet(cs) = {cs[i] : i \in 1..Len(cs)}
           /\ Ids(cs) = {cs[i].id : i \in 1..Len(cs)}
<1>1. cs \in Seq(ToSet(cs))
  BY GateAssumption
<1>2. Len(cs) \in Nat /\ DOMAIN cs = 1..Len(cs)
  BY <1>1
<1>3. ToSet(cs) = {cs[i] : i \in 1..Len(cs)}
  BY <1>2 DEF ToSet
<1>4. QED
  BY <1>2, <1>3 DEF Ids

LEMMA SummaryFields ==
    ASSUME NEW cs
    PROVE  /\ Summarize(cs).cases = Len(cs)
           /\ Summarize(cs).perCase =
                [id \in Ids(cs) |-> \A c \in ToSet(cs) : c.id = id => Pass(c)]
<1> DEFINE failing == {c.id : c \in {d \in ToSet(cs) : ~Pass(d)}}
<1>1. Summarize(cs).cases = Len(cs) /\ Summarize(cs).perCase = [id \in Ids(cs) |-> id \notin failing]
  BY DEF Summarize
<1>2. \A id : id \notin failing <=> \A c \in ToSet(cs) : c.id = id => Pass(c)
  OBVIOUS
<1> HIDE DEF failing
<1>3. QED
  BY <1>1, <1>2

(* As many ids as cases: each case has one of its own. *)
LEMMA OneCasePerId ==
    ASSUME NEW cs \in Corpora, Loads(cs), NEW i \in DOMAIN cs, NEW j \in DOMAIN cs,
           cs[i].id = cs[j].id
    PROVE  i = j
<1> DEFINE n == Len(cs)
           f == [k \in 1..n |-> cs[k].id]
<1>1. n \in Nat /\ DOMAIN cs = 1..n /\ Ids(cs) = {cs[k].id : k \in 1..n}
  BY CorporaAreLists
<1>2. IsFiniteSet(1..n) /\ Cardinality(1..n) = n
  <2>1. 1 \in Int /\ n \in Int
    BY <1>1
  <2> HIDE DEF n
  <2>2. IsFiniteSet(1..n) /\ Cardinality(1..n) = IF 1 > n THEN 0 ELSE n - 1 + 1
    BY <2>1, FS_Interval
  <2>3. QED
    BY <1>1, <2>2
<1>3. f \in Surjection(1..n, Ids(cs))
  BY <1>1 DEF Surjection
<1>4. Cardinality(Ids(cs)) = n
  BY DEF Loads
<1>5. f \in Injection(1..n, Ids(cs))
  BY <1>2, <1>3, <1>4, FS_Surjection
<1>6. QED
  BY <1>1, <1>5 DEF Injection, IsInjective

(* In a list that loads, an id names one case. *)
LEMMA CaseIsUnique ==
    ASSUME NEW cs \in Corpora, Loads(cs), NEW id \in Ids(cs)
    PROVE  /\ CaseOf(cs, id) \in ToSet(cs) /\ CaseOf(cs, id).id = id
           /\ \A c \in ToSet(cs) : c.id = id => c = CaseOf(cs, id)
<1>1. CaseOf(cs, id) \in ToSet(cs) /\ CaseOf(cs, id).id = id
  BY DEF CaseOf, Ids
<1>2. ASSUME NEW c \in ToSet(cs), c.id = id
      PROVE  c = CaseOf(cs, id)
  <2>1. PICK i \in DOMAIN cs : c = cs[i]
    BY DEF ToSet
  <2>2. PICK j \in DOMAIN cs : CaseOf(cs, id) = cs[j]
    BY <1>1 DEF ToSet
  <2>3. i = j
    BY <1>1, <1>2, <2>1, <2>2, OneCasePerId
  <2>4. QED
    BY <2>1, <2>2, <2>3
<1>3. QED
  BY <1>1, <1>2

(* The number of ids and the number of cases are the same thing then, so a   *)
(* list as long as another that has all its ids has no id besides.           *)
LEMMA SameLengthSameIds ==
    ASSUME NEW old \in Corpora, NEW new \in Corpora, Loads(old), Loads(new),
           Len(old) = Len(new), Ids(old) \subseteq Ids(new)
    PROVE  Ids(old) = Ids(new)
<1> DEFINE n == Len(new)
           f == [i \in 1..n |-> new[i].id]
           g == [i \in 1..n |-> old[i].id]
<1>1. /\ n \in Nat /\ DOMAIN new = 1..n /\ DOMAIN old = 1..n
      /\ Ids(new) = {new[i].id : i \in 1..n} /\ Ids(old) = {old[i].id : i \in 1..n}
  BY CorporaAreLists
<1>2. IsFiniteSet(1..n)
  BY <1>1, FS_Interval
<1>3. f \in Surjection(1..n, Ids(new)) /\ f \in Injection(1..n, Ids(new))
  BY <1>1, OneCasePerId DEF Surjection, Injection, IsInjective
<1>4. IsFiniteSet(Ids(new)) /\ Cardinality(Ids(new)) = Cardinality(1..n)
  BY <1>2, <1>3, FS_Surjection
<1>5. g \in Injection(1..n, Ids(new))
  BY <1>1, OneCasePerId DEF Injection, IsInjective
<1>6. g \in Surjection(1..n, Ids(new))
  BY <1>4, <1>5, FS_Injection
<1>7. Ids(new) \subseteq Ids(old)
  BY <1>1, <1>6 DEF Surjection
<1>8. QED
  BY <1>7

----------------------------------------------------------------------------
(* The baseline of this detector set is the summary of the cases it was    *)
(* written for, and a run that passed compared with it.                    *)

GateInv ==
    /\ cases \in Corpora
    /\ Subset \in DOMAIN file =>
         accepted \in Corpora /\ Loads(accepted) /\ file[Subset] = Summarize(accepted)
    /\ GatePassed =>
         Loads(cases) /\ Subset \in DOMAIN file /\ Check(Summarize(cases), file[Subset])

LEMMA GateInvInit == GateInit => GateInv
<1> SUFFICES ASSUME GateInit PROVE GateInv
  OBVIOUS
<1>1. Subset \notin DOMAIN file
  BY GateAssumption DEF GateInit
<1>2. QED
  BY <1>1 DEF GateInit, GateInv, GatePassed

LEMMA GateInvNext == GateInv /\ [GateNext]_gateVars => GateInv'
<1> SUFFICES ASSUME GateInv, [GateNext]_gateVars
             PROVE  GateInv'
  OBVIOUS
<1>1. CASE Change
  BY <1>1 DEF Change, GateInv, GatePassed
<1>2. ASSUME NEW write \in BOOLEAN, NEW check \in BOOLEAN, RunEval(write, check)
      PROVE  GateInv'
  <2> DEFINE new == [s \in DOMAIN file \cup {Subset} |->
                       IF s = Subset THEN Summarize(cases) ELSE file[s]]
  <2>1. /\ cases' = cases /\ checked' = check
        /\ file' = (IF write /\ Loads(cases) THEN new ELSE file)
        /\ accepted' = IF write /\ Loads(cases) THEN cases ELSE accepted
        /\ exit' = "ok" /\ check =>
             Loads(cases) /\ Subset \in DOMAIN file' /\ Check(Summarize(cases), file'[Subset])
    BY <1>2 DEF RunEval
  <2>2. Subset \in DOMAIN file' =>
          accepted' \in Corpora /\ Loads(accepted') /\ file'[Subset] = Summarize(accepted')
    <3>1. CASE write /\ Loads(cases)
      BY <2>1, <3>1 DEF GateInv
    <3>2. CASE ~(write /\ Loads(cases))
      BY <2>1, <3>2 DEF GateInv
    <3>3. QED
      BY <3>1, <3>2
  <2>3. QED
    BY <2>1, <2>2 DEF GateInv, GatePassed
<1>3. CASE UNCHANGED gateVars
  BY <1>3 DEF gateVars, GateInv, GatePassed
<1>4. QED
  BY <1>1, <1>2, <1>3 DEF GateNext

(* When the comparison with the baseline passes, the cases are those of the  *)
(* baseline, one under each id, and each that passed then passes now.        *)
THEOREM GateKeepsPassingCases == GateSpec => []PassKeepsPassingCases
<1>1. GateInv => PassKeepsPassingCases
  <2> SUFFICES ASSUME GateInv, GatePassed
               PROVE  /\ accepted # <<>> /\ Len(cases) = Len(accepted) /\ Ids(cases) = Ids(accepted)
                      /\ \A id \in Ids(accepted) : Pass(CaseOf(accepted, id)) => Pass(CaseOf(cases, id))
    BY DEF PassKeepsPassingCases
  <2>1. /\ cases \in Corpora /\ accepted \in Corpora /\ Loads(cases) /\ Loads(accepted)
        /\ Check(Summarize(cases), Summarize(accepted))
    BY DEF GateInv
  <2>2. Len(cases) = Len(accepted) /\ CasesHold(Summarize(cases), Summarize(accepted))
    BY <2>1, SummaryFields DEF Check
  <2>3. \A id \in Ids(accepted) :
          /\ id \in Ids(cases)
          /\ (\A c \in ToSet(accepted) : c.id = id => Pass(c))
               => \A c \in ToSet(cases) : c.id = id => Pass(c)
    <3> DEFINE a == Summarize(cases).perCase
               b == Summarize(accepted).perCase
    <3>1. /\ a = [id \in Ids(cases) |-> \A c \in ToSet(cases) : c.id = id => Pass(c)]
          /\ b = [id \in Ids(accepted) |-> \A c \in ToSet(accepted) : c.id = id => Pass(c)]
      BY SummaryFields
    <3>2. \A id \in DOMAIN b : id \in DOMAIN a /\ (b[id] => a[id])
      BY <2>2 DEF CasesHold
    <3> HIDE DEF a, b
    <3>3. QED
      BY <3>1, <3>2
  <2>4. Ids(cases) = Ids(accepted)
    BY <2>1, <2>2, <2>3, SameLengthSameIds
  <2>5. ASSUME NEW id \in Ids(accepted), Pass(CaseOf(accepted, id))
        PROVE  Pass(CaseOf(cases, id))
    <3>1. \A c \in ToSet(accepted) : c.id = id => Pass(c)
      BY <2>1, <2>5, CaseIsUnique
    <3>2. QED
      BY <2>1, <2>3, <3>1, CaseIsUnique
  <2>6. QED
    BY <2>1, <2>2, <2>4, <2>5 DEF Loads
<1>2. QED
  BY <1>1, GateInvInit, GateInvNext, PTL DEF GateSpec

----------------------------------------------------------------------------
(* The policy evaluator.                                                   *)

(* A set written out as a sequence has the same elements. *)
LEMMA SequenceOfASet ==
    ASSUME NEW S, IsFiniteSet(S)
    PROVE  SetToSeq(S) \in Seq(S) /\ ToSet(SetToSeq(S)) = S
<1> DEFINE n == Cardinality(S)
           s == SetToSeq(S)
<1>1. n \in Nat /\ \E f \in [1..n -> S] : IsInjective(f)
  <2>1. n \in Nat /\ ExistsBijection(1..n, S)
    BY FS_CardinalityType
  <2>2. PICK f : f \in Bijection(1..n, S)
    BY <2>1 DEF ExistsBijection
  <2>3. f \in [1..n -> S] /\ IsInjective(f)
    BY <2>2 DEF Bijection, Injection
  <2>4. QED
    BY <2>1, <2>3
<1>2. s \in [1..n -> S] /\ IsInjective(s)
  BY <1>1 DEF SetToSeq
<1>3. s \in Injection(1..n, S) /\ Cardinality(1..n) = n
  BY <1>1, <1>2, FS_Interval DEF Injection
<1>4. s \in Surjection(1..n, S)
  BY <1>3, FS_Injection
<1> HIDE DEF s
<1>5. DOMAIN s = 1..n /\ \A x \in S : \E i \in 1..n : s[i] = x
  BY <1>4 DEF Surjection
<1>6. ToSet(s) = S
  BY <1>2, <1>5 DEF ToSet
<1>7. s \in Seq(S)
  BY <1>1, <1>2, SeqDef
<1>8. QED
  BY <1>6, <1>7 DEF s

Worse(worst, a) == IF Severity(a) > Severity(worst) THEN a ELSE worst

(* What is kept while one goes through some actions is the worst of them. *)
LEMMA KeepingTheWorst ==
    ASSUME NEW n \in Nat, NEW as, NEW kept,
           kept[0] = "allow", \A i \in 1..n : kept[i] = Worse(kept[i - 1], as[i])
    PROVE  kept[n] = MostSevere({as[i] : i \in 1..n})
<1> DEFINE Upto(i) == {as[j] : j \in 1..i} \cup {"allow"}
           Good == {i \in 0..n : /\ kept[i] \in Upto(i)
                                 /\ \A b \in Upto(i) : Severity(b) <= Severity(kept[i])}
<1>1. \A a : Severity(a) \in Int
  BY DEF Severity
<1>2. 0 \in Good
  <2>1. Upto(0) = {"allow"} /\ 0 \in 0..n
    OBVIOUS
  <2>2. Severity("allow") <= Severity("allow")
    BY <1>1
  <2> HIDE DEF Upto
  <2>3. QED
    BY <2>1, <2>2, Zenon
<1>3. ASSUME NEW i \in 0..(n - 1), i \in Good
      PROVE  i + 1 \in Good
  <2> DEFINE old == kept[i]
             new == kept[i + 1]
             next_action == as[i + 1]
  <2>1. i + 1 \in 1..n /\ (i + 1) - 1 = i /\ i + 1 \in 0..n /\ i \in Nat
    OBVIOUS
  <2>2. new = Worse(old, next_action)
    BY <2>1
  <2>3. Upto(i + 1) = Upto(i) \cup {next_action}
    <3>1. 1..(i + 1) = (1..i) \cup {i + 1}
      BY <2>1
    <3>2. QED
      BY <3>1
  <2> HIDE DEF Upto
  <2>4. old \in Upto(i) /\ \A b \in Upto(i) : Severity(b) <= Severity(old)
    BY <1>3, Zenon
  <2> HIDE DEF old, new, next_action
  <2>5. new \in Upto(i + 1)
    BY <2>2, <2>3, <2>4 DEF Worse
  <2>6. Severity(old) <= Severity(new) /\ Severity(next_action) <= Severity(new)
    BY <1>1, <2>2 DEF Worse
  <2>7. \A b \in Upto(i + 1) : Severity(b) <= Severity(new)
    <3>1. \A b \in Upto(i) : Severity(b) <= Severity(new)
      BY <1>1, <2>4, <2>6
    <3>2. QED
      BY <2>3, <2>6, <3>1
  <2>8. QED
    BY <2>1, <2>5, <2>7, Zenon DEF new
<1>4. n \in Good
  <2> HIDE DEF Good
  <2>1. \A i \in 0..n : i \in Good
    BY <1>2, <1>3, InductionTo
  <2>2. QED
    BY <2>1
<1> DEFINE S == {as[i] : i \in 1..n}
           p == kept[n]
           q == MostSevere(S)
<1>5. Upto(n) = S \cup {"allow"}
  OBVIOUS
<1> HIDE DEF Upto, S
<1>6. p \in S \cup {"allow"} /\ \A b \in S \cup {"allow"} : Severity(b) <= Severity(p)
  BY <1>4, <1>5, Zenon
<1>7. q \in S \cup {"allow"} /\ \A b \in S \cup {"allow"} : Severity(b) <= Severity(q)
  BY MostSevereIsWorst
<1> HIDE DEF p, q, Good
<1>8. Severity(p) = Severity(q) /\ Severity(p) >= 0
  <2>1. Severity("allow") = 0
    BY DEF Severity
  <2>2. QED
    BY <1>1, <1>6, <1>7, <2>1
<1>9. p = q
  BY <1>8 DEF Severity
<1>10. QED
  BY <1>9 DEF p, q, S

(* core.MostSevere's loop finds the worst of the actions. *)
LEMMA LoopFindsWorst ==
    ASSUME NEW as, as \in Seq(ToSet(as))
    PROVE  MostSevereLoop(as) = MostSevere(ToSet(as))
<1> DEFINE T == ToSet(as)
           n == Len(as)
           V == T \cup {"allow"}
           step == [i \in 1..n |-> [worst \in V |-> Worse(worst, as[i])]]
<1>1. n \in Nat /\ DOMAIN as = 1..n /\ \A i \in 1..n : as[i] \in T
  <2> HIDE DEF T
  <2>1. as \in Seq(T)
    BY DEF T
  <2>2. QED
    BY <2>1, LenProperties, ElementOfSeq
<1>2. T = {as[i] : i \in 1..n}
  BY <1>1 DEF ToSet
<1> HIDE DEF T, n
<1>3. step \in [1..n -> [V -> V]]
  BY <1>1 DEF Worse
<1> DEFINE Folds(g) ==
             g = [s \in SUBSET (1..n) |-> IF s = {} THEN "allow"
                                          ELSE Worse(g[s \ {Max(s)}], as[Max(s)])]
           iter == CHOOSE g : Folds(g)
<1>4. \E g : Folds(g)
  <2>1. "allow" \in V
    OBVIOUS
  <2> HIDE DEF V, step
  <2>2. PICK g \in [SUBSET (1..n) -> V] : IsFold(g, n, "allow", step)
    BY <1>1, <1>3, <2>1, FoldIsDefined, Zenon
  <2>3. ASSUME NEW s \in SUBSET (1..n), s # {}
        PROVE  g[s] = Worse(g[s \ {Max(s)}], as[Max(s)])
    <3>1. Max(s) \in 1..n
      BY <1>1, <2>3, GreatestNumber
    <3>2. g[s \ {Max(s)}] \in V
      OBVIOUS
    <3>3. step[Max(s)][g[s \ {Max(s)}]] = Worse(g[s \ {Max(s)}], as[Max(s)])
      BY <3>1, <3>2 DEF step
    <3>4. QED
      BY <2>2, <2>3, <3>3 DEF IsFold
  <2>4. Folds(g)
    BY <2>2, <2>3 DEF IsFold
  <2>5. QED
    BY <2>4
<1>5. Folds(iter)
  BY <1>4
<1>6. MostSevereLoop(as) = iter[1..n]
  BY <1>1 DEF MostSevereLoop, FoldLeft, MapThenFoldSet, Worse
<1> HIDE DEF iter
<1> DEFINE kept == [i \in 0..n |-> iter[1..i]]
<1>7. kept[0] = "allow"
  <2>1. iter[{}] = "allow"
    BY <1>5
  <2>2. 1..0 = {} /\ 0 \in 0..n
    BY <1>1
  <2>3. QED
    BY <2>1, <2>2
<1>8. ASSUME NEW i \in 1..n
      PROVE  kept[i] = Worse(kept[i - 1], as[i])
  <2>1. iter[1..i] = Worse(iter[1..(i - 1)], as[i])
    <3>1. /\ Max(1..i) = i /\ (1..i) \ {i} = 1..(i - 1)
          /\ (1..i) \in SUBSET (1..n) /\ 1..i # {}
      BY <1>1, TopOfInterval
    <3>2. iter[1..i] = Worse(iter[(1..i) \ {Max(1..i)}], as[Max(1..i)])
      BY <1>5, <3>1
    <3>3. QED
      BY <3>1, <3>2
  <2>2. i \in 0..n /\ i - 1 \in 0..n
    BY <1>1
  <2>3. QED
    BY <2>1, <2>2
<1>9. kept[n] = iter[1..n]
  BY <1>1
<1> HIDE DEF kept
<1>10. kept[n] = MostSevere({as[i] : i \in 1..n})
  BY <1>1, <1>7, <1>8, KeepingTheWorst
<1>11. QED
  BY <1>2, <1>6, <1>9, <1>10 DEF T

(* The rules the loop has been through and that matched, by position, and    *)
(* what has come of them.                                                    *)
Fired == {i \in 1..(next - 1) : Matches(bundle[i], in)}

LoopInv ==
    /\ bundle \in Bundles /\ in \in Inputs /\ next \in 1..(Len(bundle) + 1)
    /\ actions \in Seq(ToSet(actions)) /\ ToSet(actions) = {bundle[i].action : i \in Fired}
    /\ taints = (\E i \in Fired : bundle[i].taint)
    /\ spans \in Seq(ToSet(spans))
    /\ ToSet(spans) = UNION {{f.span : f \in Selected(bundle[i], in)} :
                               i \in {j \in Fired : bundle[j].action = "redact"}}

LEMMA BundlesAreLists ==
    ASSUME NEW b \in Bundles
    PROVE  Len(b) \in Nat /\ DOMAIN b = 1..Len(b) /\ ToSet(b) = {b[i] : i \in 1..Len(b)}
<1>1. b \in Seq(ToSet(b))
  BY LoopAssumption
<1>2. Len(b) \in Nat /\ DOMAIN b = 1..Len(b)
  BY <1>1, LenProperties
<1>3. QED
  BY <1>2 DEF ToSet

LEMMA ToSetOfAppend ==
    ASSUME NEW s, s \in Seq(ToSet(s)), NEW e
    PROVE  /\ ToSet(Append(s, e)) = ToSet(s) \cup {e}
           /\ Append(s, e) \in Seq(ToSet(Append(s, e)))
<1> DEFINE T == ToSet(s) \cup {e}
<1>1. s \in Seq(T) /\ e \in T
  BY SeqMonotonic
<1>2. Len(s) \in Nat /\ DOMAIN s = 1..Len(s)
  BY LenProperties
<1>3. ToSet(s) = {s[i] : i \in 1..Len(s)}
  BY <1>2 DEF ToSet
<1> HIDE DEF T
<1>4. /\ Append(s, e) \in Seq(T) /\ Len(Append(s, e)) = Len(s) + 1
      /\ \A i \in 1..Len(s) : Append(s, e)[i] = s[i]
      /\ Append(s, e)[Len(s) + 1] = e
  BY <1>1, AppendProperties
<1>5. DOMAIN Append(s, e) = 1..(Len(s) + 1)
  BY <1>4, LenProperties
<1>6. 1..(Len(s) + 1) = (1..Len(s)) \cup {Len(s) + 1}
  BY <1>2
<1>7. ToSet(Append(s, e)) = ToSet(s) \cup {e}
  BY <1>3, <1>4, <1>5, <1>6 DEF ToSet
<1>8. QED
  BY <1>4, <1>7 DEF T

LEMMA ToSetOfConcat ==
    ASSUME NEW s, s \in Seq(ToSet(s)), NEW t, t \in Seq(ToSet(t))
    PROVE  /\ ToSet(s \o t) = ToSet(s) \cup ToSet(t)
           /\ s \o t \in Seq(ToSet(s \o t))
<1> DEFINE T == ToSet(s) \cup ToSet(t)
<1>1. s \in Seq(T) /\ t \in Seq(T)
  BY SeqMonotonic
<1> HIDE DEF T
<1>2. s \o t \in Seq(T) /\ Range(s \o t) = Range(s) \cup Range(t)
  BY <1>1, ConcatProperties, RangeConcatenation
<1>3. \A u : Range(u) = ToSet(u)
  BY DEF Range, ToSet
<1>4. QED
  BY <1>2, <1>3 DEF T

LEMMA LoopInvStep ==
    ASSUME LoopInv, LoopRule
    PROVE  LoopInv'
<1> DEFINE rule == bundle[next]
           hit == Matches(rule, in)
           Spans(r) == {f.span : f \in Selected(r, in)}
<1>1. /\ bundle' = bundle /\ in' = in /\ next' = next + 1 /\ next <= Len(bundle)
      /\ Len(bundle) \in Nat /\ next \in 1..Len(bundle)
  BY BundlesAreLists DEF LoopInv, LoopRule
<1>2. Fired' = IF hit THEN Fired \cup {next} ELSE Fired
  <2>1. 1..(next' - 1) = (1..(next - 1)) \cup {next}
    BY <1>1
  <2>2. QED
    BY <1>1, <2>1 DEF Fired
<1>3. /\ bundle' \in Bundles /\ in' \in Inputs /\ next' \in 1..(Len(bundle') + 1)
  BY <1>1 DEF LoopInv
<1>4. actions' \in Seq(ToSet(actions')) /\ ToSet(actions') = {bundle'[i].action : i \in Fired'}
  <2>1. CASE hit
    <3>1. actions' = Append(actions, rule.action)
      BY <2>1 DEF LoopRule
    <3>2. ToSet(actions') = ToSet(actions) \cup {rule.action} /\ actions' \in Seq(ToSet(actions'))
      BY <3>1, ToSetOfAppend DEF LoopInv
    <3>3. QED
      BY <1>1, <1>2, <2>1, <3>2 DEF LoopInv
  <2>2. CASE ~hit
    BY <1>1, <1>2, <2>2 DEF LoopInv, LoopRule
  <2>3. QED
    BY <2>1, <2>2
<1>5. taints' = (\E i \in Fired' : bundle'[i].taint)
  <2>1. taints' = (taints \/ (hit /\ rule.taint))
    BY DEF LoopRule
  <2>2. taints = (\E i \in Fired : bundle[i].taint)
    BY DEF LoopInv
  <2> HIDE DEF hit
  <2>3. QED
    BY <1>1, <1>2, <2>1, <2>2, Zenon
<1>6. /\ spans' \in Seq(ToSet(spans'))
      /\ ToSet(spans') = UNION {Spans(bundle[i]) : i \in {j \in Fired' : bundle[j].action = "redact"}}
  <2>1. CASE hit /\ rule.action = "redact"
    <3>1. spans' = spans \o SetToSeq(Spans(rule))
      BY <2>1 DEF LoopRule
    <3>2. IsFiniteSet(Spans(rule))
      <4>1. IsFiniteSet(in.findings) /\ Selected(rule, in) \subseteq in.findings
        BY LoopAssumption DEF LoopInv, Selected
      <4>2. IsFiniteSet(Selected(rule, in))
        BY <4>1, FS_Subset
      <4> DEFINE g == [f \in Selected(rule, in) |-> f.span]
      <4>3. g \in Surjection(Selected(rule, in), Spans(rule))
        BY DEF Surjection
      <4>4. QED
        BY <4>2, <4>3, FS_Surjection
    <3> DEFINE more == SetToSeq(Spans(rule))
    <3>3. more \in Seq(ToSet(more)) /\ ToSet(more) = Spans(rule)
      BY <3>2, SequenceOfASet
    <3> HIDE DEF more
    <3>4. ToSet(spans') = ToSet(spans) \cup Spans(rule) /\ spans' \in Seq(ToSet(spans'))
      BY <3>1, <3>3, ToSetOfConcat DEF LoopInv, more
    <3>5. {j \in Fired' : bundle[j].action = "redact"}
            = {j \in Fired : bundle[j].action = "redact"} \cup {next}
      BY <1>2, <2>1
    <3>6. QED
      BY <3>4, <3>5 DEF LoopInv
  <2>2. CASE ~(hit /\ rule.action = "redact")
    <3>1. spans' = spans
      BY <2>2 DEF LoopRule
    <3>2. {j \in Fired' : bundle[j].action = "redact"} = {j \in Fired : bundle[j].action = "redact"}
      BY <1>2, <2>2
    <3>3. QED
      BY <3>1, <3>2 DEF LoopInv
  <2>3. QED
    BY <2>1, <2>2
<1>7. QED
  BY <1>1, <1>3, <1>4, <1>5, <1>6 DEF LoopInv

LEMMA LoopInvHolds == LoopSpec => []LoopInv
<1>1. LoopInit => LoopInv
  <2> SUFFICES ASSUME LoopInit PROVE LoopInv
    OBVIOUS
  <2>1. Len(bundle) \in Nat
    BY BundlesAreLists DEF LoopInit
  <2>2. Fired = {}
    BY DEF LoopInit, Fired
  <2>3. ToSet(<<>>) = {} /\ <<>> \in Seq(ToSet(<<>>))
    BY DEF ToSet
  <2>4. /\ bundle \in Bundles /\ in \in Inputs /\ next \in 1..(Len(bundle) + 1)
        /\ actions = <<>> /\ spans = <<>> /\ taints = FALSE
    BY <2>1 DEF LoopInit
  <2>5. taints = (\E i \in Fired : bundle[i].taint)
    BY <2>2, <2>4
  <2>6. QED
    BY <2>2, <2>3, <2>4, <2>5 DEF LoopInv
<1>2. LoopInv /\ [LoopRule]_loopVars => LoopInv'
  <2>1. LoopInv /\ UNCHANGED loopVars => LoopInv'
    BY DEF LoopInv, loopVars, Fired
  <2>2. QED
    BY <2>1, LoopInvStep
<1>3. QED
  BY <1>1, <1>2, PTL DEF LoopSpec

(* The loop over a list of rules, with its accumulators, returns what        *)
(* Evaluate says of the set of rules: for every bundle, in every order, and  *)
(* every hop (evaluator.go, DESIGN 3.3).                                     *)
THEOREM TheOrderDoesNotMatter == LoopSpec => []OrderDoesNotMatter
<1>1. LoopInv => OrderDoesNotMatter
  <2> SUFFICES ASSUME LoopInv, Returned
               PROVE  Result = Evaluate(ToSet(bundle), in)
    BY DEF OrderDoesNotMatter
  <2> DEFINE matched == {r \in ToSet(bundle) : Matches(r, in)}
             Spans(r) == {f.span : f \in Selected(r, in)}
  <2>1. /\ Len(bundle) \in Nat /\ next = Len(bundle) + 1
        /\ ToSet(bundle) = {bundle[i] : i \in 1..Len(bundle)}
    BY BundlesAreLists DEF LoopInv, Returned
  <2>2. Fired = {i \in 1..Len(bundle) : Matches(bundle[i], in)}
    BY <2>1 DEF Fired
  <2>3. matched = {bundle[i] : i \in Fired}
    BY <2>1, <2>2
  <2> HIDE DEF matched
  <2>4. MostSevereLoop(actions) = MostSevere({r.action : r \in matched})
    <3>1. {bundle[i].action : i \in Fired} = {r.action : r \in matched}
      BY <2>3
    <3>2. QED
      BY <3>1, LoopFindsWorst DEF LoopInv
  <2>5. taints = (\E r \in matched : r.taint)
    BY <2>3 DEF LoopInv
  <2>6. ToSet(spans) = UNION {Spans(r) : r \in {m \in matched : m.action = "redact"}}
    <3>1. {m \in matched : m.action = "redact"} = {bundle[i] : i \in {j \in Fired : bundle[j].action = "redact"}}
      BY <2>3
    <3>2. QED
      BY <3>1 DEF LoopInv
  <2>7. QED
    BY <2>4, <2>5, <2>6 DEF Result, Evaluate, matched
<1>2. QED
  BY <1>1, LoopInvHolds, PTL

(* More findings on a hop never make the loop more lenient.                  *)
THEOREM MoreFindingsOnlyTighten == LoopSpec => []FindingsOnlyTighten
<1>1. LoopInv /\ OrderDoesNotMatter => FindingsOnlyTighten
  <2> SUFFICES ASSUME LoopInv, OrderDoesNotMatter, Returned, NEW fewer \in SUBSET in.findings
               PROVE  LET less == Evaluate(ToSet(bundle), [in EXCEPT !.findings = fewer])
                      IN  /\ Severity(less.action) <= Severity(Result.action)
                          /\ less.taint => Result.taint
                          /\ less.redactions \subseteq Result.redactions
    BY DEF FindingsOnlyTighten
  <2> DEFINE narrow == [in EXCEPT !.findings = fewer]
  <2>1. DOMAIN in = {"surface", "source", "findings", "sessionTainted", "pinChanged"}
    BY LoopAssumption DEF LoopInv
  <2>2. /\ narrow.findings \subseteq in.findings /\ in.surface = narrow.surface
        /\ in.source = narrow.source /\ in.sessionTainted = narrow.sessionTainted
        /\ in.pinChanged = narrow.pinChanged
    BY <2>1
  <2> HIDE DEF narrow
  <2>3. Result = Evaluate(ToSet(bundle), in)
    BY DEF OrderDoesNotMatter
  <2>4. QED
    BY <2>2, <2>3, EvaluateOnlyTightens DEF narrow
<1>2. QED
  BY <1>1, LoopInvHolds, TheOrderDoesNotMatter, PTL

(* A rule whose action is misspelled decides nothing: the loop returns the   *)
(* same action without it, whatever the rest of the bundle.                  *)
THEOREM MalformedRulesDecideNothing == LoopSpec => []MalformedDecidesNothing
<1>1. OrderDoesNotMatter => MalformedDecidesNothing
  <2> SUFFICES ASSUME OrderDoesNotMatter, Returned
               PROVE  Result.action = Evaluate({r \in ToSet(bundle) : r.action \in Actions}, in).action
    BY DEF MalformedDecidesNothing
  <2> DEFINE R == ToSet(bundle)
             S == {r.action : r \in {m \in R : Matches(m, in)}}
             P == {r \in R : r.action \in Actions}
             T == {r.action : r \in {m \in P : Matches(m, in)}}
  <2>1. T = S \cap Actions
    OBVIOUS
  <2>2. /\ Result.action = MostSevere(S)
        /\ Evaluate(P, in).action = MostSevere(T)
    BY DEF OrderDoesNotMatter, Evaluate
  <2> HIDE DEF S, T
  <2>3. /\ MostSevere(S) \in S \cup {"allow"} /\ MostSevere(S) \in Actions
        /\ MostSevere(T) \in T \cup {"allow"} /\ MostSevere(T) \in Actions
        /\ \A b \in S \cup {"allow"} : Severity(b) <= Severity(MostSevere(S))
        /\ \A b \in T \cup {"allow"} : Severity(b) <= Severity(MostSevere(T))
    BY MostSevereIsWorst, MostSevereIsAnAction
  <2> DEFINE p == MostSevere(S)
             q == MostSevere(T)
  <2> HIDE DEF p, q
  <2>4. Severity(p) <= Severity(q) /\ Severity(q) <= Severity(p)
    <3>1. p \in T \cup {"allow"} /\ q \in S \cup {"allow"}
      BY <2>1, <2>3 DEF p, q
    <3>2. QED
      BY <2>3, <3>1 DEF p, q
  <2>5. p \in Actions /\ q \in Actions
    BY <2>3 DEF p, q
  <2>6. p = q
    BY <2>4, <2>5 DEF Actions, Severity
  <2>7. QED
    BY <2>2, <2>6 DEF p, q
<1>2. QED
  BY <1>1, TheOrderDoesNotMatter, PTL

----------------------------------------------------------------------------
(* The detector registry.                                                  *)

Found == [detector : Names \cup {Unnamed}, span : Places]
Answers == [findings : Seq(Found), err : Names \cup {NoError}]
Ran == [i \in DOMAIN order |-> One(order[i], outcome[i])]

(* A slot holds what its detector returned from the moment it is done, and   *)
(* no detector is registered twice.                                          *)
RegistryInv ==
    /\ todo \in Seq(Names) /\ order \in Seq(Names)
    /\ registry \in {"building", "refused", "built", "detecting", "returned"}
    /\ \A i, j \in DOMAIN order : order[i] = order[j] => i = j
    /\ registry \notin {"detecting", "returned"} => live = {}
    /\ registry \in {"detecting", "returned"} =>
          /\ \A i \in DOMAIN order : outcome[i] \in Returns(order[i])
          /\ slot = [i \in DOMAIN order |-> slot[i]] /\ live \subseteq DOMAIN order
          /\ \A i \in DOMAIN order \ live : slot[i] = One(order[i], outcome[i])
    /\ registry = "returned" => live = {}

LEMMA RegistryInvStep ==
    ASSUME RegistryInv, RegistryNext
    PROVE  RegistryInv'
<1>1. CASE Register
  <2>1. registry = "building" /\ todo # <<>> /\ live = {} /\ live' = {}
    BY <1>1 DEF Register, RegistryInv
  <2>2. CASE Head(todo) \in ToSet(order)
    BY <1>1, <2>1, <2>2 DEF Register, RegistryInv
  <2>3. CASE Head(todo) \notin ToSet(order)
    <3>1. order' = Append(order, Head(todo)) /\ todo' = Tail(todo) /\ registry' = registry
      BY <1>1, <2>3 DEF Register
    <3>2. Head(todo) \in Names /\ todo' \in Seq(Names)
      BY <2>1, <3>1, HeadTailProperties DEF RegistryInv
    <3>3. /\ order' \in Seq(Names) /\ Len(order') = Len(order) + 1
          /\ \A i \in 1..Len(order) : order'[i] = order[i]
          /\ order'[Len(order) + 1] = Head(todo)
      BY <3>1, <3>2, AppendProperties DEF RegistryInv
    <3>4. Len(order) \in Nat /\ DOMAIN order = 1..Len(order) /\ DOMAIN order' = 1..(Len(order) + 1)
      BY <3>3, LenProperties DEF RegistryInv
    <3>5. \A i \in 1..Len(order) : order[i] # Head(todo)
      BY <2>3, <3>4 DEF ToSet
    <3>6. \A i, j \in DOMAIN order' : order'[i] = order'[j] => i = j
      BY <3>3, <3>4, <3>5 DEF RegistryInv
    <3>7. QED
      BY <2>1, <3>1, <3>2, <3>3, <3>6 DEF RegistryInv
  <2>4. QED
    BY <2>2, <2>3
<1>2. CASE Built
  BY <1>2 DEF Built, RegistryInv
<1>3. CASE CallDetect
  <2>1. /\ registry = "built" /\ registry' = "detecting" /\ order' = order /\ todo' = todo
        /\ Len(order) \in Nat /\ DOMAIN order = 1..Len(order)
    BY <1>3, LenProperties DEF CallDetect, RegistryInv
  <2>2. \A i \in DOMAIN order : outcome'[i] \in Returns(order[i])
    BY <1>3 DEF CallDetect
  <2>3. CASE Len(order) = 1
    <3>1. slot' = <<One(order[1], outcome'[1])>> /\ live' = {}
      BY <1>3, <2>3 DEF CallDetect
    <3>2. slot' = [i \in DOMAIN order |-> slot'[i]] /\ slot'[1] = One(order[1], outcome'[1])
      BY <2>1, <2>3, <3>1
    <3>3. QED
      BY <2>1, <2>2, <2>3, <3>1, <3>2 DEF RegistryInv
  <2>4. CASE Len(order) # 1
    <3>1. slot' = [i \in DOMAIN order |-> Empty] /\ live' = DOMAIN order
      BY <1>3, <2>1, <2>4 DEF CallDetect
    <3>2. slot' = [i \in DOMAIN order |-> slot'[i]]
      BY <3>1
    <3>3. QED
      BY <2>1, <2>2, <3>1, <3>2 DEF RegistryInv
  <2>5. QED
    BY <2>3, <2>4
<1>4. CASE Join
  BY <1>4 DEF Join, RegistryInv
<1>5. ASSUME NEW i \in live, DetectorDone(i)
      PROVE  RegistryInv'
  <2>1. /\ registry \in {"detecting", "returned"} /\ registry' = registry /\ order' = order
        /\ todo' = todo /\ outcome' = outcome /\ live' = live \ {i} /\ i \in DOMAIN order
    BY <1>5 DEF DetectorDone, RegistryInv
  <2>2. slot' = [slot EXCEPT ![i] = One(order[i], outcome[i])]
    BY <1>5 DEF DetectorDone
  <2>3. DOMAIN slot = DOMAIN order
    BY <2>1 DEF RegistryInv
  <2>4. slot' = [j \in DOMAIN order |-> slot'[j]]
    BY <2>2, <2>3
  <2>5. \A j \in DOMAIN order : slot'[j] = IF j = i THEN One(order[i], outcome[i]) ELSE slot[j]
    BY <2>1, <2>2, <2>3
  <2>6. \A j \in DOMAIN order \ live' : slot'[j] = One(order[j], outcome[j])
    BY <2>1, <2>5 DEF RegistryInv
  <2>7. QED
    BY <2>1, <2>4, <2>6 DEF RegistryInv
<1>6. QED
  BY <1>1, <1>2, <1>3, <1>4, <1>5 DEF RegistryNext

LEMMA RegistryInvHolds == RegistrySpec => []RegistryInv
<1>1. RegistryInit => RegistryInv
  <2> SUFFICES ASSUME RegistryInit PROVE RegistryInv
    OBVIOUS
  <2>1. todo \in Seq(Names) /\ order \in Seq(Names) /\ DOMAIN order = {}
    BY RegistryAssumption DEF RegistryInit
  <2>2. QED
    BY <2>1 DEF RegistryInit, RegistryInv
<1>2. RegistryInv /\ [RegistryNext]_registryVars => RegistryInv'
  <2>1. RegistryInv /\ UNCHANGED registryVars => RegistryInv'
    BY DEF RegistryInv, registryVars
  <2>2. QED
    BY <2>1, RegistryInvStep
<1>3. QED
  BY <1>1, <1>2, PTL DEF RegistrySpec

(* A detector's answer, with its name put on what it left unnamed. *)
LEMMA AnswersAreTyped ==
    ASSUME NEW name \in Names, NEW answer \in Returns(name)
    PROVE  /\ One(name, answer) \in Answers
           /\ One(name, answer).err # NoError => One(name, answer).findings = <<>>
<1> DEFINE F == Names \cup {Unnamed}
<1>1. CASE answer = [findings |-> <<>>, err |-> name]
  <2>1. answer.err = name /\ answer.findings = <<>>
    BY <1>1
  <2>2. CASE answer.err # NoError
    BY <2>1, <2>2, EmptySeq DEF One, Answers
  <2>3. CASE answer.err = NoError
    <3>1. One(name, answer) = [findings |-> <<>>, err |-> name]
      BY <1>1, <2>3 DEF One
    <3>2. <<>> \in Seq(Found)
      BY EmptySeq
    <3>3. One(name, answer) \in Answers
      BY <3>1, <3>2 DEF Answers
    <3>4. QED
      BY <3>1, <3>3
  <2>4. QED
    BY <2>2, <2>3
<1>2. CASE answer = [findings |-> <<>>, err |-> NoError]
  <2>1. One(name, answer) = [findings |-> <<>>, err |-> NoError]
    BY <1>2 DEF One
  <2>2. QED
    BY <2>1, EmptySeq DEF Answers
<1>3. ASSUME NEW d \in {name, Unnamed}, NEW s \in Places,
             answer = [findings |-> <<[detector |-> d, span |-> s]>>, err |-> NoError]
      PROVE  /\ One(name, answer) \in Answers
             /\ One(name, answer).err # NoError => One(name, answer).findings = <<>>
  <2>1. One(name, answer) = [findings |-> <<[detector |-> name, span |-> s]>>, err |-> NoError]
    BY <1>3 DEF One
  <2>2. <<[detector |-> name, span |-> s]>> \in Seq(Found)
    BY DEF Found
  <2>3. QED
    BY <2>1, <2>2 DEF Answers
<1>4. QED
  BY <1>1, <1>2, <1>3 DEF Returns

(* The loop that joins the slots: as long as no slot holds an error, what    *)
(* they hold one after another; from the first error on, that error.         *)
LEMMA JoiningTheSlots ==
    ASSUME NEW n \in Nat, slot \in [1..n -> Answers], Len(slot) = n,
           \A i \in 1..n : slot[i].err # NoError => slot[i].findings = <<>>
    PROVE  LET failing == {i \in 1..n : slot[i].err # NoError}
           IN  Joined = IF failing # {} THEN slot[Min(failing)]
                        ELSE [findings |-> FlattenSeq([i \in 1..n |-> slot[i].findings]), err |-> NoError]
<1> DEFINE After(v, i) == IF v.err # NoError THEN v
                          ELSE IF slot[i].err # NoError THEN slot[i]
                          ELSE [Empty EXCEPT !.findings = v.findings \o slot[i].findings]
           step == [i \in 1..n |-> [v \in Answers |-> After(v, i)]]
           Is(g) == g = [i \in 0..n |-> IF i = 0 THEN Empty ELSE After(g[i - 1], i)]
           upTo == CHOOSE g : Is(g)
           lists == [i \in 1..n |-> slot[i].findings]
<1>1. Empty \in Answers /\ Empty.err = NoError /\ Empty.findings = <<>>
  BY EmptySeq DEF Empty, Answers
<1>2. ASSUME NEW v \in Answers, NEW i \in 1..n
      PROVE  After(v, i) \in Answers
  <2>1. slot[i] \in Answers
    OBVIOUS
  <2>2. v.findings \o slot[i].findings \in Seq(Found)
    BY <2>1, ConcatProperties DEF Answers
  <2>3. QED
    BY <2>1, <2>2 DEF Answers, Empty
<1>3. Joined = upTo[n]
  BY DEF Joined
<1> HIDE DEF After
<1>4. step \in [1..n -> [Answers -> Answers]]
  BY <1>2
<1>5. Is(upTo)
  <2>1. PICK g \in [0..n -> Answers] : IsLoop(g, n, Empty, step)
    <3> HIDE DEF step
    <3>1. QED
      BY <1>1, <1>4, LoopIsDefined, Zenon
  <2>2. ASSUME NEW i \in 0..n, i # 0
        PROVE  g[i] = After(g[i - 1], i)
    <3>1. i \in 1..n /\ i - 1 \in 0..n
      BY <2>2
    <3>2. g[i - 1] \in Answers
      BY <3>1
    <3>3. QED
      BY <2>1, <3>1, <3>2 DEF IsLoop
  <2>3. Is(g)
    BY <2>1, <2>2 DEF IsLoop
  <2>4. QED
    BY <2>3
<1> HIDE DEF upTo, step
<1>6. lists \in Seq(Seq(Found)) /\ Len(lists) = n
  <2>1. \A i \in 1..n : slot[i].findings \in Seq(Found)
    BY DEF Answers
  <2>2. QED
    BY <2>1
<1> HIDE DEF lists
<1>7. PICK f \in [0..n -> Seq(Found)] :
         /\ f[0] = <<>> /\ \A i \in 1..n : f[i] = f[i - 1] \o lists[i]
         /\ FlattenSeq(lists) = f[n]
  <2>1. PICK f \in [0..Len(lists) -> Seq(Found)] :
           /\ f[0] = <<>> /\ \A i \in 1..Len(lists) : f[i] = f[i - 1] \o lists[i]
           /\ FlattenSeq(lists) = f[Len(lists)]
    BY <1>6, FlatteningIsALoop
  <2>2. QED
    BY <1>6, <2>1
<1> DEFINE Failing(k) == {i \in 1..k : slot[i].err # NoError}
           Good(k) == IF Failing(k) # {} THEN upTo[k] = slot[Min(Failing(k))]
                      ELSE upTo[k] = [findings |-> f[k], err |-> NoError]
           S == {k \in 0..n : Good(k)}
<1>8. 0 \in S
  <2>1. Failing(0) = {}
    OBVIOUS
  <2>2. upTo[0] = Empty
    BY <1>5
  <2>3. Good(0)
    BY <1>7, <2>1, <2>2 DEF Empty
  <2>4. QED
    BY <2>3
<1>9. ASSUME NEW k \in 0..(n - 1), k \in S
      PROVE  k + 1 \in S
  <2>1. k \in Nat /\ k + 1 \in 1..n /\ k + 1 \in 0..n /\ (k + 1) - 1 = k /\ k + 1 # 0
    OBVIOUS
  <2>2. Failing(k + 1) = IF slot[k + 1].err # NoError THEN Failing(k) \cup {k + 1} ELSE Failing(k)
    <3>1. 1..(k + 1) = (1..k) \cup {k + 1}
      BY <2>1
    <3>2. QED
      BY <3>1
  <2>3. upTo[k + 1] = After(upTo[k], k + 1)
    BY <1>5, <2>1
  <2>4. Failing(k) \subseteq 1..k
    OBVIOUS
  <2>5. Good(k)
    BY <1>9
  <2>6. CASE Failing(k) # {}
    <3>1. Min(Failing(k)) \in Failing(k) /\ \A i \in Failing(k) : Min(Failing(k)) <= i
      <4>1. Failing(k) \subseteq Nat
        BY <2>4
      <4> HIDE DEF Failing
      <4>2. QED
        BY <2>6, <4>1, LeastOf
    <3>2. upTo[k] = slot[Min(Failing(k))] /\ upTo[k].err # NoError
      BY <2>5, <2>6, <3>1
    <3>3. upTo[k + 1] = slot[Min(Failing(k))]
      BY <2>3, <3>2 DEF After
    <3>4. Min(Failing(k + 1)) = Min(Failing(k)) /\ Failing(k + 1) # {}
      <4>1. Min(Failing(k)) \in Failing(k + 1) /\ \A i \in Failing(k + 1) : Min(Failing(k)) <= i
        <5>1. Min(Failing(k)) \in 1..k
          BY <2>4, <3>1
        <5> HIDE DEF Failing
        <5>2. QED
          BY <2>1, <2>2, <3>1, <5>1
      <4>2. Failing(k + 1) \subseteq Nat
        BY <2>1
      <4> HIDE DEF Failing
      <4>3. Min(Failing(k + 1)) \in Failing(k + 1) /\ \A i \in Failing(k + 1) : Min(Failing(k + 1)) <= i
        BY <4>1, <4>2, LeastOf
      <4>4. QED
        BY <4>1, <4>2, <4>3
    <3>5. QED
      BY <2>1, <3>3, <3>4
  <2>7. CASE Failing(k) = {} /\ slot[k + 1].err # NoError
    <3>1. upTo[k].err = NoError
      BY <2>5, <2>7
    <3>2. upTo[k + 1] = slot[k + 1]
      BY <2>3, <2>7, <3>1 DEF After
    <3>3. Failing(k + 1) = {k + 1}
      BY <2>2, <2>7
    <3>4. Min({k + 1}) = k + 1
      BY <2>1 DEF Min
    <3>5. QED
      BY <2>1, <3>2, <3>3, <3>4
  <2>8. CASE Failing(k) = {} /\ slot[k + 1].err = NoError
    <3>1. upTo[k].err = NoError /\ upTo[k].findings = f[k]
      BY <2>5, <2>8
    <3>2. upTo[k + 1] = [findings |-> f[k] \o slot[k + 1].findings, err |-> NoError]
      BY <2>3, <2>8, <3>1 DEF After, Empty
    <3>3. f[k + 1] = f[k] \o slot[k + 1].findings
      BY <1>7, <2>1 DEF lists
    <3>4. Failing(k + 1) = {}
      BY <2>2, <2>8
    <3>5. QED
      BY <2>1, <3>2, <3>3, <3>4
  <2>9. QED
    BY <2>6, <2>7, <2>8
<1>10. Good(n)
  <2> HIDE DEF Good
  <2>1. \A k \in 0..n : k \in S
    <3> HIDE DEF S
    <3>1. QED
      BY <1>8, <1>9, InductionTo
  <2>2. QED
    BY <2>1
<1>11. QED
  BY <1>3, <1>7, <1>10 DEF lists

(* Detect answers as if the detectors had run one after another in the order *)
(* they were registered in, for any number of detectors, any answers of      *)
(* theirs and any order in which their goroutines finish.                    *)
THEOREM DetectorsRunInOrder == RegistrySpec => []RunsInOrder
<1>1. RegistryInv => RunsInOrder
  <2> SUFFICES ASSUME RegistryInv, registry = "returned"
               PROVE  LET failing == {i \in DOMAIN order : Ran[i].err # NoError}
                      IN  IF failing # {} THEN Joined = Ran[Min(failing)]
                          ELSE Joined = [findings |-> FlattenSeq([i \in DOMAIN order |-> Ran[i].findings]),
                                         err |-> NoError]
    BY DEF RunsInOrder, Ran
  <2> DEFINE n == Len(order)
  <2>1. n \in Nat /\ DOMAIN order = 1..n /\ \A i \in 1..n : order[i] \in Names
    BY LenProperties, ElementOfSeq DEF RegistryInv
  <2>2. \A i \in 1..n : slot[i] = One(order[i], outcome[i]) /\ outcome[i] \in Returns(order[i])
    BY <2>1 DEF RegistryInv
  <2>3. slot = [i \in 1..n |-> slot[i]]
    BY <2>1 DEF RegistryInv
  <2>4. slot = Ran
    BY <2>1, <2>2, <2>3 DEF Ran
  <2>5. \A i \in 1..n : slot[i] \in Answers /\ (slot[i].err # NoError => slot[i].findings = <<>>)
    BY <2>1, <2>2, AnswersAreTyped
  <2>6. slot \in [1..n -> Answers] /\ Len(slot) = n
    BY <2>1, <2>3, <2>5
  <2> HIDE DEF n
  <2>7. QED
    BY <2>1, <2>4, <2>5, <2>6, JoiningTheSlots
<1>2. QED
  BY <1>1, RegistryInvHolds, PTL

Given == UNION {ToSet(d) : d \in Dictionaries}
Letters == {LowerByte(b) : b \in Alphabet \cup UNION {ToSet(term) : term \in Given}}
Words == Seq(Letters)

(* The trie: prefixes of terms, finitely many, and failure links that only *)
(* lead to shorter nodes.                                                  *)
TrieInv ==
    /\ given \in Seq(Given)
    /\ terms \in Seq(Words) /\ \A t \in DOMAIN terms : terms[t] # <<>> /\ terms[t] \in nodes
    /\ nodes \in SUBSET Words /\ IsFiniteSet(nodes) /\ <<>> \in nodes
    /\ \A n \in nodes : n # <<>> => Front(n) \in nodes
    /\ \E depth \in Nat : \A n \in nodes : Len(n) <= depth
    /\ fail \in [nodes -> nodes] /\ \A n \in nodes : n # <<>> => Len(fail[n]) < Len(n)
    /\ output \in [nodes -> Seq(DOMAIN terms)]

(* m is the longest node no longer than b that u ends with. *)
LongestEnd(m, u, b) ==
    /\ m \in nodes /\ EndsWith(u, m) /\ Len(m) <= b
    /\ \A n \in nodes : EndsWith(u, n) /\ Len(n) <= b => Len(n) <= Len(m)

EndsOf(n) == {t \in DOMAIN terms : EndsWith(n, terms[t])}
SameAs(n) == {t \in DOMAIN terms : terms[t] = n}

(* A node before and after it is wired. *)
Bare(n) == fail[n] = <<>> /\ Enumerates(output[n], SameAs(n))
Wired(n) ==
    /\ n # <<>> => LongestEnd(fail[n], n, Len(n) - 1)
    /\ Enumerates(output[n], EndsOf(n))

(* The queue holds nodes of two lengths, the shorter first; the longer are *)
(* the children of those that have left it.                                *)
WiredTo(l) ==
    /\ Enumerates(queue, ToSet(queue)) /\ ToSet(queue) \subseteq nodes \ {<<>>}
    /\ \A n \in ToSet(queue) : Len(n) \in {l, l + 1}
    /\ \A i, j \in DOMAIN queue : i < j => Len(queue[i]) <= Len(queue[j])
    /\ \A n \in nodes : Len(n) = l + 1 => (n \in ToSet(queue) <=> Front(n) \notin ToSet(queue))
    /\ \A n \in nodes : IF Len(n) <= l \/ n \in ToSet(queue) THEN Wired(n) ELSE Bare(n)

FoundInv ==
    /\ text \in Seq(Alphabet)
    /\ LongestEnd(cur, Lower(text), Len(text))
    /\ Enumerates(found, Occurrences)
    /\ \A i, j \in DOMAIN found : i < j => found[i].end <= found[j].end

AutomatonInv ==
    /\ TrieInv
    /\ phase \in {"adding", "wiring", "reading", "returned"}
    /\ phase = "adding" => \A n \in nodes : Bare(n)
    /\ phase = "wiring" => \E l \in Nat : WiredTo(l)
    /\ phase \in {"adding", "wiring", "returned"} => text = <<>> /\ cur = <<>> /\ found = <<>>
    /\ phase = "returned" => terms = <<>>
    /\ phase = "reading" => FoundInv /\ \A n \in nodes : Wired(n)

LEMMA LowerOfWord ==
    ASSUME NEW B, NEW w \in Seq(B)
    PROVE  /\ Lower(w) \in Seq({LowerByte(b) : b \in B}) /\ Len(Lower(w)) = Len(w)
           /\ \A i \in 1..Len(w) : Lower(w)[i] = LowerByte(w[i])
<1> DEFINE C == {LowerByte(b) : b \in B}
<1>1. Len(w) \in Nat /\ DOMAIN w = 1..Len(w) /\ \A i \in 1..Len(w) : w[i] \in B
  BY LenProperties, ElementOfSeq
<1>2. Lower(w) = [i \in 1..Len(w) |-> LowerByte(w[i])]
  BY <1>1 DEF Lower
<1>3. \A i \in 1..Len(w) : LowerByte(w[i]) \in C
  BY <1>1
<1> HIDE DEF C
<1>4. Lower(w) \in [1..Len(w) -> C]
  BY <1>2, <1>3
<1>5. Lower(w) \in Seq(C) /\ Len(Lower(w)) = Len(w)
  BY <1>1, <1>4, SeqDef
<1>6. QED
  BY <1>2, <1>5 DEF C

LEMMA TextsAndTerms ==
    /\ \A w \in Given : Lower(w) \in Words
    /\ \A x \in Seq(Alphabet) : Lower(x) \in Words /\ Len(Lower(x)) = Len(x)
    /\ \A b \in Alphabet : LowerByte(b) \in Letters
    /\ \A x \in Seq(Alphabet), b \in Alphabet : Lower(Append(x, b)) = Append(Lower(x), LowerByte(b))
<1> DEFINE AllBytes == Alphabet \cup UNION {ToSet(term) : term \in Given}
<1>1. ASSUME NEW B, B \subseteq AllBytes, NEW w \in Seq(B)
      PROVE  Lower(w) \in Words /\ Len(Lower(w)) = Len(w)
  <2>1. {LowerByte(b) : b \in B} \subseteq Letters
    BY <1>1 DEF Letters
  <2>2. QED
    BY <2>1, LowerOfWord, SeqMonotonic DEF Words
<1>2. ASSUME NEW w \in Given
      PROVE  Lower(w) \in Words
  <2>1. PICK d \in Dictionaries : w \in ToSet(d)
    BY DEF Given
  <2>2. w \in Seq(ToSet(w))
    BY <2>1, DictionaryAssumption DEF ToSet
  <2>3. ToSet(w) \subseteq AllBytes
    OBVIOUS
  <2> HIDE DEF AllBytes
  <2>4. QED
    BY <1>1, <2>2, <2>3
<1>3. \A x \in Seq(Alphabet) : Lower(x) \in Words /\ Len(Lower(x)) = Len(x)
  <2>1. Alphabet \subseteq AllBytes
    OBVIOUS
  <2> HIDE DEF AllBytes
  <2>2. QED
    BY <1>1, <2>1
<1>4. \A b \in Alphabet : LowerByte(b) \in Letters
  BY DEF Letters
<1> HIDE DEF AllBytes
<1>5. ASSUME NEW x \in Seq(Alphabet), NEW b \in Alphabet
      PROVE  Lower(Append(x, b)) = Append(Lower(x), LowerByte(b))
  <2> DEFINE xb == Append(x, b)
             s == Lower(xb)
             t == Append(Lower(x), LowerByte(b))
  <2>1. /\ xb \in Seq(Alphabet) /\ Len(xb) = Len(x) + 1 /\ xb[Len(x) + 1] = b
        /\ \A i \in 1..Len(x) : xb[i] = x[i]
        /\ Len(x) \in Nat
    BY AppendProperties, LenProperties
  <2>2. /\ Lower(x) \in Words /\ Len(Lower(x)) = Len(x) /\ LowerByte(b) \in Letters
        /\ \A i \in 1..Len(x) : Lower(x)[i] = LowerByte(x[i])
    BY <1>3, <1>4, LowerOfWord
  <2>3. /\ t \in Words /\ Len(t) = Len(x) + 1 /\ t[Len(x) + 1] = LowerByte(b)
        /\ \A i \in 1..Len(x) : t[i] = Lower(x)[i]
    BY <2>2, AppendProperties DEF Words
  <2> HIDE DEF xb
  <2>4. /\ s \in Words /\ Len(s) = Len(x) + 1
        /\ \A i \in 1..(Len(x) + 1) : s[i] = LowerByte(xb[i])
    BY <1>3, <2>1, LowerOfWord
  <2> HIDE DEF s, t
  <2>5. \A i \in 1..(Len(x) + 1) : i \in 1..Len(x) \/ i = Len(x) + 1
    BY <2>1
  <2>6. \A i \in 1..(Len(x) + 1) : s[i] = t[i]
    BY <2>1, <2>2, <2>3, <2>4, <2>5
  <2>7. s = t
    BY <2>3, <2>4, <2>6, SeqEqual DEF Words
  <2>8. QED
    BY <2>7 DEF s, t, xb
<1>6. QED
  BY <1>2, <1>3, <1>4, <1>5

LEMMA PrefixFacts ==
    ASSUME NEW B, NEW w \in Seq(B)
    PROVE  /\ Prefixes(w) \subseteq Seq(B) /\ IsFiniteSet(Prefixes(w))
           /\ <<>> \in Prefixes(w) /\ w \in Prefixes(w)
           /\ \A p \in Prefixes(w) : Len(p) <= Len(w) /\ (p # <<>> => Front(p) \in Prefixes(w))
<1>1. Len(w) \in Nat /\ \A i \in 1..Len(w) : w[i] \in B
  BY LenProperties, ElementOfSeq
<1>2. ASSUME NEW l \in 0..Len(w)
      PROVE  /\ SubSeq(w, 1, l) \in Seq(B) /\ Len(SubSeq(w, 1, l)) = l
             /\ \A i \in 1..l : SubSeq(w, 1, l)[i] = w[i]
  <2>1. l \in Nat /\ 1 \in Int /\ l \in Int /\ l - 1 + 1 = l
        /\ (\A i \in 1..l : 1 + i - 1 = i /\ i \in 1..Len(w)) /\ (~(1 <= l) => l = 0)
    BY <1>1
  <2>2. \A i \in 1..l : w[i] \in B
    BY <1>1, <2>1
  <2>3. /\ SubSeq(w, 1, l) \in Seq(B)
        /\ Len(SubSeq(w, 1, l)) = IF 1 <= l THEN l - 1 + 1 ELSE 0
        /\ \A i \in 1..(l - 1 + 1) : SubSeq(w, 1, l)[i] = w[1 + i - 1]
    BY <2>1, <2>2, SubSeqProperties
  <2>4. QED
    BY <2>1, <2>3
<1>3. IsFiniteSet(Prefixes(w))
  <2> DEFINE f == [l \in 0..Len(w) |-> SubSeq(w, 1, l)]
  <2>1. f \in Surjection(0..Len(w), Prefixes(w))
    BY DEF Surjection, Prefixes
  <2>2. IsFiniteSet(0..Len(w))
    BY <1>1, FS_Interval
  <2> HIDE DEF f
  <2>3. QED
    BY <2>1, <2>2, FS_Surjection
<1>4. <<>> \in Prefixes(w)
  <2>1. 0 \in 0..Len(w)
    BY <1>1
  <2>2. SubSeq(w, 1, 0) = <<>>
    BY <1>2, <2>1, EmptySeq
  <2>3. QED
    BY <2>1, <2>2 DEF Prefixes
<1>5. w \in Prefixes(w)
  <2>1. Len(w) \in 0..Len(w)
    BY <1>1
  <2>2. SubSeq(w, 1, Len(w)) = w
    BY <1>2, <2>1, SeqEqual
  <2>3. QED
    BY <2>1, <2>2 DEF Prefixes
<1>6. ASSUME NEW p \in Prefixes(w), p # <<>>
      PROVE  Front(p) \in Prefixes(w)
  <2>1. PICK l \in 0..Len(w) : p = SubSeq(w, 1, l)
    BY DEF Prefixes
  <2>2. p \in Seq(B) /\ Len(p) = l /\ \A i \in 1..l : p[i] = w[i]
    BY <1>2, <2>1
  <2>3. /\ Front(p) \in Seq(B) /\ Len(p) \in Nat \ {0} /\ Len(Front(p)) = Len(p) - 1
        /\ \A i \in 1..(Len(p) - 1) : Front(p)[i] = p[i]
    BY <1>6, <2>2, FrontAndLast
  <2>4. l - 1 \in 0..Len(w) /\ \A i \in 1..(l - 1) : i \in 1..l
    BY <1>1, <2>2, <2>3
  <2>5. Front(p) = SubSeq(w, 1, l - 1)
    <3> DEFINE q == SubSeq(w, 1, l - 1)
    <3>1. q \in Seq(B) /\ Len(q) = l - 1 /\ \A i \in 1..(l - 1) : q[i] = w[i]
      BY <1>2, <2>4
    <3> HIDE DEF q
    <3>2. Front(p) = q
      BY <2>2, <2>3, <2>4, <3>1, SeqEqual
    <3>3. QED
      BY <3>2 DEF q
  <2>6. QED
    BY <2>4, <2>5 DEF Prefixes
<1>7. QED
  BY <1>1, <1>2, <1>3, <1>4, <1>5, <1>6 DEF Prefixes
----------------------------------------------------------------------------

LEMMA TrieStarts ==
    ASSUME DictionaryInit
    PROVE  TrieInv /\ \A n \in nodes : Bare(n)
<1>1. /\ terms = <<>> /\ nodes = {<<>>} /\ fail = [n \in {<<>>} |-> <<>>]
      /\ output = [n \in {<<>>} |-> <<>>] /\ given \in Dictionaries
  BY DEF DictionaryInit
<1>2. given \in Seq(Given)
  <2>1. given \in Seq(ToSet(given)) /\ ToSet(given) \subseteq Given
    BY <1>1, DictionaryAssumption DEF Given
  <2>2. QED
    BY <2>1, SeqMonotonic
<1>3. terms \in Seq(Words) /\ <<>> \in Words /\ DOMAIN terms = {} /\ <<>> \in Seq({}) /\ Len(<<>>) = 0
  BY <1>1 DEF Words
<1>4. nodes \in SUBSET Words /\ IsFiniteSet(nodes) /\ <<>> \in nodes
  BY <1>1, <1>3, FS_Singleton
<1>5. \E depth \in Nat : \A n \in nodes : Len(n) <= depth
  BY <1>1, <1>3
<1>6. fail \in [nodes -> nodes] /\ fail[<<>>] = <<>>
  BY <1>1
<1>7. output \in [nodes -> Seq(DOMAIN terms)] /\ output[<<>>] = <<>>
  BY <1>1, <1>3
<1>8. TrieInv
  BY <1>1, <1>2, <1>3, <1>4, <1>5, <1>6, <1>7 DEF TrieInv
<1>9. ASSUME NEW n \in nodes
      PROVE  Bare(n)
  <2>1. n = <<>> /\ SameAs(n) = {}
    BY <1>1, <1>3 DEF SameAs
  <2>2. Enumerates(output[n], SameAs(n))
    BY <1>7, <2>1, EnumerationsOfFew
  <2>3. QED
    BY <1>6, <2>1, <2>2 DEF Bare
<1>10. QED
  BY <1>8, <1>9

LEMMA AddTermKeepsTrie ==
    ASSUME TrieInv, \A n \in nodes : Bare(n), AddTerm
    PROVE  TrieInv' /\ \A n \in nodes' : Bare(n)'
<1> DEFINE term == Lower(Head(given))
<1>1. given \in Seq(Given) /\ given # <<>> /\ given' = Tail(given)
  BY DEF TrieInv, AddTerm
<1>2. given' \in Seq(Given) /\ term \in Words
  BY <1>1, HeadTailProperties, TextsAndTerms
<1>3. CASE term = <<>>
  <2>1. UNCHANGED <<terms, nodes, fail, output>>
    BY <1>3 DEF AddTerm
  <2> HIDE DEF term
  <2>2. TrieInv'
    BY <1>2, <2>1 DEF TrieInv
  <2>3. QED
    BY <2>1, <2>2 DEF Bare, SameAs
<1>4. CASE term # <<>>
  <2>1. /\ terms' = Append(terms, term)
        /\ nodes' = nodes \cup Prefixes(term)
        /\ fail' = [n \in nodes' |-> <<>>]
        /\ output' = [n \in nodes' |->
              (IF n \in nodes THEN output[n] ELSE <<>>)
              \o (IF n = term THEN <<Len(terms')>> ELSE <<>>)]
    BY <1>4 DEF AddTerm
  <2> HIDE DEF term
  <2> DEFINE k == Len(terms) + 1
  <2>2. /\ terms \in Seq(Words) /\ nodes \in SUBSET Words /\ IsFiniteSet(nodes) /\ <<>> \in nodes
        /\ \A n \in nodes : n # <<>> => Front(n) \in nodes
        /\ \A t \in DOMAIN terms : terms[t] # <<>> /\ terms[t] \in nodes
    BY DEF TrieInv
  <2>3. /\ terms' \in Seq(Words) /\ Len(terms') = k /\ terms'[k] = term
        /\ \A t \in 1..Len(terms) : terms'[t] = terms[t]
        /\ Len(terms) \in Nat /\ DOMAIN terms = 1..Len(terms) /\ DOMAIN terms' = 1..k
    BY <1>2, <2>1, <2>2, AppendProperties, LenProperties
  <2>4. /\ Prefixes(term) \subseteq Words /\ IsFiniteSet(Prefixes(term)) /\ term \in Prefixes(term)
        /\ \A p \in Prefixes(term) : Len(p) <= Len(term) /\ (p # <<>> => Front(p) \in Prefixes(term))
    BY <1>2, PrefixFacts DEF Words
  <2>5. nodes' \in SUBSET Words /\ IsFiniteSet(nodes') /\ <<>> \in nodes' /\ term \in nodes'
        /\ \A n \in nodes' : n # <<>> => Front(n) \in nodes'
    BY <2>1, <2>2, <2>4, FS_Union
  <2>6. \A t \in DOMAIN terms' : terms'[t] # <<>> /\ terms'[t] \in nodes'
    <3> TAKE t \in DOMAIN terms'
    <3>1. t \in 1..Len(terms) \/ t = k
      BY <2>3
    <3>2. QED
      BY <1>4, <2>1, <2>2, <2>3, <2>5, <3>1
  <2>7. \E depth \in Nat : \A n \in nodes' : Len(n) <= depth
    <3>1. PICK depth \in Nat : \A n \in nodes : Len(n) <= depth
      BY DEF TrieInv
    <3>2. Len(term) \in Nat /\ \A n \in nodes' : Len(n) \in Nat
      BY <1>2, <2>5, LenProperties DEF Words
    <3>3. ASSUME NEW n \in nodes'
          PROVE  Len(n) <= depth + Len(term)
      <4>1. Len(n) <= depth \/ Len(n) <= Len(term)
        BY <2>1, <2>4, <3>1
      <4>2. QED
        BY <3>1, <3>2, <4>1
    <3>4. QED
      BY <3>2, <3>3
  <2>8. fail' \in [nodes' -> nodes'] /\ \A n \in nodes' : fail'[n] = <<>>
    BY <2>1, <2>5
  <2>9. ASSUME NEW n \in nodes', n # <<>>
        PROVE  Len(fail'[n]) < Len(n)
    <3>1. Len(n) \in Nat \ {0} /\ Len(<<>>) = 0
      BY <2>5, <2>9, EmptySeq, LenProperties DEF Words
    <3>2. QED
      BY <2>8, <3>1
  <2>10. ASSUME NEW n \in nodes'
         PROVE  Enumerates(output'[n], SameAs(n)')
    <3> DEFINE o == IF n \in nodes THEN output[n] ELSE <<>>
               p == IF n = term THEN <<k>> ELSE <<>>
               P == IF n = term THEN {k} ELSE {}
    <3>1. output'[n] = o \o p
      BY <2>1, <2>3
    <3>2. Enumerates(o, SameAs(n))
      <4>1. CASE n \in nodes
        BY <4>1 DEF Bare
      <4>2. CASE n \notin nodes
        <5>1. SameAs(n) = {}
          BY <2>2, <4>2 DEF SameAs
        <5>2. QED
          BY <4>2, <5>1, EnumerationsOfFew
      <4>3. QED
        BY <4>1, <4>2
    <3>3. Enumerates(p, P)
      <4>1. CASE n = term
        BY <4>1, EnumerationsOfFew
      <4>2. CASE n # term
        BY <4>2, EnumerationsOfFew
      <4>3. QED
        BY <4>1, <4>2
    <3>4. SameAs(n) \cap P = {}
      BY <2>3 DEF SameAs
    <3>5. SameAs(n)' = SameAs(n) \cup P
      <4>1. \A t \in 1..k : t \in 1..Len(terms) \/ t = k
        BY <2>3
      <4>2. \A t \in 1..Len(terms) : t \in 1..k
        BY <2>3
      <4>3. k \in 1..k
        BY <2>3
      <4> HIDE DEF k
      <4>4. QED
        BY <2>3, <4>1, <4>2, <4>3 DEF SameAs
    <3> HIDE DEF o, p, P
    <3>6. QED
      BY <3>1, <3>2, <3>3, <3>4, <3>5, EnumerationOfTwo
  <2>11. output' \in [nodes' -> Seq(DOMAIN terms')]
    <3>1. \A n \in nodes' : output'[n] \in Seq(DOMAIN terms')
      <4> TAKE n \in nodes'
      <4>1. output'[n] \in Seq(SameAs(n)') /\ SameAs(n)' \subseteq DOMAIN terms'
        BY <2>10 DEF Enumerates, SameAs
      <4>2. QED
        BY <4>1, SeqMonotonic
    <3>2. output' = [n \in nodes' |-> output'[n]]
      BY <2>1
    <3>3. QED
      BY <3>1, <3>2
  <2>12. TrieInv'
    BY <1>2, <2>3, <2>5, <2>6, <2>7, <2>8, <2>9, <2>11 DEF TrieInv
  <2>13. QED
    BY <2>8, <2>10, <2>12 DEF Bare
<1>5. QED
  BY <1>3, <1>4
----------------------------------------------------------------------------
(* The walk along the failure links, and what it finds.                    *)

IsWalk(w, c) ==
    w = [n \in nodes |-> IF n = <<>> \/ Append(n, c) \in nodes THEN n ELSE w[fail[n]]]

LEMMA WalkIsDefined ==
    ASSUME TrieInv, NEW c
    PROVE  \E w : IsWalk(w, c)
<1> DEFINE Stops(n) == n = <<>> \/ Append(n, c) \in nodes
           Upto(w, k) == \A n \in nodes : Len(n) <= k => w[n] = IF Stops(n) THEN n ELSE w[fail[n]]
           S == {k \in Nat : \E w \in [nodes -> nodes] : Upto(w, k)}
<1> HIDE DEF Stops
<1>1. PICK depth \in Nat : \A n \in nodes : Len(n) <= depth
  BY DEF TrieInv
<1>2. /\ fail \in [nodes -> nodes]
      /\ \A n \in nodes : Len(n) \in Nat /\ (n # <<>> => Len(fail[n]) < Len(n))
  BY LenProperties DEF TrieInv, Words
<1>3. Stops(<<>>)
  BY DEF Stops
<1>4. 0 \in S
  <2>1. \A n \in nodes : Len(n) <= 0 => n = <<>>
    BY <1>2, EmptySeq DEF TrieInv, Words
  <2> DEFINE w == [n \in nodes |-> <<>>]
  <2>2. w \in [nodes -> nodes] /\ Upto(w, 0)
    BY <1>3, <2>1 DEF TrieInv
  <2> HIDE DEF w, Upto
  <2>3. QED
    BY <2>2
<1>5. ASSUME NEW k \in 0..(depth - 1), k \in S
      PROVE  k + 1 \in S
  <2>1. PICK w \in [nodes -> nodes] : Upto(w, k)
    BY <1>5
  <2> DEFINE v == [n \in nodes |-> IF Len(n) <= k THEN w[n] ELSE IF Stops(n) THEN n ELSE w[fail[n]]]
  <2>2. v \in [nodes -> nodes]
    BY <1>2
  <2>3. \A n \in nodes : Len(n) <= k => v[n] = w[n]
    OBVIOUS
  <2>4. \A n \in nodes : ~(Len(n) <= k) => v[n] = IF Stops(n) THEN n ELSE w[fail[n]]
    OBVIOUS
  <2> HIDE DEF v
  <2>5. ASSUME NEW n \in nodes, Len(n) <= k + 1
        PROVE  v[n] = IF Stops(n) THEN n ELSE v[fail[n]]
    <3>1. v[n] = IF Stops(n) THEN n ELSE w[fail[n]]
      BY <2>1, <2>3, <2>4
    <3>2. CASE ~Stops(n)
      <4>1. fail[n] \in nodes /\ Len(fail[n]) <= k
        <5>1. n # <<>>
          BY <1>3, <3>2
        <5>2. fail[n] \in nodes
          BY <1>2
        <5>3. Len(fail[n]) < Len(n) /\ Len(n) \in Nat /\ Len(fail[n]) \in Nat
          BY <1>2, <5>1, <5>2
        <5>4. QED
          BY <2>5, <5>2, <5>3
      <4>2. QED
        BY <2>3, <3>1, <3>2, <4>1
    <3>3. QED
      BY <3>1, <3>2
  <2>6. Upto(v, k + 1)
    BY <2>5
  <2> HIDE DEF Upto
  <2>7. k + 1 \in Nat
    OBVIOUS
  <2>8. QED
    BY <2>2, <2>6, <2>7
<1> HIDE DEF S
<1>6. depth \in S
  <2>1. \A k \in 0..depth : k \in S
    BY <1>4, <1>5, InductionTo
  <2>2. QED
    BY <2>1
<1>7. PICK w \in [nodes -> nodes] : Upto(w, depth)
  BY <1>6 DEF S
<1>8. \A n \in nodes : w[n] = IF Stops(n) THEN n ELSE w[fail[n]]
  BY <1>1, <1>7
<1>9. w = [n \in nodes |-> IF Stops(n) THEN n ELSE w[fail[n]]]
  BY <1>8
<1>10. IsWalk(w, c)
  BY <1>9 DEF IsWalk, Stops
<1>11. QED
  BY <1>10

LEMMA WalkGoesOn ==
    ASSUME TrieInv, NEW c, NEW n \in nodes
    PROVE  Walk(n, c) = IF n = <<>> \/ Append(n, c) \in nodes THEN n ELSE Walk(fail[n], c)
<1> DEFINE w == CHOOSE w : IsWalk(w, c)
<1>1. IsWalk(w, c)
  BY WalkIsDefined
<1>2. \A m : Walk(m, c) = w[m]
  BY DEF Walk, IsWalk
<1> HIDE DEF w
<1>3. w[n] = IF n = <<>> \/ Append(n, c) \in nodes THEN n ELSE w[fail[n]]
  BY <1>1 DEF IsWalk
<1>4. QED
  BY <1>2, <1>3

(* The links of the nodes no longer than l are right. *)
Linked(l) == \A n \in nodes : n # <<>> /\ Len(n) <= l => LongestEnd(fail[n], n, Len(n) - 1)

Extends(n, c) == n = <<>> \/ Append(n, c) \in nodes

(* From a node whose links are right, the walk finds the longest end that  *)
(* has a child c.                                                          *)
LEMMA WalkFindsLongest ==
    ASSUME TrieInv, NEW c, NEW l \in Nat, Linked(l), NEW n \in nodes, Len(n) <= l
    PROVE  /\ Walk(n, c) \in nodes /\ EndsWith(n, Walk(n, c)) /\ Extends(Walk(n, c), c)
           /\ \A m \in nodes : EndsWith(n, m) /\ Extends(m, c) => Len(m) <= Len(Walk(n, c))
<1> DEFINE Right(k, w) ==
              /\ w \in nodes /\ EndsWith(k, w) /\ Extends(w, c)
              /\ \A m \in nodes : EndsWith(k, m) /\ Extends(m, c) => Len(m) <= Len(w)
           S == {k \in 0..l : \A m \in nodes : Len(m) <= k => Right(m, Walk(m, c))}
<1>1. /\ fail \in [nodes -> nodes] /\ nodes \subseteq Seq(Letters) /\ <<>> \in nodes
      /\ \A m \in nodes : Len(m) \in Nat /\ (m # <<>> => Len(fail[m]) < Len(m))
  BY LenProperties DEF TrieInv, Words
<1>2. ASSUME NEW m \in nodes, Extends(m, c)
      PROVE  Right(m, Walk(m, c))
  <2>1. Walk(m, c) = m
    BY <1>2, WalkGoesOn DEF Extends
  <2>2. EndsWith(m, m)
    BY <1>1, EndsItself
  <2>3. \A k \in nodes : EndsWith(m, k) => Len(k) <= Len(m)
    BY DEF EndsWith
  <2>4. QED
    BY <1>2, <2>1, <2>2, <2>3
<1>3. 0 \in S
  <2>1. \A m \in nodes : Len(m) <= 0 => m = <<>>
    BY <1>1, EmptySeq
  <2>2. Right(<<>>, Walk(<<>>, c))
    BY <1>1, <1>2 DEF Extends
  <2> HIDE DEF Right
  <2>3. QED
    BY <2>1, <2>2
<1>4. ASSUME NEW k \in 0..(l - 1), k \in S
      PROVE  k + 1 \in S
  <2>1. \A m \in nodes : Len(m) <= k => Right(m, Walk(m, c))
    BY <1>4
  <2>2. ASSUME NEW m \in nodes, Len(m) <= k + 1, ~Extends(m, c)
        PROVE  Right(m, Walk(m, c))
    <3> DEFINE f == fail[m]
    <3>1. f \in nodes /\ m # <<>> /\ Len(f) <= k /\ Len(m) <= l
      <4>1. f \in nodes /\ m # <<>>
        BY <1>1, <2>2 DEF Extends
      <4>2. Len(f) < Len(m) /\ Len(m) \in Nat /\ Len(f) \in Nat
        BY <1>1, <4>1
      <4> HIDE DEF f
      <4>3. QED
        BY <2>2, <4>1, <4>2
    <3>2. Walk(m, c) = Walk(f, c)
      BY <2>2, WalkGoesOn DEF Extends
    <3>3. LongestEnd(f, m, Len(m) - 1)
      BY <3>1 DEF Linked
    <3> HIDE DEF f
    <3>4. Right(f, Walk(f, c))
      BY <2>1, <3>1
    <3>5. EndsWith(m, Walk(f, c))
      BY <1>1, <3>1, <3>3, <3>4, EndsTransitive DEF LongestEnd
    <3>6. ASSUME NEW e \in nodes, EndsWith(m, e), Extends(e, c)
          PROVE  Len(e) <= Len(Walk(f, c))
      <4>1. Len(e) # Len(m)
        BY <1>1, <2>2, <3>6, EndOfSameLength
      <4>2. Len(e) <= Len(m) /\ Len(e) \in Nat /\ Len(m) \in Nat
        BY <1>1, <3>6 DEF EndsWith
      <4>3. Len(e) <= Len(m) - 1
        BY <4>1, <4>2
      <4>4. Len(e) <= Len(f)
        BY <3>3, <3>6, <4>3 DEF LongestEnd
      <4>5. EndsWith(f, e)
        BY <1>1, <3>1, <3>3, <3>6, <4>4, EndsOfOneWord DEF LongestEnd
      <4>6. QED
        BY <3>4, <3>6, <4>5
    <3>7. QED
      BY <3>2, <3>4, <3>5, <3>6
  <2>3. \A m \in nodes : Len(m) <= k + 1 => Right(m, Walk(m, c))
    BY <1>2, <2>2
  <2> HIDE DEF Right
  <2>4. k + 1 \in 0..l
    OBVIOUS
  <2>5. QED
    BY <2>3, <2>4
<1> HIDE DEF S
<1>5. l \in S
  <2>1. \A k \in 0..l : k \in S
    BY <1>3, <1>4, InductionTo
  <2>2. QED
    BY <2>1
<1>6. Right(n, Walk(n, c))
  <2> HIDE DEF Right
  <2>1. QED
    BY <1>5 DEF S
<1>7. QED
  BY <1>6

Further(n, c) == LET m == Append(Walk(n, c), c) IN IF m \in nodes THEN m ELSE <<>>

(* One letter further, from the longest end to the longest end. *)
LEMMA NextIsLongest ==
    ASSUME TrieInv, NEW c \in Letters, NEW l \in Nat, Linked(l), NEW u \in Words,
           NEW b \in Nat, NEW n \in nodes, Len(n) <= l, LongestEnd(n, u, b)
    PROVE  LongestEnd(Further(n, c), Append(u, c), b + 1)
<1> DEFINE w == Walk(n, c)
           m == Append(w, c)
           uc == Append(u, c)
<1>1. /\ w \in nodes /\ EndsWith(n, w) /\ Extends(w, c)
      /\ \A k \in nodes : EndsWith(n, k) /\ Extends(k, c) => Len(k) <= Len(w)
  BY WalkFindsLongest
<1>2. /\ nodes \subseteq Seq(Letters) /\ <<>> \in nodes
      /\ \A k \in nodes : Len(k) \in Nat /\ (k # <<>> => Front(k) \in nodes)
  BY LenProperties DEF TrieInv, Words
<1>3. uc \in Seq(Letters) /\ u \in Seq(Letters) /\ n \in Seq(Letters) /\ w \in Seq(Letters)
  BY <1>1, <1>2, AppendProperties DEF Words
<1>4. Further(n, c) = IF m \in nodes THEN m ELSE <<>>
  BY DEF Further
<1> HIDE DEF w
<1>5. Len(m) = Len(w) + 1 /\ Len(w) \in Nat /\ Len(<<>>) = 0
  BY <1>2, <1>1, <1>3, AppendProperties
<1>6. ASSUME NEW k \in nodes, EndsWith(uc, k), Len(k) <= b + 1, k # <<>>
      PROVE  /\ EndsWith(n, Front(k)) /\ k = Append(Front(k), c) /\ Len(k) = Len(Front(k)) + 1
             /\ Len(Front(k)) <= Len(w)
  <2>1. EndsWith(u, Front(k)) /\ k = Append(Front(k), c)
    BY <1>2, <1>3, <1>6, EndsBeforeAppend
  <2>2. Front(k) \in nodes /\ Front(k) \in Seq(Letters) /\ Len(Front(k)) = Len(k) - 1
    BY <1>2, <1>6, FrontAndLast
  <2>3. Len(k) \in Nat /\ Len(Front(k)) <= b
    BY <1>2, <1>6, <2>2
  <2>4. Len(Front(k)) <= Len(n)
    BY <2>1, <2>2, <2>3 DEF LongestEnd
  <2>5. EndsWith(n, Front(k))
    BY <1>3, <2>1, <2>2, <2>4, EndsOfOneWord DEF LongestEnd
  <2>6. Extends(Front(k), c)
    BY <2>1 DEF Extends
  <2>7. QED
    BY <1>1, <2>1, <2>2, <2>3, <2>5, <2>6
<1>7. CASE m \in nodes
  <2>1. EndsWith(u, w)
    BY <1>1, <1>3, EndsTransitive DEF LongestEnd
  <2>2. EndsWith(uc, m)
    BY <1>3, <2>1, EndsOfAppend
  <2>3. Len(w) <= b
    <3>1. Len(w) <= Len(n) /\ Len(n) <= b /\ Len(n) \in Nat
      BY <1>1, <1>2 DEF EndsWith, LongestEnd
    <3>2. QED
      BY <1>5, <3>1
  <2> HIDE DEF m, uc
  <2>4. ASSUME NEW k \in nodes, EndsWith(uc, k), Len(k) <= b + 1
        PROVE  Len(k) <= Len(m)
    <3>1. CASE k = <<>>
      BY <1>5, <3>1
    <3>2. CASE k # <<>>
      <4>1. Len(k) = Len(Front(k)) + 1 /\ Len(Front(k)) <= Len(w)
        BY <1>6, <2>4, <3>2
      <4>2. Len(k) \in Nat
        BY <1>2
      <4>3. Len(Front(k)) \in Nat
        BY <1>2, <3>2
      <4>4. QED
        BY <1>5, <4>1, <4>2, <4>3
    <3>3. QED
      BY <3>1, <3>2
  <2>5. Len(m) <= b + 1
    BY <1>5, <2>3
  <2>6. LongestEnd(m, uc, b + 1)
    BY <1>7, <2>2, <2>4, <2>5 DEF LongestEnd
  <2>7. QED
    BY <1>4, <1>7, <2>6 DEF uc
<1>8. CASE m \notin nodes
  <2>1. w = <<>>
    BY <1>1, <1>8 DEF Extends
  <2> HIDE DEF uc
  <2>2. ASSUME NEW k \in nodes, EndsWith(uc, k), Len(k) <= b + 1
        PROVE  k = <<>>
    <3> SUFFICES ASSUME k # <<>>
                 PROVE  FALSE
      OBVIOUS
    <3>1. k = Append(Front(k), c) /\ Len(Front(k)) <= Len(w)
      BY <1>6, <2>2
    <3>2. Front(k) \in Seq(Letters) /\ Front(k) \in nodes
      BY <1>2, FrontAndLast
    <3>3. Front(k) = <<>>
      BY <1>2, <1>5, <2>1, <3>1, <3>2, EmptySeq
    <3>4. QED
      BY <1>8, <2>1, <3>1, <3>3
  <2>3. EndsWith(uc, <<>>)
    BY <1>3, EndsItself
  <2>4. 0 <= b + 1 /\ Len(<<>>) = 0
    OBVIOUS
  <2>5. LongestEnd(<<>>, uc, b + 1)
    BY <1>2, <2>2, <2>3, <2>4 DEF LongestEnd
  <2>6. QED
    BY <1>4, <1>8, <2>5 DEF uc
<1>9. QED
  BY <1>7, <1>8
----------------------------------------------------------------------------
(* Wiring.                                                                 *)

LEMMA ChildrenOf ==
    ASSUME TrieInv, NEW h \in nodes
    PROVE  /\ \A n \in Children(h) :
                 n \in nodes /\ n # <<>> /\ Front(n) = h /\ Len(n) = Len(h) + 1
           /\ \A n \in nodes : n # <<>> /\ Front(n) = h => n \in Children(h)
           /\ \A q \in SetToSeqs(Children(h)) : Enumerates(q, Children(h))
<1>1. \A n \in nodes : n \in Seq(Letters) /\ Len(n) \in Nat
  BY LenProperties DEF TrieInv, Words
<1>2. ASSUME NEW n \in Children(h)
      PROVE  n \in nodes /\ n # <<>> /\ Front(n) = h /\ Len(n) = Len(h) + 1
  <2>1. n \in nodes /\ n # <<>> /\ Front(n) = h
    BY DEF Children
  <2>2. Len(Front(n)) = Len(n) - 1 /\ Len(n) \in Nat
    BY <1>1, <2>1, FrontAndLast
  <2>3. QED
    BY <2>1, <2>2
<1>3. \A n \in nodes : n # <<>> /\ Front(n) = h => n \in Children(h)
  BY DEF Children
<1>4. IsFiniteSet(Children(h))
  <2>1. Children(h) \in SUBSET nodes /\ IsFiniteSet(nodes)
    BY DEF Children, TrieInv
  <2>2. QED
    BY <2>1, FS_Subset
<1>5. \A q \in SetToSeqs(Children(h)) : Enumerates(q, Children(h))
  BY <1>4, EnumerationOfASet
<1>6. QED
  BY <1>2, <1>3, <1>5

(* A node whose parent's links are right can be wired: its link is the    *)
(* longest proper end, and the terms it ends with are its own and those   *)
(* its link ends with.                                                    *)
LEMMA WiringANode ==
    ASSUME TrieInv, NEW l \in Nat, Linked(l), NEW n \in nodes, n # <<>>,
           Front(n) # <<>>, Len(Front(n)) = l, Bare(n),
           \A k \in nodes : Len(k) <= l => Enumerates(output[k], EndsOf(k))
    PROVE  /\ LongestEnd(FailOf(n), n, Len(n) - 1)
           /\ Enumerates(output[n] \o output[FailOf(n)], EndsOf(n))
<1> DEFINE h == Front(n)
           c == Last(n)
           f == fail[h]
           m == Further(f, c)
<1>1. /\ nodes \subseteq Seq(Letters) /\ <<>> \in nodes /\ fail \in [nodes -> nodes]
      /\ \A k \in nodes : Len(k) \in Nat /\ (k # <<>> => Front(k) \in nodes /\ Len(fail[k]) < Len(k))
      /\ \A t \in DOMAIN terms : terms[t] \in nodes
  BY LenProperties DEF TrieInv, Words
<1>2. /\ h \in nodes /\ h # <<>> /\ c \in Letters /\ n = Append(h, c) /\ Len(h) = l
      /\ l = Len(n) - 1 /\ Len(n) \in Nat \ {0}
  BY <1>1, FrontAndLast
<1>3. f \in nodes /\ Len(f) \in Nat /\ Len(f) < l
  BY <1>1, <1>2
<1>4. l - 1 \in Nat /\ Len(f) <= l /\ (l - 1) + 1 = l
  BY <1>3
<1> HIDE DEF h, c
<1>5. LongestEnd(f, h, l - 1)
  <2>1. Len(h) <= l /\ Len(h) - 1 = l - 1
    BY <1>2
  <2>2. LongestEnd(fail[h], h, Len(h) - 1)
    BY <1>2, <2>1 DEF Linked
  <2>3. QED
    BY <2>1, <2>2
<1> HIDE DEF f, m
<1>6. LongestEnd(m, n, l)
  <2>1. h \in Words
    BY <1>1, <1>2 DEF Words
  <2>2. LongestEnd(Further(f, c), Append(h, c), (l - 1) + 1)
    BY <1>2, <1>3, <1>4, <1>5, <2>1, NextIsLongest
  <2>3. QED
    BY <1>2, <1>4, <2>2 DEF m
<1>7. FailOf(n) = m
  <2> DEFINE x == Append(Walk(f, c), c)
  <2>1. FailOf(n) = IF x \in nodes /\ x # n THEN x ELSE <<>>
    BY DEF FailOf, h, c, f
  <2>2. m = IF x \in nodes THEN x ELSE <<>>
    BY DEF Further, m
  <2>3. Len(m) # Len(n)
    <3>1. Len(m) <= l /\ Len(m) \in Nat
      BY <1>1, <1>6 DEF LongestEnd
    <3>2. QED
      BY <1>2, <3>1
  <2> HIDE DEF x
  <2>4. QED
    BY <2>1, <2>2, <2>3
<1>8. m \in nodes /\ EndsWith(n, m) /\ Len(m) <= l /\ Len(m) \in Nat
  BY <1>1, <1>6 DEF LongestEnd
<1>9. Enumerates(output[n], SameAs(n)) /\ Enumerates(output[m], EndsOf(m))
  BY <1>8 DEF Bare
<1>10. ASSUME NEW t \in DOMAIN terms
       PROVE  /\ terms[t] = n => EndsWith(n, terms[t]) /\ ~EndsWith(m, terms[t])
              /\ EndsWith(m, terms[t]) => EndsWith(n, terms[t])
              /\ EndsWith(n, terms[t]) => terms[t] = n \/ EndsWith(m, terms[t])
  <2> DEFINE s == terms[t]
  <2>1. s \in nodes /\ s \in Seq(Letters) /\ Len(s) \in Nat
    BY <1>1
  <2>2. n \in Seq(Letters) /\ m \in Seq(Letters)
    BY <1>1, <1>8
  <2> HIDE DEF s
  <2>3. s = n => EndsWith(n, s) /\ ~EndsWith(m, s)
    <3>1. EndsWith(n, n)
      BY <2>2, EndsItself
    <3>2. ~(Len(n) <= Len(m))
      BY <1>2, <1>8
    <3>3. QED
      BY <3>1, <3>2 DEF EndsWith
  <2>4. EndsWith(m, s) => EndsWith(n, s)
    BY <1>8, <2>1, <2>2, EndsTransitive
  <2>5. ASSUME EndsWith(n, s), s # n
        PROVE  EndsWith(m, s)
    <3>1. Len(s) # Len(n) /\ Len(s) <= Len(n)
      BY <2>1, <2>2, <2>5, EndOfSameLength DEF EndsWith
    <3>2. Len(s) <= l
      BY <1>2, <2>1, <3>1
    <3>3. Len(s) <= Len(m)
      BY <1>6, <2>1, <2>5, <3>2 DEF LongestEnd
    <3>4. QED
      BY <1>8, <2>1, <2>2, <2>5, <3>3, EndsOfOneWord
  <2>6. QED
    BY <2>3, <2>4, <2>5 DEF s
<1>11. SameAs(n) \cap EndsOf(m) = {} /\ SameAs(n) \cup EndsOf(m) = EndsOf(n)
  BY <1>10 DEF SameAs, EndsOf
<1>12. Enumerates(output[n] \o output[m], EndsOf(n))
  BY <1>9, <1>11, EnumerationOfTwo
<1>13. QED
  BY <1>2, <1>6, <1>7, <1>12

LEMMA LinkedFromWired ==
    ASSUME TrieInv, NEW l \in Nat, WiredTo(l)
    PROVE  Linked(l) /\ \A k \in nodes : Len(k) <= l => Enumerates(output[k], EndsOf(k))
BY DEF WiredTo, Linked, Wired

(* The level of the queue is that of its head.                             *)
LEMMA LevelOfHead ==
    ASSUME TrieInv, queue # <<>>, NEW l \in Nat, WiredTo(l)
    PROVE  Len(Head(queue)) \in Nat /\ WiredTo(Len(Head(queue)))
<1> DEFINE Q == ToSet(queue)
           h == Head(queue)
<1>1. /\ Enumerates(queue, Q) /\ Q \subseteq nodes \ {<<>>}
      /\ \A n \in Q : Len(n) \in {l, l + 1}
      /\ \A i, j \in DOMAIN queue : i < j => Len(queue[i]) <= Len(queue[j])
      /\ \A n \in nodes : Len(n) = l + 1 => (n \in Q <=> Front(n) \notin Q)
      /\ \A n \in nodes : IF Len(n) <= l \/ n \in Q THEN Wired(n) ELSE Bare(n)
  BY DEF WiredTo
<1>2. /\ Len(queue) \in Nat /\ DOMAIN queue = 1..Len(queue)
      /\ \A i \in 1..Len(queue) : queue[i] \in Q
      /\ \A n \in Q : \E i \in 1..Len(queue) : queue[i] = n
  BY <1>1, EnumerationFacts
<1>3. queue \in Seq(Q)
  BY <1>1 DEF Enumerates
<1>4. Len(queue) # 0 /\ 1 \in 1..Len(queue) /\ h = queue[1] /\ h \in Q
  BY <1>2, <1>3, EmptySeq
<1>5. CASE Len(h) = l
  BY <1>5
<1>6. CASE Len(h) # l
  <2> HIDE DEF h
  <2>1. Len(h) = l + 1 /\ l + 1 \in Nat
    BY <1>1, <1>4, <1>6
  <2>2. \A n \in Q : Len(n) = l + 1
    <3> TAKE n \in Q
    <3>1. PICK i \in 1..Len(queue) : queue[i] = n
      BY <1>2
    <3>2. i = 1 \/ 1 < i
      BY <1>2
    <3>3. Len(h) <= Len(n)
      BY <1>1, <1>2, <1>4, <2>1, <3>1, <3>2
    <3>4. Len(n) = l \/ Len(n) = l + 1
      BY <1>1
    <3>5. QED
      BY <2>1, <3>3, <3>4
  <2> HIDE DEF Q
  <2>3. /\ \A n \in nodes : Len(n) \in Nat /\ n \in Seq(Letters)
        /\ \A n \in nodes : n # <<>> => Front(n) \in nodes
    BY LenProperties DEF TrieInv, Words
  <2>4. ASSUME NEW n \in nodes, Len(n) # 0
        PROVE  Front(n) \in nodes /\ Len(Front(n)) = Len(n) - 1
    <3>1. n # <<>>
      BY <2>4
    <3>2. QED
      BY <2>3, <3>1, FrontAndLast
  <2>5. ASSUME NEW n \in nodes, Len(n) = l + 1
        PROVE  n \in Q
    <3>1. Len(Front(n)) = l
      BY <2>4, <2>5
    <3>2. Front(n) \notin Q
      BY <2>2, <3>1
    <3>3. QED
      BY <1>1, <2>5, <3>2
  <2>6. ASSUME NEW n \in nodes, Len(n) = (l + 1) + 1
        PROVE  n \in Q <=> Front(n) \notin Q
    <3>1. Front(n) \in nodes /\ Len(Front(n)) = l + 1
      BY <2>4, <2>6
    <3>2. Front(n) \in Q /\ n \notin Q
      BY <2>2, <2>5, <2>6, <3>1
    <3>3. QED
      BY <3>2
  <2>7. ASSUME NEW n \in nodes
        PROVE  IF Len(n) <= l + 1 \/ n \in Q THEN Wired(n) ELSE Bare(n)
    <3>1. Len(n) <= l + 1 \/ n \in Q <=> Len(n) <= l \/ n \in Q
      BY <2>2, <2>3, <2>5
    <3>2. IF Len(n) <= l \/ n \in Q THEN Wired(n) ELSE Bare(n)
      BY <1>1
    <3>3. QED
      BY <3>1, <3>2
  <2>8. \A n \in Q : Len(n) \in {l + 1, (l + 1) + 1}
    BY <2>2
  <2>9. WiredTo(l + 1)
    BY <1>1, <2>6, <2>7, <2>8 DEF WiredTo, Q
  <2>10. QED
    BY <2>1, <2>9 DEF h
<1>7. QED
  BY <1>5, <1>6

(* When the queue is empty, every node is wired.                           *)
LEMMA AllWired ==
    ASSUME TrieInv, NEW l \in Nat, WiredTo(l), queue = <<>>
    PROVE  \A n \in nodes : Wired(n)
<1>1. ToSet(queue) = {}
  BY DEF ToSet
<1>2. PICK depth \in Nat : \A n \in nodes : Len(n) <= depth
  BY DEF TrieInv
<1>3. /\ \A n \in nodes : Len(n) \in Nat /\ n \in Seq(Letters)
      /\ \A n \in nodes : n # <<>> => Front(n) \in nodes
  BY LenProperties DEF TrieInv, Words
<1> DEFINE S == {k \in Nat : \A n \in nodes : Len(n) # l + 1 + k}
<1>4. 0 \in S
  <2>1. \A n \in nodes : Len(n) # l + 1
    BY <1>1 DEF WiredTo
  <2>2. QED
    BY <2>1
<1>5. ASSUME NEW k \in 0..(depth - 1), k \in S
      PROVE  k + 1 \in S
  <2>1. ASSUME NEW n \in nodes, Len(n) = l + 1 + (k + 1)
        PROVE  FALSE
    <3>1. n # <<>>
      BY <2>1
    <3>2. Front(n) \in nodes /\ Len(Front(n)) = Len(n) - 1
      BY <1>3, <3>1, FrontAndLast
    <3>3. Len(Front(n)) = l + 1 + k
      BY <2>1, <3>2
    <3>4. QED
      BY <1>5, <3>2, <3>3
  <2>2. QED
    BY <2>1
<1> HIDE DEF S
<1>6. \A k \in 0..depth : k \in S
  BY <1>4, <1>5, InductionTo
<1>7. ASSUME NEW n \in nodes
      PROVE  Len(n) <= l
  <2> SUFFICES ASSUME ~(Len(n) <= l)
               PROVE  FALSE
    OBVIOUS
  <2> DEFINE k == Len(n) - l - 1
  <2>1. k \in 0..depth /\ Len(n) = l + 1 + k
    BY <1>2, <1>3
  <2>2. k \in S
    BY <1>6, <2>1
  <2> HIDE DEF k
  <2>3. QED
    BY <2>1, <2>2 DEF S
<1>8. QED
  BY <1>7 DEF WiredTo
LEMMA EnumerationOfTail ==
    ASSUME NEW S, NEW s, Enumerates(s, S), s # <<>>
    PROVE  /\ Head(s) \in S /\ Enumerates(Tail(s), S \ {Head(s)})
           /\ Len(Tail(s)) = Len(s) - 1 /\ \A i \in 1..(Len(s) - 1) : Tail(s)[i] = s[i + 1]
<1> DEFINE h == Head(s)
           t == Tail(s)
           T == S \ {h}
<1>1. /\ Len(s) \in Nat /\ \A i \in 1..Len(s) : s[i] \in S
      /\ \A x \in S : \E i \in 1..Len(s) : s[i] = x
      /\ \A i, j \in 1..Len(s) : i # j => s[i] # s[j]
  BY EnumerationFacts
<1>2. s \in Seq(S)
  BY DEF Enumerates
<1>3. Len(s) # 0 /\ h = s[1]
  BY <1>2, EmptySeq
<1>4. h \in S /\ t \in Seq(S) /\ Len(t) = Len(s) - 1 /\ \A i \in 1..(Len(s) - 1) : t[i] = s[i + 1]
  BY <1>2, HeadTailProperties
<1>5. 1 \in 1..Len(s) /\ \A i \in 1..(Len(s) - 1) : i + 1 \in 1..Len(s) /\ i + 1 # 1
  BY <1>1, <1>3
<1> HIDE DEF t, h
<1>6. \A i \in 1..Len(t) : t[i] \in T
  BY <1>1, <1>3, <1>4, <1>5
<1>7. t \in Seq(T)
  <2>1. Len(t) \in Nat /\ t \in [1..Len(t) -> S]
    BY <1>4, LenProperties
  <2>2. t \in [1..Len(t) -> T]
    BY <1>6, <2>1
  <2>3. QED
    BY <2>1, <2>2, SeqDef
<1>8. ASSUME NEW x \in T
      PROVE  \E i \in 1..Len(t) : t[i] = x
  <2>1. PICK i \in 1..Len(s) : s[i] = x
    BY <1>1
  <2>2. i # 1
    BY <1>3, <2>1
  <2> DEFINE k == i - 1
  <2>3. k \in 1..(Len(s) - 1) /\ k + 1 = i
    BY <1>1, <2>2
  <2> HIDE DEF k
  <2>4. t[k] = x
    BY <1>4, <2>1, <2>3
  <2>5. QED
    BY <1>4, <2>3, <2>4
<1>9. ASSUME NEW i \in 1..Len(t), NEW j \in 1..Len(t), i # j
      PROVE  t[i] # t[j]
  <2>1. i + 1 # j + 1 /\ i + 1 \in 1..Len(s) /\ j + 1 \in 1..Len(s)
    BY <1>1, <1>4, <1>9
  <2>2. t[i] = s[i + 1] /\ t[j] = s[j + 1] /\ s[i + 1] # s[j + 1]
    BY <1>1, <1>4, <1>9, <2>1
  <2>3. QED
    BY <2>2
<1>10. Enumerates(t, T)
  <2> HIDE DEF T
  <2>1. QED
    BY <1>7, <1>8, <1>9, EnumerationIs
<1>11. QED
  BY <1>4, <1>10 DEF t, h

(* The breadth-first search starts with the children of the root.          *)
LEMMA StartWiringKeepsLevels ==
    ASSUME TrieInv, \A n \in nodes : Bare(n), StartWiring
    PROVE  WiredTo(0)'
<1> DEFINE C == Children(<<>>)
<1>1. queue' \in SetToSeqs(C) /\ UNCHANGED <<terms, nodes, fail, output>>
  BY DEF StartWiring
<1>2. /\ nodes \subseteq Seq(Letters) /\ <<>> \in nodes
      /\ \A n \in nodes : Len(n) \in Nat /\ (n # <<>> => Front(n) \in nodes)
      /\ \A t \in DOMAIN terms : terms[t] \in nodes /\ terms[t] # <<>>
      /\ Len(<<>>) = 0
  BY LenProperties DEF TrieInv, Words
<1>3. /\ \A n \in C : n \in nodes /\ n # <<>> /\ Front(n) = <<>> /\ Len(n) = Len(<<>>) + 1
      /\ \A n \in nodes : n # <<>> /\ Front(n) = <<>> => n \in C
      /\ Enumerates(queue', C)
  BY <1>1, <1>2, ChildrenOf
<1> HIDE DEF C
<1>4. Enumerates(queue', ToSet(queue')) /\ ToSet(queue') = C
  BY <1>3 DEF Enumerates
<1>5. \A n \in C : Len(n) \in {0, 0 + 1}
  BY <1>2, <1>3
<1>6. \A i, j \in DOMAIN queue' : i < j => Len(queue'[i]) <= Len(queue'[j])
  <2>1. \A i \in DOMAIN queue' : queue'[i] \in C
    BY <1>4 DEF ToSet
  <2>2. QED
    BY <1>2, <1>3, <2>1
<1>7. ASSUME NEW n \in nodes, Len(n) = 0 + 1
      PROVE  n \in C /\ Front(n) \notin C
  <2>1. n # <<>>
    BY <1>2, <1>7
  <2>2. Front(n) \in Seq(Letters) /\ Len(Front(n)) = Len(n) - 1
    BY <1>2, <2>1, FrontAndLast
  <2>3. Front(n) = <<>>
    BY <1>7, <2>2, EmptySeq
  <2>4. QED
    BY <1>3, <2>1, <2>3
<1>8. ASSUME NEW n \in nodes, Len(n) <= 1
      PROVE  Wired(n)
  <2>1. fail[n] = <<>> /\ Enumerates(output[n], SameAs(n))
    BY DEF Bare
  <2>2. n \in Seq(Letters) /\ Len(n) \in Nat
    BY <1>2
  <2>3. ASSUME n # <<>>
        PROVE  LongestEnd(<<>>, n, Len(n) - 1)
    <3>1. Len(n) = 1
      <4>1. Len(n) # 0
        BY <2>2, <2>3, EmptySeq
      <4>2. Len(n) \in Nat /\ Len(n) <= 1
        BY <1>8, <2>2
      <4> DEFINE k == Len(n)
      <4> HIDE DEF k
      <4>3. k \in Nat /\ k <= 1 /\ k # 0
        BY <4>1, <4>2 DEF k
      <4>4. k = 1
        BY <4>3
      <4>5. QED
        BY <4>4 DEF k
    <3>2. EndsWith(n, <<>>)
      BY <2>2, EndsItself
    <3>3. QED
      BY <1>2, <3>1, <3>2 DEF LongestEnd
  <2>4. ASSUME NEW t \in DOMAIN terms
        PROVE  EndsWith(n, terms[t]) <=> terms[t] = n
    <3>1. terms[t] \in Seq(Letters) /\ Len(terms[t]) \in Nat \ {0}
      BY <1>2, EmptySeq
    <3>2. terms[t] = n => EndsWith(n, terms[t])
      BY <2>2, EndsItself
    <3>3. ASSUME EndsWith(n, terms[t])
          PROVE  terms[t] = n
      <4>1. Len(terms[t]) <= Len(n)
        BY <3>3 DEF EndsWith
      <4>2. Len(terms[t]) = Len(n)
        BY <1>8, <2>2, <3>1, <4>1
      <4>3. QED
        BY <2>2, <3>1, <3>3, <4>2, EndOfSameLength
    <3>4. QED
      BY <3>2, <3>3
  <2>5. EndsOf(n) = SameAs(n)
    BY <2>4 DEF EndsOf, SameAs
  <2>6. QED
    BY <2>1, <2>3, <2>5 DEF Wired
<1>9. ASSUME NEW n \in nodes
      PROVE  IF Len(n) <= 0 \/ n \in C THEN Wired(n) ELSE Bare(n)
  <2>1. Len(n) <= 0 \/ n \in C => Len(n) <= 1
    BY <1>2, <1>3
  <2>2. QED
    BY <1>8, <2>1
<1>10. /\ \A n \in nodes : Wired(n)' <=> Wired(n)
       /\ \A n \in nodes : Bare(n)' <=> Bare(n)
  BY <1>1 DEF Wired, Bare, EndsOf, SameAs, LongestEnd
<1>11. /\ \A n \in nodes' : Len(n) = 0 + 1 => (n \in C <=> Front(n) \notin C)
       /\ \A n \in nodes' : IF Len(n) <= 0 \/ n \in C THEN Wired(n)' ELSE Bare(n)'
       /\ C \subseteq nodes' \ {<<>>}
  BY <1>1, <1>3, <1>7, <1>9, <1>10
<1>12. QED
  BY <1>4, <1>5, <1>6, <1>11 DEF WiredTo

LEMMA WireKeepsLevels ==
    ASSUME TrieInv, NEW l \in Nat, WiredTo(l), Wire, Len(Head(queue)) = l
    PROVE  TrieInv' /\ WiredTo(l)'
<1> DEFINE Q == ToSet(queue)
           h == Head(queue)
           C == Children(h)
           R == (Q \ {h}) \cup C
<1>1. /\ Enumerates(queue, Q) /\ Q \subseteq nodes \ {<<>>}
      /\ \A n \in Q : Len(n) \in {l, l + 1}
      /\ \A i, j \in DOMAIN queue : i < j => Len(queue[i]) <= Len(queue[j])
      /\ \A n \in nodes : Len(n) = l + 1 => (n \in Q <=> Front(n) \notin Q)
      /\ \A n \in nodes : IF Len(n) <= l \/ n \in Q THEN Wired(n) ELSE Bare(n)
  BY DEF WiredTo
<1>2. /\ queue # <<>> /\ UNCHANGED <<given, terms, nodes, text, cur, found>>
      /\ fail' = [n \in nodes |-> IF n \in C THEN FailOf(n) ELSE fail[n]]
      /\ output' = [n \in nodes |-> IF n \in C THEN output[n] \o output[FailOf(n)] ELSE output[n]]
      /\ \E cs \in SetToSeqs(C) : queue' = Tail(queue) \o cs
  BY DEF Wire
<1>3. PICK cs \in SetToSeqs(C) : queue' = Tail(queue) \o cs
  BY <1>2
<1>4. /\ nodes \subseteq Seq(Letters) /\ <<>> \in nodes
      /\ \A n \in nodes : Len(n) \in Nat /\ (n # <<>> => Front(n) \in nodes)
      /\ fail \in [nodes -> nodes] /\ output \in [nodes -> Seq(DOMAIN terms)]
      /\ \A n \in nodes : n # <<>> => Len(fail[n]) < Len(n)
  BY LenProperties DEF TrieInv, Words
<1>5. /\ h \in Q /\ Enumerates(Tail(queue), Q \ {h})
  BY <1>1, <1>2, EnumerationOfTail
<1>6. h \in nodes /\ h # <<>> /\ Len(h) = l
  BY <1>1, <1>5
<1>7. /\ \A n \in C : n \in nodes /\ n # <<>> /\ Front(n) = h /\ Len(n) = l + 1
      /\ \A n \in nodes : n # <<>> /\ Front(n) = h => n \in C
      /\ Enumerates(cs, C)
  BY <1>3, <1>6, ChildrenOf
<1> HIDE DEF C, h, Q
<1>8. \A n \in C : n \notin Q /\ Bare(n)
  <2> TAKE n \in C
  <2>1. n \notin Q
    BY <1>1, <1>5, <1>7
  <2>2. ~(Len(n) <= l)
    BY <1>7
  <2>3. QED
    BY <1>1, <1>7, <2>1, <2>2
<1>9. \A n \in C : /\ LongestEnd(FailOf(n), n, Len(n) - 1)
                   /\ Enumerates(output[n] \o output[FailOf(n)], EndsOf(n))
  <2>1. Linked(l) /\ \A k \in nodes : Len(k) <= l => Enumerates(output[k], EndsOf(k))
    BY LinkedFromWired
  <2>2. QED
    BY <1>6, <1>7, <1>8, <2>1, WiringANode
<1>10. TrieInv'
  <2>1. ASSUME NEW n \in nodes
        PROVE  /\ fail'[n] \in nodes /\ (n # <<>> => Len(fail'[n]) < Len(n))
               /\ output'[n] \in Seq(DOMAIN terms)
    <3>1. CASE n \in C
      <4>1. FailOf(n) \in nodes /\ Len(FailOf(n)) <= Len(n) - 1
        BY <1>9, <3>1 DEF LongestEnd
      <4>2. Len(FailOf(n)) < Len(n)
        BY <1>4, <4>1
      <4>3. output[n] \o output[FailOf(n)] \in Seq(DOMAIN terms)
        BY <1>4, <4>1, ConcatProperties
      <4>4. QED
        BY <1>2, <3>1, <4>1, <4>2, <4>3
    <3>2. CASE n \notin C
      BY <1>2, <1>4, <3>2
    <3>3. QED
      BY <3>1, <3>2
  <2>2. fail' \in [nodes' -> nodes'] /\ output' \in [nodes' -> Seq(DOMAIN terms')]
    <3>1. fail' = [n \in nodes |-> fail'[n]] /\ output' = [n \in nodes |-> output'[n]]
      BY <1>2
    <3>2. QED
      BY <1>2, <2>1, <3>1
  <2>3. \A n \in nodes' : n # <<>> => Len(fail'[n]) < Len(n)
    BY <1>2, <2>1
  <2>4. QED
    BY <1>2, <2>2, <2>3 DEF TrieInv
<1>11. Enumerates(queue', R)
  <2>1. (Q \ {h}) \cap C = {}
    BY <1>8
  <2>2. QED
    BY <1>3, <1>5, <1>7, <2>1, EnumerationOfTwo
<1>12. ToSet(queue') = R /\ R \subseteq nodes \ {<<>>}
  BY <1>1, <1>7, <1>11 DEF Enumerates
<1>13. \A n \in R : Len(n) \in {l, l + 1}
  BY <1>1, <1>7
<1>14. \A i, j \in DOMAIN queue' : i < j => Len(queue'[i]) <= Len(queue'[j])
  <2> DEFINE k == Len(Tail(queue))
  <2>1. /\ k = Len(queue) - 1 /\ \A i \in 1..(Len(queue) - 1) : Tail(queue)[i] = queue[i + 1]
    BY <1>1, <1>2, EnumerationOfTail
  <2>2. /\ Len(queue) \in Nat /\ DOMAIN queue = 1..Len(queue) /\ \A i \in 1..Len(queue) : queue[i] \in Q
    BY <1>1, EnumerationFacts
  <2>3. k \in Nat
    BY <1>5, EnumerationFacts
  <2>4. Len(cs) \in Nat /\ \A i \in 1..Len(cs) : cs[i] \in C
    BY <1>7, EnumerationFacts
  <2>5. /\ DOMAIN queue' = 1..(k + Len(cs))
        /\ \A i \in 1..(k + Len(cs)) : queue'[i] = IF i <= k THEN Tail(queue)[i] ELSE cs[i - k]
    <3>1. Tail(queue) \in Seq(nodes) /\ cs \in Seq(nodes)
      <4>1. Q \ {h} \subseteq nodes /\ C \subseteq nodes
        BY <1>1, <1>7
      <4>2. QED
        BY <1>5, <1>7, <4>1, SeqMonotonic DEF Enumerates
    <3>2. QED
      BY <1>3, <3>1, ConcatProperties, LenProperties
  <2> HIDE DEF k
  <2>6. ASSUME NEW i \in DOMAIN queue', i <= k
        PROVE  queue'[i] = queue[i + 1] /\ i + 1 \in 1..Len(queue)
    <3>1. i \in 1..(k + Len(cs)) /\ i \in 1..(Len(queue) - 1) /\ i + 1 \in 1..Len(queue)
      BY <2>1, <2>2, <2>3, <2>4, <2>5, <2>6
    <3>2. QED
      BY <2>1, <2>5, <2>6, <3>1
  <2>7. ASSUME NEW i \in DOMAIN queue', ~(i <= k)
        PROVE  Len(queue'[i]) = l + 1
    <3>1. i \in 1..(k + Len(cs)) /\ i - k \in 1..Len(cs)
      BY <2>3, <2>4, <2>5, <2>7
    <3>2. QED
      BY <1>7, <2>4, <2>5, <2>7, <3>1
  <2>8. ASSUME NEW i \in DOMAIN queue'
        PROVE  Len(queue'[i]) \in {l, l + 1}
    BY <1>1, <2>2, <2>6, <2>7
  <2>9. ASSUME NEW i \in DOMAIN queue', NEW j \in DOMAIN queue', i < j
        PROVE  Len(queue'[i]) <= Len(queue'[j])
    <3>1. CASE j <= k
      <4>1. i <= k /\ i + 1 < j + 1
        BY <2>3, <2>4, <2>5, <2>9, <3>1
      <4>2. QED
        BY <1>1, <2>2, <2>6, <3>1, <4>1
    <3>2. CASE ~(j <= k)
      <4>1. Len(queue'[j]) = l + 1
        BY <2>7, <3>2
      <4>2. Len(queue'[i]) = l \/ Len(queue'[i]) = l + 1
        BY <2>8
      <4>3. QED
        BY <4>1, <4>2
    <3>3. QED
      BY <3>1, <3>2
  <2>10. QED
    BY <2>9
<1>15. ASSUME NEW n \in nodes, Len(n) = l + 1
       PROVE  n \in R <=> Front(n) \notin R
  <2>1. n # <<>> /\ n # h
    BY <1>4, <1>6, <1>15
  <2>2. Front(n) \in nodes /\ Len(Front(n)) = l
    <3>1. n \in Seq(Letters) /\ Front(n) \in nodes
      BY <1>4, <2>1
    <3>2. Len(Front(n)) = Len(n) - 1
      BY <2>1, <3>1, FrontAndLast
    <3>3. QED
      BY <1>15, <3>1, <3>2
  <2>3. Front(n) \notin C
    BY <1>7, <2>2
  <2>4. n \in Q <=> Front(n) \notin Q
    BY <1>1, <1>15
  <2>5. n \in C <=> Front(n) = h
    BY <1>7, <2>1
  <2>6. QED
    BY <1>5, <2>1, <2>3, <2>4, <2>5
<1>16. ASSUME NEW n \in nodes
       PROVE  IF Len(n) <= l \/ n \in R THEN Wired(n)' ELSE Bare(n)'
  <2>1. CASE n \in C
    <3>1. fail'[n] = FailOf(n) /\ output'[n] = output[n] \o output[FailOf(n)]
      BY <1>2, <2>1
    <3>2. LongestEnd(fail'[n], n, Len(n) - 1) /\ Enumerates(output'[n], EndsOf(n))
      BY <1>9, <2>1, <3>1
    <3>3. Wired(n)'
      BY <1>2, <3>2 DEF Wired, LongestEnd, EndsOf
    <3>4. QED
      BY <2>1, <3>3
  <2>2. CASE n \notin C
    <3>1. fail'[n] = fail[n] /\ output'[n] = output[n]
      BY <1>2, <2>2
    <3>2. (Wired(n)' <=> Wired(n)) /\ (Bare(n)' <=> Bare(n))
      BY <1>2, <3>1 DEF Wired, Bare, LongestEnd, EndsOf, SameAs
    <3>3. Len(n) <= l \/ n \in R <=> Len(n) <= l \/ n \in Q
      BY <1>6, <2>2
    <3>4. IF Len(n) <= l \/ n \in Q THEN Wired(n) ELSE Bare(n)
      BY <1>1
    <3>5. QED
      BY <3>2, <3>3, <3>4
  <2>3. QED
    BY <2>1, <2>2
<1> HIDE DEF R
<1>17. WiredTo(l)'
  BY <1>2, <1>11, <1>12, <1>13, <1>14, <1>15, <1>16 DEF WiredTo
<1>18. QED
  BY <1>10, <1>17
----------------------------------------------------------------------------
(* Reading.                                                                *)

LEMMA EnumerationOfImage ==
    ASSUME NEW S, NEW s, Enumerates(s, S), NEW f,
           \A x, y \in S : f[x] = f[y] => x = y
    PROVE  Enumerates([i \in DOMAIN s |-> f[s[i]]], {f[x] : x \in S})
<1> DEFINE t == [i \in DOMAIN s |-> f[s[i]]]
           T == {f[x] : x \in S}
<1>1. /\ Len(s) \in Nat /\ DOMAIN s = 1..Len(s) /\ \A i \in 1..Len(s) : s[i] \in S
      /\ \A x \in S : \E i \in 1..Len(s) : s[i] = x
      /\ \A i, j \in 1..Len(s) : i # j => s[i] # s[j]
  BY EnumerationFacts
<1>2. t = [i \in 1..Len(s) |-> f[s[i]]] /\ \A i \in 1..Len(s) : f[s[i]] \in T
  BY <1>1
<1> HIDE DEF T
<1>3. t \in [1..Len(s) -> T] /\ \A i \in 1..Len(s) : t[i] = f[s[i]]
  BY <1>2
<1> HIDE DEF t
<1>4. t \in Seq(T) /\ Len(t) = Len(s)
  BY <1>1, <1>3, SeqDef
<1>5. \A y \in T : \E i \in 1..Len(t) : t[i] = y
  <2> TAKE y \in T
  <2>1. PICK x \in S : y = f[x]
    BY DEF T
  <2>2. PICK i \in 1..Len(s) : s[i] = x
    BY <1>1
  <2>3. QED
    BY <1>3, <1>4, <2>1, <2>2
<1>6. \A i, j \in 1..Len(t) : i # j => t[i] # t[j]
  <2> TAKE i, j \in 1..Len(t)
  <2>1. s[i] \in S /\ s[j] \in S /\ t[i] = f[s[i]] /\ t[j] = f[s[j]] /\ (i # j => s[i] # s[j])
    BY <1>1, <1>3, <1>4
  <2>2. QED
    BY <2>1
<1>7. Enumerates(t, T)
  BY <1>4, <1>5, <1>6, EnumerationIs
<1>8. QED
  BY <1>7 DEF t, T

(* A part of a text, before and after it is put in lower case.             *)
LEMMA PartOfText ==
    ASSUME NEW x \in Seq(Alphabet), NEW k \in Nat, NEW n \in Nat, k <= n, n <= Len(x)
    PROVE  /\ SubSeq(x, k + 1, n) \in Seq(Alphabet) /\ Len(SubSeq(x, k + 1, n)) = n - k
           /\ \A i \in 1..(n - k) : SubSeq(x, k + 1, n)[i] = x[k + i]
           /\ Lower(SubSeq(x, k + 1, n)) \in Words /\ Len(Lower(SubSeq(x, k + 1, n))) = n - k
           /\ \A i \in 1..(n - k) : Lower(SubSeq(x, k + 1, n))[i] = Lower(x)[k + i]
<1> DEFINE y == SubSeq(x, k + 1, n)
           a == k + 1
           d == n - k
<1>1. Len(x) \in Nat /\ \A i \in 1..Len(x) : x[i] \in Alphabet
  BY LenProperties, ElementOfSeq
<1>2. /\ a \in Int /\ n \in Int /\ d \in Nat /\ n - a + 1 = d /\ (~(a <= n) => d = 0)
      /\ \A i \in a..n : i \in 1..Len(x)
      /\ \A i \in 1..d : a + i - 1 = k + i /\ k + i \in 1..Len(x)
  BY <1>1
<1> HIDE DEF a, d
<1>3. \A i \in a..n : x[i] \in Alphabet
  BY <1>1, <1>2
<1>4. /\ SubSeq(x, a, n) \in Seq(Alphabet)
      /\ Len(SubSeq(x, a, n)) = IF a <= n THEN n - a + 1 ELSE 0
      /\ \A i \in 1..(n - a + 1) : SubSeq(x, a, n)[i] = x[a + i - 1]
  BY <1>2, <1>3, SubSeqProperties
<1>5. y = SubSeq(x, a, n)
  BY DEF a
<1> HIDE DEF y
<1>6. y \in Seq(Alphabet) /\ Len(y) = d /\ \A i \in 1..d : y[i] = x[k + i]
  BY <1>2, <1>4, <1>5
<1>7. /\ Lower(y) \in Words /\ Len(Lower(y)) = d
      /\ \A i \in 1..d : Lower(y)[i] = LowerByte(y[i])
      /\ \A i \in 1..Len(x) : Lower(x)[i] = LowerByte(x[i])
  BY <1>6, LowerOfWord, TextsAndTerms
<1>8. \A i \in 1..d : Lower(y)[i] = Lower(x)[k + i]
  BY <1>2, <1>6, <1>7
<1>9. QED
  BY <1>6, <1>7, <1>8 DEF y, d

(* A term stands at the end of a text when the text ends with it.          *)
LEMMA TermAtTheEnd ==
    ASSUME NEW x \in Seq(Alphabet), NEW s \in Words, Len(s) <= Len(x)
    PROVE  /\ Len(x) - Len(s) \in Nat
           /\ Lower(SubSeq(x, (Len(x) - Len(s)) + 1, Len(x))) = s <=> EndsWith(Lower(x), s)
<1> DEFINE k == Len(x) - Len(s)
           n == Len(x)
           y == Lower(SubSeq(x, k + 1, n))
<1>1. n \in Nat /\ Len(s) \in Nat /\ k \in Nat /\ k <= n /\ n <= Len(x) /\ n - k = Len(s)
  BY LenProperties DEF Words
<1>2. Len(Lower(x)) = n
  BY TextsAndTerms
<1>3. y \in Words /\ Len(y) = Len(s) /\ \A i \in 1..Len(s) : y[i] = Lower(x)[k + i]
  <2> HIDE DEF k, n
  <2>1. /\ Lower(SubSeq(x, k + 1, n)) \in Words /\ Len(Lower(SubSeq(x, k + 1, n))) = n - k
        /\ \A i \in 1..(n - k) : Lower(SubSeq(x, k + 1, n))[i] = Lower(x)[k + i]
    BY <1>1, PartOfText
  <2>2. QED
    BY <1>1, <2>1
<1> HIDE DEF y
<1>4. EndsWith(Lower(x), s) <=> \A i \in 1..Len(s) : Lower(x)[k + i] = s[i]
  BY <1>2 DEF EndsWith
<1> HIDE DEF k, n
<1>5. y = s <=> \A i \in 1..Len(s) : Lower(x)[k + i] = s[i]
  <2>1. y = s => \A i \in 1..Len(s) : Lower(x)[k + i] = s[i]
    BY <1>3
  <2>2. ASSUME \A i \in 1..Len(s) : Lower(x)[k + i] = s[i]
        PROVE  y = s
    <3>1. \A i \in 1..Len(y) : y[i] = s[i]
      BY <1>3, <2>2
    <3>2. QED
      BY <1>3, <3>1, SeqEqual DEF Words
  <2>3. QED
    BY <2>1, <2>2
<1>6. k \in Nat /\ (y = s <=> EndsWith(Lower(x), s))
  BY <1>1, <1>4, <1>5
<1>7. QED
  BY <1>6 DEF y, k, n

(* The occurrences in a text with one byte more are those already there   *)
(* and the terms that stand at its end.                                   *)
At(t, n) == [start |-> n - Len(terms[t]), end |-> n, term |-> t]

OccurrencesIn(x) ==
    {o \in [start : 0..Len(x), end : 0..Len(x), term : DOMAIN terms] :
        /\ o.end = o.start + Len(terms[o.term])
        /\ Lower(SubSeq(x, o.start + 1, o.end)) = terms[o.term]}

LEMMA OccurrencesInOneByteMore ==
    ASSUME TrieInv, NEW x \in Seq(Alphabet), NEW b \in Alphabet
    PROVE  OccurrencesIn(Append(x, b)) =
             OccurrencesIn(x) \cup {At(t, Len(x) + 1) : t \in EndsOf(Lower(Append(x, b)))}
<1> DEFINE n == Len(x)
           z == Append(x, b)
           N == {At(t, n + 1) : t \in EndsOf(Lower(z))}
<1>1. /\ n \in Nat /\ z \in Seq(Alphabet) /\ Len(z) = n + 1 /\ \A i \in 1..n : z[i] = x[i]
  BY LenProperties, AppendProperties
<1>2. \A t \in DOMAIN terms : terms[t] \in Words /\ Len(terms[t]) \in Nat
  BY LenProperties DEF TrieInv, Words
<1>3. Len(Lower(z)) = n + 1
  BY <1>1, TextsAndTerms
<1>n. n = Len(x)
  OBVIOUS
<1> HIDE DEF n, z, N
<1>4. ASSUME NEW k \in Nat, NEW m \in Nat, k <= m, m <= n
      PROVE  SubSeq(z, k + 1, m) = SubSeq(x, k + 1, m)
  <2> DEFINE p == SubSeq(z, k + 1, m)
             q == SubSeq(x, k + 1, m)
  <2>1. m <= Len(z) /\ m <= Len(x)
    BY <1>1, <1>n, <1>4
  <2>2. p \in Seq(Alphabet) /\ Len(p) = m - k /\ \A i \in 1..(m - k) : p[i] = z[k + i]
    BY <1>1, <1>4, <2>1, PartOfText
  <2>3. q \in Seq(Alphabet) /\ Len(q) = m - k /\ \A i \in 1..(m - k) : q[i] = x[k + i]
    BY <1>4, <2>1, PartOfText
  <2>4. \A i \in 1..(m - k) : k + i \in 1..n
    BY <1>1, <1>4
  <2> HIDE DEF p, q
  <2>5. \A i \in 1..(m - k) : p[i] = q[i]
    BY <1>1, <2>2, <2>3, <2>4
  <2>a. \A i \in 1..Len(p) : p[i] = q[i]
    BY <2>2, <2>5
  <2>b. p = q
    BY <2>2, <2>3, <2>a, SeqEqual
  <2>6. QED
    BY <2>b DEF p, q
<1>5. ASSUME NEW o \in [start : 0..n, end : 0..n, term : DOMAIN terms],
             o.end = o.start + Len(terms[o.term])
      PROVE  SubSeq(z, o.start + 1, o.end) = SubSeq(x, o.start + 1, o.end)
  <2>1. o.start \in Nat /\ o.end \in Nat /\ o.end <= n /\ o.term \in DOMAIN terms
    BY <1>1
  <2>2. o.start <= o.end
    BY <1>2, <1>5, <2>1
  <2>3. QED
    BY <1>4, <2>1, <2>2
<1>6. ASSUME NEW o \in OccurrencesIn(x)
      PROVE  o \in OccurrencesIn(z)
  <2>1. /\ o \in [start : 0..n, end : 0..n, term : DOMAIN terms]
        /\ o.end = o.start + Len(terms[o.term])
        /\ Lower(SubSeq(x, o.start + 1, o.end)) = terms[o.term]
    BY <1>n DEF OccurrencesIn
  <2>2. Lower(SubSeq(z, o.start + 1, o.end)) = terms[o.term]
    BY <1>5, <2>1
  <2>3. o \in [start : 0..Len(z), end : 0..Len(z), term : DOMAIN terms]
    <3>1. 0..n \subseteq 0..Len(z)
      BY <1>1
    <3>2. QED
      BY <2>1, <3>1
  <2>4. QED
    BY <2>1, <2>2, <2>3 DEF OccurrencesIn
<1>7. ASSUME NEW o \in N
      PROVE  o \in OccurrencesIn(z)
  <2>1. PICK t \in EndsOf(Lower(z)) : o = At(t, n + 1)
    BY DEF N
  <2>2. t \in DOMAIN terms /\ EndsWith(Lower(z), terms[t]) /\ terms[t] \in Words
        /\ Len(terms[t]) \in Nat /\ Len(terms[t]) <= Len(z)
    BY <1>1, <1>2, <1>3 DEF EndsOf, EndsWith
  <2>3. /\ Len(z) - Len(terms[t]) \in Nat
        /\ Lower(SubSeq(z, (Len(z) - Len(terms[t])) + 1, Len(z))) = terms[t]
    BY <1>1, <2>2, TermAtTheEnd
  <2>4. /\ o = [start |-> (n + 1) - Len(terms[t]), end |-> n + 1, term |-> t]
        /\ (n + 1) - Len(terms[t]) = Len(z) - Len(terms[t])
    BY <1>1, <2>1 DEF At
  <2>5. /\ o.start = Len(z) - Len(terms[t]) /\ o.end = Len(z) /\ o.term = t
    BY <1>1, <2>4
  <2>6. o \in [start : 0..Len(z), end : 0..Len(z), term : DOMAIN terms]
    <3>1. Len(z) - Len(terms[t]) \in 0..Len(z) /\ Len(z) \in 0..Len(z)
      BY <1>1, <2>2, <2>3
    <3>2. o = [start |-> Len(z) - Len(terms[t]), end |-> Len(z), term |-> t]
      BY <1>1, <2>4
    <3>3. QED
      BY <2>2, <3>1, <3>2
  <2>7. o.end = o.start + Len(terms[o.term])
    BY <1>1, <2>2, <2>5
  <2>8. QED
    BY <2>3, <2>5, <2>6, <2>7 DEF OccurrencesIn
<1>8. ASSUME NEW o \in OccurrencesIn(z), o \notin OccurrencesIn(x)
      PROVE  o \in N
  <2>1. /\ o \in [start : 0..Len(z), end : 0..Len(z), term : DOMAIN terms]
        /\ o.end = o.start + Len(terms[o.term])
        /\ Lower(SubSeq(z, o.start + 1, o.end)) = terms[o.term]
    BY DEF OccurrencesIn
  <2> DEFINE t == o.term
             l == Len(terms[t])
  <2>2. /\ o.start \in 0..(n + 1) /\ o.end \in 0..(n + 1) /\ t \in DOMAIN terms
        /\ terms[t] \in Words /\ l \in Nat
        /\ o = [start |-> o.start, end |-> o.end, term |-> o.term]
    BY <1>1, <1>2, <2>1
  <2>3. o.end = n + 1
    <3> SUFFICES ASSUME o.end # n + 1
                 PROVE  FALSE
      OBVIOUS
    <3>1. o.start \in 0..n /\ o.end \in 0..n
      BY <1>1, <2>1, <2>2
    <3>2. o \in [start : 0..n, end : 0..n, term : DOMAIN terms]
      BY <2>2, <3>1
    <3>3. Lower(SubSeq(x, o.start + 1, o.end)) = terms[o.term]
      BY <1>5, <2>1, <3>2
    <3>4. o \in OccurrencesIn(x)
      BY <1>n, <2>1, <3>2, <3>3 DEF OccurrencesIn
    <3>5. QED
      BY <1>8, <3>4
  <2>4. o.start = Len(z) - l /\ o.start = (n + 1) - l /\ l <= Len(z) /\ o.end = Len(z)
    BY <1>1, <2>1, <2>2, <2>3
  <2>5. EndsWith(Lower(z), terms[t])
    <3>1. Lower(SubSeq(z, (Len(z) - l) + 1, Len(z))) = terms[t]
      BY <2>1, <2>4
    <3>2. QED
      BY <1>1, <2>2, <2>4, <3>1, TermAtTheEnd
  <2>6. t \in EndsOf(Lower(z))
    BY <2>2, <2>5 DEF EndsOf
  <2>7. o = At(t, n + 1)
    BY <2>2, <2>3, <2>4 DEF At
  <2>8. QED
    BY <2>6, <2>7 DEF N
<1>9. OccurrencesIn(z) = OccurrencesIn(x) \cup N
  BY <1>6, <1>7, <1>8
<1>10. QED
  BY <1>9 DEF n, z, N
LEMMA NothingToFind ==
    ASSUME TrieInv, text = <<>>
    PROVE  Occurrences = {} /\ Enumerates(<<>>, {}) /\ Lower(text) = <<>> /\ Len(text) = 0
<1>1. \A t \in DOMAIN terms : Len(terms[t]) \in Nat \ {0}
  <2> TAKE t \in DOMAIN terms
  <2>1. terms[t] \in Seq(Letters) /\ terms[t] # <<>>
    BY DEF TrieInv, Words
  <2>2. Len(terms[t]) # 0 /\ Len(terms[t]) \in Nat
    BY <2>1, EmptySeq, LenProperties
  <2>3. QED
    BY <2>2
<1>2. Len(text) = 0 /\ text \in Seq(Alphabet)
  OBVIOUS
<1>3. ASSUME NEW o \in Occurrences
      PROVE  FALSE
  <2>1. /\ o \in [start : 0..0, end : 0..0, term : DOMAIN terms]
        /\ o.end = o.start + Len(terms[o.term])
    BY <1>2 DEF Occurrences
  <2>2. o.start = 0 /\ o.end = 0 /\ Len(terms[o.term]) \in Nat \ {0}
    BY <1>1, <2>1
  <2>3. QED
    BY <2>1, <2>2
<1>4. Lower(text) = <<>>
  <2>1. Lower(text) \in Words /\ Len(Lower(text)) = 0
    BY <1>2, TextsAndTerms
  <2>2. QED
    BY <2>1, EmptySeq DEF Words
<1>5. QED
  BY <1>2, <1>3, <1>4, EnumerationsOfFew

LEMMA ReadByteKeepsFound ==
    ASSUME TrieInv, FoundInv, \A n \in nodes : Wired(n), NEW b \in Alphabet, ReadByte(b)
    PROVE  FoundInv' /\ \A n \in nodes' : Wired(n)'
<1> DEFINE c == LowerByte(b)
           n == Len(text)
           z == Append(text, b)
           m == Further(cur, c)
           T == EndsOf(m)
           f == [t \in T |-> At(t, n + 1)]
           piece == [i \in DOMAIN output[m] |-> f[output[m][i]]]
           N == {f[t] : t \in T}
<1>1. /\ text \in Seq(Alphabet) /\ LongestEnd(cur, Lower(text), n) /\ Enumerates(found, Occurrences)
      /\ \A i, j \in DOMAIN found : i < j => found[i].end <= found[j].end
  BY DEF FoundInv
<1>2. /\ n \in Nat /\ z \in Seq(Alphabet) /\ Len(z) = n + 1 /\ c \in Letters
      /\ Lower(text) \in Words /\ Lower(z) \in Words
      /\ Lower(z) = Append(Lower(text), c) /\ Len(Lower(z)) = n + 1
  <2>1. n \in Nat /\ z \in Seq(Alphabet) /\ Len(z) = n + 1
    BY <1>1, LenProperties, AppendProperties
  <2>2. c \in Letters /\ Lower(text) \in Words /\ Lower(z) \in Words /\ Lower(z) = Append(Lower(text), c)
    BY <1>1, <2>1, TextsAndTerms
  <2> HIDE DEF n, z, c
  <2>3. Len(Lower(z)) = n + 1
    BY <1>1, <2>1, TextsAndTerms DEF n
  <2>4. QED
    BY <2>1, <2>2, <2>3
<1>3. /\ text' = z /\ cur' = m /\ UNCHANGED <<given, terms, nodes, fail, output>>
      /\ found' = found \o [i \in DOMAIN output[m] |->
                     LET t == output[m][i]
                     IN  [start |-> Len(z) - Len(terms[t]), end |-> Len(z), term |-> t]]
  BY DEF ReadByte, Further
<1>4. /\ nodes \subseteq Seq(Letters)
      /\ \A k \in nodes : Len(k) \in Nat
      /\ \A t \in DOMAIN terms : terms[t] \in nodes
  BY LenProperties DEF TrieInv, Words
<1>5. cur \in nodes /\ Len(cur) \in Nat
  BY <1>1, <1>4 DEF LongestEnd
<1> HIDE DEF c, z, m
<1>6. LongestEnd(m, Lower(z), n + 1)
  <2>1. Linked(Len(cur))
    BY DEF Linked, Wired
  <2> HIDE DEF n
  <2>2. LongestEnd(Further(cur, c), Append(Lower(text), c), n + 1)
    BY <1>1, <1>2, <1>5, <2>1, NextIsLongest
  <2>3. QED
    BY <1>2, <2>2 DEF m
<1>7. m \in nodes /\ Enumerates(output[m], T)
  BY <1>6 DEF LongestEnd, Wired
<1>8. T = EndsOf(Lower(z))
  <2>1. ASSUME NEW t \in DOMAIN terms
        PROVE  EndsWith(m, terms[t]) <=> EndsWith(Lower(z), terms[t])
    <3>1. terms[t] \in nodes /\ terms[t] \in Seq(Letters) /\ m \in Seq(Letters)
          /\ Lower(z) \in Seq(Letters) /\ EndsWith(Lower(z), m)
      BY <1>2, <1>4, <1>6, <1>7 DEF Words, LongestEnd
    <3>2. EndsWith(m, terms[t]) => EndsWith(Lower(z), terms[t])
      BY <3>1, EndsTransitive
    <3>3. ASSUME EndsWith(Lower(z), terms[t])
          PROVE  EndsWith(m, terms[t])
      <4>1. Len(terms[t]) <= n + 1
        BY <1>2, <3>3 DEF EndsWith
      <4>2. Len(terms[t]) <= Len(m)
        BY <1>6, <3>1, <3>3, <4>1 DEF LongestEnd
      <4>3. QED
        BY <3>1, <3>3, <4>2, EndsOfOneWord
    <3>4. QED
      BY <3>2, <3>3
  <2>2. QED
    BY <2>1 DEF EndsOf
<1> HIDE DEF T
<1>9. Enumerates(piece, N)
  <2>1. \A x \in T : f[x].term = x
    BY DEF At
  <2>2. \A x, y \in T : f[x] = f[y] => x = y
    BY <2>1
  <2> HIDE DEF f
  <2>3. QED
    BY <1>7, <2>2, EnumerationOfImage
<1>10. found' = found \o piece
  <2>1. \A i \in DOMAIN output[m] : output[m][i] \in T
    BY <1>7 DEF Enumerates, ToSet
  <2>2. \A i \in DOMAIN output[m] : f[output[m][i]] =
           [start |-> Len(z) - Len(terms[output[m][i]]), end |-> Len(z), term |-> output[m][i]]
    BY <1>2, <2>1 DEF At
  <2> HIDE DEF f, n
  <2>3. piece = [i \in DOMAIN output[m] |->
                     LET t == output[m][i]
                     IN  [start |-> Len(z) - Len(terms[t]), end |-> Len(z), term |-> t]]
    BY <2>2
  <2> HIDE DEF piece
  <2>4. QED
    BY <1>3, <2>3
<1>11. N = {At(t, n + 1) : t \in EndsOf(Lower(z))}
  BY <1>8
<1>12. Occurrences' = Occurrences \cup N
  <2>1. Occurrences' = OccurrencesIn(z) /\ Occurrences = OccurrencesIn(text)
    BY <1>3 DEF Occurrences, OccurrencesIn
  <2>2. OccurrencesIn(z) = OccurrencesIn(text) \cup {At(t, n + 1) : t \in EndsOf(Lower(z))}
    BY <1>1, OccurrencesInOneByteMore DEF z
  <2>3. QED
    BY <1>11, <2>1, <2>2
<1>13. (\A o \in Occurrences : o.end \in 0..n) /\ (\A o \in N : o.end = n + 1)
  <2>1. \A o \in Occurrences : o.end \in 0..n
    BY DEF Occurrences
  <2>2. \A t : At(t, n + 1).end = n + 1
    BY DEF At
  <2> HIDE DEF n, N
  <2>3. QED
    BY <1>11, <2>1, <2>2
<1>14. Enumerates(found', Occurrences')
  <2>1. Occurrences \cap N = {}
    BY <1>2, <1>13
  <2> HIDE DEF N, piece
  <2>2. QED
    BY <1>1, <1>9, <1>10, <1>12, <2>1, EnumerationOfTwo
<1>15. \A i, j \in DOMAIN found' : i < j => found'[i].end <= found'[j].end
  <2> HIDE DEF N, piece, n
  <2> DEFINE a == Len(found)
             d == Len(piece)
  <2>1. /\ a \in Nat /\ DOMAIN found = 1..a /\ \A i \in 1..a : found[i] \in Occurrences
        /\ d \in Nat /\ \A i \in 1..d : piece[i] \in N
    BY <1>1, <1>9, EnumerationFacts
  <2>2. /\ DOMAIN found' = 1..(a + d)
        /\ \A i \in 1..(a + d) : found'[i] = IF i <= a THEN found[i] ELSE piece[i - a]
    <3>1. found \in Seq(Occurrences') /\ piece \in Seq(Occurrences')
      BY <1>1, <1>9, <1>12, SeqMonotonic DEF Enumerates
    <3>2. QED
      BY <1>10, <3>1, ConcatProperties, LenProperties
  <2> HIDE DEF a, d
  <2>3. ASSUME NEW i \in 1..(a + d)
        PROVE  IF i <= a THEN i \in 1..a /\ found'[i] = found[i] /\ found'[i].end \in 0..n
               ELSE found'[i].end = n + 1
    <3>1. CASE i <= a
      <4>1. i \in 1..a
        BY <2>1, <3>1
      <4>2. QED
        BY <1>13, <2>1, <2>2, <3>1, <4>1
    <3>2. CASE ~(i <= a)
      <4>1. i - a \in 1..d
        BY <2>1, <3>2
      <4>2. QED
        BY <1>13, <2>1, <2>2, <3>2, <4>1
    <3>3. QED
      BY <3>1, <3>2
  <2>4. ASSUME NEW i \in 1..(a + d), NEW j \in 1..(a + d), i < j
        PROVE  found'[i].end <= found'[j].end
    <3>1. CASE j <= a
      <4>1. i <= a
        BY <2>1, <2>4, <3>1
      <4>2. i \in 1..a /\ j \in 1..a /\ found'[i] = found[i] /\ found'[j] = found[j]
        BY <2>3, <3>1, <4>1
      <4>3. QED
        BY <1>1, <2>1, <2>4, <4>2
    <3>2. CASE ~(j <= a)
      <4>1. found'[j].end = n + 1
        BY <2>3, <3>2
      <4>2. found'[i].end \in 0..(n + 1)
        BY <1>2, <2>3
      <4>3. QED
        BY <1>2, <4>1, <4>2
    <3>3. QED
      BY <3>1, <3>2
  <2>5. QED
    BY <2>2, <2>4
<1>16. LongestEnd(cur, Lower(text), Len(text))'
  BY <1>2, <1>3, <1>6 DEF LongestEnd
<1>17. FoundInv'
  BY <1>2, <1>3, <1>14, <1>15, <1>16 DEF FoundInv
<1>18. \A k \in nodes' : Wired(k)'
  BY <1>3 DEF Wired, LongestEnd, EndsOf
<1>19. QED
  BY <1>17, <1>18

LEMMA AutomatonStarts ==
    ASSUME DictionaryInit
    PROVE  AutomatonInv
<1>1. TrieInv /\ \A n \in nodes : Bare(n)
  BY TrieStarts
<1>2. phase = "adding" /\ text = <<>> /\ cur = <<>> /\ found = <<>>
  BY DEF DictionaryInit
<1>3. QED
  BY <1>1, <1>2 DEF AutomatonInv

LEMMA AutomatonStep ==
    ASSUME AutomatonInv, [DictionaryNext]_dictionaryVars
    PROVE  AutomatonInv'
<1>1. TrieInv
  BY DEF AutomatonInv
<1>2. CASE AddTerm
  <2>1. /\ phase = "adding" /\ \A n \in nodes : Bare(n)
        /\ text = <<>> /\ cur = <<>> /\ found = <<>>
    BY <1>2 DEF AutomatonInv, AddTerm
  <2>2. TrieInv' /\ \A n \in nodes' : Bare(n)'
    BY <1>1, <1>2, <2>1, AddTermKeepsTrie
  <2>3. UNCHANGED <<phase, text, cur, found>>
    BY <1>2 DEF AddTerm
  <2>4. QED
    BY <2>1, <2>2, <2>3 DEF AutomatonInv
<1>3. CASE StartWiring
  <2>1. /\ phase = "adding" /\ \A n \in nodes : Bare(n)
        /\ text = <<>> /\ cur = <<>> /\ found = <<>>
    BY <1>3 DEF AutomatonInv, StartWiring
  <2>2. WiredTo(0)' /\ 0 \in Nat
    BY <1>1, <1>3, <2>1, StartWiringKeepsLevels
  <2>3. phase' = "wiring" /\ UNCHANGED <<given, terms, nodes, fail, output, text, cur, found>>
    BY <1>3 DEF StartWiring
  <2>4. TrieInv'
    BY <1>1, <2>3 DEF TrieInv
  <2>5. (\E l \in Nat : WiredTo(l))'
    BY <2>2
  <2>6. QED
    BY <2>1, <2>3, <2>4, <2>5 DEF AutomatonInv
<1>4. CASE Wire
  <2>1. /\ phase = "wiring" /\ queue # <<>> /\ UNCHANGED <<phase, text, cur, found>>
    BY <1>4 DEF Wire
  <2>2. text = <<>> /\ cur = <<>> /\ found = <<>>
    BY <2>1 DEF AutomatonInv
  <2>3. PICK k \in Nat : WiredTo(k)
    BY <2>1 DEF AutomatonInv
  <2>4. \E l \in Nat : WiredTo(l) /\ Len(Head(queue)) = l
    BY <1>1, <2>1, <2>3, LevelOfHead
  <2>5. PICK l \in Nat : WiredTo(l) /\ Len(Head(queue)) = l
    BY <2>4
  <2>6. TrieInv' /\ WiredTo(l)'
    BY <1>1, <1>4, <2>5, WireKeepsLevels
  <2>7. (\E e \in Nat : WiredTo(e))'
    BY <2>6
  <2>8. QED
    BY <2>1, <2>2, <2>6, <2>7 DEF AutomatonInv
<1>5. CASE StartReading
  <2>1. /\ phase = "wiring" /\ queue = <<>>
        /\ phase' = IF terms = <<>> THEN "returned" ELSE "reading"
        /\ UNCHANGED <<given, terms, nodes, fail, output, queue, text, cur, found>>
    BY <1>5 DEF StartReading
  <2>2. text = <<>> /\ cur = <<>> /\ found = <<>>
    BY <2>1 DEF AutomatonInv
  <2>3. PICK l \in Nat : WiredTo(l)
    BY <2>1 DEF AutomatonInv
  <2>4. \A n \in nodes : Wired(n)
    BY <1>1, <2>1, <2>3, AllWired
  <2>5. TrieInv' /\ \A n \in nodes' : Wired(n)'
    BY <1>1, <2>1, <2>4 DEF TrieInv, Wired, LongestEnd, EndsOf
  <2>6. Occurrences = {} /\ Enumerates(<<>>, {}) /\ Lower(text) = <<>> /\ Len(text) = 0
    BY <1>1, <2>2, NothingToFind
  <2>7. FoundInv
    <3>1. LongestEnd(cur, Lower(text), Len(text))
      <4>1. <<>> \in nodes /\ <<>> \in Seq(Letters) /\ Len(<<>>) = 0
        BY <1>1 DEF TrieInv
      <4>2. EndsWith(<<>>, <<>>)
        BY <4>1, EndsItself
      <4>3. QED
        BY <2>2, <2>6, <4>1, <4>2 DEF LongestEnd
    <3>2. text \in Seq(Alphabet) /\ DOMAIN found = {}
      BY <2>2
    <3>3. QED
      BY <2>2, <2>6, <3>1, <3>2 DEF FoundInv
  <2>8. FoundInv'
    BY <2>1, <2>7 DEF FoundInv, LongestEnd, Occurrences
  <2>9. QED
    BY <2>1, <2>2, <2>5, <2>8 DEF AutomatonInv
<1>6. ASSUME NEW b \in Alphabet, ReadByte(b)
      PROVE  AutomatonInv'
  <2>1. phase = "reading" /\ UNCHANGED <<given, terms, nodes, fail, output, phase>>
    BY <1>6 DEF ReadByte
  <2>2. FoundInv /\ \A n \in nodes : Wired(n)
    BY <2>1 DEF AutomatonInv
  <2>3. FoundInv' /\ \A n \in nodes' : Wired(n)'
    BY <1>1, <1>6, <2>2, ReadByteKeepsFound
  <2>4. TrieInv'
    BY <1>1, <2>1 DEF TrieInv
  <2>5. QED
    BY <2>1, <2>3, <2>4 DEF AutomatonInv
<1>7. CASE UNCHANGED dictionaryVars
  <2>1. UNCHANGED <<given, terms, nodes, fail, output, queue, phase, text, cur, found>>
    BY <1>7 DEF dictionaryVars
  <2>2. /\ TrieInv'
        /\ \A n : (Wired(n)' <=> Wired(n)) /\ (Bare(n)' <=> Bare(n))
        /\ FoundInv' <=> FoundInv
    BY <1>1, <2>1 DEF TrieInv, Bare, Wired, FoundInv, LongestEnd, EndsOf, SameAs, Occurrences
  <2>3. \A l : WiredTo(l)' <=> WiredTo(l)
    BY <2>1, <2>2 DEF WiredTo
  <2>4. QED
    BY <2>1, <2>2, <2>3 DEF AutomatonInv
<1>8. QED
  BY <1>2, <1>3, <1>4, <1>5, <1>6, <1>7 DEF DictionaryNext

LEMMA AutomatonFinds ==
    ASSUME AutomatonInv
    PROVE  FindsEveryOccurrence
<1>1. TrieInv
  BY DEF AutomatonInv
<1>2. ASSUME phase \in {"reading", "returned"}
      PROVE  /\ Enumerates(found, Occurrences)
             /\ \A i, j \in DOMAIN found : i < j => found[i].end <= found[j].end
  <2>1. CASE phase = "reading"
    BY <2>1 DEF AutomatonInv, FoundInv
  <2>2. CASE phase = "returned"
    <3>1. text = <<>> /\ found = <<>>
      BY <2>2 DEF AutomatonInv
    <3>2. Occurrences = {} /\ Enumerates(<<>>, {}) /\ DOMAIN <<>> = {}
      BY <1>1, <3>1, NothingToFind
    <3>3. QED
      BY <3>1, <3>2
  <2>3. QED
    BY <1>2, <2>1, <2>2
<1>3. ASSUME phase \in {"reading", "returned"}
      PROVE  /\ ToSet(found) = Occurrences
             /\ \A i, j \in DOMAIN found : i < j => found[i] # found[j] /\ found[i].end <= found[j].end
  <2>1. ToSet(found) = Occurrences
    BY <1>2, <1>3 DEF Enumerates
  <2>2. Len(found) \in Nat /\ DOMAIN found = 1..Len(found)
        /\ \A i, j \in 1..Len(found) : i # j => found[i] # found[j]
    BY <1>2, <1>3, EnumerationFacts
  <2>3. ASSUME NEW i \in DOMAIN found, NEW j \in DOMAIN found, i < j
        PROVE  found[i] # found[j]
    <3>1. i # j
      BY <2>2, <2>3
    <3>2. QED
      BY <2>2, <3>1
  <2>4. QED
    BY <1>2, <1>3, <2>1, <2>3
<1>4. QED
  BY <1>3 DEF FindsEveryOccurrence

(* However long the terms and in whatever order the map yields a node's    *)
(* children, find reports every occurrence of every term exactly once, in  *)
(* order of end offset (ahocorasick.go 3-5 and 81).                        *)
THEOREM DictionaryFindsAll == DictionarySpec => []FindsEveryOccurrence
<1>1. DictionaryInit => AutomatonInv
  BY AutomatonStarts
<1>2. AutomatonInv /\ [DictionaryNext]_dictionaryVars => AutomatonInv'
  BY AutomatonStep
<1>3. AutomatonInv => FindsEveryOccurrence
  BY AutomatonFinds
<1>4. QED
  BY <1>1, <1>2, <1>3, PTL DEF DictionarySpec

----------------------------------------------------------------------------
(* The matches that are reported.                                          *)

(* What a pattern of detector d can match. *)
MatchesOf(d) ==
    {m \in MatchSet :
        /\ m.type \in ToSet(TypesOf[d]) /\ m.start < m.end
        /\ m.type \notin Backed => m.ok
        /\ d # "custom_dict" => m.part = 0}

SpansInv == detector \in Detectors /\ matches \in Seq(MatchesOf(detector))

AreRanges(M) ==
    \A m \in M : m.part \in Nat /\ m.start \in Nat /\ m.end \in Nat /\ m.start < m.end

InOrder(s) == \A i, j \in DOMAIN s : i < j => ~SortsBefore(s[j], s[i])

SameRange(f, k) == f.part = k.part /\ f.start = k.start /\ f.end = k.end

(* Matches of which no one holds a later one, in the order of the sort. *)
Apart(s) == \A i, j \in DOMAIN s : i < j => ~Holds(s[i], s[j]) /\ ~SortsBefore(s[j], s[i])

LEMMA SpansInvHolds == SpansSpec => []SpansInv
<1>1. SpansInit => SpansInv
  BY EmptySeq DEF SpansInit, SpansInv
<1>2. SpansInv /\ [SpansNext]_spanVars => SpansInv'
  <2> SUFFICES ASSUME SpansInv, [SpansNext]_spanVars
               PROVE  SpansInv'
    OBVIOUS
  <2>1. CASE UNCHANGED spanVars
    BY <2>1 DEF SpansInv, spanVars
  <2>2. ASSUME NEW m \in MatchSet, FindMatch(m)
        PROVE  SpansInv'
    <3>1. m \in MatchesOf(detector)
      BY <2>2 DEF FindMatch, PatternMatches, TermMatches, MatchesOf
    <3>2. matches' = Append(matches, m) /\ detector' = detector
      BY <2>2 DEF FindMatch
    <3>3. QED
      BY <3>1, <3>2, AppendProperties DEF SpansInv
  <2>3. QED
    BY <2>1, <2>2 DEF SpansNext
<1>3. QED
  BY <1>1, <1>2, PTL DEF SpansSpec

LEMMA MatchesAreRanges ==
    ASSUME NEW d
    PROVE  AreRanges(MatchesOf(d))
BY SpansAssumption DEF AreRanges, MatchesOf, MatchSet

(* The order of the sort, written out. *)
LEMMA SortsBeforeIs ==
    ASSUME NEW f, NEW g, AreRanges({f, g})
    PROVE  /\ ScoreOf(f) \in Int
           /\ SortsBefore(f, g) <=>
                \/ f.part < g.part
                \/ f.part = g.part /\ f.start < g.start
                \/ f.part = g.part /\ f.start = g.start /\ f.end > g.end
                \/ SameRange(f, g) /\ ScoreOf(f) > ScoreOf(g)
<1> DEFINE fKey == <<f.part, f.start, -f.end, -ScoreOf(f)>>
           gKey == <<g.part, g.start, -g.end, -ScoreOf(g)>>
           Less(i) == fKey[i] < gKey[i] /\ \A j \in 1..(i - 1) : fKey[j] = gKey[j]
<1>1. /\ ScoreOf(f) \in Int /\ ScoreOf(g) \in Int
      /\ f.part \in Int /\ f.start \in Int /\ f.end \in Int
      /\ g.part \in Int /\ g.start \in Int /\ g.end \in Int
  BY DEF ScoreOf, AreRanges
<1>2. SortsBefore(f, g) <=> Less(1) \/ Less(2) \/ Less(3) \/ Less(4)
  <2>1. SortsBefore(f, g) <=> \E i \in 1..4 : Less(i)
    BY DEF SortsBefore
  <2>2. 1..4 = {1, 2, 3, 4}
    OBVIOUS
  <2> HIDE DEF Less
  <2>3. QED
    BY <2>1, <2>2
<1>3. /\ fKey[1] = f.part /\ fKey[2] = f.start /\ fKey[3] = -f.end /\ fKey[4] = -ScoreOf(f)
      /\ gKey[1] = g.part /\ gKey[2] = g.start /\ gKey[3] = -g.end /\ gKey[4] = -ScoreOf(g)
  OBVIOUS
<1>4. 1..(1 - 1) = {} /\ 1..(2 - 1) = {1} /\ 1..(3 - 1) = {1, 2} /\ 1..(4 - 1) = {1, 2, 3}
  OBVIOUS
<1> HIDE DEF fKey, gKey
<1>5. /\ Less(1) <=> fKey[1] < gKey[1]
      /\ Less(2) <=> fKey[2] < gKey[2] /\ fKey[1] = gKey[1]
      /\ Less(3) <=> fKey[3] < gKey[3] /\ fKey[1] = gKey[1] /\ fKey[2] = gKey[2]
      /\ Less(4) <=> fKey[4] < gKey[4] /\ fKey[1] = gKey[1] /\ fKey[2] = gKey[2] /\ fKey[3] = gKey[3]
  BY <1>4
<1> HIDE DEF Less
<1>6. /\ -f.end < -g.end <=> f.end > g.end
      /\ -f.end = -g.end <=> f.end = g.end
      /\ -ScoreOf(f) < -ScoreOf(g) <=> ScoreOf(f) > ScoreOf(g)
  BY <1>1
<1>7. QED
  BY <1>1, <1>2, <1>3, <1>5, <1>6 DEF SameRange

(* It is an order of the kind a stable sort needs. *)
LEMMA SortsBeforeOrders ==
    ASSUME NEW f, NEW g, NEW h, AreRanges({f, g, h})
    PROVE  /\ SortsBefore(f, g) => ~SortsBefore(g, f)
           /\ SortsBefore(f, g) /\ SortsBefore(g, h) => SortsBefore(f, h)
           /\ SortsBefore(f, h) /\ ~SortsBefore(g, h) => SortsBefore(f, g)
<1>1. AreRanges({f, g}) /\ AreRanges({g, f}) /\ AreRanges({g, h}) /\ AreRanges({f, h})
  BY DEF AreRanges
<1>2. /\ f.part \in Int /\ f.start \in Int /\ f.end \in Int
      /\ g.part \in Int /\ g.start \in Int /\ g.end \in Int
      /\ h.part \in Int /\ h.start \in Int /\ h.end \in Int
      /\ ScoreOf(f) \in Int /\ ScoreOf(g) \in Int /\ ScoreOf(h) \in Int
  BY DEF AreRanges, ScoreOf
<1>3. /\ SortsBefore(f, g) <=>
                \/ f.part < g.part
                \/ f.part = g.part /\ f.start < g.start
                \/ f.part = g.part /\ f.start = g.start /\ f.end > g.end
                \/ SameRange(f, g) /\ ScoreOf(f) > ScoreOf(g)
      /\ SortsBefore(g, f) <=>
                \/ g.part < f.part
                \/ g.part = f.part /\ g.start < f.start
                \/ g.part = f.part /\ g.start = f.start /\ g.end > f.end
                \/ SameRange(g, f) /\ ScoreOf(g) > ScoreOf(f)
      /\ SortsBefore(g, h) <=>
                \/ g.part < h.part
                \/ g.part = h.part /\ g.start < h.start
                \/ g.part = h.part /\ g.start = h.start /\ g.end > h.end
                \/ SameRange(g, h) /\ ScoreOf(g) > ScoreOf(h)
      /\ SortsBefore(f, h) <=>
                \/ f.part < h.part
                \/ f.part = h.part /\ f.start < h.start
                \/ f.part = h.part /\ f.start = h.start /\ f.end > h.end
                \/ SameRange(f, h) /\ ScoreOf(f) > ScoreOf(h)
  BY <1>1, SortsBeforeIs
<1>4. QED
  BY <1>2, <1>3 DEF SameRange

LEMMA SetOf ==
    ASSUME NEW S, NEW s \in Seq(S)
    PROVE  /\ Len(s) \in Nat /\ DOMAIN s = 1..Len(s) /\ \A i \in 1..Len(s) : s[i] \in S
           /\ ToSet(s) = {s[i] : i \in 1..Len(s)}
<1>1. Len(s) \in Nat /\ DOMAIN s = 1..Len(s) /\ \A i \in 1..Len(s) : s[i] \in S
  BY LenProperties, ElementOfSeq
<1>2. QED
  BY <1>1 DEF ToSet

(* A sequence with one more element at place p. *)
LEMMA InsertedAt ==
    ASSUME NEW S, NEW s \in Seq(S), NEW f \in S, NEW p \in 1..(Len(s) + 1)
    PROVE  /\ InsertAt(s, p, f) \in Seq(S) /\ Len(InsertAt(s, p, f)) = Len(s) + 1
           /\ \A i \in 1..(Len(s) + 1) :
                InsertAt(s, p, f)[i] = IF i < p THEN s[i] ELSE IF i = p THEN f ELSE s[i - 1]
<1> DEFINE n == Len(s)
           front == SubSeq(s, 1, p - 1)
           back == SubSeq(s, p, n)
<1>1. n \in Nat /\ p \in Nat /\ \A i \in 1..n : s[i] \in S
  BY LenProperties, ElementOfSeq
<1>2. front \in Seq(S) /\ Len(front) = p - 1 /\ \A i \in 1..(p - 1) : front[i] = s[i]
  BY <1>1
<1>3. back \in Seq(S) /\ Len(back) = n - p + 1 /\ \A i \in 1..(n - p + 1) : back[i] = s[p + i - 1]
  BY <1>1
<1> HIDE DEF front, back
<1> DEFINE head == front \o <<f>>
<1>4. /\ head \in Seq(S) /\ Len(head) = p /\ head[p] = f
      /\ \A i \in 1..(p - 1) : head[i] = s[i]
  BY <1>1, <1>2
<1> HIDE DEF head
<1>5. InsertAt(s, p, f) = head \o back
  BY DEF InsertAt, head, front, back
<1>6. /\ head \o back \in Seq(S) /\ Len(head \o back) = n + 1
      /\ \A i \in 1..(n + 1) : (head \o back)[i] = IF i <= p THEN head[i] ELSE back[i - p]
  <2>1. p + (n - p + 1) = n + 1
    BY <1>1
  <2>2. QED
    BY <1>3, <1>4, <2>1, ConcatProperties
<1>7. ASSUME NEW i \in 1..(n + 1)
      PROVE  (head \o back)[i] = IF i < p THEN s[i] ELSE IF i = p THEN f ELSE s[i - 1]
  <2>1. CASE i <= p
    BY <1>1, <1>4, <1>6, <2>1
  <2>2. CASE i > p
    <3>1. i - p \in 1..(n - p + 1) /\ p + (i - p) - 1 = i - 1 /\ ~(i <= p) /\ ~(i < p) /\ i # p
      BY <1>1, <2>2
    <3>2. QED
      BY <1>3, <1>6, <3>1
  <2>3. i <= p \/ i > p
    BY <1>1
  <2>4. QED
    BY <2>1, <2>2, <2>3, Zenon
<1>8. QED
  BY <1>5, <1>6, <1>7

LEMMA InsertKeepsOrder ==
    ASSUME NEW M, AreRanges(M), NEW s \in Seq(M), InOrder(s), NEW f \in M
    PROVE  Insert(s, f) \in Seq(M) /\ InOrder(Insert(s, f)) /\ ToSet(Insert(s, f)) = ToSet(s) \cup {f}
<1> DEFINE n == Len(s)
           later == {i \in DOMAIN s : SortsBefore(f, s[i])}
           p == Min(later \cup {n + 1})
           t == InsertAt(s, p, f)
<1>1. n \in Nat /\ DOMAIN s = 1..n /\ (\A i \in 1..n : s[i] \in M) /\ ToSet(s) = {s[i] : i \in 1..n}
  BY SetOf
<1>2. p \in later \cup {n + 1} /\ \A i \in later \cup {n + 1} : p <= i
  <2>1. later \cup {n + 1} \subseteq Nat
    BY <1>1
  <2> HIDE DEF later
  <2>2. QED
    BY <2>1, LeastOf
<1>3. Insert(s, f) = t
  BY DEF Insert
<1>4. p \in 1..(n + 1)
  BY <1>1, <1>2
<1>5. \A i \in 1..n : i < p => ~SortsBefore(f, s[i])
  <2> SUFFICES ASSUME NEW i \in 1..n, i < p, SortsBefore(f, s[i])
               PROVE  FALSE
    OBVIOUS
  <2>1. p <= i
    BY <1>1, <1>2
  <2>2. QED
    BY <1>4, <2>1
<1>6. p <= n => SortsBefore(f, s[p])
  BY <1>1, <1>2
<1> HIDE DEF p, n, later
<1>7. /\ t \in Seq(M) /\ Len(t) = n + 1
      /\ \A i \in 1..(n + 1) : t[i] = IF i < p THEN s[i] ELSE IF i = p THEN f ELSE s[i - 1]
  <2>1. p \in 1..(Len(s) + 1)
    BY <1>4 DEF n
  <2>2. \A q \in 1..(Len(s) + 1) :
           /\ InsertAt(s, q, f) \in Seq(M) /\ Len(InsertAt(s, q, f)) = Len(s) + 1
           /\ \A i \in 1..(Len(s) + 1) :
                InsertAt(s, q, f)[i] = IF i < q THEN s[i] ELSE IF i = q THEN f ELSE s[i - 1]
    BY InsertedAt
  <2>3. QED
    BY <2>1, <2>2, Zenon DEF n
<1> HIDE DEF t
<1>8. DOMAIN t = 1..(n + 1) /\ ToSet(t) = {t[i] : i \in 1..(n + 1)}
  BY <1>7, SetOf
<1>9. \A g, h, k \in M :
         /\ SortsBefore(g, h) => ~SortsBefore(h, g)
         /\ SortsBefore(g, h) /\ SortsBefore(h, k) => SortsBefore(g, k)
  <2> TAKE g, h, k \in M
  <2>1. AreRanges({g, h, k})
    BY DEF AreRanges
  <2>2. QED
    BY <2>1, SortsBeforeOrders
<1>10. \A i, j \in 1..n : i < j => ~SortsBefore(s[j], s[i])
  BY <1>1 DEF InOrder
(* What is from p on does not sort before f. *)
<1>11. ASSUME NEW i \in 1..n, i >= p
       PROVE  SortsBefore(f, s[i])
  <2>1. p \in 1..n /\ SortsBefore(f, s[p])
    BY <1>1, <1>4, <1>6, <1>11
  <2>2. CASE i = p
    BY <2>1, <2>2
  <2>3. CASE i > p
    <3>1. ~SortsBefore(s[i], s[p])
      BY <1>10, <2>1, <2>3
    <3>2. s[i] \in M /\ s[p] \in M
      BY <1>1, <2>1
    <3>3. AreRanges({f, s[p], s[i]})
      BY <3>2 DEF AreRanges
    <3>4. AreRanges({f, s[i], s[p]})
      BY <3>3 DEF AreRanges
    <3>5. QED
      BY <2>1, <3>1, <3>4, SortsBeforeOrders
  <2>4. QED
    BY <1>4, <1>11, <2>2, <2>3
<1>12. ASSUME NEW i \in 1..(n + 1), NEW j \in 1..(n + 1), i < j
       PROVE  ~SortsBefore(t[j], t[i])
  <2>1. CASE j < p
    <3>1. i \in 1..n /\ j \in 1..n /\ i < p
      BY <1>1, <1>4, <1>12, <2>1
    <3>2. t[i] = s[i] /\ t[j] = s[j]
      BY <1>7, <2>1, <3>1
    <3>3. QED
      BY <1>10, <1>12, <3>1, <3>2
  <2>2. CASE j = p
    <3>1. i \in 1..n /\ i < p
      BY <1>1, <1>4, <1>12, <2>2
    <3>2. t[i] = s[i] /\ t[j] = f
      BY <1>4, <1>7, <2>2, <3>1
    <3>3. QED
      BY <1>5, <3>1, <3>2
  <2>3. CASE j > p /\ i < p
    <3>1. i \in 1..n /\ j - 1 \in 1..n /\ i < j - 1
      BY <1>1, <1>4, <1>12, <2>3
    <3>2. t[i] = s[i] /\ t[j] = s[j - 1]
      BY <1>1, <1>4, <1>7, <2>3
    <3>3. QED
      BY <1>10, <3>1, <3>2
  <2>4. CASE j > p /\ i = p
    <3>1. j - 1 \in 1..n /\ j - 1 >= p
      BY <1>1, <1>4, <1>12, <2>4
    <3>2. t[i] = f /\ t[j] = s[j - 1]
      BY <1>1, <1>4, <1>7, <2>4
    <3>3. SortsBefore(f, s[j - 1]) /\ s[j - 1] \in M
      BY <1>1, <1>11, <3>1
    <3>4. QED
      BY <1>9, <3>2, <3>3
  <2>5. CASE j > p /\ i > p
    <3>1. i - 1 \in 1..n /\ j - 1 \in 1..n /\ i - 1 < j - 1
      BY <1>1, <1>4, <1>12, <2>5
    <3>2. t[i] = s[i - 1] /\ t[j] = s[j - 1]
      BY <1>1, <1>4, <1>7, <2>5
    <3>3. QED
      BY <1>10, <3>1, <3>2
  <2>6. QED
    BY <1>1, <1>4, <2>1, <2>2, <2>3, <2>4, <2>5
<1>13. InOrder(t)
  BY <1>8, <1>12 DEF InOrder
<1>14. ASSUME NEW x \in ToSet(t)
       PROVE  x \in ToSet(s) \cup {f}
  <2>1. PICK i \in 1..(n + 1) : x = t[i]
    BY <1>8
  <2>2. i < p => i \in 1..n
    BY <1>1, <1>4
  <2>3. ~(i < p) /\ i # p => i - 1 \in 1..n
    BY <1>1, <1>4
  <2>4. QED
    BY <1>1, <1>7, <2>1, <2>2, <2>3
<1>15. ASSUME NEW x \in ToSet(s) \cup {f}
       PROVE  x \in ToSet(t)
  <2>1. CASE x = f
    <3>1. t[p] = f
      BY <1>4, <1>7
    <3>2. QED
      BY <1>4, <1>8, <2>1, <3>1
  <2>2. CASE x \in ToSet(s)
    <3>1. PICK i \in 1..n : x = s[i]
      BY <1>1, <2>2
    <3>2. CASE i < p
      <4>1. i \in 1..(n + 1) /\ t[i] = s[i]
        BY <1>1, <1>7, <3>2
      <4>2. QED
        BY <1>8, <3>1, <4>1
    <3>3. CASE ~(i < p)
      <4>1. i + 1 \in 1..(n + 1) /\ ~(i + 1 < p) /\ i + 1 # p /\ (i + 1) - 1 = i
        BY <1>1, <1>4, <3>3
      <4>2. t[i + 1] = s[i]
        BY <1>7, <4>1
      <4>3. QED
        BY <1>8, <3>1, <4>1, <4>2
    <3>4. QED
      BY <3>2, <3>3
  <2>3. QED
    BY <2>1, <2>2
<1>16. QED
  BY <1>3, <1>7, <1>13, <1>14, <1>15

LEMMA SortingMatches ==
    ASSUME NEW M, AreRanges(M), NEW fs \in Seq(M)
    PROVE  StableSorted(fs) \in Seq(M) /\ InOrder(StableSorted(fs)) /\ ToSet(StableSorted(fs)) = ToSet(fs)
<1> DEFINE n == Len(fs)
           V == {s \in Seq(M) : InOrder(s)}
           step == [i \in 1..n |-> [s \in V |-> Insert(s, fs[i])]]
           Folds(g) == g = [s \in SUBSET (1..n) |->
                             IF s = {} THEN <<>> ELSE Insert(g[s \ {Max(s)}], fs[Max(s)])]
           iter == CHOOSE g : Folds(g)
<1>1. n \in Nat /\ DOMAIN fs = 1..n /\ (\A i \in 1..n : fs[i] \in M) /\ ToSet(fs) = {fs[i] : i \in 1..n}
  BY SetOf
<1> HIDE DEF n
<1>2. <<>> \in V
  BY EmptySeq DEF InOrder
<1>3. step \in [1..n -> [V -> V]]
  <2>1. \A s \in V, i \in 1..n : Insert(s, fs[i]) \in V
    BY <1>1, InsertKeepsOrder
  <2>2. QED
    BY <2>1
<1>4. StableSorted(fs) = iter[1..n]
  BY <1>1 DEF StableSorted, FoldLeft, MapThenFoldSet
<1>5. \E g : Folds(g)
  <2>1. PICK g \in [SUBSET (1..n) -> V] : IsFold(g, n, <<>>, step)
    <3> HIDE DEF V, step
    <3>1. QED
      BY <1>1, <1>2, <1>3, FoldIsDefined, Zenon
  <2>2. ASSUME NEW s \in SUBSET (1..n), s # {}
        PROVE  g[s] = Insert(g[s \ {Max(s)}], fs[Max(s)])
    <3>1. Max(s) \in 1..n
      BY <1>1, <2>2, GreatestNumber
    <3>2. g[s \ {Max(s)}] \in V
      OBVIOUS
    <3> HIDE DEF V
    <3>3. step[Max(s)][g[s \ {Max(s)}]] = Insert(g[s \ {Max(s)}], fs[Max(s)])
      BY <3>1, <3>2 DEF step
    <3>4. QED
      BY <2>1, <2>2, <3>3 DEF IsFold
  <2>3. Folds(g)
    BY <2>1, <2>2 DEF IsFold
  <2>4. QED
    BY <2>3
<1>6. Folds(iter)
  BY <1>5
<1> HIDE DEF iter, step
<1>7. ASSUME NEW i \in 1..n
      PROVE  iter[1..i] = Insert(iter[1..(i - 1)], fs[i])
  <2>1. Max(1..i) = i /\ (1..i) \ {i} = 1..(i - 1) /\ (1..i) \in SUBSET (1..n) /\ 1..i # {}
    BY <1>1, TopOfInterval
  <2>2. iter[1..i] = Insert(iter[(1..i) \ {Max(1..i)}], fs[Max(1..i)])
    BY <1>6, <2>1
  <2>3. QED
    BY <2>1, <2>2
<1> DEFINE Good == {i \in 0..n : iter[1..i] \in V /\ ToSet(iter[1..i]) = {fs[j] : j \in 1..i}}
<1>8. 0 \in Good
  <2>1. 1..0 = {} /\ 0 \in 0..n /\ {} \in SUBSET (1..n) /\ ToSet(<<>>) = {}
    BY <1>1 DEF ToSet
  <2>2. iter[{}] = <<>>
    BY <1>6, <2>1
  <2>3. {fs[j] : j \in 1..0} = {}
    BY <2>1
  <2> HIDE DEF V
  <2>4. QED
    BY <1>2, <2>1, <2>2, <2>3
<1>9. ASSUME NEW i \in 0..(n - 1), i \in Good
      PROVE  i + 1 \in Good
  <2>1. i + 1 \in 1..n /\ i + 1 \in 0..n /\ (i + 1) - 1 = i /\ 1..(i + 1) = (1..i) \cup {i + 1}
    BY <1>1
  <2>2. iter[1..(i + 1)] = Insert(iter[1..i], fs[i + 1])
    BY <1>7, <2>1
  <2>3. iter[1..i] \in Seq(M) /\ InOrder(iter[1..i]) /\ ToSet(iter[1..i]) = {fs[j] : j \in 1..i}
    BY <1>9
  <2>4. fs[i + 1] \in M
    BY <1>1, <2>1
  <2>5. /\ Insert(iter[1..i], fs[i + 1]) \in V
        /\ ToSet(Insert(iter[1..i], fs[i + 1])) = {fs[j] : j \in 1..i} \cup {fs[i + 1]}
    <3> DEFINE v == iter[1..i]
               t == Insert(v, fs[i + 1])
    <3>1. v \in Seq(M) /\ InOrder(v) /\ ToSet(v) = {fs[j] : j \in 1..i}
      BY <2>3
    <3> HIDE DEF v
    <3>2. t \in Seq(M) /\ InOrder(t) /\ ToSet(t) = ToSet(v) \cup {fs[i + 1]}
      <4>1. \A u \in Seq(M), f \in M :
               InOrder(u) => /\ Insert(u, f) \in Seq(M) /\ InOrder(Insert(u, f))
                             /\ ToSet(Insert(u, f)) = ToSet(u) \cup {f}
        BY InsertKeepsOrder
      <4>2. QED
        BY <2>4, <3>1, <4>1, Zenon
    <3> HIDE DEF t
    <3>3. t \in V /\ ToSet(t) = {fs[j] : j \in 1..i} \cup {fs[i + 1]}
      BY <3>1, <3>2
    <3>4. QED
      BY <3>3 DEF t, v
  <2>6. {fs[j] : j \in 1..(i + 1)} = {fs[j] : j \in 1..i} \cup {fs[i + 1]}
    BY <2>1
  <2> HIDE DEF V
  <2>7. QED
    BY <2>1, <2>2, <2>5, <2>6
<1> HIDE DEF Good
<1>10. n \in Good
  <2>1. \A i \in 0..n : i \in Good
    BY <1>1, <1>8, <1>9, InductionTo
  <2>2. QED
    BY <1>1, <2>1
<1>11. QED
  BY <1>1, <1>4, <1>10 DEF Good

LEMMA PassingFinds ==
    ASSUME NEW M, NEW good, NEW ms \in Seq(M)
    PROVE  Passing(good, ms) \in Seq(M) /\ ToSet(Passing(good, ms)) = ToSet(ms) \cap good
<1> DEFINE n == Len(ms)
           V == Seq(M)
           After(v, m) == IF m \in good THEN Append(v, m) ELSE v
           step == [i \in 1..n |-> [v \in V |-> After(v, ms[i])]]
           Folds(g) == g = [s \in SUBSET (1..n) |->
                             IF s = {} THEN <<>> ELSE After(g[s \ {Max(s)}], ms[Max(s)])]
           iter == CHOOSE g : Folds(g)
<1>1. n \in Nat /\ DOMAIN ms = 1..n /\ (\A i \in 1..n : ms[i] \in M) /\ ToSet(ms) = {ms[i] : i \in 1..n}
  BY SetOf
<1>2. <<>> \in V
  BY EmptySeq
<1>3. ASSUME NEW v \in V, NEW m \in M
      PROVE  /\ After(v, m) \in V
             /\ ToSet(After(v, m)) = ToSet(v) \cup ({m} \cap good)
  <2>1. CASE m \in good
    <3>1. /\ Append(v, m) \in Seq(M) /\ Len(Append(v, m)) = Len(v) + 1 /\ Append(v, m)[Len(v) + 1] = m
          /\ \A i \in 1..Len(v) : Append(v, m)[i] = v[i]
      BY AppendProperties
    <3> DEFINE w == Append(v, m)
    <3>2. Len(v) \in Nat /\ ToSet(v) = {v[i] : i \in 1..Len(v)} /\ ToSet(w) = {w[i] : i \in 1..Len(w)}
      BY <3>1, SetOf
    <3>3. 1..(Len(v) + 1) = (1..Len(v)) \cup {Len(v) + 1}
      BY <3>2
    <3> HIDE DEF w
    <3>4. /\ w \in Seq(M) /\ Len(w) = Len(v) + 1 /\ w[Len(v) + 1] = m
          /\ \A i \in 1..Len(v) : w[i] = v[i]
      BY <3>1 DEF w
    <3>5. ToSet(w) = ToSet(v) \cup {m}
      BY <3>2, <3>3, <3>4
    <3>6. After(v, m) = w
      BY <2>1 DEF w
    <3>7. QED
      BY <2>1, <3>4, <3>5, <3>6
  <2>2. CASE m \notin good
    BY <2>2
  <2>3. QED
    BY <2>1, <2>2
<1>4. Passing(good, ms) = iter[1..n]
  BY <1>1 DEF Passing, FoldLeft, MapThenFoldSet
<1> HIDE DEF n, After
<1>5. step \in [1..n -> [V -> V]]
  BY <1>1, <1>3
<1>6. \E g : Folds(g)
  <2>1. PICK g \in [SUBSET (1..n) -> V] : IsFold(g, n, <<>>, step)
    <3> HIDE DEF V, step
    <3>1. QED
      BY <1>1, <1>2, <1>5, FoldIsDefined, Zenon
  <2>2. ASSUME NEW s \in SUBSET (1..n), s # {}
        PROVE  g[s] = After(g[s \ {Max(s)}], ms[Max(s)])
    <3>1. Max(s) \in 1..n
      BY <1>1, <2>2, GreatestNumber
    <3>2. g[s \ {Max(s)}] \in V
      OBVIOUS
    <3> HIDE DEF V
    <3>3. step[Max(s)][g[s \ {Max(s)}]] = After(g[s \ {Max(s)}], ms[Max(s)])
      BY <3>1, <3>2 DEF step
    <3>4. QED
      BY <2>1, <2>2, <3>3 DEF IsFold
  <2>3. Folds(g)
    BY <2>1, <2>2 DEF IsFold
  <2>4. QED
    BY <2>3
<1>7. Folds(iter)
  BY <1>6
<1> HIDE DEF iter, step, V
<1>8. ASSUME NEW i \in 1..n
      PROVE  iter[1..i] = After(iter[1..(i - 1)], ms[i])
  <2>1. Max(1..i) = i /\ (1..i) \ {i} = 1..(i - 1) /\ (1..i) \in SUBSET (1..n) /\ 1..i # {}
    BY <1>1, TopOfInterval
  <2>2. iter[1..i] = After(iter[(1..i) \ {Max(1..i)}], ms[Max(1..i)])
    BY <1>7, <2>1
  <2>3. QED
    BY <2>1, <2>2
<1> DEFINE Good == {i \in 0..n : iter[1..i] \in V /\ ToSet(iter[1..i]) = {ms[j] : j \in 1..i} \cap good}
<1>9. 0 \in Good
  <2>1. 1..0 = {} /\ 0 \in 0..n /\ {} \in SUBSET (1..n) /\ ToSet(<<>>) = {}
    BY <1>1 DEF ToSet
  <2>2. iter[{}] = <<>>
    BY <1>7, <2>1
  <2>3. {ms[j] : j \in 1..0} = {}
    BY <2>1
  <2>4. QED
    BY <1>2, <2>1, <2>2, <2>3
<1>10. ASSUME NEW i \in 0..(n - 1), i \in Good
       PROVE  i + 1 \in Good
  <2>1. i + 1 \in 1..n /\ i + 1 \in 0..n /\ (i + 1) - 1 = i /\ 1..(i + 1) = (1..i) \cup {i + 1}
    BY <1>1
  <2>2. iter[1..(i + 1)] = After(iter[1..i], ms[i + 1])
    BY <1>8, <2>1
  <2>3. iter[1..i] \in V /\ ToSet(iter[1..i]) = {ms[j] : j \in 1..i} \cap good
    BY <1>10
  <2>4. ms[i + 1] \in M
    BY <1>1, <2>1
  <2>5. /\ iter[1..(i + 1)] \in V
        /\ ToSet(iter[1..(i + 1)]) = ({ms[j] : j \in 1..i} \cap good) \cup ({ms[i + 1]} \cap good)
    BY <1>3, <2>2, <2>3, <2>4
  <2>6. {ms[j] : j \in 1..(i + 1)} = {ms[j] : j \in 1..i} \cup {ms[i + 1]}
    BY <2>1
  <2>7. QED
    BY <2>1, <2>5, <2>6
<1> HIDE DEF Good
<1>11. n \in Good
  <2>1. \A i \in 0..n : i \in Good
    BY <1>1, <1>9, <1>10, InductionTo
  <2>2. QED
    BY <1>1, <2>1
<1>12. QED
  BY <1>1, <1>4, <1>11 DEF Good, V


LEMMA HoldsIs ==
    ASSUME NEW M, AreRanges(M), NEW f \in M, NEW g \in M, NEW h \in M
    PROVE  /\ Holds(f, g) /\ Holds(g, h) => Holds(f, h)
           /\ Holds(f, g) /\ ~SortsBefore(g, f) => ~Holds(g, f) \/ SameRange(f, g)
           /\ SameRange(f, g) => Holds(f, g) /\ Holds(g, f)
           /\ SameRange(f, g) /\ ~SortsBefore(g, f) => ScoreOf(g) <= ScoreOf(f)
<1>1. /\ f.part \in Int /\ f.start \in Int /\ f.end \in Int
      /\ g.part \in Int /\ g.start \in Int /\ g.end \in Int
      /\ h.part \in Int /\ h.start \in Int /\ h.end \in Int
      /\ ScoreOf(f) \in Int /\ ScoreOf(g) \in Int
  BY DEF AreRanges, ScoreOf
<1>2. AreRanges({g, f})
  BY DEF AreRanges
<1>3. SameRange(f, g) /\ ~SortsBefore(g, f) => ScoreOf(g) <= ScoreOf(f)
  <2>1. SameRange(g, f) /\ ScoreOf(g) > ScoreOf(f) => SortsBefore(g, f)
    BY <1>2, SortsBeforeIs
  <2>2. SameRange(f, g) => SameRange(g, f)
    BY DEF SameRange
  <2>3. QED
    BY <1>1, <2>1, <2>2
<1>4. QED
  BY <1>1, <1>3 DEF Holds, SameRange

(* What is kept of sorted matches that have been gone through. *)
KeptOf(kept, fs) ==
    /\ ToSet(kept) \subseteq fs /\ Apart(kept)
    /\ \A f \in fs : \E k \in ToSet(kept) : Holds(k, f)
    /\ \A f \in fs, k \in ToSet(kept) : SameRange(f, k) => ScoreOf(f) <= ScoreOf(k)

Suppressed(kept, f) == IF \E k \in ToSet(kept) : Holds(k, f) THEN kept ELSE Append(kept, f)

LEMMA SuppressingOne ==
    ASSUME NEW M, AreRanges(M), NEW kept \in Seq(M), NEW fs \in SUBSET M, NEW f \in M,
           KeptOf(kept, fs), \A g \in fs : ~SortsBefore(f, g)
    PROVE  Suppressed(kept, f) \in Seq(M) /\ KeptOf(Suppressed(kept, f), fs \cup {f})
<1> DEFINE n == Len(kept)
<1>1. n \in Nat /\ DOMAIN kept = 1..n /\ (\A i \in 1..n : kept[i] \in M) /\ ToSet(kept) = {kept[i] : i \in 1..n}
  BY SetOf
<1>2. \A g, h, k \in M :
         /\ Holds(g, h) /\ Holds(h, k) => Holds(g, k)
         /\ SameRange(g, h) => Holds(g, h) /\ Holds(h, g)
         /\ SameRange(g, h) /\ ~SortsBefore(h, g) => ScoreOf(h) <= ScoreOf(g)
  BY HoldsIs
<1>3. \A g, k \in M : SameRange(g, k) => SameRange(k, g)
  BY DEF SameRange
<1>4. ToSet(kept) \subseteq fs /\ ToSet(kept) \subseteq M
  BY <1>1 DEF KeptOf
<1>5. CASE \E k \in ToSet(kept) : Holds(k, f)
  <2>1. Suppressed(kept, f) = kept
    BY <1>5 DEF Suppressed
  <2>2. \A k \in ToSet(kept) : SameRange(f, k) => ScoreOf(f) <= ScoreOf(k)
    BY <1>2, <1>3, <1>4
  <2>3. KeptOf(kept, fs \cup {f})
    BY <1>5, <2>2 DEF KeptOf
  <2>4. QED
    BY <2>1, <2>3
<1>6. CASE ~\E k \in ToSet(kept) : Holds(k, f)
  <2> DEFINE t == Append(kept, f)
  <2>1. Suppressed(kept, f) = t
    BY <1>6 DEF Suppressed
  <2>2. t \in Seq(M) /\ Len(t) = n + 1 /\ t[n + 1] = f /\ \A i \in 1..n : t[i] = kept[i]
    BY AppendProperties
  <2> HIDE DEF t, n
  <2>3. DOMAIN t = 1..(n + 1) /\ ToSet(t) = {t[i] : i \in 1..(n + 1)}
    BY <2>2, SetOf
  <2>4. ToSet(t) = ToSet(kept) \cup {f}
    <3>1. 1..(n + 1) = (1..n) \cup {n + 1}
      BY <1>1
    <3>2. QED
      BY <1>1, <2>2, <2>3, <3>1
  <2>5. ASSUME NEW i \in 1..(n + 1), NEW j \in 1..(n + 1), i < j
        PROVE  ~Holds(t[i], t[j]) /\ ~SortsBefore(t[j], t[i])
    <3>1. i \in 1..n /\ t[i] = kept[i] /\ kept[i] \in ToSet(kept)
      BY <1>1, <2>2, <2>5
    <3>2. CASE j = n + 1
      <4>1. t[j] = f
        BY <2>2, <3>2
      <4>2. QED
        BY <1>4, <1>6, <3>1, <4>1
    <3>3. CASE j # n + 1
      <4>1. j \in 1..n /\ t[j] = kept[j]
        BY <1>1, <2>2, <3>3
      <4>2. QED
        BY <1>1, <2>5, <3>1, <4>1 DEF KeptOf, Apart
    <3>4. QED
      BY <3>2, <3>3
  <2>6. Apart(t)
    BY <2>3, <2>5 DEF Apart
  <2>7. \A g \in fs \cup {f} : \E k \in ToSet(t) : Holds(k, g)
    <3>1. Holds(f, f)
      BY <1>2 DEF SameRange
    <3>2. QED
      BY <2>4, <3>1 DEF KeptOf
  <2>8. ASSUME NEW g \in fs \cup {f}, NEW k \in ToSet(t), SameRange(g, k)
        PROVE  ScoreOf(g) <= ScoreOf(k)
    <3>1. CASE g \in fs /\ k \in ToSet(kept)
      BY <2>8, <3>1 DEF KeptOf
    <3>2. CASE g \in fs /\ k = f
      <4>1. PICK h \in ToSet(kept) : Holds(h, g)
        BY <3>2 DEF KeptOf
      <4>2. h \in M /\ g \in M /\ Holds(g, f)
        BY <1>2, <1>4, <2>8, <3>2
      <4>3. Holds(h, f)
        BY <1>2, <4>1, <4>2
      <4>4. QED
        BY <1>6, <4>3
    <3>3. CASE g = f /\ k \in ToSet(kept)
      <4>1. Holds(k, f)
        BY <1>2, <1>4, <2>8, <3>3
      <4>2. QED
        BY <1>6, <3>3, <4>1
    <3>4. CASE g = f /\ k = f
      <4>1. ScoreOf(f) \in Int
        BY DEF ScoreOf
      <4>2. QED
        BY <3>4, <4>1
    <3>5. QED
      BY <2>4, <3>1, <3>2, <3>3, <3>4
  <2>9. KeptOf(t, fs \cup {f})
    BY <1>4, <2>4, <2>6, <2>7, <2>8 DEF KeptOf
  <2>10. QED
    BY <2>1, <2>2, <2>9
<1>7. QED
  BY <1>5, <1>6

LEMMA SuppressingAll ==
    ASSUME NEW M, AreRanges(M), NEW fs \in Seq(M)
    PROVE  SuppressContained(fs) \in Seq(M) /\ KeptOf(SuppressContained(fs), ToSet(fs))
<1> DEFINE s == StableSorted(fs)
           n == Len(s)
           V == Seq(M)
           step == [i \in 1..n |-> [v \in V |-> Suppressed(v, s[i])]]
           Folds(g) == g = [p \in SUBSET (1..n) |->
                             IF p = {} THEN <<>> ELSE Suppressed(g[p \ {Max(p)}], s[Max(p)])]
           iter == CHOOSE g : Folds(g)
<1>1. s \in Seq(M) /\ InOrder(s) /\ ToSet(s) = ToSet(fs)
  BY SortingMatches
<1>2. n \in Nat /\ DOMAIN s = 1..n /\ (\A i \in 1..n : s[i] \in M) /\ ToSet(s) = {s[i] : i \in 1..n}
  BY <1>1, SetOf
<1>3. SuppressContained(fs) = iter[1..n]
  BY <1>2 DEF SuppressContained, FoldLeft, MapThenFoldSet, Suppressed
<1>4. <<>> \in V
  BY EmptySeq
<1> HIDE DEF n, s
<1>5. step \in [1..n -> [V -> V]]
  <2>1. \A v \in V, i \in 1..n : Suppressed(v, s[i]) \in V
    BY <1>2, AppendProperties DEF Suppressed
  <2> HIDE DEF V
  <2>2. QED
    BY <2>1
<1>6. \E g : Folds(g)
  <2>1. PICK g \in [SUBSET (1..n) -> V] : IsFold(g, n, <<>>, step)
    <3> HIDE DEF V, step
    <3>1. QED
      BY <1>2, <1>4, <1>5, FoldIsDefined, Zenon
  <2>2. ASSUME NEW p \in SUBSET (1..n), p # {}
        PROVE  g[p] = Suppressed(g[p \ {Max(p)}], s[Max(p)])
    <3>1. Max(p) \in 1..n
      BY <1>2, <2>2, GreatestNumber
    <3>2. g[p \ {Max(p)}] \in V
      OBVIOUS
    <3> HIDE DEF V
    <3>3. step[Max(p)][g[p \ {Max(p)}]] = Suppressed(g[p \ {Max(p)}], s[Max(p)])
      BY <3>1, <3>2 DEF step
    <3>4. QED
      BY <2>1, <2>2, <3>3 DEF IsFold
  <2>3. Folds(g)
    BY <2>1, <2>2 DEF IsFold
  <2>4. QED
    BY <2>3
<1>7. Folds(iter)
  BY <1>6
<1> HIDE DEF iter, step, V
<1>8. ASSUME NEW i \in 1..n
      PROVE  iter[1..i] = Suppressed(iter[1..(i - 1)], s[i])
  <2>1. Max(1..i) = i /\ (1..i) \ {i} = 1..(i - 1) /\ (1..i) \in SUBSET (1..n) /\ 1..i # {}
    BY <1>2, TopOfInterval
  <2>2. iter[1..i] = Suppressed(iter[(1..i) \ {Max(1..i)}], s[Max(1..i)])
    BY <1>7, <2>1
  <2>3. QED
    BY <2>1, <2>2
<1> DEFINE First(i) == {s[j] : j \in 1..i}
           Good == {i \in 0..n : iter[1..i] \in V /\ KeptOf(iter[1..i], First(i))}
<1>9. 0 \in Good
  <2>1. 1..0 = {} /\ 0 \in 0..n /\ {} \in SUBSET (1..n) /\ ToSet(<<>>) = {} /\ DOMAIN <<>> = {}
    BY <1>2 DEF ToSet
  <2>2. iter[{}] = <<>>
    BY <1>7, <2>1
  <2>3. First(0) = {}
    BY <2>1
  <2>4. KeptOf(<<>>, {})
    BY <2>1 DEF KeptOf, Apart
  <2> HIDE DEF First
  <2>5. QED
    BY <1>4, <2>1, <2>2, <2>3, <2>4
<1>10. ASSUME NEW i \in 0..(n - 1), i \in Good
       PROVE  i + 1 \in Good
  <2>1. i + 1 \in 1..n /\ i + 1 \in 0..n /\ (i + 1) - 1 = i /\ 1..(i + 1) = (1..i) \cup {i + 1} /\ i \in Nat
    BY <1>2
  <2> DEFINE v == iter[1..i]
  <2>2. iter[1..(i + 1)] = Suppressed(v, s[i + 1])
    BY <1>8, <2>1
  <2>3. v \in Seq(M) /\ KeptOf(v, First(i))
    BY <1>10 DEF V
  <2>4. s[i + 1] \in M
    BY <1>2, <2>1
  <2>5. First(i) \in SUBSET M
    BY <1>2, <2>1
  <2>6. \A g \in First(i) : ~SortsBefore(s[i + 1], g)
    <3> SUFFICES ASSUME NEW j \in 1..i
                 PROVE  ~SortsBefore(s[i + 1], s[j])
      OBVIOUS
    <3>1. j \in DOMAIN s /\ i + 1 \in DOMAIN s /\ j < i + 1
      BY <1>2, <2>1
    <3>2. QED
      BY <1>1, <3>1 DEF InOrder
  <2>7. First(i + 1) = First(i) \cup {s[i + 1]}
    BY <2>1
  <2> HIDE DEF v, First
  <2>8. Suppressed(v, s[i + 1]) \in Seq(M) /\ KeptOf(Suppressed(v, s[i + 1]), First(i) \cup {s[i + 1]})
    BY <2>3, <2>4, <2>5, <2>6, SuppressingOne
  <2>9. QED
    BY <2>1, <2>2, <2>7, <2>8 DEF V
<1> HIDE DEF Good
<1>11. n \in Good
  <2>1. \A i \in 0..n : i \in Good
    BY <1>2, <1>9, <1>10, InductionTo
  <2>2. QED
    BY <1>2, <2>1
<1>12. QED
  BY <1>1, <1>2, <1>3, <1>11 DEF Good, V


(* The bytes of matches stand for their ranges. *)
LEMMA BytesAreRanges ==
    ASSUME NEW M, AreRanges(M), NEW f \in M, NEW k \in M
    PROVE  /\ Bytes(f) \subseteq Bytes(k) <=> Holds(k, f)
           /\ Bytes(f) = Bytes(k) <=> SameRange(f, k)
           /\ f.part = k.part => (Bytes(f) \cap Bytes(k) = {} <=> ~Overlaps(k, f))
<1>1. /\ f.part \in Int /\ f.start \in Int /\ f.end \in Int /\ f.start < f.end
      /\ k.part \in Int /\ k.start \in Int /\ k.end \in Int /\ k.start < k.end
  BY DEF AreRanges
<1>2. \A p, x : /\ <<p, x>> \in Bytes(f) <=> p = f.part /\ x \in f.start..(f.end - 1)
                /\ <<p, x>> \in Bytes(k) <=> p = k.part /\ x \in k.start..(k.end - 1)
  BY DEF Bytes
<1>3. \A b : /\ b \in Bytes(f) => b = <<f.part, b[2]>>
             /\ b \in Bytes(k) => b = <<k.part, b[2]>>
  BY DEF Bytes
<1>4. f.start \in f.start..(f.end - 1) /\ f.end - 1 \in f.start..(f.end - 1)
  BY <1>1
<1>5. Bytes(f) \subseteq Bytes(k) <=> Holds(k, f)
  <2>1. ASSUME Bytes(f) \subseteq Bytes(k)
        PROVE  Holds(k, f)
    <3>1. <<f.part, f.start>> \in Bytes(k) /\ <<f.part, f.end - 1>> \in Bytes(k)
      BY <1>2, <1>4, <2>1
    <3>2. f.part = k.part /\ f.start \in k.start..(k.end - 1) /\ f.end - 1 \in k.start..(k.end - 1)
      BY <1>2, <3>1
    <3>3. QED
      BY <1>1, <3>2 DEF Holds
  <2>2. ASSUME Holds(k, f)
        PROVE  Bytes(f) \subseteq Bytes(k)
    <3>1. k.part = f.part /\ f.start..(f.end - 1) \subseteq k.start..(k.end - 1)
      BY <1>1, <2>2 DEF Holds
    <3>2. QED
      BY <3>1 DEF Bytes
  <2>3. QED
    BY <2>1, <2>2
<1>6. Bytes(f) = Bytes(k) <=> SameRange(f, k)
  <2>1. ASSUME Bytes(f) = Bytes(k)
        PROVE  SameRange(f, k)
    <3>1. k.start \in k.start..(k.end - 1) /\ k.end - 1 \in k.start..(k.end - 1)
      BY <1>1
    <3>2. /\ <<f.part, f.start>> \in Bytes(k) /\ <<f.part, f.end - 1>> \in Bytes(k)
          /\ <<k.part, k.start>> \in Bytes(f) /\ <<k.part, k.end - 1>> \in Bytes(f)
      BY <1>2, <1>4, <2>1, <3>1
    <3>3. /\ f.part = k.part /\ f.start \in k.start..(k.end - 1) /\ f.end - 1 \in k.start..(k.end - 1)
          /\ k.start \in f.start..(f.end - 1) /\ k.end - 1 \in f.start..(f.end - 1)
      BY <1>2, <3>2
    <3>4. QED
      BY <1>1, <3>3 DEF SameRange
  <2>2. SameRange(f, k) => Bytes(f) = Bytes(k)
    BY DEF SameRange, Bytes
  <2>3. QED
    BY <2>1, <2>2
<1>7. ASSUME f.part = k.part
      PROVE  Bytes(f) \cap Bytes(k) = {} <=> ~Overlaps(k, f)
  <2>1. ASSUME Overlaps(k, f)
        PROVE  Bytes(f) \cap Bytes(k) # {}
    <3> DEFINE x == IF f.start <= k.start THEN k.start ELSE f.start
    <3>1. x \in f.start..(f.end - 1) /\ x \in k.start..(k.end - 1)
      BY <1>1, <2>1 DEF Overlaps
    <3> HIDE DEF x
    <3>2. <<f.part, x>> \in Bytes(f) /\ <<f.part, x>> \in Bytes(k)
      BY <1>2, <1>7, <3>1
    <3>3. QED
      BY <3>2
  <2>2. ASSUME Bytes(f) \cap Bytes(k) # {}
        PROVE  Overlaps(k, f)
    <3>1. PICK b : b \in Bytes(f) /\ b \in Bytes(k)
      BY <2>2
    <3>2. b[2] \in f.start..(f.end - 1) /\ b[2] \in k.start..(k.end - 1)
      BY <1>2, <1>3, <3>1
    <3>3. QED
      BY <1>1, <3>2 DEF Overlaps
  <2>3. QED
    BY <2>1, <2>2
<1>8. QED
  BY <1>5, <1>6, <1>7


(* What holds of the matches kept, said of the bytes they cover. *)
LEMMA KeptMatchesCover ==
    ASSUME NEW M, AreRanges(M), NEW kept \in Seq(M), NEW fs \in SUBSET M, KeptOf(kept, fs)
    PROVE  /\ ToSet(kept) \subseteq fs /\ BytesOf(fs) \subseteq BytesOf(ToSet(kept))
           /\ \A i, j \in DOMAIN kept : i # j => ~(Bytes(kept[i]) \subseteq Bytes(kept[j]))
           /\ \A i, j \in DOMAIN kept : i < j =>
                 kept[i].part < kept[j].part \/ kept[i].start < kept[j].start
           /\ \A f \in fs, k \in ToSet(kept) : Bytes(f) = Bytes(k) => ScoreOf(f) <= ScoreOf(k)
<1>1. DOMAIN kept = 1..Len(kept) /\ Len(kept) \in Nat /\ (\A i \in DOMAIN kept : kept[i] \in M)
      /\ ToSet(kept) \subseteq fs
  BY SetOf DEF KeptOf
<1>2. \A f, k \in M : /\ Bytes(f) \subseteq Bytes(k) <=> Holds(k, f)
                      /\ Bytes(f) = Bytes(k) <=> SameRange(f, k)
  BY BytesAreRanges
<1>3. BytesOf(fs) \subseteq BytesOf(ToSet(kept))
  <2> SUFFICES ASSUME NEW f \in fs, NEW b \in Bytes(f)
               PROVE  \E k \in ToSet(kept) : b \in Bytes(k)
    BY DEF BytesOf
  <2>1. PICK k \in ToSet(kept) : Holds(k, f)
    BY DEF KeptOf
  <2>2. Bytes(f) \subseteq Bytes(k)
    BY <1>1, <1>2, <2>1
  <2>3. QED
    BY <2>2
<1>4. ASSUME NEW i \in DOMAIN kept, NEW j \in DOMAIN kept, i < j
      PROVE  /\ ~Holds(kept[i], kept[j]) /\ ~Holds(kept[j], kept[i])
             /\ kept[i].part < kept[j].part \/ kept[i].start < kept[j].start
  <2> DEFINE f == kept[i]
             g == kept[j]
  <2>1. ~Holds(f, g) /\ ~SortsBefore(g, f) /\ f \in M /\ g \in M
    BY <1>1, <1>4 DEF KeptOf, Apart
  <2> HIDE DEF f, g
  <2>2. AreRanges({g, f})
    BY <2>1 DEF AreRanges
  <2>3. /\ f.part \in Int /\ f.start \in Int /\ f.end \in Int
        /\ g.part \in Int /\ g.start \in Int /\ g.end \in Int
    BY <2>2 DEF AreRanges
  <2>4. ~(\/ g.part < f.part
          \/ g.part = f.part /\ g.start < f.start
          \/ g.part = f.part /\ g.start = f.start /\ g.end > f.end)
    BY <2>1, <2>2, SortsBeforeIs
  <2>5. f.part < g.part \/ f.start < g.start
    BY <2>1, <2>3, <2>4 DEF Holds
  <2>6. ~Holds(g, f)
    BY <2>1, <2>3, <2>4 DEF Holds
  <2>7. QED
    BY <2>1, <2>5, <2>6 DEF f, g
<1>5. ASSUME NEW i \in DOMAIN kept, NEW j \in DOMAIN kept, i # j
      PROVE  ~(Bytes(kept[i]) \subseteq Bytes(kept[j]))
  <2>1. i < j \/ j < i
    BY <1>1, <1>5
  <2>2. ~Holds(kept[j], kept[i])
    BY <1>4, <2>1
  <2>3. QED
    BY <1>1, <1>2, <2>2
<1>6. \A f \in fs, k \in ToSet(kept) : Bytes(f) = Bytes(k) => ScoreOf(f) <= ScoreOf(k)
  BY <1>1, <1>2 DEF KeptOf
<1>7. QED
  BY <1>1, <1>3, <1>4, <1>5, <1>6

LEMMA WhatMatches ==
    ASSUME SpansInv, NEW m \in ToSet(matches)
    PROVE  /\ detector # "custom_dict" => m.part = 0
           /\ detector # "pii" => m.type # "bank_account" /\ (m.type # "high_entropy" => m.ok)
           /\ detector # "secrets" => ~IsToken(m)
<1> DEFINE types == ToSet(TypesOf[detector])
<1>1. m \in MatchesOf(detector) /\ detector \in Detectors
  BY SetOf DEF SpansInv
<1>2. /\ m.type \in types /\ (m.type \notin Backed => m.ok)
      /\ detector # "custom_dict" => m.part = 0
  BY <1>1 DEF MatchesOf
<1>3. /\ detector # "pii" => "bank_account" \notin types /\ types \cap Backed \subseteq {"high_entropy"}
      /\ detector # "secrets" => "high_entropy" \notin types
  BY <1>1, SpansAssumption
<1> HIDE DEF types
<1>4. detector # "pii" => m.type # "bank_account" /\ (m.type # "high_entropy" => m.ok)
  BY <1>2, <1>3
<1>5. detector # "secrets" => ~IsToken(m)
  BY <1>2, <1>3 DEF IsToken
<1>6. QED
  BY <1>2, <1>4, <1>5

(* Every byte that an accepted match covers is under a finding that is       *)
(* reported, whatever the matches, their number and how they overlap: what   *)
(* suppressContained and Secrets drop, something else covers.                *)
THEOREM SuppressionCoversAll == SpansSpec => []SuppressionIsSafe
<1> DEFINE M == MatchesOf(detector)
           All == ToSet(matches)
           kept == Detect(matches)
           ok == {m \in All : m.ok}
           taken == {m \in ok :
               /\ m.type = "bank_account" => \E i \in Ifscs(matches) : NearAny(m, {i})
               /\ IsToken(m) => BytesOf({m}) \cap BytesOf({k \in ok : ~IsToken(k)}) = {}}
<1>1. SpansInv => SuppressionIsSafe
  <2> SUFFICES ASSUME SpansInv
               PROVE  /\ ToSet(kept) \subseteq taken
                      /\ BytesOf(taken) \subseteq BytesOf(ToSet(kept))
                      /\ detector # "secrets" =>
                            /\ \A i, j \in DOMAIN kept : i # j => ~(Bytes(kept[i]) \subseteq Bytes(kept[j]))
                            /\ \A i, j \in DOMAIN kept : i < j =>
                                  kept[i].part < kept[j].part \/ kept[i].start < kept[j].start
                            /\ \A f \in taken, k \in ToSet(kept) :
                                  Bytes(f) = Bytes(k) => ScoreOf(f) <= ScoreOf(k)
    BY DEF SuppressionIsSafe
  <2>1. matches \in Seq(M) /\ AreRanges(M) /\ All \subseteq M
    BY MatchesAreRanges, SetOf DEF SpansInv
  <2>2. detector \in {"pii", "secrets", "custom_dict"} /\ detector \in Detectors
    BY SpansAssumption DEF SpansInv
  <2>3. \A m \in All :
           /\ detector # "custom_dict" => m.part = 0
           /\ detector # "pii" => m.type # "bank_account" /\ (m.type # "high_entropy" => m.ok)
           /\ detector # "secrets" => ~IsToken(m)
    BY WhatMatches
  <2>6. \A m \in All : NearAny(m, Ifscs(matches)) <=> \E i \in Ifscs(matches) : NearAny(m, {i})
    BY DEF NearAny
  <2>7. CASE detector = "pii"
    <3> DEFINE good == {m \in All : m.ok /\ (m.type = "bank_account" => NearAny(m, Ifscs(matches)))}
    <3>1. PiiFound(matches) \in Seq(M) /\ ToSet(PiiFound(matches)) = All \cap good
      BY <2>1, PassingFinds DEF PiiFound
    <3>2. taken = All \cap good
      BY <2>3, <2>6, <2>7
    <3>3. kept = SuppressContained(PiiFound(matches))
      BY <2>7 DEF Detect
    <3> DEFINE p == PiiFound(matches)
    <3> HIDE DEF good, taken, kept, M, p
    <3>4. kept \in Seq(M) /\ KeptOf(kept, taken) /\ taken \subseteq M
      <4>1. p \in Seq(M) /\ ToSet(p) = taken /\ kept = SuppressContained(p)
        BY <3>1, <3>2, <3>3 DEF p
      <4>2. QED
        BY <2>1, <3>2, <4>1, SuppressingAll
    <3>5. QED
      BY <2>1, <3>4, KeptMatchesCover
  <2>8. CASE detector = "custom_dict"
    <3>1. \A m \in All : m.ok /\ m.type # "bank_account" /\ ~IsToken(m)
      BY <2>3, <2>8 DEF IsToken
    <3>2. taken = All
      BY <3>1
    <3>3. kept = SuppressContained(matches)
      BY <2>8 DEF Detect
    <3> HIDE DEF taken, kept, M
    <3>4. kept \in Seq(M) /\ KeptOf(kept, taken) /\ taken \subseteq M
      BY <2>1, <3>2, <3>3, SuppressingAll
    <3>5. QED
      BY <2>1, <3>4, KeptMatchesCover
  <2>9. CASE detector = "secrets"
    <3> DEFINE keys == {m \in All : ~IsToken(m)}
               good == {m \in All : m.ok /\ (IsToken(m) => \A k \in keys : ~Overlaps(k, m))}
    <3>1. {k \in ok : ~IsToken(k)} = keys
      BY <2>3, <2>9 DEF IsToken
    <3>2. ASSUME NEW m \in All
          PROVE  BytesOf({m}) \cap BytesOf(keys) = {} <=> \A k \in keys : ~Overlaps(k, m)
      <4>1. BytesOf({m}) = Bytes(m) /\ BytesOf(keys) = UNION {Bytes(k) : k \in keys}
        BY DEF BytesOf
      <4>2. \A k \in keys : Bytes(m) \cap Bytes(k) = {} <=> ~Overlaps(k, m)
        <5> TAKE k \in keys
        <5>1. m \in M /\ k \in M /\ m.part = k.part
          <6>1. k \in All /\ detector # "custom_dict"
            BY <2>9
          <6>2. m.part = 0 /\ k.part = 0
            BY <2>3, <6>1, Zenon
          <6> HIDE DEF M
          <6>3. QED
            BY <2>1, <6>1, <6>2
        <5> HIDE DEF M, keys
        <5>2. QED
          BY <2>1, <5>1, BytesAreRanges
      <4> HIDE DEF keys
      <4>3. Bytes(m) \cap UNION {Bytes(k) : k \in keys} = {} <=> \A k \in keys : Bytes(m) \cap Bytes(k) = {}
        OBVIOUS
      <4>4. QED
        BY <4>1, <4>2, <4>3
    <3>3. taken = good
      <4>1. \A m \in All : m.type # "bank_account"
        BY <2>3, <2>9
      <4>2. ASSUME NEW m \in All
            PROVE  m \in taken <=> m \in good
        BY <3>1, <3>2, <4>1
      <4>3. QED
        BY <4>2
    <3>4. kept = Passing(good, matches)
      BY <2>9 DEF Detect, SecretsFound
    <3> HIDE DEF taken, kept, M
    <3>5. ToSet(kept) = All \cap good
      BY <2>1, <3>4, PassingFinds
    <3>6. ToSet(kept) = taken
      BY <3>3, <3>5
    <3>7. QED
      BY <2>9, <3>6
  <2>10. QED
    BY <2>2, <2>7, <2>8, <2>9
<1>2. QED
  BY <1>1, SpansInvHolds, PTL

----------------------------------------------------------------------------
(* The check digits.  Verhoeff's tables are those of a group of ten elements *)
(* and of a permutation of them; each step of its loop can be undone, so two *)
(* loops that have parted stay apart.  Luhn's and GSTIN's checks are sums of *)
(* weights, and a mistake moves the sum by less than the modulus.            *)

Times(c, x) == VerhoeffD[c + 1][x + 1]
Associates(c, x, y) == Times(Times(c, x), y) = Times(c, Times(x, y))
Permuted(i, x) == VerhoeffP[i + 1][x + 1]

LEMMA TimesIsAGroup ==
    /\ \A c, x \in 0..9 : Times(c, x) \in 0..9
    /\ \A c, x, y \in 0..9 : Associates(c, x, y)
    /\ \A c, x, y \in 0..9 : Times(c, x) = Times(c, y) => x = y
    /\ \A c, x, y \in 0..9 : Times(x, c) = Times(y, c) => x = y
<1>1. \A c, x \in 0..9 : Times(c, x) \in 0..9
  BY SMTT(60) DEF Times, VerhoeffD
<1>2. \A c, x, y \in 0..9 : Associates(c, x, y)
  BY SMTT(60) DEF Associates, Times, VerhoeffD
<1>3. \A c, x, y \in 0..9 : Times(c, x) = Times(c, y) => x = y
  BY SMTT(60) DEF Times, VerhoeffD
<1>4. \A c, x, y \in 0..9 : Times(x, c) = Times(y, c) => x = y
  BY SMTT(60) DEF Times, VerhoeffD
<1>5. QED
  BY <1>1, <1>2, <1>3, <1>4

LEMMA PermutationsTellOrder ==
    /\ \A i \in 0..7, x \in 0..9 : Permuted(i, x) \in 0..9
    /\ \A i \in 0..7, x, y \in 0..9 : Permuted(i, x) = Permuted(i, y) => x = y
    /\ \A i \in 0..7, x, y \in 0..9 : x # y =>
          Times(Permuted(i, x), Permuted((i + 1) % 8, y)) # Times(Permuted(i, y), Permuted((i + 1) % 8, x))
<1>1. \A i \in 0..7, x \in 0..9 : Permuted(i, x) \in 0..9
  BY SMTT(60) DEF Permuted, VerhoeffP
<1>2. \A i \in 0..7, x, y \in 0..9 : Permuted(i, x) = Permuted(i, y) => x = y
  BY SMTT(60) DEF Permuted, VerhoeffP
<1>3. \A i \in 0..7, x, y \in 0..9 : x # y =>
         Times(Permuted(i, x), Permuted((i + 1) % 8, y)) # Times(Permuted(i, y), Permuted((i + 1) % 8, x))
  BY SMTT(60) DEF Times, VerhoeffD, Permuted, VerhoeffP
<1>4. QED
  BY <1>1, <1>2, <1>3

(* What the loop of Verhoeff does with the digit it comes to kth. *)
Factor(s, k) == Permuted((k - 1) % 8, s[Len(s) - (k - 1)])
VerhoeffSteps(s) == [k \in 1..Len(s) |-> [c \in 0..9 |-> Times(c, Factor(s, k))]]

LEMMA FactorIsADigit ==
    ASSUME NEW s \in Seq(0..9), NEW k \in 1..Len(s)
    PROVE  /\ (k - 1) % 8 \in 0..7 /\ Len(s) - (k - 1) \in 1..Len(s) /\ s[Len(s) - (k - 1)] \in 0..9
           /\ Factor(s, k) \in 0..9
<1>1. Len(s) \in Nat /\ \A i \in 1..Len(s) : s[i] \in 0..9
  BY LenProperties, ElementOfSeq
<1>2. (k - 1) % 8 \in 0..7 /\ Len(s) - (k - 1) \in 1..Len(s)
  BY <1>1
<1>3. s[Len(s) - (k - 1)] \in 0..9
  BY <1>1, <1>2
<1>4. QED
  BY <1>2, <1>3, PermutationsTellOrder DEF Factor

(* Verhoeff's FoldLeft, taken one digit at a time. *)
LEMMA VerhoeffIsALoop ==
    ASSUME NEW s \in Seq(0..9)
    PROVE  \E f \in [0..Len(s) -> 0..9] :
              IsLoop(f, Len(s), 0, VerhoeffSteps(s)) /\ (Verhoeff(s) <=> f[Len(s)] = 0)
<1> DEFINE n == Len(s)
           V == 0..9
           step == VerhoeffSteps(s)
           New(c, i) == VerhoeffD[c + 1][VerhoeffP[(i % 8) + 1][s[Len(s) - i] + 1] + 1]
           list == [i \in 1..n |-> i - 1]
           Iterates(g) == g = [p \in SUBSET (1..n) |->
                                IF p = {} THEN 0 ELSE New(g[p \ {Max(p)}], list[Max(p)])]
           iter == CHOOSE g : Iterates(g)
<1>1. n \in Nat /\ DOMAIN list = 1..n
  BY LenProperties
<1>2. Verhoeff(s) <=> iter[1..n] = 0
  BY <1>1 DEF Verhoeff, FoldLeft, MapThenFoldSet
<1>3. \A c \in V, k \in 1..n : New(c, list[k]) = Times(c, Factor(s, k))
  BY DEF Times, Permuted, Factor
<1>4. \A c \in V, k \in 1..n : Times(c, Factor(s, k)) \in V
  BY FactorIsADigit, TimesIsAGroup
<1> HIDE DEF n, list, New
<1>5. step \in [1..n -> [V -> V]] /\ \A k \in 1..n : \A c \in V : step[k][c] = Times(c, Factor(s, k))
  BY <1>4 DEF VerhoeffSteps, n
<1> HIDE DEF V, step
<1>6. 0 \in V
  BY DEF V
<1>7. \E g : Iterates(g)
  <2>1. PICK g \in [SUBSET (1..n) -> V] : IsFold(g, n, 0, step)
    BY <1>1, <1>5, <1>6, FoldIsDefined, Zenon
  <2>2. ASSUME NEW p \in SUBSET (1..n), p # {}
        PROVE  g[p] = New(g[p \ {Max(p)}], list[Max(p)])
    <3>1. Max(p) \in 1..n
      BY <1>1, <2>2, GreatestNumber
    <3>2. g[p \ {Max(p)}] \in V
      OBVIOUS
    <3>3. g[p] = step[Max(p)][g[p \ {Max(p)}]]
      BY <2>1, <2>2 DEF IsFold
    <3>4. step[Max(p)][g[p \ {Max(p)}]] = Times(g[p \ {Max(p)}], Factor(s, Max(p)))
      BY <1>5, <3>1, <3>2
    <3>5. New(g[p \ {Max(p)}], list[Max(p)]) = Times(g[p \ {Max(p)}], Factor(s, Max(p)))
      BY <1>3, <3>1, <3>2
    <3>6. QED
      BY <3>3, <3>4, <3>5
  <2>3. Iterates(g)
    BY <2>1, <2>2 DEF IsFold
  <2>4. QED
    BY <2>3
<1>8. Iterates(iter)
  BY <1>7
<1> HIDE DEF iter
<1>9. iter[{}] = 0
  BY <1>8
<1>10. \A p \in SUBSET (1..n) :
          p # {} /\ iter[p \ {Max(p)}] \in V => iter[p] = step[Max(p)][iter[p \ {Max(p)}]]
  <2> TAKE p \in SUBSET (1..n)
  <2> HAVE p # {} /\ iter[p \ {Max(p)}] \in V
  <2>1. Max(p) \in 1..n
    BY <1>1, GreatestNumber
  <2>2. iter[p] = New(iter[p \ {Max(p)}], list[Max(p)])
    BY <1>8
  <2>3. QED
    BY <1>3, <1>5, <2>1, <2>2
<1>11. \E f \in [0..n -> V] : IsLoop(f, n, 0, step) /\ f[n] = iter[1..n]
  <2>1. Folded(iter, V, n, 0, step)
    BY <1>9, <1>10, Zenon DEF Folded
  <2>2. QED
    BY <1>1, <1>5, <1>6, <2>1, FoldIsALoop
<1>12. QED
  BY <1>2, <1>11 DEF n, V, step

(* Two numbers that part at some position stay apart: every step is          *)
(* invertible.                                                               *)
LEMMA VerhoeffStaysApart ==
    ASSUME NEW n \in Nat, NEW p, NEW q, NEW f \in [0..n -> 0..9], NEW g \in [0..n -> 0..9],
           NEW m \in 0..n, f[m] # g[m],
           \A k \in (m + 1)..n : f[k] = Times(f[k - 1], p[k]) /\ g[k] = Times(g[k - 1], p[k])
                                 /\ p[k] \in 0..9
    PROVE  f[n] # g[n]
<1> DEFINE S == {d \in 0..(n - m) : f[m + d] # g[m + d]}
<1>1. 0 \in S
  OBVIOUS
<1>2. ASSUME NEW d \in 0..((n - m) - 1), d \in S
      PROVE  d + 1 \in S
  <2> DEFINE k == m + (d + 1)
  <2>1. k \in (m + 1)..n /\ k - 1 = m + d /\ k - 1 \in 0..n /\ d + 1 \in 0..(n - m)
    OBVIOUS
  <2> HIDE DEF k
  <2>2. f[k - 1] # g[k - 1] /\ f[k - 1] \in 0..9 /\ g[k - 1] \in 0..9
    BY <1>2, <2>1
  <2>3. f[k] # g[k]
    <3>1. f[k] = Times(f[k - 1], p[k]) /\ g[k] = Times(g[k - 1], p[k]) /\ p[k] \in 0..9
      BY <2>1
    <3>2. \A c, x, y \in 0..9 : Times(x, c) = Times(y, c) => x = y
      BY TimesIsAGroup
    <3>3. Times(f[k - 1], p[k]) # Times(g[k - 1], p[k])
      BY <2>2, <3>1, <3>2, Zenon
    <3>4. QED
      BY <3>1, <3>3
  <2>4. QED
    BY <2>1, <2>3 DEF k
<1> HIDE DEF S
<1>3. \A d \in 0..(n - m) : d \in S
  <2> DEFINE l == n - m
  <2>1. l \in Nat
    OBVIOUS
  <2>2. \A d \in 0..(l - 1) : d \in S => d + 1 \in S
    BY <1>2
  <2> HIDE DEF l
  <2>3. \A d \in 0..l : d \in S
    BY <1>1, <2>1, <2>2, InductionTo
  <2>4. QED
    BY <2>3 DEF l
<1>4. n - m \in 0..(n - m) /\ m + (n - m) = n
  OBVIOUS
<1>5. QED
  BY <1>3, <1>4 DEF S

(* The loops over two numbers of one length. *)
Alongside(f, g, s, t, n) ==
    /\ f \in [0..n -> 0..9] /\ g \in [0..n -> 0..9]
    /\ \A k \in 1..n : /\ f[k] = Times(f[k - 1], Factor(s, k))
                       /\ g[k] = Times(g[k - 1], Factor(t, k))
    /\ (Verhoeff(s) <=> f[n] = 0) /\ (Verhoeff(t) <=> g[n] = 0)
    /\ \A m \in 0..n : (\A k \in 1..m : Factor(s, k) = Factor(t, k)) => f[m] = g[m]
    /\ \A m \in 0..n :
          f[m] # g[m] /\ (\A k \in (m + 1)..n : Factor(s, k) = Factor(t, k)) => f[n] # g[n]

LEMMA VerhoeffLoops ==
    ASSUME NEW s \in Seq(0..9), NEW t \in Seq(0..9), NEW n, n = Len(s), n = Len(t)
    PROVE  \E f, g : Alongside(f, g, s, t, n)
<1>1. n \in Nat /\ \A k \in 1..n : Factor(s, k) \in 0..9 /\ Factor(t, k) \in 0..9
  BY LenProperties, FactorIsADigit
<1>2. PICK f \in [0..n -> 0..9] : IsLoop(f, n, 0, VerhoeffSteps(s)) /\ (Verhoeff(s) <=> f[n] = 0)
  BY VerhoeffIsALoop
<1>3. PICK g \in [0..n -> 0..9] : IsLoop(g, n, 0, VerhoeffSteps(t)) /\ (Verhoeff(t) <=> g[n] = 0)
  BY VerhoeffIsALoop
<1>4. ASSUME NEW k \in 1..n
      PROVE  /\ VerhoeffSteps(s)[k] = [c \in 0..9 |-> Times(c, Factor(s, k))]
             /\ VerhoeffSteps(t)[k] = [c \in 0..9 |-> Times(c, Factor(t, k))]
  BY DEF VerhoeffSteps
<1>5. ASSUME NEW k \in 1..n
      PROVE  /\ f[k] = Times(f[k - 1], Factor(s, k))
             /\ g[k] = Times(g[k - 1], Factor(t, k))
  <2>1. k - 1 \in 0..n
    BY <1>1
  <2>2. f[k - 1] \in 0..9 /\ g[k - 1] \in 0..9
    BY <2>1
  <2>3. f[k] = VerhoeffSteps(s)[k][f[k - 1]] /\ g[k] = VerhoeffSteps(t)[k][g[k - 1]]
    BY <1>2, <1>3 DEF IsLoop
  <2>4. QED
    BY <1>4, <2>2, <2>3
<1>6. ASSUME NEW m \in 0..n, \A k \in 1..m : Factor(s, k) = Factor(t, k)
      PROVE  f[m] = g[m]
  <2>1. \A k \in 1..m : VerhoeffSteps(s)[k] = VerhoeffSteps(t)[k]
    <3> TAKE k \in 1..m
    <3>1. k \in 1..n /\ Factor(s, k) = Factor(t, k)
      BY <1>1, <1>6
    <3>2. QED
      BY <1>4, <3>1
  <2>2. QED
    BY <1>1, <1>2, <1>3, <2>1, LoopsAgree
<1>7. ASSUME NEW m \in 0..n, f[m] # g[m], \A k \in (m + 1)..n : Factor(s, k) = Factor(t, k)
      PROVE  f[n] # g[n]
  <2> DEFINE p == [k \in 1..n |-> Factor(s, k)]
  <2>1. \A k \in (m + 1)..n : f[k] = Times(f[k - 1], p[k]) /\ g[k] = Times(g[k - 1], p[k]) /\ p[k] \in 0..9
    <3> TAKE k \in (m + 1)..n
    <3>1. k \in 1..n
      BY <1>1
    <3>2. QED
      BY <1>1, <1>5, <1>7, <3>1
  <2> HIDE DEF p
  <2>2. QED
    BY <1>1, <1>7, <2>1, VerhoeffStaysApart
<1>8. Alongside(f, g, s, t, n)
  BY <1>2, <1>3, <1>5, <1>6, <1>7 DEF Alongside
<1>9. QED
  BY <1>8

(* A copy with one character changed, and one with two neighbours exchanged. *)
LEMMA MistypedIsASequence ==
    ASSUME NEW V, NEW s \in Seq(V), NEW i \in 1..Len(s), NEW v \in V
    PROVE  /\ [s EXCEPT ![i] = v] \in Seq(V) /\ Len([s EXCEPT ![i] = v]) = Len(s)
           /\ \A k \in 1..Len(s) : [s EXCEPT ![i] = v][k] = IF k = i THEN v ELSE s[k]
BY ExceptSeq

LEMMA SwappedIsASequence ==
    ASSUME NEW V, NEW s \in Seq(V), NEW i \in 1..Len(s), i < Len(s), NEW t,
           t = [s EXCEPT ![i] = s[i + 1], ![i + 1] = s[i]]
    PROVE  /\ t \in Seq(V) /\ Len(t) = Len(s) /\ i + 1 \in 1..Len(s) /\ s[i] \in V /\ s[i + 1] \in V
           /\ \A k \in 1..Len(s) : t[k] = IF k = i THEN s[i + 1] ELSE IF k = i + 1 THEN s[i] ELSE s[k]
<1> DEFINE n == Len(s)
           a == s[i + 1]
           b == s[i]
           u == [s EXCEPT ![i] = a]
           w == [u EXCEPT ![i + 1] = b]
<1>1. n \in Nat /\ i + 1 \in 1..n /\ i # i + 1
  BY LenProperties
<1>2. a \in V /\ b \in V
  BY <1>1, ElementOfSeq
<1>3. t = w
  OBVIOUS
<1> HIDE DEF a, b, n
<1>4. u \in Seq(V) /\ Len(u) = n /\ \A k \in 1..n : u[k] = IF k = i THEN a ELSE s[k]
  BY <1>1, <1>2, ExceptSeq DEF n
<1> HIDE DEF u
<1>5. w \in Seq(V) /\ Len(w) = n /\ \A k \in 1..n : w[k] = IF k = i + 1 THEN b ELSE u[k]
  BY <1>1, <1>2, <1>4, ExceptSeq
<1> HIDE DEF w
<1>6. \A k \in 1..n : t[k] = IF k = i THEN a ELSE IF k = i + 1 THEN b ELSE s[k]
  BY <1>1, <1>3, <1>4, <1>5
<1>7. QED
  BY <1>1, <1>2, <1>3, <1>5, <1>6 DEF n, a, b

(* A digit that is another one, and neighbours in the other order. *)
LEMMA VerhoeffCatchesOne ==
    ASSUME NEW s \in Seq(0..9), NEW i \in 1..Len(s), NEW v \in 0..9, v # s[i], Verhoeff(s)
    PROVE  ~Verhoeff([s EXCEPT ![i] = v])
<1> DEFINE n == Len(s)
           t == [s EXCEPT ![i] = v]
           m == n - i + 1
<1>1. n \in Nat /\ \A k \in 1..n : s[k] \in 0..9
  BY LenProperties, ElementOfSeq
<1>2. t \in Seq(0..9) /\ Len(t) = n /\ \A k \in 1..n : t[k] = IF k = i THEN v ELSE s[k]
  BY MistypedIsASequence
<1> HIDE DEF t, n
<1>3. m \in 1..n /\ m - 1 \in 0..n /\ n - (m - 1) = i
  BY <1>1 DEF n
<1>4. \A k \in 1..n : k # m => Factor(s, k) = Factor(t, k)
  <2> TAKE k \in 1..n
  <2>1. n - (k - 1) \in 1..n /\ (k # m => n - (k - 1) # i)
    BY <1>1, <1>3
  <2>2. QED
    BY <1>2, <2>1 DEF Factor, n
<1>5. Factor(s, m) # Factor(t, m) /\ Factor(s, m) \in 0..9 /\ Factor(t, m) \in 0..9
  <2> DEFINE r == (m - 1) % 8
  <2>1. Factor(s, m) = Permuted(r, s[i]) /\ Factor(t, m) = Permuted(r, v)
    BY <1>2, <1>3 DEF Factor, n
  <2>2. r \in 0..7 /\ s[i] \in 0..9 /\ Factor(s, m) \in 0..9 /\ Factor(t, m) \in 0..9
    BY <1>1, <1>2, <1>3, FactorIsADigit DEF n
  <2> HIDE DEF r
  <2>3. QED
    BY <2>1, <2>2, PermutationsTellOrder
<1>6. PICK f, g : Alongside(f, g, s, t, n)
  <2>1. n = Len(s) /\ n = Len(t)
    BY <1>2 DEF n
  <2>2. QED
    BY <1>2, <2>1, VerhoeffLoops, Zenon
<1> HIDE DEF m
<1>7. f[m - 1] = g[m - 1]
  <2>1. \A j \in 1..(m - 1) : Factor(s, j) = Factor(t, j)
    BY <1>1, <1>3, <1>4
  <2>2. QED
    BY <1>3, <1>6, <2>1 DEF Alongside
<1>8. f[m] # g[m]
  <2>1. f[m - 1] \in 0..9
    BY <1>3, <1>6 DEF Alongside
  <2>2. f[m] = Times(f[m - 1], Factor(s, m)) /\ g[m] = Times(f[m - 1], Factor(t, m))
    BY <1>3, <1>6, <1>7 DEF Alongside
  <2>3. \A c, x, y \in 0..9 : Times(c, x) = Times(c, y) => x = y
    BY TimesIsAGroup
  <2>4. QED
    BY <1>5, <2>1, <2>2, <2>3, Zenon
<1>9. f[n] # g[n]
  <2>1. \A j \in (m + 1)..n : Factor(s, j) = Factor(t, j)
    BY <1>1, <1>3, <1>4
  <2>2. m \in 0..n
    BY <1>3
  <2>3. QED
    BY <1>6, <1>8, <2>1, <2>2 DEF Alongside
<1>10. QED
  BY <1>6, <1>9 DEF t, Alongside

LEMMA VerhoeffCatchesSwap ==
    ASSUME NEW s \in Seq(0..9), NEW i \in 1..Len(s), i < Len(s), s[i] # s[i + 1], Verhoeff(s)
    PROVE  ~Verhoeff([s EXCEPT ![i] = s[i + 1], ![i + 1] = s[i]])
<1> DEFINE n == Len(s)
           t == [s EXCEPT ![i] = s[i + 1], ![i + 1] = s[i]]
           m == n - i
           a == s[i + 1]
           b == s[i]
<1>1. n \in Nat /\ (\A k \in 1..n : s[k] \in 0..9) /\ i \in 1..n /\ i + 1 \in 1..n
  BY LenProperties, ElementOfSeq
<1>2. t \in Seq(0..9) /\ Len(t) = n
      /\ \A k \in 1..n : t[k] = IF k = i THEN a ELSE IF k = i + 1 THEN b ELSE s[k]
  BY SwappedIsASequence
<1>3. a \in 0..9 /\ b \in 0..9 /\ a # b
  BY <1>1
<1> HIDE DEF t, n, a, b
<1>4. m \in 1..n /\ m + 1 \in 1..n /\ m - 1 \in 0..n /\ n - (m - 1) = i + 1 /\ n - m = i /\ (m + 1) - 1 = m
  BY <1>1 DEF n
<1>5. \A k \in 1..n : k # m /\ k # m + 1 => Factor(s, k) = Factor(t, k)
  <2> TAKE k \in 1..n
  <2>1. n - (k - 1) \in 1..n /\ (k # m /\ k # m + 1 => n - (k - 1) # i + 1 /\ n - (k - 1) # i)
    BY <1>1, <1>4
  <2>2. QED
    BY <1>2, <2>1 DEF Factor, n
<1> DEFINE r == (m - 1) % 8
<1>6. /\ Factor(s, m) = Permuted(r, a) /\ Factor(t, m) = Permuted(r, b)
      /\ Factor(s, m + 1) = Permuted((r + 1) % 8, b) /\ Factor(t, m + 1) = Permuted((r + 1) % 8, a)
      /\ r \in 0..7 /\ (r + 1) % 8 \in 0..7
  <2>1. m % 8 = (r + 1) % 8 /\ r \in 0..7 /\ (r + 1) % 8 \in 0..7
    <3>1. \A k \in Nat : k >= 1 => /\ k % 8 = (((k - 1) % 8) + 1) % 8 /\ (k - 1) % 8 \in 0..7
                                    /\ (((k - 1) % 8) + 1) % 8 \in 0..7
      OBVIOUS
    <3>2. m \in Nat /\ m >= 1
      BY <1>1, <1>4
    <3>3. QED
      BY <3>1, <3>2 DEF r
  <2>2. s[i] = b /\ s[i + 1] = a /\ t[i] = a /\ t[i + 1] = b
    <3>1. i # i + 1
      BY <1>1
    <3>2. QED
      BY <1>1, <1>2, <3>1 DEF a, b
  <2>3. QED
    BY <1>2, <1>4, <2>1, <2>2 DEF Factor, n
<1> HIDE DEF r, m
<1>7. PICK f, g : Alongside(f, g, s, t, n)
  <2>1. n = Len(s) /\ n = Len(t)
    BY <1>2 DEF n
  <2>2. QED
    BY <1>2, <2>1, VerhoeffLoops, Zenon
<1>8. f[m - 1] = g[m - 1]
  <2>1. \A j \in 1..(m - 1) : Factor(s, j) = Factor(t, j)
    BY <1>1, <1>4, <1>5
  <2>2. QED
    BY <1>4, <1>7, <2>1 DEF Alongside
<1>9. f[m + 1] # g[m + 1]
  <2> DEFINE c == f[m - 1]
             x == Permuted(r, a)  y == Permuted((r + 1) % 8, b)
             u == Permuted(r, b)  w == Permuted((r + 1) % 8, a)
  <2>1. f[m] = Times(c, x) /\ g[m] = Times(c, u)
    BY <1>4, <1>6, <1>7, <1>8 DEF Alongside
  <2>2. f[m + 1] = Times(f[m], y) /\ g[m + 1] = Times(g[m], w)
    BY <1>4, <1>6, <1>7 DEF Alongside
  <2>3. c \in 0..9 /\ x \in 0..9 /\ y \in 0..9 /\ u \in 0..9 /\ w \in 0..9
    BY <1>3, <1>4, <1>6, <1>7, PermutationsTellOrder DEF Alongside
  <2>4. Times(x, y) # Times(u, w)
    <3>1. \A j \in 0..7, d, e \in 0..9 : d # e =>
             Times(Permuted(j, d), Permuted((j + 1) % 8, e)) # Times(Permuted(j, e), Permuted((j + 1) % 8, d))
      BY PermutationsTellOrder
    <3>2. QED
      BY <1>3, <1>6, <3>1, Zenon
  <2> HIDE DEF c, x, y, u, w
  <2>5. f[m + 1] = Times(c, Times(x, y)) /\ g[m + 1] = Times(c, Times(u, w))
    <3>1. Associates(c, x, y) /\ Associates(c, u, w)
      BY <2>3, TimesIsAGroup
    <3>2. QED
      BY <2>1, <2>2, <3>1 DEF Associates
  <2>6. Times(x, y) \in 0..9 /\ Times(u, w) \in 0..9
    <3>1. \A d, e \in 0..9 : Times(d, e) \in 0..9
      BY TimesIsAGroup
    <3>2. QED
      BY <2>3, <3>1, Zenon
  <2>7. QED
    <3>1. \A d, e, h \in 0..9 : Times(d, e) = Times(d, h) => e = h
      BY TimesIsAGroup
    <3>2. Times(c, Times(x, y)) # Times(c, Times(u, w))
      BY <2>3, <2>4, <2>6, <3>1, Zenon
    <3>3. QED
      BY <2>5, <3>2
<1>10. f[n] # g[n]
  <2>1. \A j \in ((m + 1) + 1)..n : Factor(s, j) = Factor(t, j)
    BY <1>1, <1>4, <1>5
  <2>2. m + 1 \in 0..n
    BY <1>4
  <2>3. QED
    BY <1>7, <1>9, <2>1, <2>2 DEF Alongside
<1>11. QED
  BY <1>7, <1>10 DEF t, Alongside

(* Luhn's scheme and GSTIN's are sums of weights. *)
IsSum(f, n, w) ==
    f \in [0..n -> Nat] /\ f[0] = 0 /\ \A i \in 1..n : f[i] = f[i - 1] + w[i]

Adding(w, n) == [i \in 1..n |-> [v \in Nat |-> v + w[i]]]

Moved(p, q, a, b) == p \in Nat /\ q \in Nat /\ q + a = p + b

Shifted(n, w, x, i, j, d, e) ==
    \A k \in 1..n : x[k] = w[k] + (IF k = i THEN d ELSE IF k = j THEN e ELSE 0)

(* Weights that differ in one place or two make sums that differ by as much. *)
LEMMA SumsDiffer ==
    ASSUME NEW n \in Nat, NEW w \in [1..n -> Nat], NEW x \in [1..n -> Nat], NEW f, NEW g,
           IsSum(f, n, w), IsSum(g, n, x),
           NEW i \in 1..n, NEW j \in 1..(n + 1), i < j, NEW d \in Int, NEW e \in Int,
           Shifted(n, w, x, i, j, d, e)
    PROVE  Moved(f[n], g[n], 0, d + (IF j <= n THEN e ELSE 0))
<1> DEFINE By(k) == (IF i <= k THEN d ELSE 0) + (IF j <= k THEN e ELSE 0)
           S == {k \in 0..n : g[k] = f[k] + By(k)}
<1>1. \A k \in 0..n : f[k] \in Nat /\ g[k] \in Nat
  BY DEF IsSum
<1>2. 0 \in S
  BY DEF IsSum
<1>3. ASSUME NEW k \in 0..(n - 1), k \in S
      PROVE  k + 1 \in S
  <2>1. k + 1 \in 1..n /\ k + 1 \in 0..n /\ (k + 1) - 1 = k /\ k \in 0..n /\ k \in Int
    OBVIOUS
  <2>2. f[k + 1] = f[k] + w[k + 1] /\ g[k + 1] = g[k] + x[k + 1]
    BY <2>1 DEF IsSum
  <2>3. x[k + 1] = w[k + 1] + (IF k + 1 = i THEN d ELSE IF k + 1 = j THEN e ELSE 0)
        /\ w[k + 1] \in Nat /\ x[k + 1] \in Nat
    BY <2>1 DEF Shifted
  <2>4. g[k] = f[k] + By(k) /\ f[k] \in Nat /\ g[k] \in Nat
    BY <1>1, <1>3, <2>1
  <2>5. By(k + 1) = By(k) + (IF k + 1 = i THEN d ELSE IF k + 1 = j THEN e ELSE 0) /\ By(k) \in Int
    BY <2>1
  <2> HIDE DEF By
  <2> DEFINE p == f[k]  q == g[k]  y == w[k + 1]  z == x[k + 1]  b == By(k)  c == By(k + 1)
             more == IF k + 1 = i THEN d ELSE IF k + 1 = j THEN e ELSE 0
  <2>6. /\ p \in Nat /\ q \in Nat /\ y \in Nat /\ z \in Nat /\ b \in Int /\ more \in Int
        /\ z = y + more /\ q = p + b /\ c = b + more
    BY <2>3, <2>4, <2>5
  <2> HIDE DEF p, q, y, z, b, c, more
  <2>7. q + z = (p + y) + c
    BY <2>6
  <2>8. g[k + 1] = f[k + 1] + By(k + 1)
    BY <2>2, <2>7 DEF p, q, y, z, c
  <2>9. QED
    BY <2>1, <2>8
<1> HIDE DEF S
<1>4. \A k \in 0..n : k \in S
  BY <1>2, <1>3, InductionTo
<1>5. n \in S /\ i <= n
  BY <1>4
<1>6. f[n] \in Nat /\ g[n] \in Nat /\ g[n] = f[n] + By(n) /\ By(n) = d + (IF j <= n THEN e ELSE 0)
  BY <1>1, <1>5 DEF S
<1> HIDE DEF By
<1>7. QED
  BY <1>6 DEF Moved

(* What a fold that adds weights leaves is their sum. *)
LEMMA AddingIsASum ==
    ASSUME NEW n \in Nat, NEW w \in [1..n -> Nat], NEW f \in [0..n -> Nat], IsLoop(f, n, 0, Adding(w, n))
    PROVE  IsSum(f, n, w)
<1>1. ASSUME NEW i \in 1..n
      PROVE  f[i] = f[i - 1] + w[i]
  <2>1. i - 1 \in 0..n
    OBVIOUS
  <2>2. f[i - 1] \in Nat
    BY <2>1
  <2>3. f[i] = Adding(w, n)[i][f[i - 1]]
    BY DEF IsLoop
  <2>4. QED
    BY <2>2, <2>3 DEF Adding
<1>2. QED
  BY <1>1 DEF IsLoop, IsSum

SumsTo(n, w, total) == \E f : IsSum(f, n, w) /\ f[n] = total

(* The sum that FoldLeft comes to when it adds the weight of each position, *)
(* or the two parts of it one after the other.                              *)
LEMMA FoldedIsASum ==
    ASSUME NEW n \in Nat, NEW w \in [1..n -> Nat], NEW iter, Folded(iter, Nat, n, 0, Adding(w, n))
    PROVE  SumsTo(n, w, iter[1..n])
<1> DEFINE step == Adding(w, n)
           V == Nat
<1>1. step \in [1..n -> [V -> V]] /\ 0 \in V /\ Folded(iter, V, n, 0, step)
  BY DEF Adding
<1> HIDE DEF step, V
<1>2. PICK f \in [0..n -> V] : IsLoop(f, n, 0, step) /\ f[n] = iter[1..n]
  BY <1>1, FoldIsALoop
<1>3. IsSum(f, n, w)
  BY <1>2, AddingIsASum DEF step, V
<1>4. QED
  BY <1>2, <1>3 DEF SumsTo

(* Adding weights one after the other stays in the numbers. *)
LEMMA NumbersOfFold ==
    ASSUME NEW n \in Nat, NEW w \in [1..n -> Nat]
    PROVE  \E g \in [SUBSET (1..n) -> Nat] :
              g[{}] = 0 /\ \A p \in SUBSET (1..n) : p # {} => g[p] = g[p \ {Max(p)}] + w[Max(p)]
<1> DEFINE step == Adding(w, n)
<1>1. step \in [1..n -> [Nat -> Nat]] /\ \A k \in 1..n : \A v \in Nat : step[k][v] = v + w[k]
  BY DEF Adding
<1> HIDE DEF step
<1>2. PICK g \in [SUBSET (1..n) -> Nat] : IsFold(g, n, 0, step)
  <2>1. 0 \in Nat
    OBVIOUS
  <2>2. QED
    BY <1>1, <2>1, FoldIsDefined, Zenon
<1>3. ASSUME NEW p \in SUBSET (1..n), p # {}
      PROVE  g[p] = g[p \ {Max(p)}] + w[Max(p)]
  <2>1. Max(p) \in 1..n
    BY <1>3, GreatestNumber
  <2>2. g[p \ {Max(p)}] \in Nat
    OBVIOUS
  <2>3. QED
    BY <1>1, <1>2, <1>3, <2>1, <2>2 DEF IsFold
<1>4. QED
  BY <1>2, <1>3 DEF IsFold

LEMMA FoldIsASum ==
    ASSUME NEW n \in Nat, NEW w \in [1..n -> Nat], NEW iter,
           iter = CHOOSE g : g = [p \in SUBSET (1..n) |->
                                    IF p = {} THEN 0 ELSE g[p \ {Max(p)}] + w[Max(p)]]
    PROVE  SumsTo(n, w, iter[1..n])
<1> DEFINE Iterates(g) == g = [p \in SUBSET (1..n) |->
                                IF p = {} THEN 0 ELSE g[p \ {Max(p)}] + w[Max(p)]]
<1>1. \E g : Iterates(g)
  <2>1. PICK g \in [SUBSET (1..n) -> Nat] :
          g[{}] = 0 /\ \A p \in SUBSET (1..n) : p # {} => g[p] = g[p \ {Max(p)}] + w[Max(p)]
    BY NumbersOfFold
  <2>2. Iterates(g)
    BY <2>1
  <2>3. QED
    BY <2>2
<1>2. Iterates(iter)
  BY <1>1
<1>3. iter[{}] = 0
  BY <1>2
<1>4. \A p \in SUBSET (1..n) :
          p # {} /\ iter[p \ {Max(p)}] \in Nat => iter[p] = Adding(w, n)[Max(p)][iter[p \ {Max(p)}]]
  <2> TAKE p \in SUBSET (1..n)
  <2> HAVE p # {} /\ iter[p \ {Max(p)}] \in Nat
  <2>1. Max(p) \in 1..n
    BY GreatestNumber
  <2>2. iter[p] = iter[p \ {Max(p)}] + w[Max(p)]
    BY <1>2
  <2>3. QED
    BY <2>1, <2>2 DEF Adding
<1>5. Folded(iter, Nat, n, 0, Adding(w, n))
  BY <1>3, <1>4, Zenon DEF Folded
<1>6. QED
  BY <1>5, FoldedIsASum

BothAdded(n, a, b) ==
    CHOOSE g : g = [p \in SUBSET (1..n) |->
                      IF p = {} THEN 0 ELSE g[p \ {Max(p)}] + a[Max(p)] + b[Max(p)]]

LEMMA FoldIsASumOfTwo ==
    ASSUME NEW n \in Nat, NEW a \in [1..n -> Nat], NEW b \in [1..n -> Nat], NEW w \in [1..n -> Nat],
           \A k \in 1..n : w[k] = a[k] + b[k]
    PROVE  SumsTo(n, w, BothAdded(n, a, b)[1..n])
<1> DEFINE iter == BothAdded(n, a, b)
           Iterates(g) == g = [p \in SUBSET (1..n) |->
                                IF p = {} THEN 0 ELSE g[p \ {Max(p)}] + a[Max(p)] + b[Max(p)]]
<1>1. \E g : Iterates(g)
  <2>1. PICK g \in [SUBSET (1..n) -> Nat] :
          g[{}] = 0 /\ \A p \in SUBSET (1..n) : p # {} => g[p] = g[p \ {Max(p)}] + w[Max(p)]
    BY NumbersOfFold
  <2>2. ASSUME NEW p \in SUBSET (1..n), p # {}
        PROVE  g[p] = g[p \ {Max(p)}] + a[Max(p)] + b[Max(p)]
    <3>1. Max(p) \in 1..n
      BY <2>2, GreatestNumber
    <3>2. g[p \ {Max(p)}] \in Nat
      OBVIOUS
    <3>3. g[p] = g[p \ {Max(p)}] + w[Max(p)]
      BY <2>1, <2>2
    <3>4. w[Max(p)] = a[Max(p)] + b[Max(p)] /\ a[Max(p)] \in Nat /\ b[Max(p)] \in Nat
      BY <3>1
    <3> DEFINE x == g[p \ {Max(p)}]
               y == a[Max(p)]
               z == b[Max(p)]
    <3>5. g[p] = x + (y + z)
      BY <3>3, <3>4
    <3>6. x \in Nat /\ y \in Nat /\ z \in Nat
      BY <3>2, <3>4
    <3> HIDE DEF x, y, z
    <3>7. g[p] = x + y + z
      BY <3>5, <3>6
    <3>8. QED
      BY <3>7 DEF x, y, z
  <2>3. Iterates(g)
    BY <2>1, <2>2
  <2>4. QED
    BY <2>3
<1>2. Iterates(iter)
  BY <1>1 DEF BothAdded
<1> HIDE DEF iter
<1>3. iter[{}] = 0
  BY <1>2
<1>4. \A p \in SUBSET (1..n) :
          p # {} /\ iter[p \ {Max(p)}] \in Nat => iter[p] = Adding(w, n)[Max(p)][iter[p \ {Max(p)}]]
  <2> TAKE p \in SUBSET (1..n)
  <2> HAVE p # {} /\ iter[p \ {Max(p)}] \in Nat
  <2>1. Max(p) \in 1..n
    BY GreatestNumber
  <2>2. iter[p] = iter[p \ {Max(p)}] + a[Max(p)] + b[Max(p)]
    BY <1>2
  <2>3. iter[p] = iter[p \ {Max(p)}] + w[Max(p)]
    BY <2>1, <2>2
  <2>4. QED
    BY <2>1, <2>3 DEF Adding
<1>5. Folded(iter, Nat, n, 0, Adding(w, n))
  BY <1>3, <1>4, Zenon DEF Folded
<1>6. QED
  BY <1>5, FoldedIsASum DEF iter

(* Luhn's sum, by position. *)
LuhnWeights(s) ==
    [i \in 1..Len(s) |-> IF (Len(s) - i) % 2 = 1 THEN Doubled(s[i]) ELSE s[i]]

LEMMA LuhnIsASum ==
    ASSUME NEW s \in Seq(0..9)
    PROVE  LuhnWeights(s) \in [1..Len(s) -> Nat]
           /\ \E f : IsSum(f, Len(s), LuhnWeights(s)) /\ (Luhn(s) <=> s # <<>> /\ f[Len(s)] % 10 = 0)
<1> DEFINE n == Len(s)
           w == LuhnWeights(s)
           iter == CHOOSE g : g = [p \in SUBSET (1..n) |->
                                    IF p = {} THEN 0 ELSE g[p \ {Max(p)}] + w[Max(p)]]
<1>1. n \in Nat /\ DOMAIN s = 1..n /\ \A i \in 1..n : s[i] \in 0..9
  BY LenProperties, ElementOfSeq
<1>2. w \in [1..n -> Nat]
  BY <1>1 DEF LuhnWeights, Doubled
<1>3. Luhn(s) <=> s # <<>> /\ iter[1..n] % 10 = 0
  <2> DEFINE list == [i \in DOMAIN s |-> i]
             weighed(i) == IF (Len(s) - i) % 2 = 1 THEN Doubled(s[i]) ELSE s[i]
             plain == CHOOSE g : g = [p \in SUBSET (1..n) |->
                                       IF p = {} THEN 0 ELSE g[p \ {Max(p)}] + weighed(list[Max(p)])]
  <2>1. Luhn(s) <=> s # <<>> /\ plain[1..n] % 10 = 0
    BY <1>1 DEF Luhn, FoldLeft, MapThenFoldSet
  <2>2. \A k \in 1..n : weighed(list[k]) = w[k]
    BY <1>1 DEF LuhnWeights
  <2> HIDE DEF weighed, list, w, n
  <2>3. \A p \in SUBSET (1..n) : p # {} => weighed(list[Max(p)]) = w[Max(p)]
    BY <1>1, <2>2, GreatestNumber
  <2>4. \A g : [p \in SUBSET (1..n) |-> IF p = {} THEN 0 ELSE g[p \ {Max(p)}] + weighed(list[Max(p)])]
             = [p \in SUBSET (1..n) |-> IF p = {} THEN 0 ELSE g[p \ {Max(p)}] + w[Max(p)]]
    BY <2>3
  <2>5. plain = iter
    BY <2>4
  <2>6. QED
    BY <2>1, <2>5
<1> HIDE DEF n, w
<1>4. \E f : IsSum(f, n, w) /\ f[n] = iter[1..n]
  BY <1>1, <1>2, FoldIsASum DEF SumsTo
<1>5. QED
  BY <1>2, <1>3, <1>4 DEF n, w

(* GSTIN's sum, the check character added, is a multiple of 36. *)
Weighted(i, v) == IF i % 2 = 0 THEN 2 * v ELSE v
Folding(p) == (p \div 36) + (p % 36)
GstinWeights(s) == [i \in 1..15 |-> Folding(Weighted(i, s[i]))]

LEMMA WeightsAreSmall ==
    /\ \A i \in 1..15, v \in 0..35 : Weighted(i, v) \in 0..70
    /\ \A p \in 0..70 : p \div 36 \in Nat /\ p % 36 \in Nat /\ Folding(p) \in Nat
    /\ \A v \in 0..35 : Folding(v) = v /\ Folding(2 * v) = IF v < 18 THEN 2 * v ELSE 2 * v - 35
<1>1. ASSUME NEW i \in 1..15, NEW v \in 0..35
      PROVE  Weighted(i, v) \in 0..70
  <2>1. CASE i % 2 = 0
    BY <2>1 DEF Weighted
  <2>2. CASE i % 2 # 0
    BY <2>2 DEF Weighted
  <2>3. QED
    BY <2>1, <2>2
<1>2. \A p \in 0..70 : p \div 36 \in Nat /\ p % 36 \in Nat /\ Folding(p) \in Nat
  BY DEF Folding
<1>3. \A v \in 0..35 : Folding(v) = v /\ Folding(2 * v) = IF v < 18 THEN 2 * v ELSE 2 * v - 35
  BY DEF Folding
<1>4. QED
  BY <1>1, <1>2, <1>3

LEMMA GstinIsASum ==
    ASSUME NEW s \in Seq(0..35), Len(s) = 15
    PROVE  GstinWeights(s) \in [1..15 -> Nat]
           /\ \E f : IsSum(f, 15, GstinWeights(s)) /\ (GSTIN(s) <=> f[15] % 36 = 0)
<1> DEFINE w == GstinWeights(s)
           u == [i \in 1..14 |-> w[i]]
           a == [i \in 1..14 |-> Weighted(i, s[i]) \div 36]
           b == [i \in 1..14 |-> Weighted(i, s[i]) % 36]
           iter == BothAdded(14, a, b)
<1>1. \A i \in 1..15 : s[i] \in 0..35
  BY LenProperties, ElementOfSeq
<1>2. \A i \in 1..15 : Weighted(i, s[i]) \in 0..70
  BY <1>1, WeightsAreSmall
<1>3. w \in [1..15 -> Nat]
  BY <1>2, WeightsAreSmall DEF GstinWeights
<1>4. a \in [1..14 -> Nat] /\ b \in [1..14 -> Nat] /\ u \in [1..14 -> Nat]
  <2>1. \A i \in 1..14 : i \in 1..15
    OBVIOUS
  <2>2. \A i \in 1..14 : /\ Weighted(i, s[i]) \div 36 \in Nat /\ Weighted(i, s[i]) % 36 \in Nat
                          /\ w[i] \in Nat
    BY <1>2, <1>3, <2>1, WeightsAreSmall
  <2>3. QED
    BY <2>2
<1>5. \A i \in 1..14 : u[i] = a[i] + b[i]
  BY DEF GstinWeights, Folding
<1>6. GSTIN(s) <=> s[15] = (36 - (iter[1..14] % 36)) % 36
  <2> DEFINE list == [i \in 1..14 |-> i]
             p(i) == IF i % 2 = 0 THEN 2 * s[i] ELSE s[i]
             plain == CHOOSE g : g = [q \in SUBSET (1..14) |->
                                       IF q = {} THEN 0
                                       ELSE g[q \ {Max(q)}] + (p(list[Max(q)]) \div 36) + (p(list[Max(q)]) % 36)]
  <2>1. GSTIN(s) <=> s[15] = (36 - (plain[1..14] % 36)) % 36
    BY DEF GSTIN, FoldLeft, MapThenFoldSet
  <2>2. \A q \in SUBSET (1..14) : q # {} => Max(q) \in 1..14
    BY GreatestNumber
  <2>3. \A k \in 1..14 : a[k] = p(list[k]) \div 36 /\ b[k] = p(list[k]) % 36
    BY DEF Weighted
  <2> HIDE DEF p, list, a, b
  <2>4. \A q \in SUBSET (1..14) :
           q # {} => a[Max(q)] = p(list[Max(q)]) \div 36 /\ b[Max(q)] = p(list[Max(q)]) % 36
    BY <2>2, <2>3
  <2>5. \A g : [q \in SUBSET (1..14) |-> IF q = {} THEN 0
                   ELSE g[q \ {Max(q)}] + (p(list[Max(q)]) \div 36) + (p(list[Max(q)]) % 36)]
             = [q \in SUBSET (1..14) |-> IF q = {} THEN 0 ELSE g[q \ {Max(q)}] + a[Max(q)] + b[Max(q)]]
    BY <2>4
  <2>6. plain = iter
    BY <2>5 DEF BothAdded
  <2>7. QED
    BY <2>1, <2>6
<1>7. w[15] = s[15]
  <2>1. Weighted(15, s[15]) = s[15] /\ s[15] \in 0..35
    BY <1>1 DEF Weighted
  <2>2. QED
    <3>1. w[15] = Folding(Weighted(15, s[15]))
      BY DEF GstinWeights
    <3>2. \A v \in 0..35 : Folding(v) = v
      BY WeightsAreSmall
    <3> HIDE DEF w
    <3>3. QED
      BY <2>1, <3>1, <3>2, Zenon
<1> HIDE DEF w, a, b
<1>8. PICK f : IsSum(f, 14, u) /\ f[14] = iter[1..14]
  <2> DEFINE n == 14
  <2>1. /\ n \in Nat /\ a \in [1..n -> Nat] /\ b \in [1..n -> Nat] /\ u \in [1..n -> Nat]
        /\ \A k \in 1..n : u[k] = a[k] + b[k]
    BY <1>4, <1>5
  <2> HIDE DEF n, u
  <2>2. SumsTo(n, u, BothAdded(n, a, b)[1..n])
    BY <2>1, FoldIsASumOfTwo
  <2>3. QED
    BY <2>2 DEF n, SumsTo
<1> HIDE DEF iter
<1> DEFINE h == [i \in 0..15 |-> IF i = 15 THEN f[14] + w[15] ELSE f[i]]
<1>9. f \in [0..14 -> Nat] /\ f[0] = 0 /\ (\A i \in 1..14 : f[i] = f[i - 1] + w[i]) /\ w[15] \in Nat
  BY <1>3, <1>8 DEF IsSum
<1>10. IsSum(h, 15, w)
  <2>1. ASSUME NEW i \in 0..15
        PROVE  (IF i = 15 THEN f[14] + w[15] ELSE f[i]) \in Nat
    <3>1. f[14] \in Nat /\ (i # 15 => i \in 0..14) /\ w[15] \in Nat
      BY <1>9
    <3>2. f[14] + w[15] \in Nat
      BY <3>1
    <3>3. i # 15 => f[i] \in Nat
      BY <1>9, <3>1
    <3>4. QED
      BY <3>2, <3>3
  <2>2. h \in [0..15 -> Nat]
    BY <2>1
  <2>3. h[0] = 0
    BY <1>9
  <2>4. ASSUME NEW i \in 1..15
        PROVE  h[i] = h[i - 1] + w[i]
    <3>1. CASE i = 15
      BY <3>1
    <3>2. CASE i # 15
      <4>1. i \in 1..14 /\ i - 1 \in 0..15 /\ i - 1 # 15 /\ i \in 0..15
        BY <3>2
      <4>2. QED
        BY <1>9, <3>2, <4>1
    <3>3. QED
      BY <3>1, <3>2
  <2>5. QED
    BY <2>2, <2>3, <2>4 DEF IsSum
<1>11. GSTIN(s) <=> h[15] % 36 = 0
  <2>1. \A k \in Nat, v \in 0..35 : v = (36 - (k % 36)) % 36 <=> (k + v) % 36 = 0
    OBVIOUS
  <2>2. f[14] \in Nat
    BY <1>9
  <2>3. s[15] \in 0..35
    BY <1>1
  <2>4. h[15] = f[14] + s[15]
    BY <1>7
  <2> HIDE DEF h
  <2>5. s[15] = (36 - (f[14] % 36)) % 36 <=> (f[14] + s[15]) % 36 = 0
    BY <2>1, <2>2, <2>3
  <2>6. GSTIN(s) <=> s[15] = (36 - (f[14] % 36)) % 36
    BY <1>6, <1>8
  <2>7. QED
    BY <2>4, <2>5, <2>6
<1> HIDE DEF h
<1>12. QED
  BY <1>3, <1>10, <1>11 DEF w

(* What one place, or two, that differ do to the sum. *)
SameBut(n, w, x, places) == \A k \in (1..n) \ places : x[k] = w[k]

LEMMA OneWeightTells ==
    ASSUME NEW n \in Nat, NEW w \in [1..n -> Nat], NEW x \in [1..n -> Nat], NEW f, NEW g,
           IsSum(f, n, w), IsSum(g, n, x),
           NEW i \in 1..n, SameBut(n, w, x, {i})
    PROVE  Moved(f[n], g[n], w[i], x[i])
<1> DEFINE d == x[i] - w[i]
           j == n + 1
           e == 0
<1>1. x[i] \in Nat /\ w[i] \in Nat /\ d \in Int /\ e \in Int /\ x[i] = w[i] + d
  OBVIOUS
<1>2. j \in 1..(n + 1) /\ i < j /\ ~(j <= n) /\ \A k \in 1..n : k # j
  OBVIOUS
<1> HIDE DEF d, j, e
<1>3. Shifted(n, w, x, i, j, d, e)
  <2> SUFFICES \A k \in 1..n : x[k] = w[k] + (IF k = i THEN d ELSE IF k = j THEN e ELSE 0)
    BY DEF Shifted
  <2> TAKE k \in 1..n
  <2>1. w[k] \in Nat /\ k # j /\ (k # i => x[k] = w[k])
    BY <1>2 DEF SameBut
  <2>2. QED
    BY <1>1, <2>1
<1>4. Moved(f[n], g[n], 0, d + (IF j <= n THEN e ELSE 0))
  BY <1>1, <1>2, <1>3, SumsDiffer
<1> DEFINE p == f[n]  q == g[n]  a == w[i]  b == x[i]
<1>5. p \in Nat /\ q \in Nat /\ a \in Nat /\ b \in Nat /\ b = a + d /\ q + 0 = p + (d + 0)
  BY <1>1, <1>2, <1>4 DEF Moved, e
<1> HIDE DEF p, q, a, b
<1>6. q + a = p + b
  BY <1>1, <1>5
<1>7. Moved(p, q, a, b)
  BY <1>5, <1>6 DEF Moved
<1>8. QED
  BY <1>7 DEF p, q, a, b

LEMMA TwoWeightsTell ==
    ASSUME NEW n \in Nat, NEW w \in [1..n -> Nat], NEW x \in [1..n -> Nat], NEW f, NEW g,
           IsSum(f, n, w), IsSum(g, n, x),
           NEW i \in 1..n, i < n, SameBut(n, w, x, {i, i + 1})
    PROVE  Moved(f[n], g[n], w[i] + w[i + 1], x[i] + x[i + 1])
<1> DEFINE d == x[i] - w[i]
           j == i + 1
           e == x[j] - w[j]
<1>1. /\ x[i] \in Nat /\ w[i] \in Nat /\ x[j] \in Nat /\ w[j] \in Nat
      /\ d \in Int /\ e \in Int /\ x[i] = w[i] + d /\ x[j] = w[j] + e
  <2>1. j \in 1..n
    OBVIOUS
  <2> HIDE DEF j
  <2>2. QED
    BY <2>1
<1>2. j \in 1..(n + 1) /\ i < j /\ j <= n /\ i # j
  OBVIOUS
<1>3. \A k \in 1..n : k # i /\ k # j => x[k] = w[k]
  BY DEF SameBut
<1> HIDE DEF d, j, e
<1>4. Shifted(n, w, x, i, j, d, e)
  <2> SUFFICES \A k \in 1..n : x[k] = w[k] + (IF k = i THEN d ELSE IF k = j THEN e ELSE 0)
    BY DEF Shifted
  <2> TAKE k \in 1..n
  <2>1. w[k] \in Nat
    OBVIOUS
  <2>2. QED
    BY <1>1, <1>3, <2>1
<1>5. Moved(f[n], g[n], 0, d + (IF j <= n THEN e ELSE 0))
  BY <1>1, <1>2, <1>4, SumsDiffer
<1> DEFINE p == f[n]  q == g[n]  a == w[i]  b == x[i]  c == w[j]  h == x[j]
<1>6. /\ p \in Nat /\ q \in Nat /\ a \in Nat /\ b \in Nat /\ c \in Nat /\ h \in Nat
      /\ b = a + d /\ h = c + e /\ q + 0 = p + (d + e)
  BY <1>1, <1>2, <1>5 DEF Moved
<1> HIDE DEF p, q, a, b, c, h
<1>7. q + (a + c) = p + (b + h)
  BY <1>1, <1>6
<1>8. Moved(p, q, a + c, b + h)
  BY <1>6, <1>7 DEF Moved
<1>9. QED
  BY <1>8 DEF p, q, a, b, c, h, j

(* Of neighbouring positions one is weighed double. *)
LEMMA EvenThenOdd == \A k \in Nat : k % 2 = 0 <=> (k + 1) % 2 = 1
OBVIOUS

LEMMA Parity == \A k \in Nat : k % 2 = 0 <=> (k + 1) % 2 # 0
<1>1. \A k \in Nat : k % 2 = 0 \/ k % 2 = 1
  OBVIOUS
<1>2. QED
  BY <1>1, EvenThenOdd

(* The same of base 36: 0 and 35 are the neighbours it cannot tell apart. *)

LEMMA OtherParity == \A m \in Nat : m >= 1 => (m % 2 = 1 <=> (m - 1) % 2 # 1)
OBVIOUS

(* Doubling tells digits apart, and neighbours apart but for 0 and 9. *)
TenTells(p, q, y, z, a, b) ==
    /\ p % 10 = 0 /\ q % 10 = 0 /\ a # b
    /\ q + (y + b) = p + (z + a) \/ q + (a + z) = p + (b + y)

LEMMA DoubledTells ==
    /\ \A a \in 0..9 : Doubled(a) \in 0..9
    /\ \A a, b \in 0..9 : Doubled(a) = Doubled(b) => a = b
    /\ \A p, q \in Nat, a, b \in 0..9 : p % 10 = 0 /\ q % 10 = 0 /\ q + a = p + b => a = b
    /\ \A p, q \in Nat, a, b \in 0..9 :
          TenTells(p, q, Doubled(a), Doubled(b), a, b) => {a, b} = {0, 9}
<1>1. \A a \in 0..9 : Doubled(a) \in 0..9
  BY DEF Doubled
<1>2. \A a, b \in 0..9 : Doubled(a) = Doubled(b) => a = b
  BY DEF Doubled
<1>3. \A p, q \in Nat, a, b \in 0..9 : p % 10 = 0 /\ q % 10 = 0 /\ q + a = p + b => a = b
  OBVIOUS
<1>4. ASSUME NEW p \in Nat, NEW q \in Nat, NEW a \in 0..9, NEW b \in 0..9,
             TenTells(p, q, Doubled(a), Doubled(b), a, b)
      PROVE  {a, b} = {0, 9}
  <2>1. (a = 0 /\ b = 9) \/ (a = 9 /\ b = 0)
    BY <1>4 DEF Doubled, TenTells
  <2>2. QED
    BY <2>1
<1>5. QED
  BY <1>1, <1>2, <1>3, <1>4

LEMMA LuhnCatchesOne ==
    ASSUME NEW s \in Seq(0..9), NEW i \in 1..Len(s), NEW v \in 0..9, v # s[i], Luhn(s)
    PROVE  ~Luhn([s EXCEPT ![i] = v])
<1> DEFINE n == Len(s)
           t == [s EXCEPT ![i] = v]
           w == LuhnWeights(s)
           x == LuhnWeights(t)
<1>1. n \in Nat /\ \A k \in 1..n : s[k] \in 0..9
  BY LenProperties, ElementOfSeq
<1>2. t \in Seq(0..9) /\ Len(t) = n /\ \A k \in 1..n : t[k] = IF k = i THEN v ELSE s[k]
  BY MistypedIsASequence
<1> HIDE DEF t
<1>3. PICK f : IsSum(f, n, w) /\ f[n] % 10 = 0
  BY LuhnIsASum
<1>4. w \in [1..n -> Nat] /\ x \in [1..n -> Nat]
  BY <1>2, LuhnIsASum
<1>5. SameBut(n, w, x, {i})
  BY <1>2 DEF LuhnWeights, SameBut
<1>6. w[i] \in 0..9 /\ x[i] \in 0..9 /\ w[i] # x[i]
  BY <1>1, <1>2, DoubledTells DEF LuhnWeights
<1> SUFFICES ASSUME Luhn(t)
             PROVE  FALSE
  BY DEF t
<1>7. PICK g : IsSum(g, n, x) /\ g[n] % 10 = 0
  BY <1>2, LuhnIsASum
<1> HIDE DEF n, w, x
<1>8. i \in 1..n
  BY DEF n
<1>9. Moved(f[n], g[n], w[i], x[i])
  BY <1>1, <1>3, <1>4, <1>5, <1>7, <1>8, OneWeightTells
<1> DEFINE p == f[n]  q == g[n]  a == w[i]  b == x[i]
<1>10. p \in Nat /\ q \in Nat /\ q + a = p + b /\ p % 10 = 0 /\ q % 10 = 0 /\ a \in 0..9 /\ b \in 0..9 /\ a # b
  BY <1>3, <1>6, <1>7, <1>9 DEF Moved
<1> HIDE DEF p, q, a, b
<1>11. QED
  BY <1>10, DoubledTells

LEMMA LuhnCatchesSwap ==
    ASSUME NEW s \in Seq(0..9), NEW i \in 1..Len(s), i < Len(s), s[i] # s[i + 1], Luhn(s),
           NEW t, t = [s EXCEPT ![i] = s[i + 1], ![i + 1] = s[i]]
    PROVE  ~Luhn(t) \/ {s[i], s[i + 1]} = {0, 9}
<1> DEFINE n == Len(s)
           a == s[i]
           b == s[i + 1]
           w == LuhnWeights(s)
           x == LuhnWeights(t)
<1>1. n \in Nat /\ i \in 1..n /\ i < n
  BY LenProperties
<1>2. /\ t \in Seq(0..9) /\ Len(t) = n /\ i + 1 \in 1..n /\ a \in 0..9 /\ b \in 0..9
      /\ \A k \in 1..n : t[k] = IF k = i THEN b ELSE IF k = i + 1 THEN a ELSE s[k]
  BY SwappedIsASequence
<1>3. PICK f : IsSum(f, n, w) /\ f[n] % 10 = 0
  BY LuhnIsASum
<1>4. w \in [1..n -> Nat] /\ x \in [1..n -> Nat]
  BY <1>2, LuhnIsASum
<1>5. SameBut(n, w, x, {i, i + 1})
  BY <1>2 DEF LuhnWeights, SameBut
<1>6. \/ w[i] = Doubled(a) /\ w[i + 1] = b /\ x[i] = Doubled(b) /\ x[i + 1] = a
      \/ w[i] = a /\ w[i + 1] = Doubled(b) /\ x[i] = b /\ x[i + 1] = Doubled(a)
  <2>1. t[i] = b /\ t[i + 1] = a
    BY <1>1, <1>2
  <2>2. (n - i) % 2 = 1 <=> (n - (i + 1)) % 2 # 1
    <3>1. n - i \in Nat /\ n - i >= 1 /\ n - (i + 1) = (n - i) - 1
      BY <1>1
    <3>2. QED
      BY <3>1, OtherParity
  <2> HIDE DEF a, b, n
  <2>3. /\ w[i] = IF (n - i) % 2 = 1 THEN Doubled(a) ELSE a
        /\ w[i + 1] = IF (n - (i + 1)) % 2 = 1 THEN Doubled(b) ELSE b
        /\ x[i] = IF (n - i) % 2 = 1 THEN Doubled(b) ELSE b
        /\ x[i + 1] = IF (n - (i + 1)) % 2 = 1 THEN Doubled(a) ELSE a
    BY <1>1, <1>2, <2>1 DEF LuhnWeights, n, a, b
  <2>4. QED
    BY <2>2, <2>3
<1> SUFFICES ASSUME Luhn(t)
             PROVE  {a, b} = {0, 9}
  OBVIOUS
<1>7. PICK g : IsSum(g, n, x) /\ g[n] % 10 = 0
  BY <1>2, LuhnIsASum
<1>8. a # b
  OBVIOUS
<1> HIDE DEF n, w, x, a, b
<1>9. Moved(f[n], g[n], w[i] + w[i + 1], x[i] + x[i + 1])
  BY <1>1, <1>3, <1>4, <1>5, <1>7, TwoWeightsTell
<1> DEFINE p == f[n]  q == g[n]  y == Doubled(a)  z == Doubled(b)
<1>10. /\ p \in Nat /\ q \in Nat /\ p % 10 = 0 /\ q % 10 = 0
       /\ q + (y + b) = p + (z + a) \/ q + (a + z) = p + (b + y)
  BY <1>3, <1>6, <1>7, <1>9 DEF Moved
<1> HIDE DEF p, q
<1>11. TenTells(p, q, Doubled(a), Doubled(b), a, b)
  BY <1>8, <1>10 DEF TenTells
<1>12. \A c, h \in Nat, d, e \in 0..9 :
          TenTells(c, h, Doubled(d), Doubled(e), d, e) => {d, e} = {0, 9}
  BY DoubledTells
<1>13. p \in Nat /\ q \in Nat /\ a \in 0..9 /\ b \in 0..9
  BY <1>2, <1>10
<1>14. QED
  BY <1>11, <1>12, <1>13, Zenon

BaseTells(p, q, y, z, a, b) ==
    /\ p % 36 = 0 /\ q % 36 = 0 /\ a # b
    /\ q + (y + b) = p + (z + a) \/ q + (a + z) = p + (b + y)

LEMMA GstinTells ==
    /\ \A a \in 0..35 : Folding(2 * a) \in 0..35
    /\ \A a, b \in 0..35 : Folding(2 * a) = Folding(2 * b) => a = b
    /\ \A p, q \in Nat, a, b \in 0..35 : p % 36 = 0 /\ q % 36 = 0 /\ q + a = p + b => a = b
    /\ \A p, q \in Nat, a, b \in 0..35 :
          BaseTells(p, q, Folding(2 * a), Folding(2 * b), a, b) => {a, b} = {0, 35}
<1>1. \A a \in 0..35 : Folding(2 * a) \in 0..35
  BY DEF Folding
<1>2. \A a, b \in 0..35 : Folding(2 * a) = Folding(2 * b) => a = b
  BY DEF Folding
<1>3. \A p, q \in Nat, a, b \in 0..35 : p % 36 = 0 /\ q % 36 = 0 /\ q + a = p + b => a = b
  OBVIOUS
<1>4. ASSUME NEW p \in Nat, NEW q \in Nat, NEW a \in 0..35, NEW b \in 0..35,
             BaseTells(p, q, Folding(2 * a), Folding(2 * b), a, b)
      PROVE  {a, b} = {0, 35}
  <2>1. (a = 0 /\ b = 35) \/ (a = 35 /\ b = 0)
    <3> DEFINE y == Folding(2 * a)
               z == Folding(2 * b)
    <3>1. (y = IF a < 18 THEN 2 * a ELSE 2 * a - 35) /\ (z = IF b < 18 THEN 2 * b ELSE 2 * b - 35)
      BY WeightsAreSmall
    <3>2. BaseTells(p, q, y, z, a, b)
      BY <1>4
    <3> HIDE DEF y, z
    <3>3. \A m \in (-34)..34 : m # 0 => m % 36 # 0
      OBVIOUS
    <3>4. q + (y + b) = p + (z + a) => q - p = (z - b) - (y - a)
      BY <3>1
    <3>5. QED
      BY <3>1, <3>2 DEF BaseTells
  <2>2. QED
    BY <2>1
<1>5. QED
  BY <1>1, <1>2, <1>3, <1>4

LEMMA GstinCatchesOne ==
    ASSUME NEW s \in Seq(0..35), NEW i \in 1..Len(s), NEW v \in 0..35, v # s[i], GSTIN(s)
    PROVE  ~GSTIN([s EXCEPT ![i] = v])
<1> DEFINE n == 15
           t == [s EXCEPT ![i] = v]
           w == GstinWeights(s)
           x == GstinWeights(t)
<1>1. n = Len(s) /\ n \in Nat /\ \A k \in 1..n : s[k] \in 0..35
  BY ElementOfSeq DEF GSTIN
<1>2. t \in Seq(0..35) /\ Len(t) = n /\ \A k \in 1..n : t[k] = IF k = i THEN v ELSE s[k]
  BY <1>1, MistypedIsASequence
<1> HIDE DEF t
<1>3. PICK f : IsSum(f, n, w) /\ f[n] % 36 = 0
  BY <1>1, GstinIsASum
<1>4. w \in [1..n -> Nat] /\ x \in [1..n -> Nat]
  BY <1>1, <1>2, GstinIsASum
<1>5. SameBut(n, w, x, {i})
  BY <1>2 DEF GstinWeights, SameBut
<1>6. w[i] \in 0..35 /\ x[i] \in 0..35 /\ w[i] # x[i]
  <2>1. t[i] = v /\ i \in 1..15 /\ s[i] \in 0..35
    BY <1>1, <1>2
  <2>2. w[i] = Folding(Weighted(i, s[i])) /\ x[i] = Folding(Weighted(i, v))
    BY <2>1 DEF GstinWeights
  <2> HIDE DEF w, x, n
  <2>3. CASE i % 2 = 0
    <3>1. w[i] = Folding(2 * s[i]) /\ x[i] = Folding(2 * v)
      BY <2>2, <2>3 DEF Weighted
    <3>2. \A c \in 0..35 : Folding(2 * c) \in 0..35
      BY GstinTells
    <3>3. \A c, d \in 0..35 : Folding(2 * c) = Folding(2 * d) => c = d
      BY GstinTells
    <3>4. QED
      BY <2>1, <3>1, <3>2, <3>3, Zenon
  <2>4. CASE i % 2 # 0
    <3>1. w[i] = Folding(s[i]) /\ x[i] = Folding(v)
      BY <2>2, <2>4 DEF Weighted
    <3>2. QED
      BY <2>1, <3>1, WeightsAreSmall
  <2>5. QED
    BY <2>3, <2>4
<1> SUFFICES ASSUME GSTIN(t)
             PROVE  FALSE
  BY DEF t
<1>7. PICK g : IsSum(g, n, x) /\ g[n] % 36 = 0
  BY <1>1, <1>2, GstinIsASum
<1> HIDE DEF n, w, x
<1>8. i \in 1..n
  BY <1>1
<1>9. Moved(f[n], g[n], w[i], x[i])
  BY <1>1, <1>3, <1>4, <1>5, <1>7, <1>8, OneWeightTells
<1> DEFINE p == f[n]  q == g[n]  a == w[i]  b == x[i]
<1>10. p \in Nat /\ q \in Nat /\ q + a = p + b /\ p % 36 = 0 /\ q % 36 = 0 /\ a \in 0..35 /\ b \in 0..35 /\ a # b
  BY <1>3, <1>6, <1>7, <1>9 DEF Moved
<1> HIDE DEF p, q, a, b
<1>11. QED
  BY <1>10, GstinTells

LEMMA GstinCatchesSwap ==
    ASSUME NEW s \in Seq(0..35), NEW i \in 1..Len(s), i < Len(s), s[i] # s[i + 1], GSTIN(s),
           NEW t, t = [s EXCEPT ![i] = s[i + 1], ![i + 1] = s[i]]
    PROVE  ~GSTIN(t) \/ {s[i], s[i + 1]} = {0, 35}
<1> DEFINE n == 15
           a == s[i]
           b == s[i + 1]
           w == GstinWeights(s)
           x == GstinWeights(t)
<1>1. n = Len(s) /\ n \in Nat /\ i \in 1..n /\ i < n
  BY DEF GSTIN
<1>2. /\ t \in Seq(0..35) /\ Len(t) = n /\ i + 1 \in 1..n /\ a \in 0..35 /\ b \in 0..35
      /\ \A k \in 1..n : t[k] = IF k = i THEN b ELSE IF k = i + 1 THEN a ELSE s[k]
  <2>1. /\ t \in Seq(0..35) /\ Len(t) = Len(s) /\ i + 1 \in 1..Len(s) /\ a \in 0..35 /\ b \in 0..35
        /\ \A k \in 1..Len(s) : t[k] = IF k = i THEN b ELSE IF k = i + 1 THEN a ELSE s[k]
    BY SwappedIsASequence
  <2> HIDE DEF a, b, n
  <2>2. QED
    BY <1>1, <2>1
<1>3. PICK f : IsSum(f, n, w) /\ f[n] % 36 = 0
  BY <1>1, GstinIsASum
<1>4. w \in [1..n -> Nat] /\ x \in [1..n -> Nat]
  BY <1>1, <1>2, GstinIsASum
<1>5. SameBut(n, w, x, {i, i + 1})
  BY <1>2 DEF GstinWeights, SameBut
<1>6. \/ w[i] = Folding(2 * a) /\ w[i + 1] = b /\ x[i] = Folding(2 * b) /\ x[i + 1] = a
      \/ w[i] = a /\ w[i + 1] = Folding(2 * b) /\ x[i] = b /\ x[i + 1] = Folding(2 * a)
  <2>1. t[i] = b /\ t[i + 1] = a
    BY <1>1, <1>2
  <2>2. /\ w[i] = Folding(Weighted(i, a)) /\ w[i + 1] = Folding(Weighted(i + 1, b))
        /\ x[i] = Folding(Weighted(i, b)) /\ x[i + 1] = Folding(Weighted(i + 1, a))
    BY <1>1, <1>2, <2>1 DEF GstinWeights
  <2>3. i % 2 = 0 <=> (i + 1) % 2 # 0
    <3>1. i \in Nat /\ i + 1 \in Nat
      BY <1>1
    <3>2. QED
      BY <3>1, Parity
  <2>4. Folding(a) = a /\ Folding(b) = b
    BY <1>2, WeightsAreSmall
  <2> HIDE DEF a, b, n, w, x
  <2>5. QED
    BY <2>2, <2>3, <2>4 DEF Weighted
<1> SUFFICES ASSUME GSTIN(t)
             PROVE  {a, b} = {0, 35}
  OBVIOUS
<1>7. PICK g : IsSum(g, n, x) /\ g[n] % 36 = 0
  BY <1>1, <1>2, GstinIsASum
<1>8. a # b
  OBVIOUS
<1> HIDE DEF n, w, x, a, b
<1>9. Moved(f[n], g[n], w[i] + w[i + 1], x[i] + x[i + 1])
  BY <1>1, <1>3, <1>4, <1>5, <1>7, TwoWeightsTell
<1> DEFINE p == f[n]  q == g[n]  y == Folding(2 * a)  z == Folding(2 * b)
<1>10. /\ p \in Nat /\ q \in Nat /\ p % 36 = 0 /\ q % 36 = 0
       /\ q + (y + b) = p + (z + a) \/ q + (a + z) = p + (b + y)
  BY <1>3, <1>6, <1>7, <1>9 DEF Moved
<1> HIDE DEF p, q
<1>11. BaseTells(p, q, Folding(2 * a), Folding(2 * b), a, b)
  BY <1>8, <1>10 DEF BaseTells
<1>12. \A c, h \in Nat, d, e \in 0..35 :
          BaseTells(c, h, Folding(2 * d), Folding(2 * e), d, e) => {d, e} = {0, 35}
  BY GstinTells
<1>13. p \in Nat /\ q \in Nat /\ a \in 0..35 /\ b \in 0..35
  BY <1>2, <1>10
<1>14. QED
  BY <1>11, <1>12, <1>13, Zenon

(* The copy is the number, or the number with one mistake in it. *)
OneMistyped(k, s, t) ==
    \E i \in 1..Len(s), v \in Values(k) : v # s[i] /\ t = [s EXCEPT ![i] = v]

NeighboursSwapped(s, t, i) ==
    i < Len(s) /\ s[i] # s[i + 1] /\ t = [s EXCEPT ![i] = s[i + 1], ![i + 1] = s[i]]

ChecksumInv ==
    /\ kind \in Kinds /\ number \in Seq(Values(kind)) /\ Valid(kind, number)
    /\ \/ copy = number
       \/ OneMistyped(kind, number, copy)
       \/ \E i \in 1..Len(number) : NeighboursSwapped(number, copy, i)

LEMMA ChecksumIsInductive ==
    /\ ChecksumInit => ChecksumInv
    /\ ChecksumInv /\ [ChecksumNext]_checksumVars => ChecksumInv'
<1>1. ASSUME ChecksumInit
      PROVE  ChecksumInv
  <2>1. kind \in Kinds /\ copy = number /\ Valid(kind, number)
    BY <1>1 DEF ChecksumInit, Numbers
  <2>2. PICK p \in Patterns[kind], c \in Values(kind) : number = Append(p, c)
    BY <1>1 DEF ChecksumInit, Numbers
  <2>3. p \in Seq(Values(kind))
    BY <2>1, <2>2, ChecksumAssumption
  <2>4. number \in Seq(Values(kind))
    BY <2>2, <2>3, AppendProperties
  <2>5. QED
    BY <2>1, <2>4 DEF ChecksumInv
<1>2. ASSUME ChecksumInv, ChecksumNext
      PROVE  ChecksumInv'
  <2>1. DOMAIN number = 1..Len(number)
    BY <1>2, LenProperties DEF ChecksumInv
  <2>2. PICK i \in 1..Len(number) : SwapWithNext(i) \/ \E v \in Values(kind) : Mistype(i, v)
    BY <1>2, <2>1 DEF ChecksumNext
  <2>3. kind' = kind /\ number' = number
    BY <2>2 DEF SwapWithNext, Mistype
  <2>4. CASE SwapWithNext(i)
    <3>1. NeighboursSwapped(number, copy', i)
      BY <2>4 DEF SwapWithNext, NeighboursSwapped
    <3>2. QED
      BY <1>2, <2>3, <3>1 DEF ChecksumInv
  <2>5. CASE \E v \in Values(kind) : Mistype(i, v)
    <3>1. OneMistyped(kind, number, copy')
      BY <2>5 DEF Mistype, OneMistyped
    <3>2. QED
      BY <1>2, <2>3, <3>1 DEF ChecksumInv
  <2>6. QED
    BY <2>2, <2>4, <2>5
<1>3. ASSUME ChecksumInv, UNCHANGED checksumVars
      PROVE  ChecksumInv'
  BY <1>3 DEF ChecksumInv, checksumVars
<1>4. QED
  BY <1>1, <1>2, <1>3

(* No scheme takes a number with one wrong character, and none takes one     *)
(* with neighbours exchanged unless it is blind to the two.                  *)
LEMMA MistypedIsNotValid ==
    ASSUME NEW k \in {"aadhaar", "card", "gstin"}, NEW s \in Seq(Values(k)), Valid(k, s),
           NEW i \in 1..Len(s), NEW v \in Values(k), v # s[i]
    PROVE  ~Valid(k, [s EXCEPT ![i] = v])
<1>1. CASE k = "aadhaar"
  <2>1. s \in Seq(0..9) /\ v \in 0..9 /\ \A t : Valid(k, t) <=> Verhoeff(t)
    BY <1>1 DEF Values, Valid
  <2>2. QED
    BY <2>1, VerhoeffCatchesOne
<1>2. CASE k = "card"
  <2>1. s \in Seq(0..9) /\ v \in 0..9 /\ \A t : Valid(k, t) <=> Luhn(t)
    BY <1>2 DEF Values, Valid
  <2>2. QED
    BY <2>1, LuhnCatchesOne
<1>3. CASE k = "gstin"
  <2>1. s \in Seq(0..35) /\ v \in 0..35 /\ \A t : Valid(k, t) <=> GSTIN(t)
    BY <1>3 DEF Values, Valid
  <2>2. QED
    BY <2>1, GstinCatchesOne
<1>4. QED
  BY <1>1, <1>2, <1>3

LEMMA SwappedIsNotValid ==
    ASSUME NEW k \in {"aadhaar", "card", "gstin"}, NEW s \in Seq(Values(k)), Valid(k, s),
           NEW t, NEW i \in 1..Len(s), NeighboursSwapped(s, t, i)
    PROVE  ~Valid(k, t) \/ {s[i], s[i + 1]} = BlindTo[k]
<1>1. i < Len(s) /\ s[i] # s[i + 1] /\ t = [s EXCEPT ![i] = s[i + 1], ![i + 1] = s[i]]
  BY DEF NeighboursSwapped
<1>2. CASE k = "aadhaar"
  <2>1. s \in Seq(0..9) /\ \A u : Valid(k, u) <=> Verhoeff(u)
    BY <1>2 DEF Values, Valid
  <2>2. QED
    BY <1>1, <2>1, VerhoeffCatchesSwap
<1>3. CASE k = "card"
  <2>1. s \in Seq(0..9) /\ (\A u : Valid(k, u) <=> Luhn(u)) /\ BlindTo[k] = {0, 9}
    BY <1>3 DEF Values, Valid, BlindTo
  <2>2. QED
    BY <1>1, <2>1, LuhnCatchesSwap
<1>4. CASE k = "gstin"
  <2>1. s \in Seq(0..35) /\ (\A u : Valid(k, u) <=> GSTIN(u)) /\ BlindTo[k] = {0, 35}
    BY <1>4 DEF Values, Valid, BlindTo
  <2>2. QED
    BY <1>1, <2>1, GstinCatchesSwap
<1>5. QED
  BY <1>2, <1>3, <1>4

LEMMA ChecksumInvCatches == ChecksumInv => SingleErrorsCaught
<1> SUFFICES ASSUME ChecksumInv, copy # number
             PROVE  ~Valid(kind, copy) \/ (Cardinality(Differ) = 2 /\ {number[i] : i \in Differ} = BlindTo[kind])
  BY DEF SingleErrorsCaught
<1>1. kind \in {"aadhaar", "card", "gstin"} /\ number \in Seq(Values(kind)) /\ Valid(kind, number)
  BY ChecksumAssumption DEF ChecksumInv
<1>2. CASE OneMistyped(kind, number, copy)
  <2>1. PICK i \in 1..Len(number), v \in Values(kind) :
           v # number[i] /\ copy = [number EXCEPT ![i] = v]
    BY <1>2 DEF OneMistyped
  <2>2. ~Valid(kind, copy)
    BY <1>1, <2>1, MistypedIsNotValid
  <2>3. QED
    BY <2>2
<1>3. ASSUME NEW i \in 1..Len(number), NeighboursSwapped(number, copy, i)
      PROVE  ~Valid(kind, copy) \/ (Cardinality(Differ) = 2 /\ {number[j] : j \in Differ} = BlindTo[kind])
  <2> DEFINE n == Len(number)
             V == Values(kind)
  <2>1. ~Valid(kind, copy) \/ {number[i], number[i + 1]} = BlindTo[kind]
    BY <1>1, <1>3, SwappedIsNotValid
  <2>2. /\ i + 1 \in 1..n /\ i # i + 1 /\ DOMAIN number = 1..n /\ number[i] # number[i + 1]
        /\ \A j \in 1..n : copy[j] = IF j = i THEN number[i + 1] ELSE IF j = i + 1 THEN number[i] ELSE number[j]
    <3>1. number \in Seq(V)
      BY <1>1
    <3> HIDE DEF V
    <3>2. i < Len(number) /\ number[i] # number[i + 1]
          /\ copy = [number EXCEPT ![i] = number[i + 1], ![i + 1] = number[i]]
      BY <1>3 DEF NeighboursSwapped
    <3>3. QED
      BY <3>1, <3>2, SwappedIsASequence, LenProperties
  <2>3. Differ = {i, i + 1}
    BY <2>2 DEF Differ
  <2>4. Cardinality(Differ) = 2
    <3>1. IsFiniteSet({i}) /\ Cardinality({i}) = 1
      BY FS_Singleton
    <3>2. Cardinality({i} \cup {i + 1}) = Cardinality({i}) + 1
      BY <2>2, <3>1, FS_AddElement
    <3>3. Cardinality({i} \cup {i + 1}) = 2
      <4>1. \A c, d : c = 1 /\ d = c + 1 => d = 2
        OBVIOUS
      <4>2. QED
        BY <3>1, <3>2, <4>1, Zenon
    <3>4. Differ = {i} \cup {i + 1}
      BY <2>3
    <3>5. QED
      BY <3>3, <3>4, Zenon
  <2>5. {number[j] : j \in Differ} = {number[i], number[i + 1]}
    BY <2>3
  <2>6. QED
    BY <2>1, <2>4, <2>5
<1>4. QED
  BY <1>2, <1>3 DEF ChecksumInv

(* Whatever the numbers' patterns and lengths: a valid number that is copied *)
(* with one wrong character, or with two neighbours exchanged, is not taken  *)
(* for an identifier by verhoeff, luhn or gstin in validate.go, except for   *)
(* the neighbours 0 and 9 of a card and 0 and Z of a GSTIN.                  *)
THEOREM SingleMistakesCaught == ChecksumSpec => []SingleErrorsCaught
<1>1. ChecksumInit => ChecksumInv
  BY ChecksumIsInductive
<1>2. ChecksumInv /\ [ChecksumNext]_checksumVars => ChecksumInv'
  BY ChecksumIsInductive
<1>3. ChecksumInv => SingleErrorsCaught
  BY ChecksumInvCatches
<1>4. QED
  BY <1>1, <1>2, <1>3, PTL DEF ChecksumSpec

----------------------------------------------------------------------------
(* What a passing evaluation gate may lose.  The scores are sums over a    *)
(* list of cases; counted as sets of named labels they are the numbers the *)
(* property speaks of, and rounding keeps their order within one.          *)

(* Pairs of a number's name with the members of a set it has: as many as the *)
(* sets have together.                                                       *)
Named(x, S) == {<<x, l>> : l \in S}
Pairs(name, G, k) == UNION {Named(name[i], G[i]) : i \in 1..k}

LEMMA NamedSet ==
    ASSUME NEW x, NEW S, IsFiniteSet(S)
    PROVE  IsFiniteSet(Named(x, S)) /\ Cardinality(Named(x, S)) = Cardinality(S)
<1> DEFINE T == Named(x, S)
           f == [l \in S |-> <<x, l>>]
<1>1. f \in Bijection(S, T)
  BY DEF Named, Bijection, Injection, Surjection, IsInjective
<1>2. ExistsBijection(S, T)
  BY <1>1 DEF ExistsBijection
<1>3. QED
  BY <1>2, FS_Bijection

Counts(n, name, G, w, total) ==
    /\ n \in Nat /\ w \in [1..n -> Nat] /\ SumsTo(n, w, total)
    /\ \A i, j \in 1..n : name[i] = name[j] => i = j
    /\ \A i \in 1..n : IsFiniteSet(G[i]) /\ w[i] = Cardinality(G[i])

LEMMA PairsAreCounted ==
    ASSUME NEW n, NEW name, NEW G, NEW w, NEW total, Counts(n, name, G, w, total)
    PROVE  /\ IsFiniteSet(Pairs(name, G, n)) /\ Cardinality(Pairs(name, G, n)) = total
           /\ total \in Nat
<1>a. /\ n \in Nat /\ w \in [1..n -> Nat]
      /\ \A i, j \in 1..n : name[i] = name[j] => i = j
      /\ \A i \in 1..n : IsFiniteSet(G[i]) /\ w[i] = Cardinality(G[i])
  BY DEF Counts
<1>1. PICK f : IsSum(f, n, w) /\ f[n] = total
  BY DEF Counts, SumsTo
<1> DEFINE P(k) == Pairs(name, G, k)
           S == {k \in 0..n : IsFiniteSet(P(k)) /\ Cardinality(P(k)) = f[k] /\ f[k] \in Nat}
<1>2. 0 \in S
  <2>1. P(0) = {}
    BY DEF Pairs
  <2>2. f[0] = 0
    BY <1>1 DEF IsSum
  <2>3. 0 \in 0..n
    BY <1>a
  <2> HIDE DEF P
  <2>4. QED
    BY <2>1, <2>2, <2>3, FS_EmptySet
<1>3. ASSUME NEW k \in 0..(n - 1), k \in S
      PROVE  k + 1 \in S
  <2> DEFINE new == Named(name[k + 1], G[k + 1])
  <2>1. k + 1 \in 1..n /\ k + 1 \in 0..n /\ (k + 1) - 1 = k /\ 1..(k + 1) = (1..k) \cup {k + 1}
    BY <1>a
  <2>2. P(k + 1) = P(k) \cup new
    BY <2>1 DEF Pairs
  <2>3. P(k) \cap new = {}
    <3>1. ASSUME NEW i \in 1..k
          PROVE  name[i] # name[k + 1]
      <4>1. i \in 1..n /\ i # k + 1
        BY <1>a, <2>1
      <4>2. QED
        BY <1>a, <2>1, <4>1
    <3>2. QED
      BY <3>1 DEF Pairs, Named
  <2>4. IsFiniteSet(new) /\ Cardinality(new) = w[k + 1]
    <3>1. IsFiniteSet(G[k + 1]) /\ w[k + 1] = Cardinality(G[k + 1])
      BY <1>a, <2>1
    <3>2. QED
      BY <3>1, NamedSet
  <2>5. f[k + 1] = f[k] + w[k + 1] /\ w[k + 1] \in Nat
    BY <1>a, <1>1, <2>1 DEF IsSum
  <2> HIDE DEF P, new
  <2>6. IsFiniteSet(P(k)) /\ Cardinality(P(k)) = f[k] /\ f[k] \in Nat
    BY <1>3
  <2>7. IsFiniteSet(P(k + 1)) /\ Cardinality(P(k + 1)) = f[k] + w[k + 1] - 0
    BY <2>2, <2>3, <2>4, <2>6, FS_Union, FS_EmptySet
  <2>8. QED
    BY <2>1, <2>5, <2>6, <2>7
<1> HIDE DEF S
<1>4. n \in S
  <2>1. \A k \in 0..n : k \in S
    BY <1>a, <1>2, <1>3, InductionTo
  <2>2. QED
    BY <1>a, <2>1
<1>5. QED
  BY <1>1, <1>4 DEF S

(* What each case of a list has of a detector's labels: found and missed. *)
Hits(cs, d) == [i \in 1..Len(cs) |-> {l \in cs[i].produced \cap cs[i].expect : l.detector = d}]
Misses(cs, d) == [i \in 1..Len(cs) |-> {l \in Missing(cs[i]) : l.detector = d}]
Sizes(G, n) == [i \in 1..n |-> Cardinality(G[i])]
Lost(cs, d) == Sum(LAMBDA c : Of(Missing(c), d), cs)
Kept(cs, d) == Sum(LAMBDA c : Of(c.produced \cap c.expect, d), cs)

LEMMA LabelSets ==
    ASSUME NEW cs \in Corpora, NEW d
    PROVE  /\ \A i \in 1..Len(cs) : IsFiniteSet(Hits(cs, d)[i]) /\ IsFiniteSet(Misses(cs, d)[i])
           /\ Sizes(Hits(cs, d), Len(cs)) \in [1..Len(cs) -> Nat]
           /\ Sizes(Misses(cs, d), Len(cs)) \in [1..Len(cs) -> Nat]
<1>1. ASSUME NEW i \in 1..Len(cs)
      PROVE  IsFiniteSet(Hits(cs, d)[i]) /\ IsFiniteSet(Misses(cs, d)[i])
  <2>1. cs[i] \in ToSet(cs)
    BY CorporaAreLists
  <2>2. IsFiniteSet(cs[i].expect)
    BY <2>1, GateAssumption
  <2>3. Hits(cs, d)[i] \subseteq cs[i].expect /\ Misses(cs, d)[i] \subseteq cs[i].expect
    BY DEF Hits, Misses, Missing
  <2>4. QED
    BY <2>2, <2>3, FS_Subset
<1>2. QED
  BY <1>1, FS_CardinalityType DEF Sizes

LEMMA KeptIsASum ==
    ASSUME NEW cs \in Corpora, NEW d
    PROVE  SumsTo(Len(cs), Sizes(Hits(cs, d), Len(cs)), Kept(cs, d))
<1> DEFINE n == Len(cs)
           w == Sizes(Hits(cs, d), n)
           count(c) == Of(c.produced \cap c.expect, d)
           plain == CHOOSE g : g = [p \in SUBSET (1..n) |->
                                      IF p = {} THEN 0 ELSE g[p \ {Max(p)}] + count(cs[Max(p)])]
           iter == CHOOSE g : g = [p \in SUBSET (1..n) |->
                                      IF p = {} THEN 0 ELSE g[p \ {Max(p)}] + w[Max(p)]]
<1>1. n \in Nat /\ DOMAIN cs = 1..n /\ w \in [1..n -> Nat]
  BY CorporaAreLists, LabelSets
<1>2. Kept(cs, d) = plain[1..n]
  BY <1>1 DEF Kept, Sum, FoldLeft, MapThenFoldSet
<1>3. \A k \in 1..n : count(cs[k]) = w[k]
  BY DEF Of, Sizes, Hits
<1> HIDE DEF n, w, count
<1>4. \A p \in SUBSET (1..n) : p # {} => count(cs[Max(p)]) = w[Max(p)]
  BY <1>1, <1>3, GreatestNumber
<1>5. \A g : [p \in SUBSET (1..n) |-> IF p = {} THEN 0 ELSE g[p \ {Max(p)}] + count(cs[Max(p)])]
           = [p \in SUBSET (1..n) |-> IF p = {} THEN 0 ELSE g[p \ {Max(p)}] + w[Max(p)]]
  BY <1>4
<1>6. plain = iter
  BY <1>5
<1>7. SumsTo(n, w, iter[1..n])
  BY <1>1, FoldIsASum
<1> HIDE DEF plain, iter
<1>8. SumsTo(n, w, Kept(cs, d))
  BY <1>2, <1>6, <1>7
<1>9. QED
  BY <1>8 DEF n, w

LEMMA LostIsASum ==
    ASSUME NEW cs \in Corpora, NEW d
    PROVE  SumsTo(Len(cs), Sizes(Misses(cs, d), Len(cs)), Lost(cs, d))
<1> DEFINE n == Len(cs)
           w == Sizes(Misses(cs, d), n)
           count(c) == Of(Missing(c), d)
           plain == CHOOSE g : g = [p \in SUBSET (1..n) |->
                                      IF p = {} THEN 0 ELSE g[p \ {Max(p)}] + count(cs[Max(p)])]
           iter == CHOOSE g : g = [p \in SUBSET (1..n) |->
                                      IF p = {} THEN 0 ELSE g[p \ {Max(p)}] + w[Max(p)]]
<1>1. n \in Nat /\ DOMAIN cs = 1..n /\ w \in [1..n -> Nat]
  BY CorporaAreLists, LabelSets
<1>2. Lost(cs, d) = plain[1..n]
  BY <1>1 DEF Lost, Sum, FoldLeft, MapThenFoldSet
<1>3. \A k \in 1..n : count(cs[k]) = w[k]
  BY DEF Of, Sizes, Misses
<1> HIDE DEF n, w, count
<1>4. \A p \in SUBSET (1..n) : p # {} => count(cs[Max(p)]) = w[Max(p)]
  BY <1>1, <1>3, GreatestNumber
<1>5. \A g : [p \in SUBSET (1..n) |-> IF p = {} THEN 0 ELSE g[p \ {Max(p)}] + count(cs[Max(p)])]
           = [p \in SUBSET (1..n) |-> IF p = {} THEN 0 ELSE g[p \ {Max(p)}] + w[Max(p)]]
  BY <1>4
<1>6. plain = iter
  BY <1>5
<1>7. SumsTo(n, w, iter[1..n])
  BY <1>1, FoldIsASum
<1> HIDE DEF plain, iter
<1>8. SumsTo(n, w, Lost(cs, d))
  BY <1>2, <1>6, <1>7
<1>9. QED
  BY <1>8 DEF n, w

(* In a list that loads, a detector's true positives are the labels it finds, *)
(* and with its false negatives they are all of its labels.                  *)
LEMMA ScoreCountsLabels ==
    ASSUME NEW cs \in Corpora, Loads(cs), NEW d
    PROVE  /\ Kept(cs, d) \in Nat /\ Lost(cs, d) \in Nat
           /\ Cardinality(FoundLabels(cs, d)) = Kept(cs, d)
           /\ Cardinality(Labelled(cs, d)) = Kept(cs, d) + Lost(cs, d)
<1> DEFINE n == Len(cs)
           name == [i \in 1..n |-> cs[i].id]
           H == Hits(cs, d)
           M == Misses(cs, d)
<1>1. n \in Nat /\ DOMAIN cs = 1..n /\ ToSet(cs) = {cs[i] : i \in 1..n}
  BY CorporaAreLists
<1>2. \A i, j \in 1..n : name[i] = name[j] => i = j
  BY <1>1, OneCasePerId
<1>3. /\ IsFiniteSet(Pairs(name, H, n)) /\ Cardinality(Pairs(name, H, n)) = Kept(cs, d)
      /\ Kept(cs, d) \in Nat
  <2> DEFINE w == Sizes(H, n)
  <2>1. w \in [1..n -> Nat] /\ (\A i \in 1..n : IsFiniteSet(H[i])) /\ SumsTo(n, w, Kept(cs, d))
    BY LabelSets, KeptIsASum
  <2>2. \A i \in 1..n : w[i] = Cardinality(H[i])
    BY DEF Sizes
  <2> HIDE DEF n, name, H, w
  <2>3. Counts(n, name, H, w, Kept(cs, d))
    BY <1>1, <1>2, <2>1, <2>2 DEF Counts
  <2>4. QED
    BY <2>3, PairsAreCounted
<1>4. /\ IsFiniteSet(Pairs(name, M, n)) /\ Cardinality(Pairs(name, M, n)) = Lost(cs, d)
      /\ Lost(cs, d) \in Nat
  <2> DEFINE w == Sizes(M, n)
  <2>1. w \in [1..n -> Nat] /\ (\A i \in 1..n : IsFiniteSet(M[i])) /\ SumsTo(n, w, Lost(cs, d))
    BY LabelSets, LostIsASum
  <2>2. \A i \in 1..n : w[i] = Cardinality(M[i])
    BY DEF Sizes
  <2> HIDE DEF n, name, M, w
  <2>3. Counts(n, name, M, w, Lost(cs, d))
    BY <1>1, <1>2, <2>1, <2>2 DEF Counts
  <2>4. QED
    BY <2>3, PairsAreCounted
<1>5. FoundLabels(cs, d) = Pairs(name, H, n)
  BY <1>1 DEF FoundLabels, Pairs, Named, Hits
<1>6. Labelled(cs, d) = Pairs(name, H, n) \cup Pairs(name, M, n)
  <2>1. \A i \in 1..n : {m \in cs[i].expect : m.detector = d} = H[i] \cup M[i]
    BY DEF Hits, Misses, Missing
  <2>2. Labelled(cs, d) = UNION {Named(name[i], H[i] \cup M[i]) : i \in 1..n}
    BY <1>1, <2>1 DEF Labelled, Named
  <2> HIDE DEF H, M, name, n
  <2>3. QED
    BY <2>2 DEF Pairs, Named
<1>7. Pairs(name, H, n) \cap Pairs(name, M, n) = {}
  <2>1. \A i \in 1..n : H[i] \cap M[i] = {}
    BY DEF Hits, Misses, Missing
  <2> HIDE DEF H, M, name, n
  <2>2. QED
    BY <1>2, <2>1 DEF Pairs, Named
<1> HIDE DEF n, name, H, M
<1>8. Cardinality(Pairs(name, H, n) \cup Pairs(name, M, n)) = Kept(cs, d) + Lost(cs, d)
  <2> DEFINE A == Pairs(name, H, n)
             B == Pairs(name, M, n)
  <2>1. IsFiniteSet(A) /\ IsFiniteSet(B) /\ Cardinality(A \cap B) = 0
    BY <1>3, <1>4, <1>7, FS_EmptySet
  <2>2. Cardinality(A) = Kept(cs, d) /\ Cardinality(B) = Lost(cs, d)
    BY <1>3, <1>4
  <2> HIDE DEF A, B
  <2>3. Cardinality(A \cup B) = Cardinality(A) + Cardinality(B) - Cardinality(A \cap B)
    BY <2>1, FS_Union
  <2>4. QED
    BY <1>3, <1>4, <2>1, <2>2, <2>3 DEF A, B
<1>9. QED
  BY <1>3, <1>4, <1>5, <1>6, <1>8

(* Rounded to ten-thousandths, a share that is no more than t lower is at    *)
(* most t and one ten-thousandth lower.                                      *)
LEMMA RoundingLosesOne ==
    ASSUME NEW a \in Nat, NEW b \in Nat, NEW m \in Nat \ {0}, NEW t \in Nat,
           Round(a, m) >= Round(b, m) - t
    PROVE  10000 * (b - a) <= (t + 1) * m
<1> DEFINE x == 2 * 10000 * a + m
           y == 2 * 10000 * b + m
           k == 2 * m
           q == x \div k
           r == y \div k
<1>1. x \in Nat /\ y \in Nat /\ k \in Nat \ {0}
  OBVIOUS
<1>2. q \in Int /\ r \in Int /\ k * q <= x /\ x < k * q + k /\ k * r <= y /\ y < k * r + k
  <2> HIDE DEF x, y, k
  <2>1. QED
    BY <1>1
<1>3. q >= r - t
  BY DEF Round
<1> HIDE DEF q, r
<1>4. k * q >= k * (r - t)
  <2> HIDE DEF x, y, k
  <2>1. QED
    BY <1>1, <1>2, <1>3
<1>5. k * (r - t) = k * r - k * t
  <2> HIDE DEF x, y, k
  <2>1. QED
    BY <1>1, <1>2
<1> DEFINE kq == k * q
           kr == k * r
           mt == m * t
<1>6. k * t = 2 * mt /\ (t + 1) * m = mt + m /\ mt \in Int
  OBVIOUS
<1>7. kq \in Int /\ kr \in Int
  <2> HIDE DEF x, y, k
  <2>1. QED
    BY <1>1, <1>2
<1>8. kq >= kr - 2 * mt /\ kq <= x /\ y < kr + k
  BY <1>2, <1>4, <1>5, <1>6
<1> HIDE DEF kq, kr, mt
<1>9. 10000 * (b - a) <= mt + m
  BY <1>6, <1>7, <1>8
<1>10. QED
  BY <1>6, <1>9

(* The labels of a detector are the same in two lists of the same labels. *)
LEMMA LabelsStay ==
    ASSUME cases \in Corpora, accepted \in Corpora, Loads(cases), Loads(accepted), SameLabels,
           NEW d
    PROVE  Labelled(cases, d) = Labelled(accepted, d)
<1> DEFINE Own(c) == {<<c.id, l>> : l \in {m \in c.expect : m.detector = d}}
<1>1. \A c \in ToSet(cases) : \E b \in ToSet(accepted) : Own(b) = Own(c)
  <2> TAKE c \in ToSet(cases)
  <2>1. c.id \in Ids(cases) /\ c.id \in Ids(accepted)
    BY DEF Ids, SameLabels
  <2>2. c = CaseOf(cases, c.id)
    BY <2>1, CaseIsUnique
  <2>3. CaseOf(accepted, c.id) \in ToSet(accepted) /\ CaseOf(accepted, c.id).id = c.id
    BY <2>1, CaseIsUnique
  <2>4. c.expect = CaseOf(accepted, c.id).expect
    BY <2>1, <2>2 DEF SameLabels
  <2>5. QED
    BY <2>3, <2>4
<1>2. \A c \in ToSet(accepted) : \E b \in ToSet(cases) : Own(b) = Own(c)
  <2> TAKE c \in ToSet(accepted)
  <2>1. c.id \in Ids(cases) /\ c.id \in Ids(accepted)
    BY DEF Ids, SameLabels
  <2>2. c = CaseOf(accepted, c.id)
    BY <2>1, CaseIsUnique
  <2>3. CaseOf(cases, c.id) \in ToSet(cases) /\ CaseOf(cases, c.id).id = c.id
    BY <2>1, CaseIsUnique
  <2>4. c.expect = CaseOf(cases, c.id).expect
    BY <2>1, <2>2 DEF SameLabels
  <2>5. QED
    BY <2>3, <2>4
<1>3. Labelled(cases, d) = UNION {Own(c) : c \in ToSet(cases)}
      /\ Labelled(accepted, d) = UNION {Own(c) : c \in ToSet(accepted)}
  BY DEF Labelled
<1> HIDE DEF Own
<1>4. QED
  BY <1>1, <1>2, <1>3

LEMMA ScoreFields ==
    ASSUME NEW cs, NEW d
    PROVE  Score(cs, d).recall = Ratio(Kept(cs, d), Kept(cs, d) + Lost(cs, d))
BY DEF Score, Kept, Lost

LEMMA SummaryScores ==
    ASSUME NEW cs, NEW d \in DOMAIN Summarize(cs).perDetector
    PROVE  Summarize(cs).perDetector[d] = Score(cs, d)
BY DEF Summarize

(* A change that passes, its labels as they were, loses of a detector's       *)
(* findings no larger a share of its labels than the tolerance and one       *)
(* ten-thousandth.                                                            *)
THEOREM GateLosesLittle == GateSpec => []PassLosesLittle
<1>1. GateInv => PassLosesLittle
  <2> SUFFICES ASSUME GateInv, GatePassed, SameLabels,
                      NEW d \in DOMAIN Summarize(accepted).perDetector
               PROVE  10000 * (Cardinality(FoundLabels(accepted, d)) - Cardinality(FoundLabels(cases, d)))
                        <= (Tolerance + 1) * Cardinality(Labelled(accepted, d))
    BY DEF PassLosesLittle
  <2>1. /\ cases \in Corpora /\ accepted \in Corpora /\ Loads(cases) /\ Loads(accepted)
        /\ Check(Summarize(cases), Summarize(accepted))
    BY DEF GateInv
  <2>2. /\ d \in DOMAIN Summarize(cases).perDetector
        /\ Summarize(cases).perDetector[d].recall >= Summarize(accepted).perDetector[d].recall - Tolerance
    BY <2>1 DEF Check, ScoresHold
  <2> DEFINE a == Kept(cases, d)
             b == Kept(accepted, d)
             m == Cardinality(Labelled(accepted, d))
  <2>3. /\ a \in Nat /\ Cardinality(FoundLabels(cases, d)) = a /\ m = a + Lost(cases, d) /\ Lost(cases, d) \in Nat
        /\ b \in Nat /\ Cardinality(FoundLabels(accepted, d)) = b /\ m = b + Lost(accepted, d)
        /\ Lost(accepted, d) \in Nat
    BY <2>1, LabelsStay, ScoreCountsLabels
  <2>4. Ratio(a, m) >= Ratio(b, m) - Tolerance
    BY <2>2, <2>3, ScoreFields, SummaryScores
  <2>5. Tolerance \in Nat
    BY GateAssumption
  <2> HIDE DEF a, b, m
  <2>6. m \in Nat /\ (m = 0 => a = 0 /\ b = 0)
    BY <2>3
  <2>7. 10000 * (b - a) <= (Tolerance + 1) * m
    <3>1. CASE m = 0
      BY <2>5, <2>6, <3>1
    <3>2. CASE m # 0
      <4>1. Round(a, m) >= Round(b, m) - Tolerance
        BY <2>4, <3>2 DEF Ratio
      <4>2. QED
        BY <2>3, <2>5, <2>6, <3>2, <4>1, RoundingLosesOne
    <3>3. QED
      BY <3>1, <3>2
  <2>8. QED
    BY <2>3, <2>7 DEF m
<1>2. QED
  BY <1>1, GateInvInit, GateInvNext, PTL DEF GateSpec
==============================================================================
