------------------------------ MODULE LoopProofs ------------------------------
(***************************************************************************)
(* What the other proof modules need of loops, folds and sequences: a set  *)
(* of naturals with an element has a least one, induction over a set of    *)
(* naturals, the loops and folds the models write as recursive functions   *)
(* have a value after each step, and facts about the ends of a sequence and*)
(* about sequences that list a set.                                        *)
(***************************************************************************)
EXTENDS SequencesExt, SequenceTheorems, FiniteSetTheorems, TLAPS

(* Every set of natural numbers with an element has a least one. *)
LEMMA LeastNumber ==
    ASSUME NEW S, S \subseteq Nat, S # {}
    PROVE  \E n \in S : \A m \in S : n <= m
<1> DEFINE R == OpToRel(<, Nat)
<1>1. IsWellFoundedOn(R, Nat)
  BY NatLessThanWellFounded
<1>2. \A m, n \in Nat : m < n => <<m, n>> \in R
  BY DEF OpToRel
<1> HIDE DEF R
<1>3. PICK n \in S : \A m \in S : ~(<<m, n>> \in R)
  BY <1>1, WFMin
<1>4. \A m \in S : n <= m
  <2> TAKE m \in S
  <2>1. m \in Nat /\ n \in Nat
    OBVIOUS
  <2>2. ~(m < n)
    BY <1>2, <1>3, <2>1, Zenon
  <2>3. QED
    BY <2>1, <2>2
<1>5. QED
  BY <1>4

LEMMA LeastOf ==
    ASSUME NEW S, S \subseteq Nat, S # {}
    PROVE  Min(S) \in S /\ \A m \in S : Min(S) <= m
BY LeastNumber DEF Min

(* ... and one with a bound has a greatest. *)
LEMMA GreatestNumber ==
    ASSUME NEW n \in Nat, NEW S, S \subseteq 1..n, S # {}
    PROVE  Max(S) \in S /\ \A m \in S : m <= Max(S)
<1> DEFINE T == {n - m : m \in S}
<1>1. T \subseteq Nat /\ T # {}
  <2>1. \A m \in S : n - m \in Nat
    OBVIOUS
  <2>2. QED
    BY <2>1
<1>2. PICK t \in T : \A u \in T : t <= u
  BY <1>1, LeastNumber
<1>3. PICK g \in S : t = n - g
  BY <1>2
<1>4. ASSUME NEW m \in S
      PROVE  g >= m
  <2>1. n - g <= n - m /\ m \in Nat /\ g \in Nat
    BY <1>2, <1>3
  <2>2. QED
    BY <2>1
<1>5. Max(S) \in S /\ \A m \in S : Max(S) >= m
  BY <1>4 DEF Max
<1>6. QED
  BY <1>5

(* Induction up to n, for a set in place of a predicate. *)
LEMMA InductionTo ==
    ASSUME NEW n \in Nat, NEW S, 0 \in S, \A k \in 0..(n - 1) : k \in S => k + 1 \in S
    PROVE  \A k \in 0..n : k \in S
<1> SUFFICES ASSUME {k \in 0..n : k \notin S} # {}
             PROVE  FALSE
  OBVIOUS
<1>1. PICK k \in {j \in 0..n : j \notin S} : \A m \in {j \in 0..n : j \notin S} : k <= m
  <2>1. {j \in 0..n : j \notin S} \subseteq Nat
    OBVIOUS
  <2>2. QED
    BY <2>1, LeastNumber
<1>2. k \in Nat /\ k # 0 /\ k - 1 \in 0..(n - 1) /\ k - 1 \in 0..n
  BY <1>1
<1>3. k - 1 \in S
  BY <1>1, <1>2
<1>4. (k - 1) + 1 = k
  BY <1>2
<1>5. QED
  BY <1>1, <1>2, <1>3, <1>4

(* A loop over 1..n that keeps a value of V has one value after each step. *)
IsLoop(f, n, base, step) ==
    f[0] = base /\ \A i \in 1..n : f[i] = step[i][f[i - 1]]

LEMMA LoopIsDefined ==
    ASSUME NEW V, NEW n \in Nat, NEW base \in V, NEW step \in [1..n -> [V -> V]]
    PROVE  \E f \in [0..n -> V] : IsLoop(f, n, base, step)
<1> DEFINE Is(f, m) == f[0] = base /\ \A i \in 1..m : f[i] = step[i][f[i - 1]]
           S == {m \in 0..n : \E f \in [0..m -> V] : Is(f, m)}
<1>1. 0 \in S
  <2>1. [i \in 0..0 |-> base] \in [0..0 -> V] /\ Is([i \in 0..0 |-> base], 0)
    OBVIOUS
  <2>2. \E f \in [0..0 -> V] : Is(f, 0)
    BY <2>1
  <2>3. QED
    BY <2>2
<1>2. ASSUME NEW m \in 0..(n - 1), m \in S
      PROVE  m + 1 \in S
  <2>1. PICK f \in [0..m -> V] : Is(f, m)
    BY <1>2
  <2> DEFINE g == [i \in 0..(m + 1) |-> IF i <= m THEN f[i] ELSE step[m + 1][f[m]]]
  <2>2. m \in Nat /\ m + 1 \in 1..n /\ m + 1 \in 0..n /\ f[m] \in V
    OBVIOUS
  <2>3. step[m + 1][f[m]] \in V
    BY <2>2
  <2>4. g \in [0..(m + 1) -> V]
    BY <2>2, <2>3
  <2>5. \A i \in 0..m : g[i] = f[i]
    BY <2>2
  <2>6. g[m + 1] = step[m + 1][g[m]]
    BY <2>2
  <2>7. ASSUME NEW i \in 1..(m + 1)
        PROVE  g[i] = step[i][g[i - 1]]
    <3>1. CASE i = m + 1
      <4>1. i - 1 = m
        BY <3>1, <2>2
      <4>2. QED
        BY <3>1, <2>6, <4>1
    <3>2. CASE i # m + 1
      <4>1. i \in 1..m /\ i \in 0..m /\ i - 1 \in 0..m
        BY <3>2, <2>2
      <4>2. QED
        BY <2>1, <2>5, <4>1
    <3>3. QED
      BY <3>1, <3>2
  <2>8. g[0] = base
    BY <2>1, <2>2
  <2> HIDE DEF g
  <2>9. QED
    BY <2>2, <2>4, <2>7, <2>8
<1> HIDE DEF S
<1>3. \A k \in 0..n : k \in S
  BY <1>1, <1>2, InductionTo
<1>4. n \in S
  BY <1>3
<1>5. QED
  BY <1>4 DEF S, IsLoop

(* The same of a loop that is written as a fold: the elements of a set of    *)
(* positions are taken from the greatest down.                               *)
IsFold(iter, n, base, step) ==
    \A s \in SUBSET (1..n) :
        iter[s] = IF s = {} THEN base ELSE step[Max(s)][iter[s \ {Max(s)}]]

LEMMA FoldIsDefined ==
    ASSUME NEW V, NEW n \in Nat, NEW base \in V, NEW step \in [1..n -> [V -> V]]
    PROVE  \E iter \in [SUBSET (1..n) -> V] : IsFold(iter, n, base, step)
<1> DEFINE Is(g, m) ==
             \A s \in SUBSET (1..m) : g[s] = IF s = {} THEN base ELSE step[Max(s)][g[s \ {Max(s)}]]
           S == {m \in 0..n : \E g \in [SUBSET (1..m) -> V] : Is(g, m)}
<1>1. 0 \in S
  <2>1. \A s \in SUBSET (1..0) : s = {}
    OBVIOUS
  <2>2. [s \in SUBSET (1..0) |-> base] \in [SUBSET (1..0) -> V] /\ Is([s \in SUBSET (1..0) |-> base], 0)
    BY <2>1
  <2>3. \E g \in [SUBSET (1..0) -> V] : Is(g, 0)
    BY <2>2, Zenon
  <2>4. 0 \in 0..n
    OBVIOUS
  <2> HIDE DEF Is
  <2>5. QED
    BY <2>3, <2>4, Zenon
<1>2. ASSUME NEW m \in 0..(n - 1), m \in S
      PROVE  m + 1 \in S
  <2>1. PICK f \in [SUBSET (1..m) -> V] : Is(f, m)
    BY <1>2
  <2> DEFINE g == [s \in SUBSET (1..(m + 1)) |->
                     IF m + 1 \in s THEN step[m + 1][f[s \ {m + 1}]] ELSE f[s]]
  <2>2. m \in Nat /\ m + 1 \in 1..n /\ m + 1 \in 0..n
    OBVIOUS
  <2>3. \A s \in SUBSET (1..(m + 1)) : s \ {m + 1} \in SUBSET (1..m)
    BY <2>2
  <2>4. \A s \in SUBSET (1..(m + 1)) : m + 1 \notin s => s \in SUBSET (1..m)
    BY <2>2
  <2>5. g \in [SUBSET (1..(m + 1)) -> V]
    <3>1. step[m + 1] \in [V -> V]
      BY <2>2
    <3>2. ASSUME NEW s \in SUBSET (1..(m + 1))
          PROVE  (IF m + 1 \in s THEN step[m + 1][f[s \ {m + 1}]] ELSE f[s]) \in V
      BY <2>3, <2>4, <3>1
    <3>3. QED
      BY <3>2
  <2>6. \A s \in SUBSET (1..m) : s \in SUBSET (1..(m + 1)) /\ m + 1 \notin s /\ g[s] = f[s]
    BY <2>2
  <2>7. ASSUME NEW s \in SUBSET (1..(m + 1))
        PROVE  g[s] = IF s = {} THEN base ELSE step[Max(s)][g[s \ {Max(s)}]]
    <3>1. CASE m + 1 \in s
      <4>1. m + 1 \in s /\ \A y \in s : m + 1 >= y
        BY <3>1, <2>2
      <4>2. \A x \in s : (\A y \in s : x >= y) => x = m + 1
        BY <4>1, <2>2
      <4>3. Max(s) = m + 1
        BY <4>1, <4>2 DEF Max
      <4>4. g[s] = step[m + 1][f[s \ {m + 1}]] /\ g[s \ {m + 1}] = f[s \ {m + 1}]
        BY <3>1, <2>3, <2>6
      <4>5. QED
        BY <3>1, <4>3, <4>4
    <3>2. CASE m + 1 \notin s
      <4>1. s \in SUBSET (1..m) /\ s \ {Max(s)} \in SUBSET (1..m)
        BY <3>2, <2>4
      <4>2. g[s] = f[s] /\ g[s \ {Max(s)}] = f[s \ {Max(s)}]
        BY <4>1, <2>6
      <4>3. QED
        BY <2>1, <4>1, <4>2
    <3>3. QED
      BY <3>1, <3>2
  <2> HIDE DEF g
  <2>8. QED
    BY <2>2, <2>5, <2>7
<1> HIDE DEF S
<1>3. n \in S
  <2>1. \A k \in 0..n : k \in S
    BY <1>1, <1>2, InductionTo
  <2>2. QED
    BY <2>1
<1>4. PICK g \in [SUBSET (1..n) -> V] : Is(g, n)
  BY <1>3 DEF S
<1>5. QED
  BY <1>4 DEF IsFold

(* The greatest position of all up to i is i, which leaves those before it. *)
LEMMA TopOfInterval ==
    ASSUME NEW n \in Nat, NEW i \in 1..n
    PROVE  /\ Max(1..i) = i /\ (1..i) \ {i} = 1..(i - 1)
           /\ (1..i) \in SUBSET (1..n) /\ 1..i # {}
<1>1. \A x \in 1..i : (\A y \in 1..i : x >= y) => x = i
  OBVIOUS
<1>2. i \in 1..i /\ \A y \in 1..i : i >= y
  OBVIOUS
<1>3. Max(1..i) = i
  BY <1>1, <1>2 DEF Max
<1>4. QED
  BY <1>3

(* A fold that satisfies its recursion is the loop from the first position   *)
(* to the last.                                                              *)
Folded(iter, V, n, base, step) ==
    /\ iter[{}] = base
    /\ \A s \in SUBSET (1..n) :
          s # {} /\ iter[s \ {Max(s)}] \in V => iter[s] = step[Max(s)][iter[s \ {Max(s)}]]

LEMMA FoldIsALoop ==
    ASSUME NEW V, NEW n \in Nat, NEW base \in V, NEW step \in [1..n -> [V -> V]],
           NEW iter, Folded(iter, V, n, base, step)
    PROVE  \E f \in [0..n -> V] : IsLoop(f, n, base, step) /\ f[n] = iter[1..n]
<1> DEFINE S == {i \in 0..n : iter[1..i] \in V}
           f == [i \in 0..n |-> iter[1..i]]
<1>1. ASSUME NEW i \in 1..n, iter[1..(i - 1)] \in V
      PROVE  iter[1..i] = step[i][iter[1..(i - 1)]] /\ iter[1..i] \in V
  <2>1. Max(1..i) = i /\ (1..i) \ {i} = 1..(i - 1) /\ (1..i) \in SUBSET (1..n) /\ 1..i # {}
    BY TopOfInterval
  <2>2. iter[1..i] = step[i][iter[1..(i - 1)]]
    BY <1>1, <2>1 DEF Folded
  <2>3. step[i] \in [V -> V]
    OBVIOUS
  <2>4. QED
    BY <1>1, <2>2, <2>3
<1>2. 0 \in S
  <2>1. 1..0 = {} /\ 0 \in 0..n
    OBVIOUS
  <2>2. QED
    BY <2>1 DEF Folded
<1>3. ASSUME NEW i \in 0..(n - 1), i \in S
      PROVE  i + 1 \in S
  <2>1. i + 1 \in 1..n /\ i + 1 \in 0..n /\ (i + 1) - 1 = i
    OBVIOUS
  <2> DEFINE j == i + 1
  <2>2. j \in 1..n /\ iter[1..(j - 1)] \in V
    BY <1>3, <2>1
  <2> HIDE DEF j
  <2>3. iter[1..j] \in V
    BY <1>1, <2>2
  <2>4. QED
    BY <2>1, <2>3 DEF j
<1> HIDE DEF S
<1>4. \A i \in 0..n : i \in S
  BY <1>2, <1>3, InductionTo
<1>5. f \in [0..n -> V]
  BY <1>4 DEF S
<1>6. ASSUME NEW i \in 1..n
      PROVE  f[i] = step[i][f[i - 1]]
  <2>1. i \in 0..n /\ i - 1 \in 0..n
    OBVIOUS
  <2>2. iter[1..(i - 1)] \in V
    BY <1>4, <2>1 DEF S
  <2>3. QED
    BY <1>1, <2>1, <2>2
<1>7. f[0] = base /\ f[n] = iter[1..n]
  <2>1. 1..0 = {} /\ 0 \in 0..n /\ n \in 0..n
    OBVIOUS
  <2>2. QED
    BY <2>1 DEF Folded
<1> HIDE DEF f
<1>8. IsLoop(f, n, base, step)
  BY <1>6, <1>7 DEF IsLoop
<1>9. QED
  BY <1>5, <1>7, <1>8

(* Two loops whose steps are the same so far have come to the same. *)
LEMMA LoopsAgree ==
    ASSUME NEW n \in Nat, NEW m \in 0..n, NEW base, NEW f, NEW g, NEW p, NEW q,
           IsLoop(f, n, base, p), IsLoop(g, n, base, q), \A k \in 1..m : p[k] = q[k]
    PROVE  f[m] = g[m]
<1> DEFINE S == {k \in 0..m : f[k] = g[k]}
<1>1. 0 \in S
  BY DEF IsLoop
<1>2. ASSUME NEW k \in 0..(m - 1), k \in S
      PROVE  k + 1 \in S
  <2>1. k + 1 \in 1..n /\ k + 1 \in 1..m /\ k + 1 \in 0..m /\ (k + 1) - 1 = k
    OBVIOUS
  <2>2. f[k + 1] = p[k + 1][f[k]] /\ g[k + 1] = q[k + 1][g[k]]
    BY <2>1 DEF IsLoop
  <2>3. QED
    BY <1>2, <2>1, <2>2
<1> HIDE DEF S
<1>3. \A k \in 0..m : k \in S
  <2>1. m \in Nat
    OBVIOUS
  <2>2. QED
    BY <1>1, <1>2, <2>1, InductionTo
<1>4. QED
  BY <1>3 DEF S

(* Flattening a sequence of sequences is the loop that appends them in turn. *)
LEMMA FlatteningIsALoop ==
    ASSUME NEW S, NEW seqs \in Seq(Seq(S))
    PROVE  \E f \in [0..Len(seqs) -> Seq(S)] :
              /\ f[0] = <<>> /\ \A i \in 1..Len(seqs) : f[i] = f[i - 1] \o seqs[i]
              /\ FlattenSeq(seqs) = f[Len(seqs)]
<1> DEFINE n == Len(seqs)
           V == Seq(S)
           step == [i \in 1..n |-> [v \in V |-> v \o seqs[i]]]
<1>1. n \in Nat /\ DOMAIN seqs = 1..n /\ (n = 0 => seqs = <<>>)
  BY LenProperties, EmptySeq
<1>2. \A i \in 1..n : seqs[i] \in V
  BY ElementOfSeq
<1>3. <<>> \in V /\ \A u, v \in V : u \o v \in V
  BY EmptySeq, ConcatProperties
<1> HIDE DEF n
<1>4. step \in [1..n -> [V -> V]]
  <2> HIDE DEF V
  <2>1. QED
    BY <1>2, <1>3
<1>5. PICK f \in [0..n -> V] : IsLoop(f, n, <<>>, step)
  <2> HIDE DEF V, step
  <2>1. QED
    BY <1>1, <1>3, <1>4, LoopIsDefined, Zenon
<1>6. f[0] = <<>> /\ \A i \in 1..n : f[i] = f[i - 1] \o seqs[i]
  <2>1. ASSUME NEW i \in 1..n
        PROVE  f[i] = f[i - 1] \o seqs[i]
    <3>1. i - 1 \in 0..n
      BY <1>1
    <3>2. f[i - 1] \in V
      BY <3>1
    <3>3. f[i] = step[i][f[i - 1]]
      BY <1>5 DEF IsLoop
    <3> HIDE DEF V
    <3>4. QED
      BY <3>2, <3>3
  <2>2. QED
    BY <1>5, <2>1 DEF IsLoop
<1>7. FlattenSeq(seqs) = f[n]
  <2>1. CASE n = 0
    BY <1>1, <1>6, <2>1 DEF FlattenSeq, n
  <2>2. CASE n # 0
    <3> DEFINE Is(g) == g = [i \in 1..n |-> IF i = 1 THEN seqs[i] ELSE g[i - 1] \o seqs[i]]
               flat == CHOOSE g : Is(g)
    <3>1. FlattenSeq(seqs) = flat[n]
      BY <2>2 DEF FlattenSeq, n
    <3>2. f[1] = seqs[1]
      <4>1. 1 \in 1..n /\ seqs[1] \in V
        BY <1>1, <1>2, <2>2
      <4> HIDE DEF V, step
      <4>2. f[1] = f[0] \o seqs[1]
        <5>1. f[1] = f[1 - 1] \o seqs[1]
          BY <1>6, <4>1, Zenon
        <5>2. 1 - 1 = 0
          OBVIOUS
        <5>3. QED
          BY <5>1, <5>2, Zenon
      <4>3. f[1] = <<>> \o seqs[1]
        BY <1>6, <4>2, Zenon
      <4>4. QED
        BY <4>1, <4>3, ConcatEmptySeq DEF V
    <3> DEFINE h == [i \in 1..n |-> f[i]]
    <3>3. h = [i \in 1..n |-> IF i = 1 THEN seqs[i] ELSE h[i - 1] \o seqs[i]]
      <4>1. ASSUME NEW i \in 1..n
            PROVE  h[i] = IF i = 1 THEN seqs[i] ELSE h[i - 1] \o seqs[i]
        <5>1. i # 1 => i - 1 \in 1..n
          BY <1>1
        <5>2. QED
          BY <1>6, <3>2, <5>1
      <4>2. QED
        BY <4>1
    <3>4. Is(flat)
      <4>1. \E g : Is(g)
        BY <3>3
      <4>2. QED
        BY <4>1
    <3> HIDE DEF flat
    <3> DEFINE Same == {i \in 0..n : i # 0 => flat[i] = f[i]}
    <3>5. 0 \in Same
      BY <1>1
    <3>6. ASSUME NEW i \in 0..(n - 1), i \in Same
          PROVE  i + 1 \in Same
      <4>1. i + 1 \in 1..n /\ i + 1 \in 0..n /\ (i + 1) - 1 = i /\ i \in Nat
        BY <1>1
      <4> HIDE DEF V, step
      <4>2. f[i + 1] = f[i] \o seqs[i + 1]
        BY <1>6, <4>1
      <4>3. flat[i + 1] = IF i + 1 = 1 THEN seqs[i + 1] ELSE flat[i] \o seqs[i + 1]
        BY <3>4, <4>1
      <4>4. CASE i = 0
        <5>1. i + 1 = 1
          BY <4>4
        <5>2. flat[i + 1] = f[i + 1]
          BY <3>2, <4>3, <5>1, Zenon
        <5>3. QED
          BY <4>1, <5>2
      <4>5. CASE i # 0
        <5>1. flat[i] = f[i] /\ i + 1 # 1
          BY <3>6, <4>1, <4>5
        <5>2. flat[i + 1] = f[i + 1]
          BY <4>2, <4>3, <5>1, Zenon
        <5>3. QED
          BY <4>1, <5>2
      <4>6. QED
        BY <4>4, <4>5
    <3> HIDE DEF Same
    <3>7. n \in Same
      <4>1. \A i \in 0..n : i \in Same
        BY <1>1, <3>5, <3>6, InductionTo
      <4>2. QED
        BY <1>1, <4>1
    <3>8. QED
      BY <2>2, <3>1, <3>7 DEF Same
  <2>3. QED
    BY <2>1, <2>2
<1>8. QED
  BY <1>6, <1>7 DEF n

(* Flattening one more sequence appends it. *)
LEMMA FlatteningAppends ==
    ASSUME NEW S, NEW seqs \in Seq(Seq(S)), NEW s \in Seq(S)
    PROVE  /\ FlattenSeq(seqs) \in Seq(S) /\ (seqs = <<>> => FlattenSeq(seqs) = <<>>)
           /\ FlattenSeq(Append(seqs, s)) = FlattenSeq(seqs) \o s
<1> DEFINE n == Len(seqs)  more == Append(seqs, s)
<1>1. /\ n \in Nat /\ more \in Seq(Seq(S)) /\ Len(more) = n + 1 /\ more[n + 1] = s
      /\ \A i \in 1..n : more[i] = seqs[i]
  BY LenProperties, AppendProperties
<1>2. PICK f \in [0..n -> Seq(S)] :
         /\ f[0] = <<>> /\ \A i \in 1..n : f[i] = f[i - 1] \o seqs[i]
         /\ FlattenSeq(seqs) = f[n]
  BY FlatteningIsALoop
<1> HIDE DEF more
<1>3. PICK g \in [0..(n + 1) -> Seq(S)] :
         /\ g[0] = <<>> /\ \A i \in 1..(n + 1) : g[i] = g[i - 1] \o more[i]
         /\ FlattenSeq(more) = g[n + 1]
  <2>1. PICK g \in [0..Len(more) -> Seq(S)] :
           /\ g[0] = <<>> /\ \A i \in 1..Len(more) : g[i] = g[i - 1] \o more[i]
           /\ FlattenSeq(more) = g[Len(more)]
    BY <1>1, FlatteningIsALoop
  <2> HIDE DEF n
  <2>2. QED
    BY <1>1, <2>1
<1>4. seqs = <<>> => n = 0
  BY EmptySeq
<1> HIDE DEF n
<1> DEFINE Same == {i \in 0..n : g[i] = f[i]}
<1>5. 0 \in Same
  BY <1>1, <1>2, <1>3
<1>6. ASSUME NEW i \in 0..(n - 1), i \in Same
      PROVE  i + 1 \in Same
  <2>1. i + 1 \in 1..n /\ i + 1 \in 1..(n + 1) /\ i + 1 \in 0..n /\ (i + 1) - 1 = i
    <3>1. n \in Nat
      BY <1>1
    <3>2. QED
      BY <3>1
  <2>2. f[i + 1] = f[i] \o seqs[i + 1] /\ g[i + 1] = g[i] \o more[i + 1]
    BY <1>2, <1>3, <2>1
  <2>3. more[i + 1] = seqs[i + 1] /\ g[i] = f[i]
    BY <1>1, <1>6, <2>1
  <2>4. QED
    BY <2>1, <2>2, <2>3
<1> HIDE DEF Same
<1>7. n \in Same
  <2>1. \A i \in 0..n : i \in Same
    BY <1>1, <1>5, <1>6, InductionTo
  <2>2. QED
    BY <1>1, <2>1
<1>8. g[n + 1] = g[n] \o s
  <2>1. n + 1 \in 1..(n + 1) /\ (n + 1) - 1 = n
    BY <1>1
  <2>2. QED
    BY <1>1, <1>3, <2>1
<1>9. f[n] \in Seq(S)
  BY <1>1, <1>2
<1>10. QED
  BY <1>2, <1>3, <1>4, <1>7, <1>8, <1>9 DEF Same, more

(* Flattening sequences that are all empty. *)
LEMMA FlatteningNothing ==
    ASSUME NEW S, NEW seqs \in Seq(Seq(S)), \A i \in 1..Len(seqs) : seqs[i] = <<>>
    PROVE  FlattenSeq(seqs) = <<>>
<1> DEFINE n == Len(seqs)
<1>1. n \in Nat
  BY LenProperties
<1>2. PICK f \in [0..n -> Seq(S)] :
         /\ f[0] = <<>> /\ \A i \in 1..n : f[i] = f[i - 1] \o seqs[i]
         /\ FlattenSeq(seqs) = f[n]
  BY FlatteningIsALoop
<1>3. \A i \in 1..n : seqs[i] = <<>>
  OBVIOUS
<1> HIDE DEF n
<1> DEFINE Nothing == {i \in 0..n : f[i] = <<>>}
<1>4. 0 \in Nothing
  BY <1>1, <1>2
<1>5. ASSUME NEW i \in 0..(n - 1), i \in Nothing
      PROVE  i + 1 \in Nothing
  <2>1. i + 1 \in 1..n /\ i + 1 \in 0..n /\ (i + 1) - 1 = i
    BY <1>1
  <2>2. f[i + 1] = f[i] \o seqs[i + 1]
    BY <1>2, <2>1
  <2>3. f[i + 1] = <<>> \o <<>>
    BY <1>3, <1>5, <2>1, <2>2
  <2>4. <<>> \o <<>> = <<>>
    OBVIOUS
  <2>5. QED
    BY <2>1, <2>3, <2>4
<1> HIDE DEF Nothing
<1>6. \A i \in 0..n : i \in Nothing
  BY <1>1, <1>4, <1>5, InductionTo
<1>7. QED
  BY <1>1, <1>2, <1>6 DEF Nothing

----------------------------------------------------------------------------

(* s is the end of t.                                                      *)
EndsWith(t, s) ==
    Len(s) <= Len(t) /\ \A i \in 1..Len(s) : t[Len(t) - Len(s) + i] = s[i]

LEMMA EndsItself ==
    ASSUME NEW B, NEW t \in Seq(B)
    PROVE  EndsWith(t, t) /\ EndsWith(t, <<>>)
<1>1. Len(t) \in Nat /\ Len(<<>>) = 0
  BY LenProperties
<1>2. \A i \in 1..Len(t) : Len(t) - Len(t) + i = i
  BY <1>1
<1>3. QED
  BY <1>1, <1>2 DEF EndsWith

LEMMA EndsTransitive ==
    ASSUME NEW B, NEW t \in Seq(B), NEW s \in Seq(B), NEW r \in Seq(B),
           EndsWith(t, s), EndsWith(s, r)
    PROVE  EndsWith(t, r)
<1>1. Len(t) \in Nat /\ Len(s) \in Nat /\ Len(r) \in Nat /\ Len(s) <= Len(t) /\ Len(r) <= Len(s)
  BY LenProperties DEF EndsWith
<1>2. ASSUME NEW i \in 1..Len(r)
      PROVE  t[Len(t) - Len(r) + i] = r[i]
  <2> DEFINE j == Len(s) - Len(r) + i
  <2>1. j \in 1..Len(s) /\ Len(t) - Len(s) + j = Len(t) - Len(r) + i
    BY <1>1
  <2>2. s[j] = r[i]
    BY DEF EndsWith
  <2> HIDE DEF j
  <2>3. t[Len(t) - Len(s) + j] = s[j]
    BY <2>1 DEF EndsWith
  <2>4. QED
    BY <2>1, <2>2, <2>3
<1>3. QED
  BY <1>1, <1>2 DEF EndsWith

(* Of two ends of the same word, the shorter is an end of the longer. *)
LEMMA EndsOfOneWord ==
    ASSUME NEW B, NEW t \in Seq(B), NEW s \in Seq(B), NEW r \in Seq(B),
           EndsWith(t, s), EndsWith(t, r), Len(r) <= Len(s)
    PROVE  EndsWith(s, r)
<1>1. Len(t) \in Nat /\ Len(s) \in Nat /\ Len(r) \in Nat /\ Len(s) <= Len(t)
  BY LenProperties DEF EndsWith
<1>2. ASSUME NEW i \in 1..Len(r)
      PROVE  s[Len(s) - Len(r) + i] = r[i]
  <2> DEFINE j == Len(s) - Len(r) + i
  <2>1. j \in 1..Len(s) /\ Len(t) - Len(s) + j = Len(t) - Len(r) + i
    BY <1>1
  <2>2. t[Len(t) - Len(r) + i] = r[i]
    BY DEF EndsWith
  <2> HIDE DEF j
  <2>3. t[Len(t) - Len(s) + j] = s[j]
    BY <2>1 DEF EndsWith
  <2>4. QED
    BY <2>1, <2>2, <2>3 DEF j
<1>3. QED
  BY <1>1, <1>2 DEF EndsWith

LEMMA EndOfSameLength ==
    ASSUME NEW B, NEW t \in Seq(B), NEW s \in Seq(B), EndsWith(t, s), Len(s) = Len(t)
    PROVE  s = t
<1>1. Len(t) \in Nat
  BY LenProperties
<1>2. \A i \in 1..Len(s) : s[i] = t[i]
  <2>1. \A i \in 1..Len(s) : Len(t) - Len(s) + i = i
    BY <1>1
  <2>2. QED
    BY <2>1 DEF EndsWith
<1>3. QED
  BY <1>2, SeqEqual

(* A word and its end, both with one more letter, and the other way round. *)
LEMMA EndsOfAppend ==
    ASSUME NEW B, NEW t \in Seq(B), NEW s \in Seq(B), NEW c \in B, EndsWith(t, s)
    PROVE  EndsWith(Append(t, c), Append(s, c))
<1>1. Len(t) \in Nat /\ Len(s) \in Nat /\ Len(s) <= Len(t)
  BY LenProperties DEF EndsWith
<1>2. /\ Len(Append(t, c)) = Len(t) + 1 /\ Append(t, c)[Len(t) + 1] = c
      /\ \A i \in 1..Len(t) : Append(t, c)[i] = t[i]
      /\ Len(Append(s, c)) = Len(s) + 1 /\ Append(s, c)[Len(s) + 1] = c
      /\ \A i \in 1..Len(s) : Append(s, c)[i] = s[i]
  BY AppendProperties
<1> DEFINE tc == Append(t, c)
           sc == Append(s, c)
<1> HIDE DEF tc, sc
<1>3. ASSUME NEW i \in 1..(Len(s) + 1)
      PROVE  tc[Len(t) - Len(s) + i] = sc[i]
  <2>1. CASE i = Len(s) + 1
    <3>1. Len(t) - Len(s) + i = Len(t) + 1
      BY <1>1, <2>1
    <3>2. QED
      BY <1>2, <2>1, <3>1 DEF tc, sc
  <2>2. CASE i # Len(s) + 1
    <3>1. i \in 1..Len(s) /\ Len(t) - Len(s) + i \in 1..Len(t)
      BY <1>1, <2>2
    <3>2. t[Len(t) - Len(s) + i] = s[i]
      BY <3>1 DEF EndsWith
    <3>3. QED
      BY <1>2, <3>1, <3>2 DEF tc, sc
  <2>3. QED
    BY <2>1, <2>2
<1>4. (Len(t) + 1) - (Len(s) + 1) = Len(t) - Len(s) /\ Len(s) + 1 <= Len(t) + 1
  BY <1>1
<1>5. Len(tc) = Len(t) + 1 /\ Len(sc) = Len(s) + 1
  BY <1>2 DEF tc, sc
<1>6. EndsWith(tc, sc)
  BY <1>3, <1>4, <1>5 DEF EndsWith
<1>7. QED
  BY <1>6 DEF tc, sc

LEMMA FrontAndLast ==
    ASSUME NEW B, NEW s \in Seq(B), s # <<>>
    PROVE  /\ Front(s) \in Seq(B) /\ Last(s) \in B /\ s = Append(Front(s), Last(s))
           /\ Len(s) \in Nat \ {0} /\ Len(Front(s)) = Len(s) - 1
           /\ \A i \in 1..(Len(s) - 1) : Front(s)[i] = s[i]
<1>1. Len(s) \in Nat \ {0} /\ \A i \in 1..Len(s) : s[i] \in B
  BY EmptySeq, ElementOfSeq
<1>2. /\ Front(s) \in Seq(B) /\ Len(Front(s)) = Len(s) - 1
      /\ \A i \in 1..(Len(s) - 1) : Front(s)[i] = s[i]
  <2>1. \A i \in 1..(Len(s) - 1) : s[i] \in B
    BY <1>1
  <2>2. 1 \in Int /\ Len(s) - 1 \in Int /\ (Len(s) - 1) - 1 + 1 = Len(s) - 1
        /\ \A i \in 1..(Len(s) - 1) : 1 + i - 1 = i
        /\ (~(1 <= Len(s) - 1) => Len(s) - 1 = 0)
    BY <1>1
  <2> DEFINE k == Len(s) - 1
  <2> HIDE DEF k
  <2>3. k \in Int /\ \A i \in 1..k : s[i] \in B
    BY <2>1, <2>2 DEF k
  <2>4. /\ SubSeq(s, 1, k) \in Seq(B)
        /\ Len(SubSeq(s, 1, k)) = IF 1 <= k THEN k - 1 + 1 ELSE 0
        /\ \A i \in 1..(k - 1 + 1) : SubSeq(s, 1, k)[i] = s[1 + i - 1]
    BY <2>2, <2>3, SubSeqProperties
  <2>5. /\ Front(s) \in Seq(B)
        /\ Len(Front(s)) = k /\ \A i \in 1..k : Front(s)[i] = s[i]
    BY <2>2, <2>4 DEF Front, k
  <2>6. QED
    BY <2>5 DEF k
<1>3. Last(s) \in B /\ Last(s) = s[Len(s)]
  BY <1>1 DEF Last
<1> DEFINE a == Append(Front(s), Last(s))
<1>4. /\ a \in Seq(B) /\ Len(a) = Len(s)
      /\ \A i \in 1..(Len(s) - 1) : a[i] = s[i]
      /\ a[Len(s)] = s[Len(s)]
  <2>1. (Len(s) - 1) + 1 = Len(s)
    BY <1>1
  <2>2. QED
    BY <1>2, <1>3, <2>1, AppendProperties
<1> HIDE DEF a
<1>5. \A i \in 1..Len(s) : a[i] = s[i]
  BY <1>1, <1>4
<1>6. a = s
  BY <1>4, <1>5, SeqEqual
<1>7. QED
  BY <1>1, <1>2, <1>3, <1>6 DEF a

LEMMA EndsBeforeAppend ==
    ASSUME NEW B, NEW t \in Seq(B), NEW c \in B, NEW r \in Seq(B), r # <<>>,
           EndsWith(Append(t, c), r)
    PROVE  EndsWith(t, Front(r)) /\ r = Append(Front(r), c)
<1> DEFINE tc == Append(t, c)
           f == Front(r)
<1>1. /\ Len(t) \in Nat /\ tc \in Seq(B) /\ Len(tc) = Len(t) + 1 /\ tc[Len(t) + 1] = c
      /\ \A i \in 1..Len(t) : tc[i] = t[i]
  BY LenProperties, AppendProperties
<1>2. /\ r = Append(f, Last(r)) /\ Len(r) \in Nat \ {0} /\ Len(f) = Len(r) - 1
      /\ \A i \in 1..(Len(r) - 1) : f[i] = r[i]
  BY FrontAndLast
<1>3. Len(r) <= Len(tc) /\ \A i \in 1..Len(r) : tc[Len(tc) - Len(r) + i] = r[i]
  BY DEF EndsWith
<1> HIDE DEF tc, f
<1>4. Last(r) = c
  <2>1. Len(tc) - Len(r) + Len(r) = Len(t) + 1 /\ Len(r) \in 1..Len(r)
    BY <1>1, <1>2
  <2>2. QED
    BY <1>1, <1>3, <2>1 DEF Last
<1>5. ASSUME NEW i \in 1..Len(f)
      PROVE  t[Len(t) - Len(f) + i] = f[i]
  <2> DEFINE j == Len(t) - Len(f) + i
  <2>1. j \in 1..Len(t) /\ j = Len(tc) - Len(r) + i /\ i \in 1..Len(r) /\ i \in 1..(Len(r) - 1)
    BY <1>1, <1>2, <1>3
  <2> HIDE DEF j
  <2>2. QED
    BY <1>1, <1>2, <1>3, <2>1 DEF j
<1>6. Len(f) <= Len(t)
  BY <1>1, <1>2, <1>3
<1>7. QED
  BY <1>2, <1>4, <1>5, <1>6 DEF EndsWith, f

----------------------------------------------------------------------------
(* Sequences that hold each element of a set once.                         *)

Enumerates(s, S) == s \in Seq(S) /\ ToSet(s) = S /\ IsInjective(s)

LEMMA EnumerationsOfFew ==
    ASSUME NEW x
    PROVE  Enumerates(<<>>, {}) /\ Enumerates(<<x>>, {x})
<1>1. DOMAIN <<>> = {} /\ DOMAIN <<x>> = {1} /\ <<x>>[1] = x
  OBVIOUS
<1>2. <<>> \in Seq({}) /\ <<x>> \in Seq({x})
  OBVIOUS
<1>3. QED
  BY <1>1, <1>2 DEF Enumerates, ToSet, IsInjective

LEMMA EnumerationFacts ==
    ASSUME NEW S, NEW s, Enumerates(s, S)
    PROVE  /\ Len(s) \in Nat /\ DOMAIN s = 1..Len(s)
           /\ \A i \in 1..Len(s) : s[i] \in S
           /\ \A x \in S : \E i \in 1..Len(s) : s[i] = x
           /\ \A i, j \in 1..Len(s) : i # j => s[i] # s[j]
<1>1. Len(s) \in Nat /\ DOMAIN s = 1..Len(s) /\ \A i \in 1..Len(s) : s[i] \in S
  BY LenProperties, ElementOfSeq DEF Enumerates
<1>2. S = {s[i] : i \in 1..Len(s)}
  BY <1>1 DEF Enumerates, ToSet
<1>3. QED
  BY <1>1, <1>2 DEF Enumerates, IsInjective

LEMMA EnumerationIs ==
    ASSUME NEW S, NEW s \in Seq(S),
           \A x \in S : \E i \in 1..Len(s) : s[i] = x,
           \A i, j \in 1..Len(s) : i # j => s[i] # s[j]
    PROVE  Enumerates(s, S)
<1>1. Len(s) \in Nat /\ DOMAIN s = 1..Len(s) /\ \A i \in 1..Len(s) : s[i] \in S
  BY LenProperties, ElementOfSeq
<1>2. QED
  BY <1>1 DEF Enumerates, ToSet, IsInjective

LEMMA EnumerationOfTwo ==
    ASSUME NEW S, NEW T, NEW s, NEW t, Enumerates(s, S), Enumerates(t, T), S \cap T = {}
    PROVE  Enumerates(s \o t, S \cup T)
<1> DEFINE U == S \cup T
           u == s \o t
<1>1. s \in Seq(U) /\ t \in Seq(U)
  BY SeqMonotonic DEF Enumerates
<1>2. /\ Len(s) \in Nat /\ \A i \in 1..Len(s) : s[i] \in S
      /\ \A x \in S : \E i \in 1..Len(s) : s[i] = x
      /\ \A i, j \in 1..Len(s) : i # j => s[i] # s[j]
  BY EnumerationFacts
<1>3. /\ Len(t) \in Nat /\ \A i \in 1..Len(t) : t[i] \in T
      /\ \A x \in T : \E i \in 1..Len(t) : t[i] = x
      /\ \A i, j \in 1..Len(t) : i # j => t[i] # t[j]
  BY EnumerationFacts
<1> HIDE DEF U
<1>4. /\ u \in Seq(U) /\ Len(u) = Len(s) + Len(t)
      /\ \A i \in 1..(Len(s) + Len(t)) : u[i] = IF i <= Len(s) THEN s[i] ELSE t[i - Len(s)]
  BY <1>1, ConcatProperties
<1> HIDE DEF u
<1>5. \A i \in 1..Len(s) : i \in 1..Len(u) /\ u[i] = s[i]
  BY <1>2, <1>3, <1>4
<1>6. \A i \in 1..Len(t) : Len(s) + i \in 1..Len(u) /\ u[Len(s) + i] = t[i]
  <2> TAKE i \in 1..Len(t)
  <2>1. Len(s) + i \in 1..(Len(s) + Len(t)) /\ ~(Len(s) + i <= Len(s)) /\ (Len(s) + i) - Len(s) = i
    BY <1>2, <1>3
  <2>2. QED
    BY <1>4, <2>1
<1>7. ASSUME NEW x \in U
      PROVE  \E i \in 1..Len(u) : u[i] = x
  <2>1. CASE x \in S
    <3>1. PICK i \in 1..Len(s) : s[i] = x
      BY <1>2, <2>1
    <3>2. QED
      BY <1>5, <3>1
  <2>2. CASE x \in T
    <3>1. PICK i \in 1..Len(t) : t[i] = x
      BY <1>3, <2>2
    <3>2. QED
      BY <1>6, <3>1
  <2>3. QED
    BY <2>1, <2>2 DEF U
<1>8. ASSUME NEW i \in 1..Len(u)
      PROVE  \/ i \in 1..Len(s) /\ u[i] = s[i] /\ u[i] \in S
             \/ i - Len(s) \in 1..Len(t) /\ u[i] = t[i - Len(s)] /\ u[i] \in T
  BY <1>2, <1>3, <1>4
<1>9. ASSUME NEW i \in 1..Len(u), NEW j \in 1..Len(u), i # j
      PROVE  u[i] # u[j]
  <2>1. i - Len(s) # j - Len(s)
    BY <1>2, <1>3, <1>4, <1>9
  <2>2. QED
    BY <1>2, <1>3, <1>8, <1>9, <2>1
<1>10. Enumerates(u, U)
  BY <1>4, <1>7, <1>9, EnumerationIs
<1>11. QED
  BY <1>10 DEF u, U

LEMMA EnumerationOfASet ==
    ASSUME NEW S, IsFiniteSet(S), NEW q \in SetToSeqs(S)
    PROVE  Enumerates(q, S)
<1> DEFINE n == Cardinality(S)
<1>1. n \in Nat
  BY FS_CardinalityType
<1>2. q \in [1..n -> S] /\ \A i, j \in 1..n : i # j => q[i] # q[j]
  BY DEF SetToSeqs
<1>a. Cardinality(1..n) = n /\ n = Cardinality(S)
  <2>1. 1 \in Int /\ n \in Int
    BY <1>1
  <2> HIDE DEF n
  <2>2. Cardinality(1..n) = IF 1 > n THEN 0 ELSE n - 1 + 1
    BY <2>1, FS_Interval
  <2>3. Cardinality(1..n) = n
    BY <1>1, <2>2
  <2>4. QED
    BY <2>3 DEF n
<1> HIDE DEF n
<1>3. q \in Injection(1..n, S)
  <2>1. DOMAIN q = 1..n
    BY <1>2
  <2>2. IsInjective(q)
    BY <1>2, <2>1 DEF IsInjective
  <2>3. QED
    BY <1>2, <2>2 DEF Injection
<1>4. q \in Surjection(1..n, S)
  BY <1>3, <1>a, FS_Injection
<1>5. q \in Seq(S) /\ Len(q) = n
  BY <1>1, <1>2, SeqDef
<1>6. \A x \in S : \E i \in 1..n : q[i] = x
  BY <1>4 DEF Surjection
<1>7. QED
  BY <1>2, <1>5, <1>6, EnumerationIs
===============================================================================
