------------------------- MODULE DsqlSinkTaskProofs -------------------------
(***************************************************************************)
(* Proofs about DsqlSinkTask, for every set of partitions, every source    *)
(* history, any batch size and budget, any number of failures, crashes and *)
(* rebalances and every interleaving.                                      *)
(*                                                                         *)
(*  1. A commit never passes a held change, and never goes back: from the  *)
(*     inductive invariant OffsetsInv.                                     *)
(*  2. A partition is paused only for a hold of this task: from PausedInv. *)
(*  3. A commit never passes a change nobody dealt with, and every         *)
(*     variable keeps its type: from SettledInv, which relates what a put  *)
(*     has still to apply to what the worker may commit.                   *)
(*  4. Nothing behind a hold is dealt with while it waits.                 *)
(*  5. A change is dead-lettered once per delivery: from ReportsInv.       *)
(*                                                                         *)
(* They rest on what Kept and Partition of SinkBatching return for every   *)
(* input, which comes first.  Both are recursive functions: the induction  *)
(* over their arguments is the least element of a set of naturals, a first *)
(* argument at which the claim would fail.  What DedupedRuns leaves of a   *)
(* chunk's statements follows from the former.                             *)
(***************************************************************************)
EXTENDS DsqlSinkTask, FiniteSetTheorems, SequenceTheorems, TLAPS

-----------------------------------------------------------------------------
(* Induction. *)

\* A non-empty set of naturals has a least element.
LEMMA NatMin ==
  ASSUME NEW T, T \subseteq Nat, T # {}
  PROVE  \E x \in T : \A y \in T : x <= y
<1> DEFINE R == OpToRel(<, Nat)
<1>1. IsWellFoundedOn(R, Nat)
  BY NatLessThanWellFounded
<1>2. PICK x \in T : \A y \in T : ~(<<y, x>> \in R)
  <2> HIDE DEF R
  <2> QED BY <1>1, WFMin
<1>3. \A y \in T : ~(y < x)
  BY <1>2 DEF OpToRel
<1> QED BY <1>3

\* A set that holds 0, and with i also i + 1, holds every number up to n.
LEMMA UpTo ==
  ASSUME NEW n \in Nat, NEW T, 0 \in T, \A i \in 0..(n - 1) : i \in T => i + 1 \in T
  PROVE  0..n \subseteq T
<1> SUFFICES ASSUME (0..n) \ T # {} PROVE FALSE
  OBVIOUS
<1>1. PICK i \in (0..n) \ T : \A j \in (0..n) \ T : i <= j
  <2> DEFINE missing == (0..n) \ T
  <2>1. missing \subseteq Nat /\ missing # {}
    OBVIOUS
  <2>2. \E x \in missing : \A y \in missing : x <= y
    <3> HIDE DEF missing
    <3> QED BY <2>1, NatMin
  <2> QED BY <2>2
<1>2. i # 0 /\ i - 1 \in 0..(n - 1)
  BY <1>1
<1>3. i - 1 \in T
  BY <1>1, <1>2
<1>4. (i - 1) + 1 \in T
  BY <1>2, <1>3
<1> QED BY <1>1, <1>2, <1>4

-----------------------------------------------------------------------------
(* Kept.                                                                   *)

\* Kept unfolds as it is written: it is a function of the prefixes of s.
LEMMA KeptUnfolds ==
  ASSUME NEW s, NEW S, Len(s) \in Nat
  PROVE  \E g : /\ Kept(s, S) = g[Len(s)]
                /\ g[0] = <<>>
                /\ \A i \in 1..Len(s) :
                     g[i] = IF s[i] \in S THEN Append(g[i - 1], s[i]) ELSE g[i - 1]
<1> DEFINE n == Len(s)
           next(v, i) == IF s[i] \in S THEN Append(v, s[i]) ELSE v
           T == {m \in 0..n : \E g : g = [i \in 0..m |-> IF i = 0 THEN <<>> ELSE next(g[i - 1], i)]}
           kept[i \in 0..n] == IF i = 0 THEN <<>> ELSE next(kept[i - 1], i)
<1>1. Kept(s, S) = kept[n]
  BY DEF Kept
<1> HIDE DEF next
<1>2. 0 \in T
  <2> DEFINE g == [i \in 0..0 |-> <<>>]
  <2>1. g = [i \in 0..0 |-> IF i = 0 THEN <<>> ELSE next(g[i - 1], i)]
    OBVIOUS
  <2>2. 0 \in 0..n
    OBVIOUS
  <2> HIDE DEF g
  <2> QED BY <2>1, <2>2
<1>3. ASSUME NEW m \in 0..(n - 1), m \in T PROVE m + 1 \in T
  <2>1. PICK g : g = [i \in 0..m |-> IF i = 0 THEN <<>> ELSE next(g[i - 1], i)]
    BY <1>3
  <2> DEFINE h == [i \in 0..(m + 1) |-> IF i <= m THEN g[i] ELSE next(g[m], i)]
  <2>2. ASSUME NEW i \in 0..(m + 1)
        PROVE  h[i] = IF i = 0 THEN <<>> ELSE next(h[i - 1], i)
    <3>1. CASE i <= m
      <4>1. h[i] = g[i] /\ (i # 0 => h[i - 1] = g[i - 1])
        BY <3>1
      <4>2. i \in 0..m
        BY <3>1
      <4>3. g[i] = IF i = 0 THEN <<>> ELSE next(g[i - 1], i)
        BY <2>1, <4>2
      <4> QED BY <4>1, <4>3
    <3>2. CASE i = m + 1
      <4>1. h[i] = next(g[m], i) /\ h[i - 1] = g[m] /\ i # 0
        BY <3>2
      <4> QED BY <4>1
    <3> QED BY <3>1, <3>2
  <2>3. h = [i \in 0..(m + 1) |-> IF i = 0 THEN <<>> ELSE next(h[i - 1], i)]
    BY <2>2
  <2>4. m + 1 \in 0..n
    OBVIOUS
  <2> HIDE DEF h
  <2> QED BY <2>3, <2>4
<1>4. n \in T
  <2> HIDE DEF T
  <2>1. 0..n \subseteq T
    BY <1>2, <1>3, UpTo
  <2> QED BY <2>1
<1>5. kept = [i \in 0..n |-> IF i = 0 THEN <<>> ELSE next(kept[i - 1], i)]
  BY <1>4
<1> HIDE DEF kept
<1>6. /\ kept[0] = <<>>
      /\ \A i \in 1..n : kept[i] = next(kept[i - 1], i)
  BY <1>5
<1> QED BY <1>1, <1>6 DEF next

\* The items that lie in S, all of them, in their order.
LEMMA KeptFacts ==
  ASSUME NEW T, NEW s \in Seq(T), NEW S
  PROVE  /\ Kept(s, S) \in Seq(T)
         /\ \E at \in [1..Len(Kept(s, S)) -> 1..Len(s)] :
              /\ \A k \in 1..Len(Kept(s, S)) : Kept(s, S)[k] = s[at[k]] /\ s[at[k]] \in S
              /\ \A j, k \in 1..Len(Kept(s, S)) : j < k => at[j] < at[k]
              /\ \A i \in 1..Len(s) : s[i] \in S => \E k \in 1..Len(Kept(s, S)) : at[k] = i
<1> DEFINE n == Len(s)
<1>0. n \in Nat /\ \A i \in 1..n : s[i] \in T
  OBVIOUS
<1>1. PICK g : /\ Kept(s, S) = g[n]
               /\ g[0] = <<>>
               /\ \A i \in 1..n : g[i] = IF s[i] \in S THEN Append(g[i - 1], s[i]) ELSE g[i - 1]
  BY <1>0, KeptUnfolds
<1> DEFINE At(v, i, at) ==
             /\ at \in [1..Len(v) -> 1..i]
             /\ \A k \in 1..Len(v) : v[k] = s[at[k]] /\ s[at[k]] \in S
             /\ \A j, k \in 1..Len(v) : j < k => at[j] < at[k]
             /\ \A j \in 1..i : s[j] \in S => \E k \in 1..Len(v) : at[k] = j
           OK(i) == g[i] \in Seq(T) /\ \E at : At(g[i], i, at)
           Good == {i \in 0..n : OK(i)}
<1>2. 0 \in Good
  <2> DEFINE at == [k \in 1..0 |-> 1]
  <2>1. g[0] = <<>> /\ Len(g[0]) = 0 /\ g[0] \in Seq(T)
    BY <1>1
  <2>2. At(g[0], 0, at)
    BY <2>1
  <2>3. \E b : At(g[0], 0, b)
    <3> HIDE DEF at, At
    <3> QED BY <2>2
  <2>4. OK(0)
    <3> HIDE DEF At
    <3> QED BY <2>1, <2>3
  <2> HIDE DEF OK
  <2> QED BY <1>0, <2>4
<1>3. ASSUME NEW i \in 0..(n - 1), i \in Good PROVE i + 1 \in Good
  <2>1. PICK at : At(g[i], i, at)
    BY <1>3
  <2>2. g[i] \in Seq(T) /\ i + 1 \in 1..n /\ s[i + 1] \in T
    BY <1>0, <1>3
  <2>3. g[i + 1] = IF s[i + 1] \in S THEN Append(g[i], s[i + 1]) ELSE g[i]
    BY <1>1, <2>2
  <2>4. CASE s[i + 1] \notin S
    <3>1. g[i + 1] = g[i]
      BY <2>3, <2>4
    <3>2. At(g[i], i + 1, at)
      BY <2>1, <2>2, <2>4
    <3> HIDE DEF At
    <3> QED BY <2>2, <3>1, <3>2
  <2>5. CASE s[i + 1] \in S
    <3> DEFINE v == g[i]
               w == Append(v, s[i + 1])
               bt == [k \in 1..Len(w) |-> IF k <= Len(v) THEN at[k] ELSE i + 1]
    <3>1. g[i + 1] = w /\ v \in Seq(T)
      BY <2>2, <2>3, <2>5
    <3>2. /\ w \in Seq(T) /\ Len(v) \in Nat /\ Len(w) = Len(v) + 1
          /\ \A k \in 1..Len(v) : w[k] = v[k]
          /\ w[Len(v) + 1] = s[i + 1]
      BY <2>2, <3>1
    <3>3. At(v, i, at)
      BY <2>1
    <3> HIDE DEF v, w
    <3>4. bt \in [1..Len(w) -> 1..(i + 1)]
      BY <3>2, <3>3
    <3>5. \A k \in 1..Len(w) : w[k] = s[bt[k]] /\ s[bt[k]] \in S
      <4> SUFFICES ASSUME NEW k \in 1..Len(w) PROVE w[k] = s[bt[k]] /\ s[bt[k]] \in S
        OBVIOUS
      <4>1. CASE k \in 1..Len(v)
        BY <4>1, <3>2, <3>3
      <4>2. CASE k = Len(v) + 1
        BY <4>2, <3>2, <2>5
      <4> QED BY <4>1, <4>2, <3>2
    <3>6. ASSUME NEW j \in 1..Len(w), NEW k \in 1..Len(w), j < k PROVE bt[j] < bt[k]
      <4>1. j \in 1..Len(v) /\ bt[j] = at[j] /\ at[j] \in 1..i
        BY <3>2, <3>3, <3>6
      <4>2. CASE k \in 1..Len(v)
        BY <4>1, <4>2, <3>3, <3>6
      <4>3. CASE k = Len(v) + 1
        BY <4>1, <4>3, <3>2
      <4> QED BY <4>2, <4>3, <3>2
    <3>7. ASSUME NEW j \in 1..(i + 1), s[j] \in S PROVE \E k \in 1..Len(w) : bt[k] = j
      <4>1. CASE j \in 1..i
        <5>1. PICK k \in 1..Len(v) : at[k] = j
          BY <3>3, <3>7, <4>1
        <5>2. k \in 1..Len(w) /\ bt[k] = j
          BY <5>1, <3>2
        <5> QED BY <5>2
      <4>2. CASE j = i + 1
        <5>1. Len(w) \in 1..Len(w) /\ bt[Len(w)] = j
          BY <4>2, <3>2
        <5> QED BY <5>1
      <4> QED BY <4>1, <4>2
    <3>8. At(w, i + 1, bt)
      <4> HIDE DEF bt
      <4> QED BY <3>4, <3>5, <3>6, <3>7
    <3> HIDE DEF At, bt
    <3> QED BY <2>2, <3>1, <3>2, <3>8
  <2> QED BY <2>4, <2>5
<1>4. n \in Good
  <2> HIDE DEF Good
  <2>1. 0..n \subseteq Good
    BY <1>0, <1>2, <1>3, UpTo
  <2> QED BY <1>0, <2>1
<1>5. PICK at : g[n] \in Seq(T) /\ At(g[n], n, at)
  BY <1>4
<1> QED BY <1>1, <1>5

\* As sets: nothing else is kept.
LEMMA KeptSet ==
  ASSUME NEW T, NEW s \in Seq(T), NEW S
  PROVE  ToSet(Kept(s, S)) = ToSet(s) \cap S
<1>1. PICK at \in [1..Len(Kept(s, S)) -> 1..Len(s)] :
              /\ \A k \in 1..Len(Kept(s, S)) : Kept(s, S)[k] = s[at[k]] /\ s[at[k]] \in S
              /\ \A i \in 1..Len(s) : s[i] \in S => \E k \in 1..Len(Kept(s, S)) : at[k] = i
  BY KeptFacts
<1>2. Kept(s, S) \in Seq(T)
  BY KeptFacts
<1>3. DOMAIN s = 1..Len(s) /\ DOMAIN Kept(s, S) = 1..Len(Kept(s, S))
  BY <1>2
<1>4. ASSUME NEW x \in ToSet(Kept(s, S)) PROVE x \in ToSet(s) /\ x \in S
  <2>1. PICK k \in 1..Len(Kept(s, S)) : x = Kept(s, S)[k]
    BY <1>3 DEF ToSet
  <2>2. at[k] \in 1..Len(s) /\ x = s[at[k]] /\ x \in S
    BY <1>1, <2>1
  <2> QED BY <1>3, <2>2 DEF ToSet
<1>5. ASSUME NEW x \in ToSet(s), x \in S PROVE x \in ToSet(Kept(s, S))
  <2>1. PICK i \in 1..Len(s) : x = s[i]
    BY <1>3 DEF ToSet
  <2>2. PICK k \in 1..Len(Kept(s, S)) : at[k] = i
    BY <1>1, <1>5, <2>1
  <2>3. x = Kept(s, S)[k]
    BY <1>1, <2>1, <2>2
  <2> QED BY <1>3, <2>3 DEF ToSet
<1> QED BY <1>4, <1>5

-----------------------------------------------------------------------------
(* Partition.                                                              *)

\* parts are consecutive pieces of items, in their order: first[k] is the item the k-th piece
\* begins with, and every item lies in one.
Cuts(items, parts, first) ==
  /\ first \in [1..Len(parts) -> 1..Len(items)]
  /\ \A k \in 1..Len(parts), m \in Nat \ {0} : m <= Len(parts[k]) =>
       first[k] + m - 1 \in 1..Len(items) /\ parts[k][m] = items[first[k] + m - 1]
  /\ \A j, k \in 1..Len(parts) : j < k => first[j] + Len(parts[j]) <= first[k]
  /\ \A i \in 1..Len(items) : \E k \in 1..Len(parts), m \in Nat \ {0} :
       m <= Len(parts[k]) /\ i = first[k] + m - 1

\* Batches.partition cuts a put into consecutive chunks: no record is lost, repeated or
\* reordered, whatever the weights, the sizes and the limits.
THEOREM PartitionCuts ==
  ASSUME NEW T, NEW items \in Seq(T), NEW size, NEW maxBytes, NEW sizes, NEW weights,
         NEW parts, parts = Partition(items, size, maxBytes, sizes, weights)
  PROVE  parts \in Seq(Seq(T)) /\ \E first : Cuts(items, parts, first)
<1> DEFINE weight(i, j) == MapThenSumSet(LAMBDA n : weights[n], i..j)
           bytes(i, j) == MapThenSumSet(LAMBDA n : sizes[n], i..j)
           full(f, i) == bytes(f, i) > maxBytes \/ weight(f, i) > size \/ weight(f, i - 1) >= size
           firsts[i \in 0..Len(items)] ==
             IF i = 0 THEN <<>>
             ELSE IF i = 1 \/ full(Last(firsts[i - 1]), i) THEN Append(firsts[i - 1], i)
             ELSE firsts[i - 1]
           first == firsts[Len(items)]
           end(k) == IF k = Len(first) THEN Len(items) ELSE first[k + 1] - 1
<1>1. parts = [k \in DOMAIN first |-> SubSeq(items, first[k], end(k))]
  BY DEF Partition, SplitAt
<1> HIDE DEF weight, bytes, full
<1> DEFINE n == Len(items)
           next(v, i) == IF i = 1 \/ full(Last(v), i) THEN Append(v, i) ELSE v
           Sofar == {m \in 0..n : \E g : g = [i \in 0..m |-> IF i = 0 THEN <<>> ELSE next(g[i - 1], i)]}
<1>2. firsts = CHOOSE g : g = [i \in 0..n |-> IF i = 0 THEN <<>> ELSE next(g[i - 1], i)]
  OBVIOUS
<1> HIDE DEF next, firsts
<1>3. n \in Nat /\ 0 \in 0..n /\ \A i \in 1..n : items[i] \in T
  OBVIOUS
<1>4. n \in Sofar
  <2>1. 0 \in Sofar
    <3> DEFINE g == [i \in 0..0 |-> <<>>]
    <3>1. g = [i \in 0..0 |-> IF i = 0 THEN <<>> ELSE next(g[i - 1], i)]
      OBVIOUS
    <3> HIDE DEF g
    <3> QED BY <1>3, <3>1
  <2>2. ASSUME NEW m \in 0..(n - 1), m \in Sofar PROVE m + 1 \in Sofar
    <3>1. PICK g : g = [i \in 0..m |-> IF i = 0 THEN <<>> ELSE next(g[i - 1], i)]
      BY <2>2
    <3> DEFINE h == [i \in 0..(m + 1) |-> IF i <= m THEN g[i] ELSE next(g[m], i)]
    <3>2. ASSUME NEW i \in 0..(m + 1)
          PROVE  h[i] = IF i = 0 THEN <<>> ELSE next(h[i - 1], i)
      <4>1. CASE i <= m
        <5>1. h[i] = g[i] /\ (i # 0 => h[i - 1] = g[i - 1]) /\ i \in 0..m
          BY <4>1
        <5>2. g[i] = IF i = 0 THEN <<>> ELSE next(g[i - 1], i)
          BY <3>1, <5>1
        <5> QED BY <5>1, <5>2
      <4>2. CASE i = m + 1
        <5>1. h[i] = next(g[m], i) /\ h[i - 1] = g[m] /\ i # 0
          BY <4>2
        <5> QED BY <5>1
      <4> QED BY <4>1, <4>2
    <3>3. h = [i \in 0..(m + 1) |-> IF i = 0 THEN <<>> ELSE next(h[i - 1], i)]
      BY <3>2
    <3>4. m + 1 \in 0..n
      BY <1>3
    <3> HIDE DEF h
    <3> QED BY <3>3, <3>4
  <2> HIDE DEF Sofar
  <2>3. 0..n \subseteq Sofar
    BY <1>3, <2>1, <2>2, UpTo
  <2> QED BY <1>3, <2>3
<1>5. firsts = [i \in 0..n |-> IF i = 0 THEN <<>> ELSE next(firsts[i - 1], i)]
  BY <1>2, <1>4
<1>6. firsts[0] = <<>> /\ \A i \in 1..n : firsts[i] = next(firsts[i - 1], i)
  BY <1>3, <1>5
\* The beginnings increase, from the first item on.
<1> DEFINE OK(i) == /\ firsts[i] \in Seq(1..i)
                    /\ \A j, k \in 1..Len(firsts[i]) : j < k => firsts[i][j] < firsts[i][k]
                    /\ i # 0 => firsts[i] # <<>> /\ firsts[i][1] = 1
           Good == {i \in 0..n : OK(i)}
<1>7. 0 \in Good
  <2>1. OK(0)
    BY <1>6
  <2> HIDE DEF OK
  <2> QED BY <1>3, <2>1
<1>8. ASSUME NEW i \in 0..(n - 1), i \in Good PROVE i + 1 \in Good
  <2> DEFINE v == firsts[i]
             w == firsts[i + 1]
  <2>1. /\ v \in Seq(1..i) /\ \A j, k \in 1..Len(v) : j < k => v[j] < v[k]
        /\ i # 0 => v # <<>> /\ v[1] = 1
        /\ i = 0 => v = <<>>
    BY <1>6, <1>8
  <2>2. w \in {v, Append(v, i + 1)} /\ (i = 0 => w = Append(v, i + 1))
    <3>1. i + 1 \in 1..n /\ (i + 1) - 1 = i
      BY <1>3
    <3>2. w = next(v, i + 1)
      BY <1>6, <3>1
    <3> QED BY <3>2 DEF next
  <2> HIDE DEF v, w
  <2>3. \A k \in 1..Len(v) : v[k] \in 1..i
    BY <2>1
  <2>4. CASE w = v /\ i # 0
    <3>1. w \in Seq(1..(i + 1))
      BY <2>1, <2>4, SeqMonotonic
    <3>2. OK(i + 1)
      BY <2>1, <2>4, <3>1 DEF w
    <3> HIDE DEF OK
    <3> QED BY <1>3, <3>2
  <2>5. CASE w = Append(v, i + 1)
    <3>1. v \in Seq(1..(i + 1)) /\ i + 1 \in 1..(i + 1)
      BY <2>1, SeqMonotonic
    <3>2. /\ w \in Seq(1..(i + 1)) /\ Len(v) \in Nat /\ Len(w) = Len(v) + 1
          /\ \A k \in 1..Len(v) : w[k] = v[k]
          /\ w[Len(v) + 1] = i + 1
      BY <2>5, <3>1
    <3>3. ASSUME NEW j \in 1..Len(w), NEW k \in 1..Len(w), j < k PROVE w[j] < w[k]
      <4>1. j \in 1..Len(v) /\ w[j] = v[j] /\ v[j] \in 1..i
        BY <2>3, <3>2, <3>3
      <4>2. CASE k \in 1..Len(v)
        BY <2>1, <3>2, <3>3, <4>1, <4>2
      <4>3. CASE k = Len(v) + 1
        BY <3>2, <4>1, <4>3
      <4> QED BY <3>2, <4>2, <4>3
    <3>4. w # <<>> /\ w[1] = 1
      <4>1. CASE i = 0
        <5>1. Len(v) = 0
          BY <2>1, <4>1
        <5>2. Len(w) = 1 /\ w[1] = 1
          BY <3>2, <4>1, <5>1
        <5> QED BY <3>2, <5>2
      <4>2. CASE i # 0
        <5>1. 1 \in 1..Len(v)
          BY <2>1, <4>2, <3>2
        <5> QED BY <2>1, <3>2, <4>2, <5>1
      <4> QED BY <4>1, <4>2
    <3>5. OK(i + 1)
      BY <3>2, <3>3, <3>4 DEF w
    <3> HIDE DEF OK
    <3> QED BY <1>3, <3>5
  <2> QED BY <2>2, <2>4, <2>5
<1>9. OK(n)
  <2> HIDE DEF OK
  <2>1. 0..n \subseteq Good
    <3> HIDE DEF Good
    <3> QED BY <1>3, <1>7, <1>8, UpTo
  <2> QED BY <1>3, <2>1
<1>10. /\ first \in Seq(1..n) /\ Len(first) \in Nat /\ DOMAIN first = 1..Len(first)
       /\ \A k \in 1..Len(first) : first[k] \in 1..n
       /\ \A j, k \in 1..Len(first) : j < k => first[j] < first[k]
       /\ n # 0 => 1 \in 1..Len(first) /\ first[1] = 1
       /\ n = 0 => Len(first) = 0
  BY <1>3, <1>6, <1>9
<1> HIDE DEF first
\* A chunk runs from its beginning to the item before the next one.
<1>11. \A k \in 1..Len(first) :
         /\ end(k) \in 1..n /\ first[k] <= end(k)
         /\ \A j \in 1..Len(first) : k < j => end(k) < first[j]
  <2> SUFFICES ASSUME NEW k \in 1..Len(first)
               PROVE  /\ end(k) \in 1..n /\ first[k] <= end(k)
                      /\ \A j \in 1..Len(first) : k < j => end(k) < first[j]
    OBVIOUS
  <2>1. CASE k = Len(first)
    BY <2>1, <1>3, <1>10
  <2>2. CASE k # Len(first)
    <3>0. k + 1 \in 1..Len(first) /\ k < k + 1
      <4>1. Len(first) \in Nat
        BY <1>10
      <4> QED BY <2>2, <4>1
    <3>1. first[k] < first[k + 1] /\ first[k] \in 1..n /\ first[k + 1] \in 1..n
      BY <3>0, <1>10
    <3>2. \A j \in 1..Len(first) : k < j => first[k + 1] <= first[j]
      <4> SUFFICES ASSUME NEW j \in 1..Len(first), k < j PROVE first[k + 1] <= first[j]
        OBVIOUS
      <4>1. j = k + 1 \/ k + 1 < j
        BY <1>10
      <4> QED BY <4>1, <3>0, <3>1, <1>10
    <3>3. end(k) = first[k + 1] - 1
      BY <2>2
    <3>4. end(k) \in 1..n /\ first[k] <= end(k)
      BY <1>3, <3>1, <3>3
    <3>5. ASSUME NEW j \in 1..Len(first), k < j PROVE end(k) < first[j]
      <4>1. first[j] \in Nat /\ first[k + 1] <= first[j]
        BY <3>2, <3>5, <1>10
      <4> QED BY <3>1, <3>3, <4>1
    <3> QED BY <3>4, <3>5
  <2> QED BY <2>1, <2>2
<1> HIDE DEF end
<1>12. DOMAIN parts = 1..Len(first) /\ \A k \in 1..Len(first) : parts[k] = SubSeq(items, first[k], end(k))
  BY <1>1, <1>10
<1>13. \A k \in 1..Len(first) :
         /\ parts[k] \in Seq(T)
         /\ Len(parts[k]) = end(k) - first[k] + 1
         /\ \A m \in 1..(end(k) - first[k] + 1) : parts[k][m] = items[first[k] + m - 1]
  <2> SUFFICES ASSUME NEW k \in 1..Len(first)
               PROVE  /\ parts[k] \in Seq(T)
                      /\ Len(parts[k]) = end(k) - first[k] + 1
                      /\ \A m \in 1..(end(k) - first[k] + 1) : parts[k][m] = items[first[k] + m - 1]
    OBVIOUS
  <2>1. /\ first[k] \in Int /\ end(k) \in Int /\ first[k] <= end(k)
        /\ \A i \in first[k]..end(k) : items[i] \in T
    BY <1>3, <1>10, <1>11
  <2> DEFINE a == first[k]
             b == end(k)
  <2>2. parts[k] = SubSeq(items, a, b)
    BY <1>12
  <2> HIDE DEF a, b
  <2>3. /\ SubSeq(items, a, b) \in Seq(T)
        /\ Len(SubSeq(items, a, b)) = b - a + 1
        /\ \A m \in 1..(b - a + 1) : SubSeq(items, a, b)[m] = items[a + m - 1]
    BY <2>1, SubSeqProperties DEF a, b
  <2> QED BY <2>2, <2>3 DEF a, b
<1>14. Len(parts) = Len(first) /\ parts \in Seq(Seq(T))
  BY <1>1, <1>10, <1>12, <1>13
<1>15. \A k \in 1..Len(parts), m \in Nat \ {0} : m <= Len(parts[k]) =>
         first[k] + m - 1 \in 1..n /\ parts[k][m] = items[first[k] + m - 1]
  <2> SUFFICES ASSUME NEW k \in 1..Len(parts), NEW m \in Nat \ {0}, m <= Len(parts[k])
               PROVE  first[k] + m - 1 \in 1..n /\ parts[k][m] = items[first[k] + m - 1]
    OBVIOUS
  <2>1. /\ first[k] \in 1..n /\ end(k) \in 1..n
        /\ Len(parts[k]) = end(k) - first[k] + 1
    BY <1>10, <1>11, <1>13, <1>14
  <2>2. m \in 1..(end(k) - first[k] + 1) /\ first[k] + m - 1 \in 1..n
    BY <1>3, <2>1
  <2> QED BY <1>13, <1>14, <2>2
<1>16. \A j, k \in 1..Len(parts) : j < k => first[j] + Len(parts[j]) <= first[k]
  <2> SUFFICES ASSUME NEW j \in 1..Len(parts), NEW k \in 1..Len(parts), j < k
               PROVE  first[j] + Len(parts[j]) <= first[k]
    OBVIOUS
  <2>1. /\ first[j] \in 1..n /\ first[k] \in 1..n /\ end(j) \in 1..n
        /\ Len(parts[j]) = end(j) - first[j] + 1 /\ end(j) < first[k]
    BY <1>10, <1>11, <1>13, <1>14
  <2> QED BY <1>3, <2>1
\* An item lies in the first chunk that does not end before it.
<1>17. ASSUME NEW i \in 1..n
       PROVE  \E k \in 1..Len(parts), m \in Nat \ {0} : m <= Len(parts[k]) /\ i = first[k] + m - 1
  <2> DEFINE after == {k \in 1..Len(first) : i <= end(k)}
  <2>1. after \subseteq Nat /\ after # {}
    <3>1. Len(first) \in 1..Len(first) /\ end(Len(first)) = n
      BY <1>10 DEF end
    <3> QED BY <3>1
  <2>2. PICK k \in after : \A j \in after : k <= j
    <3> HIDE DEF after
    <3> QED BY <2>1, NatMin
  <2>3. first[k] <= i
    <3>1. CASE k = 1
      BY <3>1, <1>10
    <3>2. CASE k # 1
      <4>1. k - 1 \in 1..Len(first) /\ k - 1 \notin after
        BY <3>2, <2>2
      <4>2. end(k - 1) = first[k] - 1
        <5>1. Len(first) \in Nat /\ k \in 1..Len(first)
          BY <1>10, <2>2
        <5>2. k - 1 # Len(first) /\ (k - 1) + 1 = k
          BY <5>1
        <5> QED BY <5>2 DEF end
      <4>3. end(k - 1) \in 1..n /\ ~(i <= end(k - 1)) /\ first[k] \in 1..n
        BY <4>1, <1>10, <1>11, <2>2
      <4> QED BY <4>2, <4>3
    <3> QED BY <3>1, <3>2
  <2>4. i - first[k] + 1 \in Nat \ {0} /\ i - first[k] + 1 <= Len(parts[k])
    <3>1. /\ first[k] \in 1..n /\ end(k) \in 1..n /\ i <= end(k)
          /\ Len(parts[k]) = end(k) - first[k] + 1
      BY <2>2, <1>10, <1>11, <1>13
    <3> QED BY <2>3, <3>1
  <2>5. i = first[k] + (i - first[k] + 1) - 1
    BY <2>2, <1>10
  <2> QED BY <2>2, <2>4, <2>5, <1>14
<1>18. first \in [1..Len(parts) -> 1..n]
  BY <1>10, <1>14
<1>19. Cuts(items, parts, first)
  BY <1>15, <1>16, <1>17, <1>18 DEF Cuts
<1> QED BY <1>14, <1>19

-----------------------------------------------------------------------------
(* Offsets. *)

\* Max of a bounded non-empty set of naturals is its greatest element: the last offset of a
\* partition in a batch (lastOffset), the offset after it that Connect may commit.
LEMMA MaxOfBounded ==
  ASSUME NEW S, NEW M \in Nat, S \subseteq 0..M, S # {}
  PROVE  Max(S) \in S /\ \A y \in S : Max(S) >= y
<1> DEFINE T == {M - x : x \in S}
<1>1. \A x \in S : x \in Nat /\ x <= M
  OBVIOUS
<1>2. T \subseteq Nat
  <2> SUFFICES ASSUME NEW x \in S PROVE M - x \in Nat
    OBVIOUS
  <2> QED BY <1>1
<1>3. T # {}
  OBVIOUS
<1>4. PICK t \in T : \A y \in T : t <= y
  <2> HIDE DEF T
  <2> QED BY <1>2, <1>3, NatMin
<1>5. PICK x \in S : t = M - x
  OBVIOUS
<1>6. \A y \in S : x >= y
  <2> SUFFICES ASSUME NEW y \in S PROVE x >= y
    OBVIOUS
  <2>1. M - y \in T
    OBVIOUS
  <2>2. M - x <= M - y
    BY <1>4, <1>5, <2>1
  <2> QED BY <1>1, <2>2
<1> QED BY <1>6 DEF Max

-----------------------------------------------------------------------------
(* runEnd / dedupeRunByPk: what the collapse of the runs leaves. *)

\* The indices that lie in S, in increasing order.
LEMMA IndicesKept ==
  ASSUME NEW T, NEW ids \in Seq(T), NEW S, \A i \in 1..Len(ids) : ids[i] = i
  PROVE  /\ Len(Kept(ids, S)) \in Nat /\ DOMAIN Kept(ids, S) = 1..Len(Kept(ids, S))
         /\ \A k \in DOMAIN Kept(ids, S) : Kept(ids, S)[k] \in 1..Len(ids) /\ Kept(ids, S)[k] \in S
         /\ \A j, k \in DOMAIN Kept(ids, S) : j < k => Kept(ids, S)[j] < Kept(ids, S)[k]
         /\ \A i \in 1..Len(ids) : i \in S => \E k \in DOMAIN Kept(ids, S) : Kept(ids, S)[k] = i
<1>1. Kept(ids, S) \in Seq(T)
  BY KeptFacts
<1>2. PICK at \in [1..Len(Kept(ids, S)) -> 1..Len(ids)] :
        /\ \A k \in 1..Len(Kept(ids, S)) : Kept(ids, S)[k] = ids[at[k]] /\ ids[at[k]] \in S
        /\ \A j, k \in 1..Len(Kept(ids, S)) : j < k => at[j] < at[k]
        /\ \A i \in 1..Len(ids) : ids[i] \in S => \E k \in 1..Len(Kept(ids, S)) : at[k] = i
  BY KeptFacts
<1>3. PICK kept : kept = Kept(ids, S)
  OBVIOUS
<1>4. Len(kept) \in Nat /\ DOMAIN kept = 1..Len(kept)
  BY <1>1, <1>3
<1>5. \A k \in 1..Len(kept) : at[k] \in 1..Len(ids) /\ kept[k] = at[k] /\ kept[k] \in S
  BY <1>2, <1>3
<1>6. \A j, k \in 1..Len(kept) : j < k => kept[j] < kept[k]
  BY <1>2, <1>3, <1>5
<1>7. ASSUME NEW i \in 1..Len(ids), i \in S PROVE \E k \in 1..Len(kept) : kept[k] = i
  <2>1. PICK k \in 1..Len(kept) : at[k] = i
    BY <1>2, <1>3, <1>7
  <2> QED BY <2>1, <1>5
<1>8. \A k \in 1..Len(kept) : kept[k] \in 1..Len(ids) /\ kept[k] \in S
  BY <1>5
<1> QED BY <1>3, <1>4, <1>6, <1>7, <1>8

\* What the definition of DedupedRuns calls them: two statements of one run, the repeats of one.
SameRun(st, i, j) == \A m \in (i..j) \cup (j..i) : RenderSql(st[m]) = RenderSql(st[i])
Repeats(st, i) == {j \in DOMAIN st : st[j].key = st[i].key /\ SameRun(st, i, j)}
FirstOnes(st) == {i \in DOMAIN st : i = Min(Repeats(st, i))}

\* The collapse: the last of the repeats of each first one.
LEMMA DedupedIs ==
  \A st : DedupedRuns(st) =
    LET kept == Kept([i \in DOMAIN st |-> i], FirstOnes(st))
    IN [n \in DOMAIN kept |-> st[Max(Repeats(st, kept[n]))]]
BY DEF DedupedRuns, SameRun, Repeats, FirstOnes

\* A repeat of a statement has its repeats, and its SQL.
LEMMA RepeatsAlike ==
  ASSUME NEW st, NEW n \in Nat, DOMAIN st = 1..n, NEW i \in 1..n, NEW j \in Repeats(st, i)
  PROVE  /\ j \in 1..n /\ st[j].key = st[i].key /\ RenderSql(st[j]) = RenderSql(st[i])
         /\ Repeats(st, j) = Repeats(st, i)
<1>1. j \in 1..n /\ st[j].key = st[i].key /\ \A m \in (i..j) \cup (j..i) : RenderSql(st[m]) = RenderSql(st[i])
  BY DEF Repeats, SameRun
<1>2. RenderSql(st[j]) = RenderSql(st[i])
  <2>1. j \in (i..j) \cup (j..i)
    BY <1>1
  <2> QED BY <1>1, <2>1
<1>3. ASSUME NEW k \in 1..n PROVE SameRun(st, j, k) <=> SameRun(st, i, k)
  <2>1. ASSUME NEW m \in (i..k) \cup (k..i) PROVE m \in (j..k) \cup (k..j) \/ m \in (i..j) \cup (j..i)
    BY <1>1
  <2>2. ASSUME NEW m \in (j..k) \cup (k..j) PROVE m \in (i..k) \cup (k..i) \/ m \in (i..j) \cup (j..i)
    BY <1>1
  <2>3. ASSUME SameRun(st, j, k) PROVE SameRun(st, i, k)
    BY <2>1, <2>3, <1>1, <1>2 DEF SameRun
  <2>4. ASSUME SameRun(st, i, k) PROVE SameRun(st, j, k)
    BY <2>2, <2>4, <1>1, <1>2 DEF SameRun
  <2> QED BY <2>3, <2>4
<1>4. Repeats(st, j) = Repeats(st, i)
  BY <1>1, <1>3 DEF Repeats
<1> QED BY <1>1, <1>2, <1>4

\* The first and the last of the repeats of a statement.
LEMMA FirstAndLast ==
  ASSUME NEW st, NEW n \in Nat, DOMAIN st = 1..n, NEW i \in 1..n
  PROVE  /\ i \in Repeats(st, i) /\ Repeats(st, i) \subseteq 1..n
         /\ Min(Repeats(st, i)) \in Repeats(st, i) /\ \A y \in Repeats(st, i) : Min(Repeats(st, i)) <= y
         /\ Max(Repeats(st, i)) \in Repeats(st, i)
         /\ Min(Repeats(st, i)) \in FirstOnes(st)
<1> DEFINE R == Repeats(st, i)
<1>1. i \in R /\ R \subseteq 1..n
  BY DEF Repeats, SameRun
<1>2. Min(R) \in R /\ \A y \in R : Min(R) <= y
  <2> HIDE DEF R
  <2>1. R \subseteq Nat /\ R # {}
    BY <1>1
  <2>2. \E x \in R : \A y \in R : x <= y
    BY <2>1, NatMin
  <2> QED BY <2>2 DEF Min
<1>3. Max(R) \in R
  <2> HIDE DEF R
  <2>1. R \subseteq 0..n /\ R # {}
    BY <1>1
  <2> QED BY <2>1, MaxOfBounded
<1>4. Repeats(st, Min(R)) = R /\ Min(R) \in 1..n
  BY <1>2, RepeatsAlike
<1>5. Min(R) \in FirstOnes(st)
  BY <1>4 DEF FirstOnes
<1> QED BY <1>1, <1>2, <1>3, <1>5

\* dedupeRunByPk: whatever the statements, no run of the same SQL has a primary key twice after
\* the collapse, as the rewritten multi-row upsert demands, also where the collapse of another
\* run in between could have joined two.
THEOREM DedupedHasNoKeyTwice ==
  ASSUME NEW st, NEW n \in Nat, DOMAIN st = 1..n
  PROVE  NoKeyTwice(DedupedRuns(st))
<1> DEFINE S == FirstOnes(st)
           ids == [i \in DOMAIN st |-> i]
           kept == Kept(ids, S)
           res == DedupedRuns(st)
<1>1. /\ DOMAIN kept = 1..Len(kept) /\ Len(kept) \in Nat
      /\ \A k \in DOMAIN kept : kept[k] \in 1..n /\ kept[k] \in S
      /\ \A j, k \in DOMAIN kept : j < k => kept[j] < kept[k]
      /\ \A i \in 1..n : i \in S => \E k \in DOMAIN kept : kept[k] = i
  <2>1. ids \in Seq(Nat) /\ Len(ids) = n /\ \A i \in 1..n : ids[i] = i
    OBVIOUS
  <2> HIDE DEF S, ids
  <2> QED BY <2>1, IndicesKept
<1>2. res = [k \in DOMAIN kept |-> st[Max(Repeats(st, kept[k]))]]
  BY DedupedIs
<1> HIDE DEF res, kept
<1>3. ASSUME NEW k \in DOMAIN kept
      PROVE  res[k].key = st[kept[k]].key /\ RenderSql(res[k]) = RenderSql(st[kept[k]])
  <2>1. kept[k] \in 1..n /\ res[k] = st[Max(Repeats(st, kept[k]))]
    BY <1>1, <1>2
  <2>2. Max(Repeats(st, kept[k])) \in Repeats(st, kept[k])
    BY <2>1, FirstAndLast
  <2> QED BY <2>1, <2>2, RepeatsAlike
<1>4. ASSUME NEW i \in DOMAIN kept, NEW j \in DOMAIN kept, i < j,
             \A m \in i..j : RenderSql(res[m]) = RenderSql(res[i]), res[i].key = res[j].key
      PROVE  FALSE
  <2> DEFINE a == kept[i]  b == kept[j]
  <2>1. a \in 1..n /\ b \in 1..n /\ a < b /\ a \in S /\ b \in S
    BY <1>1, <1>4
  <2>2. st[a].key = st[b].key
    BY <1>3, <1>4
  <2>3. ASSUME NEW c \in a..b, RenderSql(st[c]) # RenderSql(st[a]) PROVE FALSE
    <3> HIDE DEF a, b
    <3>1. c \in 1..n
      BY <2>1
    <3> DEFINE d == Min(Repeats(st, c))
    <3>2. d \in Repeats(st, c) /\ d <= c /\ d \in S /\ d \in 1..n
      BY <3>1, FirstAndLast
    <3>3. RenderSql(st[d]) = RenderSql(st[c]) /\ \A m \in d..c : RenderSql(st[m]) = RenderSql(st[c])
      <4>1. RenderSql(st[d]) = RenderSql(st[c])
        BY <3>1, <3>2, RepeatsAlike
      <4>2. \A m \in d..c : RenderSql(st[m]) = RenderSql(st[c])
        BY <3>2 DEF Repeats, SameRun
      <4> QED BY <4>1, <4>2
    <3> HIDE DEF d
    <3>4. a < d
      <4>1. ASSUME d <= a PROVE FALSE
        <5>1. a \in d..c
          BY <4>1, <2>1, <3>2
        <5> QED BY <5>1, <3>3, <2>3
      <4> QED BY <4>1, <2>1, <3>2
    <3>5. PICK m \in DOMAIN kept : kept[m] = d
      BY <1>1, <3>2
    <3>6. i < m /\ m <= j
      <4>1. m \in Nat /\ i \in Nat /\ j \in Nat
        BY <1>1
      <4>2. d <= b
        BY <2>1, <3>1, <3>2
      <4>3. ASSUME m <= i PROVE FALSE
        <5>1. m = i \/ m < i
          BY <4>1, <4>3
        <5>2. kept[m] = kept[i] \/ kept[m] < kept[i]
          BY <5>1, <1>1
        <5> QED BY <5>2, <3>4, <3>5, <3>2, <2>1 DEF a
      <4>4. ASSUME j < m PROVE FALSE
        <5>1. kept[j] < kept[m]
          BY <4>4, <1>1
        <5> QED BY <5>1, <4>2, <3>5, <3>2, <2>1 DEF b
      <4> QED BY <4>1, <4>3, <4>4
    <3>7. RenderSql(res[m]) = RenderSql(res[i])
      <4>1. m \in i..j
        BY <3>6, <1>1
      <4> QED BY <4>1, <1>4
    <3>8. RenderSql(st[d]) = RenderSql(st[a])
      BY <3>5, <3>7, <1>3 DEF a
    <3> QED BY <3>3, <3>8, <2>3
  <2> HIDE DEF a, b
  <2>4. a \in Repeats(st, b)
    <3>1. \A m \in a..b : RenderSql(st[m]) = RenderSql(st[b])
      <4>1. b \in a..b
        BY <2>1
      <4> QED BY <4>1, <2>3
    <3>2. b..a = {}
      BY <2>1
    <3>3. SameRun(st, b, a)
      BY <3>1, <3>2 DEF SameRun
    <3> QED BY <2>1, <2>2, <3>3 DEF Repeats
  <2>5. b = Min(Repeats(st, b))
    BY <2>1 DEF FirstOnes
  <2>6. b <= a
    BY <2>1, <2>4, <2>5, FirstAndLast
  <2> QED BY <2>1, <2>6
<1>5. DOMAIN res = DOMAIN kept
  BY <1>2
<1>6. NoKeyTwice(res)
  BY <1>4, <1>5 DEF NoKeyTwice
<1> QED BY <1>6 DEF res

-----------------------------------------------------------------------------
(* The records of a history. *)

\* A record names a partition and one of its offsets.
LEMMA RecordFacts ==
  ASSUME source \in SourceHistories
  PROVE  /\ \A r \in Records : /\ r.p \in Partitions /\ r.o \in Nat \ {0}
                               /\ r.o <= Len(log[r.p])
         /\ \A p \in Partitions : Len(log[p]) \in Nat
         /\ \A p \in Partitions, o \in Nat \ {0} :
              o <= Len(log[p]) => [p |-> p, o |-> o] \in Records
<1>1. \A p \in Partitions : log[p] \in Seq(Changes)
  BY DEF SourceHistories, log
<1>2. \A p \in Partitions : Len(log[p]) \in Nat
  BY <1>1
<1> QED BY <1>2 DEF Records

\* A log is finite, so the records are.
LEMMA RecordsFinite ==
  ASSUME source \in SourceHistories
  PROVE  IsFiniteSet(Records)
<1> DEFINE In(p) == [p: {p}, o: 1..Len(log[p])]
           All == {In(p) : p \in Partitions}
<1>1. ASSUME NEW p \in Partitions PROVE IsFiniteSet(In(p))
  <2>1. IsFiniteSet(1..Len(log[p]))
    BY RecordFacts, FS_Interval
  <2> DEFINE f == [i \in 1..Len(log[p]) |-> [p |-> p, o |-> i]]
  <2>2. f \in Surjection(1..Len(log[p]), In(p))
    <3>1. f \in [1..Len(log[p]) -> In(p)]
      OBVIOUS
    <3>2. ASSUME NEW r \in In(p) PROVE \E i \in 1..Len(log[p]) : f[i] = r
      <4>1. r.o \in 1..Len(log[p]) /\ r = [p |-> p, o |-> r.o]
        OBVIOUS
      <4> QED BY <4>1
    <3> HIDE DEF f, In
    <3> QED BY <3>1, <3>2 DEF Surjection
  <2> HIDE DEF f, In
  <2> QED BY <2>1, <2>2, FS_Surjection
<1>2. IsFiniteSet(All)
  <2> DEFINE g == [p \in Partitions |-> In(p)]
  <2>1. g \in Surjection(Partitions, All)
    <3> HIDE DEF In
    <3> QED BY DEF Surjection
  <2> HIDE DEF g, All
  <2> QED BY <2>1, PartitionsAssumption, FS_Surjection
<1>3. \A T \in All : IsFiniteSet(T)
  BY <1>1
<1>4. Records = UNION All
  BY DEF Records
<1> HIDE DEF All
<1> QED BY <1>2, <1>3, <1>4, FS_UNION

\* The sequences of a finite set hold all its elements.
LEMMA SetToSeqsFacts ==
  ASSUME NEW K, IsFiniteSet(K), NEW s \in SetToSeqs(K)
  PROVE  ToSet(s) = K
<1> DEFINE D == 1..Cardinality(K)
<1>1. Cardinality(K) \in Nat
  BY FS_CardinalityType
<1>2. IsFiniteSet(D) /\ Cardinality(D) = Cardinality(K)
  BY <1>1, FS_Interval
<1>3. s \in [D -> K] /\ \A i, j \in D : i # j => s[i] # s[j]
  BY DEF SetToSeqs
<1> HIDE DEF D
<1>4. s \in Injection(D, K)
  BY <1>3 DEF Injection, IsInjective
<1>5. s \in Surjection(D, K)
  BY <1>2, <1>4, FS_Injection
<1> QED BY <1>3, <1>5 DEF Surjection, ToSet

\* The last offset of a partition in a batch is the offset of one of its records.
LEMMA LastOffsetFacts ==
  ASSUME OffsetTypes, NEW p \in Partitions, Delivered(p) # {}
  PROVE  /\ LastOffset(p) \in Nat
         /\ \E r \in Delivered(p) : LastOffset(p) = r.o
         /\ \A r \in Delivered(p) : r.o <= LastOffset(p)
<1> DEFINE S == {r.o : r \in Delivered(p)}
<1>1. \A r \in Delivered(p) : r.o \in 0..Len(log[p])
  BY RecordFacts DEF Delivered, OffsetTypes
<1>2. Len(log[p]) \in Nat
  BY RecordFacts DEF OffsetTypes
<1>3. S \subseteq 0..Len(log[p]) /\ S # {}
  BY <1>1
<1>4. Max(S) \in S /\ \A y \in S : Max(S) >= y
  <2> HIDE DEF S
  <2> QED BY <1>2, <1>3, MaxOfBounded
<1>5. LastOffset(p) = Max(S)
  BY DEF LastOffset
<1>6. PICK r \in Delivered(p) : Max(S) = r.o
  BY <1>4
<1>7. \A x \in Delivered(p) : x.o \in S
  OBVIOUS
<1> HIDE DEF S
<1> QED BY <1>1, <1>4, <1>5, <1>6, <1>7

-----------------------------------------------------------------------------
(* Steps that move no offset. *)

\* What the task changes in a hold never moves it.
LEMMA HoldUpdates ==
  ASSUME NEW h \in Holds
  PROVE  /\ \A e \in {"applied", "dead", "replaced"} :
              [h EXCEPT !.ended = e] \in Holds /\ [h EXCEPT !.ended = e].offset = h.offset
         /\ [h EXCEPT !.lookahead = FALSE] \in Holds /\ [h EXCEPT !.lookahead = FALSE].offset = h.offset
         /\ [h EXCEPT !.age = 0] \in Holds /\ [h EXCEPT !.age = 0].offset = h.offset
         /\ [h EXCEPT !.due = FALSE] \in Holds /\ [h EXCEPT !.due = FALSE].offset = h.offset
         /\ [h EXCEPT !.due = FALSE, !.age = 0] \in Holds
         /\ [h EXCEPT !.due = FALSE, !.age = 0].offset = h.offset
         /\ [h EXCEPT !.due = TRUE, !.age = Lower(@ + 1, Budget)] \in Holds
         /\ [h EXCEPT !.due = TRUE, !.age = Lower(@ + 1, Budget)].offset = h.offset
<1>1. 0 \in 0..Budget
  BY BudgetAssumption
<1>2. \A e \in {"applied", "dead", "replaced"} :
        [h EXCEPT !.ended = e] \in Holds /\ [h EXCEPT !.ended = e].offset = h.offset
  BY DEF Holds
<1>3. [h EXCEPT !.lookahead = FALSE] \in Holds /\ [h EXCEPT !.lookahead = FALSE].offset = h.offset
  BY DEF Holds
<1>4. [h EXCEPT !.age = 0] \in Holds /\ [h EXCEPT !.age = 0].offset = h.offset
  BY <1>1 DEF Holds
<1>5. [h EXCEPT !.due = FALSE] \in Holds /\ [h EXCEPT !.due = FALSE].offset = h.offset
  BY DEF Holds
<1>6. [h EXCEPT !.due = FALSE, !.age = 0] \in Holds
      /\ [h EXCEPT !.due = FALSE, !.age = 0].offset = h.offset
  BY <1>1 DEF Holds
<1>7. [h EXCEPT !.due = TRUE, !.age = Lower(@ + 1, Budget)] \in Holds
      /\ [h EXCEPT !.due = TRUE, !.age = Lower(@ + 1, Budget)].offset = h.offset
  <2>1. Lower(h.age + 1, Budget) \in 0..Budget
    BY BudgetAssumption DEF Holds, Lower
  <2> DEFINE older == Lower(h.age + 1, Budget)
  <2>2. [h EXCEPT !.due = TRUE, !.age = older] \in Holds
        /\ [h EXCEPT !.due = TRUE, !.age = older].offset = h.offset
    <3> HIDE DEF older
    <3>1. older \in 0..Budget
      BY <2>1 DEF older
    <3> QED BY <3>1 DEF Holds
  <2> QED BY <2>2
<1> QED BY <1>2, <1>3, <1>4, <1>5, <1>6, <1>7

HoldsKept ==
  /\ hold' \in [Partitions -> Holds \cup {NoHold}]
  /\ \A p \in Partitions : (hold'[p] = NoHold) <=> (hold[p] = NoHold)
  /\ \A p \in Partitions : hold[p] # NoHold => hold'[p].offset = hold[p].offset

\* A step that keeps the worker's offsets, the batch, the caps and where the holds stand
\* keeps the invariant.
LEMMA OffsetsFrame ==
  ASSUME OffsetsInv,
         UNCHANGED <<source, position, current, committed, rewind, batch, releasedCaps>>,
         HoldsKept, PutPhases', untried' \subseteq Partitions
  PROVE  OffsetsInv'
<1>1. OffsetTypes'
  BY DEF OffsetsInv, OffsetTypes, HoldsKept, Records, log, ChangeAt
<1>2. ASSUME NEW p \in Partitions PROVE PartitionOffsets(p)'
  <2>1. PartitionOffsets(p)
    BY DEF OffsetsInv
  <2>2. Rewound(current)'[p] = Rewound(current)[p] /\ Rewound(position)'[p] = Rewound(position)[p]
    BY DEF Rewound
  <2>3. Delivered(p)' = Delivered(p)
    BY DEF Delivered
  <2>4. CASE hold[p] = NoHold
    BY <2>1, <2>2, <2>3, <2>4 DEF PartitionOffsets, FreePartition, HoldsKept
  <2>5. CASE hold[p] # NoHold
    BY <2>1, <2>2, <2>3, <2>5 DEF PartitionOffsets, HeldPartition, HoldsKept
  <2> QED BY <2>4, <2>5
<1> QED BY <1>1, <1>2 DEF OffsetsInv

\* Of the steps of a put, these move no offset (SkipHeldTail, CommitUnit, ..., KeepHeld).
LEMMA HoldsUnchanged ==
  ASSUME OffsetsInv, UNCHANGED hold
  PROVE  HoldsKept
BY DEF OffsetsInv, OffsetTypes, HoldsKept

LEMMA ApplyKeepsOffsets ==
  ASSUME OffsetsInv,
         \/ SkipHeldTail \/ CommitUnit \/ IsolateRows \/ RerunLanded \/ StartResolve
         \/ \E r \in ToSet(batch) : SkipSuperseded(r) \/ QuarantineRow(r) \/ FailOnRow(r)
  PROVE  OffsetsInv'
<1>1. UNCHANGED <<source, position, current, committed, rewind, batch, releasedCaps, hold>>
  BY DEF SkipHeldTail, CommitUnit, IsolateRows, RerunLanded, StartResolve, SkipSuperseded,
         QuarantineRow, FailOnRow, TaskFails, connect, task
<1>2. PutPhases' /\ untried' \subseteq Partitions
  <2>1. PutPhases /\ untried \subseteq Partitions
    BY DEF OffsetsInv, OffsetTypes
  <2>2. CASE StartResolve
    BY <2>1, <2>2 DEF StartResolve, PutPhases, Waits, connect, task
  <2>3. CASE SkipHeldTail \/ CommitUnit \/ IsolateRows \/ RerunLanded
             \/ \E r \in ToSet(batch) : SkipSuperseded(r) \/ QuarantineRow(r)
    <3>1. UNCHANGED <<pc, untried, redelivering>>
      BY <2>3 DEF SkipHeldTail, CommitUnit, IsolateRows, RerunLanded, SkipSuperseded, QuarantineRow,
                  task, put
    <3> QED BY <2>1, <3>1, <1>1 DEF PutPhases
  <2>4. CASE \E r \in ToSet(batch) : FailOnRow(r)
    <3>1. pc' = "failed" /\ UNCHANGED <<untried, redelivering>>
      BY <2>4 DEF FailOnRow, TaskFails, task
    <3> QED BY <2>1, <3>1, <1>1 DEF PutPhases
  <2> QED BY <2>2, <2>3, <2>4
<1> QED BY <1>1, <1>2, OffsetsFrame, HoldsUnchanged

LEMMA ThrowKeepsOffsets ==
  ASSUME OffsetsInv, Throw
  PROVE  OffsetsInv'
<1>1. UNCHANGED <<source, position, current, committed, rewind, batch, releasedCaps>>
  BY DEF Throw, connect
<1>2. HoldsKept
  <2>1. \A p \in Partitions : Waits(p) =>
          /\ [hold[p] EXCEPT !.age = 0] \in Holds
          /\ [hold[p] EXCEPT !.age = 0].offset = hold[p].offset
    BY HoldUpdates DEF OffsetsInv, OffsetTypes, Waits
  <2> QED BY <2>1, NoHoldAssumption DEF Throw, HoldsKept, OffsetsInv, OffsetTypes, Waits
<1>3. PutPhases' /\ untried' \subseteq Partitions
  <2>1. PutPhases /\ untried \subseteq Partitions
    BY DEF OffsetsInv, OffsetTypes
  <2>2. untried = {}
    BY <2>1 DEF Throw, Busy, PutPhases
  <2> QED BY <2>1, <2>2 DEF Throw, Busy, PutPhases, connect
<1> QED BY <1>1, <1>2, <1>3, OffsetsFrame

\* A try of a held change: applied, kept, expired or unanswered.
LEMMA TryKeepsOffsets ==
  ASSUME OffsetsInv, NEW p \in Partitions,
         ApplyHeld(p) \/ KeepHeld(p) \/ ExpireHeld(p) \/ Unanswered(p)
  PROVE  OffsetsInv'
<1>1. UNCHANGED <<source, position, current, committed, rewind, batch, releasedCaps, redelivering>>
  BY DEF ApplyHeld, KeepHeld, ExpireHeld, Unanswered, TaskFails, connect, task
<1>2. pc = "resolve" /\ p \in untried
  BY DEF ApplyHeld, KeepHeld, ExpireHeld, Unanswered, Trying
<1>3. hold[p] # NoHold
  BY <1>2 DEF OffsetsInv, PutPhases
<1>4. \A q \in Partitions : hold[q] # NoHold =>
        /\ hold[q] \in Holds
        /\ \A e \in {"applied", "dead"} : [hold[q] EXCEPT !.ended = e] \in Holds
        /\ \A e \in {"applied", "dead"} : [hold[q] EXCEPT !.ended = e].offset = hold[q].offset
        /\ [hold[q] EXCEPT !.due = FALSE] \in Holds
        /\ [hold[q] EXCEPT !.due = FALSE].offset = hold[q].offset
        /\ [hold[q] EXCEPT !.due = FALSE, !.age = 0] \in Holds
        /\ [hold[q] EXCEPT !.due = FALSE, !.age = 0].offset = hold[q].offset
  <2>1. \A q \in Partitions : hold[q] # NoHold => hold[q] \in Holds
    BY DEF OffsetsInv, OffsetTypes
  <2> QED BY <2>1, HoldUpdates
<1>5. hold \in [Partitions -> Holds \cup {NoHold}]
  BY DEF OffsetsInv, OffsetTypes
<1>6. HoldsKept
  <2>1. CASE UNCHANGED hold
    BY <1>5, <2>1 DEF HoldsKept
  <2>2. CASE \E h \in {[hold[p] EXCEPT !.ended = "applied"], [hold[p] EXCEPT !.ended = "dead"],
                        [hold[p] EXCEPT !.due = FALSE]} : hold' = [hold EXCEPT ![p] = h]
    <3>1. PICK h \in {[hold[p] EXCEPT !.ended = "applied"], [hold[p] EXCEPT !.ended = "dead"],
                       [hold[p] EXCEPT !.due = FALSE]} : hold' = [hold EXCEPT ![p] = h]
      BY <2>2
    <3>2. h \in Holds /\ h.offset = hold[p].offset
      BY <1>3, <1>4
    <3> QED BY <3>1, <3>2, <1>3, <1>5, NoHoldAssumption DEF HoldsKept
  <2>3. CASE Unanswered(p)
    BY <2>3, <1>4, <1>5, NoHoldAssumption DEF Unanswered, HoldsKept, Waits
  <2>4. UNCHANGED hold \/ Unanswered(p) \/
          \E h \in {[hold[p] EXCEPT !.ended = "applied"], [hold[p] EXCEPT !.ended = "dead"],
                      [hold[p] EXCEPT !.due = FALSE]} : hold' = [hold EXCEPT ![p] = h]
    BY DEF ApplyHeld, KeepHeld, ExpireHeld, TaskFails, task
  <2> QED BY <2>1, <2>2, <2>3, <2>4
<1>7. PutPhases' /\ untried' \subseteq Partitions
  <2>1. PutPhases /\ untried \subseteq Partitions
    BY DEF OffsetsInv, OffsetTypes
  <2>2. pc' \in {"resolve", "failed"} /\ untried' \subseteq untried
    BY <1>2 DEF ApplyHeld, KeepHeld, ExpireHeld, Unanswered, TaskFails
  <2>3. \A q \in untried' : hold'[q] # NoHold
    BY <2>1, <2>2, <1>6 DEF PutPhases, HoldsKept
  <2> QED BY <2>1, <2>2, <2>3, <1>1, <1>2 DEF PutPhases
<1> QED BY <1>1, <1>6, <1>7, OffsetsFrame

LEMMA TickKeepsOffsets ==
  ASSUME OffsetsInv, Tick
  PROVE  OffsetsInv'
<1>1. UNCHANGED <<source, position, current, committed, rewind, batch, releasedCaps, redelivering>>
  BY DEF Tick, connect
<1>2. HoldsKept
  <2>1. \A p \in Partitions : Waits(p) =>
          /\ [hold[p] EXCEPT !.due = TRUE, !.age = Lower(@ + 1, Budget)] \in Holds
          /\ [hold[p] EXCEPT !.due = TRUE, !.age = Lower(@ + 1, Budget)].offset = hold[p].offset
    BY HoldUpdates DEF OffsetsInv, OffsetTypes, Waits
  <2> QED BY <2>1, NoHoldAssumption DEF Tick, HoldsKept, OffsetsInv, OffsetTypes, Waits
<1>3. PutPhases' /\ untried' \subseteq Partitions
  <2>1. PutPhases /\ untried \subseteq Partitions
    BY DEF OffsetsInv, OffsetTypes
  <2>2. UNCHANGED <<pc, untried>>
    BY DEF Tick, put
  <2>3. \A q \in untried' : hold'[q] # NoHold
    BY <2>1, <2>2, <1>2 DEF PutPhases, HoldsKept
  <2> QED BY <2>1, <2>2, <2>3, <1>1 DEF PutPhases
<1> QED BY <1>1, <1>2, <1>3, OffsetsFrame

-----------------------------------------------------------------------------
(* Steps that move offsets. *)

\* What the invariant says of the offsets in effect once the rewinds are applied.
LEMMA RewoundFacts ==
  ASSUME OffsetsInv, NEW p \in Partitions
  PROVE  /\ Rewound(position)[p] \in Nat \ {0} /\ Rewound(current)[p] \in Nat \ {0}
         /\ committed[p] <= Rewound(current)[p]
         /\ hold[p] # NoHold => hold[p] \in Holds /\ hold[p].offset <= Rewound(position)[p]
<1>1. PartitionOffsets(p) /\ OffsetTypes
  BY DEF OffsetsInv
<1>2. /\ position[p] \in Nat \ {0} /\ current[p] \in Nat \ {0} /\ committed[p] \in Nat \ {0}
      /\ rewind[p] \in Nat /\ releasedCaps[p] \in Nat
      /\ hold[p] # NoHold => hold[p] \in Holds /\ hold[p].offset \in Nat
  BY <1>1 DEF OffsetTypes, Offsets, Positions, Holds
<1>3. CASE hold[p] = NoHold
  BY <1>1, <1>2, <1>3 DEF PartitionOffsets, FreePartition, Rewound
<1>4. CASE hold[p] # NoHold
  BY <1>1, <1>2, <1>4 DEF PartitionOffsets, HeldPartition, Rewound
<1> QED BY <1>3, <1>4

\* The records that a poll fetches are records of the log, at the position or after it.
LEMMA FetchedRecords ==
  ASSUME OffsetsInv, NEW n \in [Partitions -> 0..MaxPoll], \A p \in Partitions : n[p] <= Fetchable(p),
         NEW r \in Fetched(n)
  PROVE  /\ r \in Records
         /\ Rewound(position)[r.p] <= r.o /\ r.o < Rewound(position)[r.p] + n[r.p]
<1>0. OffsetTypes /\ \A p \in Partitions : n[p] \in Nat
  BY BoundsAssumption DEF OffsetsInv
<1>1. PICK p \in Partitions :
        r \in [p: {p}, o: Rewound(position)[p]..(Rewound(position)[p] + n[p] - 1)]
  BY DEF Fetched
<1>2. r.p = p /\ r.o \in Rewound(position)[p]..(Rewound(position)[p] + n[p] - 1)
  BY <1>1
<1>3. r.o \in Nat \ {0} /\ Rewound(position)[p] <= r.o /\ r.o < Rewound(position)[p] + n[p]
  BY <1>0, <1>2, RewoundFacts
<1>4. Len(log[p]) \in Nat
  BY <1>0, RecordFacts DEF OffsetTypes
<1>5. n[p] <= EndOf(p) - Rewound(position)[p]
  <2>1. n[p] <= Fetchable(p) /\ n[p] # 0
    BY <1>0, <1>3, RewoundFacts
  <2> QED BY <2>1, <1>0, <1>4, RewoundFacts, BoundsAssumption DEF Fetchable, Lower, EndOf
<1>6. r.o <= Len(log[p])
  BY <1>0, <1>3, <1>4, <1>5, RewoundFacts DEF EndOf
<1>7. r = [p |-> p, o |-> r.o]
  BY <1>1
<1>8. [p |-> p, o |-> r.o] \in Records
  BY <1>0, <1>3, <1>6, RecordFacts DEF OffsetTypes
<1> QED BY <1>2, <1>3, <1>7, <1>8

\* Poll delivers what comes after the position, or the batch it has to redeliver.
LEMMA PollKeepsOffsets ==
  ASSUME OffsetsInv, NEW S, PollBrings(S)
  PROVE  OffsetsInv'
<1>1. PICK n \in [Partitions -> 0..MaxPoll] :
        (\A p \in Partitions : n[p] <= Fetchable(p)) /\ Poll(n)
  BY DEF PollBrings
<1>2. OffsetTypes /\ PutPhases
  BY DEF OffsetsInv
<1>3. UNCHANGED <<source, committed, releasedCaps, redelivering, hold, untried>>
  BY <1>1 DEF Poll, task
<1>4. \A p \in Partitions : n[p] \in Nat
  BY <1>1, BoundsAssumption
<1>5. \A p \in Partitions : /\ position'[p] = Rewound(position)[p] + n[p]
                             /\ current'[p] = Rewound(current)[p]
                             /\ rewind'[p] = 0
  BY <1>1 DEF Poll, Rewound
<1>6. /\ position' \in Positions /\ current' \in Positions /\ rewind' \in Offsets
  <2>1. \A p \in Partitions : /\ Rewound(position)[p] + n[p] \in Nat \ {0}
                               /\ Rewound(current)[p] \in Nat \ {0}
    BY <1>4, RewoundFacts
  <2>2. position' = [p \in Partitions |-> Rewound(position)[p] + n[p]]
    BY <1>1 DEF Poll
  <2>3. current' = [p \in Partitions |-> Rewound(current)[p]]
    BY <1>1 DEF Poll, Rewound
  <2>4. rewind' = [p \in Partitions |-> 0]
    BY <1>1 DEF Poll
  <2> QED BY <2>1, <2>2, <2>3, <2>4 DEF Positions, Offsets
<1>7. \A r \in Fetched(n) :
        /\ r \in Records
        /\ Rewound(position)[r.p] <= r.o /\ r.o < Rewound(position)[r.p] + n[r.p]
  BY <1>1, FetchedRecords
<1>8. CASE batch # <<>>
  <2>1. batch' = batch /\ \A p \in Partitions : n[p] = 0
    BY <1>1, <1>8 DEF Poll
  <2>2. OffsetTypes'
    BY <1>2, <1>3, <1>6, <2>1 DEF OffsetTypes, Records, log
  <2>3. ASSUME NEW p \in Partitions PROVE PartitionOffsets(p)'
    <3>1. PartitionOffsets(p) /\ Delivered(p)' = Delivered(p)
      BY <2>1 DEF OffsetsInv, Delivered
    <3>2. /\ Rewound(position)'[p] = Rewound(position)[p]
          /\ Rewound(current)'[p] = Rewound(current)[p]
      BY <1>5, <2>1, RewoundFacts DEF Rewound
    <3>3. committed'[p] <= current'[p]
      BY <1>3, <1>5, RewoundFacts
    <3>4. CASE hold[p] = NoHold
      <4>1. \A r \in Delivered(p) : current'[p] <= r.o /\ r.o < position'[p]
        BY <3>1, <3>4, <1>5, <2>1, RewoundFacts DEF PartitionOffsets, FreePartition, Rewound
      <4> QED BY <3>1, <3>2, <3>3, <3>4, <4>1, <1>3, <1>5 DEF PartitionOffsets, FreePartition
    <3>5. CASE hold[p] # NoHold
      BY <3>1, <3>2, <3>3, <3>5, <1>3, <1>5 DEF PartitionOffsets, HeldPartition
    <3> QED BY <3>4, <3>5
  <2>4. PutPhases'
    BY <1>1, <1>2, <1>3, <1>5 DEF PutPhases, Poll
  <2> QED BY <2>2, <2>3, <2>4 DEF OffsetsInv
<1>9. CASE batch = <<>>
  <2>1. ToSet(batch') \subseteq Fetched(n)
    <3>1. batch' \in SetToSeqs(Fetched(n))
      BY <1>1, <1>9 DEF Poll
    <3> QED BY <3>1 DEF SetToSeqs, ToSet
  <2>2. OffsetTypes'
    BY <1>2, <1>3, <1>6, <1>7, <2>1 DEF OffsetTypes, Records, log
  <2>3. ASSUME NEW p \in Partitions PROVE PartitionOffsets(p)'
    <3>1. PartitionOffsets(p)
      BY DEF OffsetsInv
    <3>2. \A r \in Delivered(p)' : /\ r.o \in Nat
                                    /\ Rewound(position)[p] <= r.o /\ r.o < position'[p]
      BY <1>5, <1>7, <2>1, <2>2, <1>2, RecordFacts DEF Delivered, OffsetTypes
    <3>3. /\ Rewound(position)'[p] = position'[p] /\ Rewound(current)'[p] = current'[p]
      BY <1>5 DEF Rewound
    <3>4. committed'[p] <= current'[p]
      BY <1>3, <1>5, RewoundFacts
    <3>5. position'[p] \in Nat /\ current'[p] \in Nat /\ Rewound(position)[p] <= position'[p]
      BY <1>4, <1>5, RewoundFacts
    <3>6. CASE hold[p] = NoHold
      <4>1. current'[p] <= Rewound(position)[p]
        BY <3>1, <3>6, <1>5 DEF PartitionOffsets, FreePartition
      <4>2. FreePartition(p)'
        BY <3>2, <3>3, <3>5, <4>1, <1>5, RewoundFacts DEF FreePartition
      <4> QED BY <4>2, <3>1, <3>4, <3>6, <1>3 DEF PartitionOffsets
    <3>7. CASE hold[p] # NoHold
      <4>1. hold[p].offset \in Nat /\ hold[p].offset <= Rewound(position)[p]
        BY <3>7, RewoundFacts DEF Holds
      <4>2. \A r \in Delivered(p)' : hold[p].offset <= r.o
        BY <3>2, <4>1, RewoundFacts
      <4>3. HeldPartition(p)'
        BY <3>1, <3>3, <3>5, <3>7, <4>1, <4>2, <1>3, <1>5, RewoundFacts
           DEF HeldPartition, PartitionOffsets
      <4> QED BY <4>3, <3>1, <3>4, <3>7, <1>3 DEF PartitionOffsets
    <3> QED BY <3>6, <3>7
  <2>4. PutPhases'
    BY <1>1, <1>2, <1>3, <1>5 DEF PutPhases, Poll
  <2> QED BY <2>2, <2>3, <2>4 DEF OffsetsInv
<1> QED BY <1>8, <1>9

\* The head of a put: a look-ahead that ends rewinds to its hold, and the caps of releases
\* that the last poll applied are gone.
LEMMA ReadBatchKeepsOffsets ==
  ASSUME OffsetsInv, ReadBatch
  PROVE  OffsetsInv'
<1> DEFINE ahead(p) == {r \in Delivered(p) : r.o > hold[p].frontier}
           looked == {p \in Partitions : Waits(p) /\ hold[p].lookahead /\ ahead(p) # {}}
           replaced == {p \in looked : \E r \in ahead(p) : Superseding(HeadOf(p), r)}
           pauses == looked \ replaced
           caps == CapsOfPut
<1>1. /\ pc = "read" /\ releasedCaps' = caps /\ redelivering' = TRUE
      /\ hold' = [p \in Partitions |->
                    IF p \in replaced THEN [hold[p] EXCEPT !.ended = "replaced"]
                    ELSE IF p \in pauses THEN [hold[p] EXCEPT !.lookahead = FALSE]
                    ELSE hold[p]]
      /\ rewind' = [p \in Partitions |-> IF p \in pauses THEN hold[p].offset ELSE caps[p]]
      /\ pc' = "apply"
      /\ UNCHANGED <<source, position, current, committed, batch, untried>>
  BY DEF ReadBatch
<1>2. \A p \in looked : hold[p] # NoHold
  BY DEF Waits
<1>3. replaced \subseteq looked /\ pauses \subseteq looked /\ looked \subseteq Partitions
  OBVIOUS
<1> HIDE DEF looked, replaced, pauses, caps
<1>4. OffsetTypes /\ PutPhases
  BY DEF OffsetsInv
<1>5. \A p \in Partitions : caps[p] = 0
  BY <1>4 DEF PutPhases, caps, CapsOfPut
<1>6. \A p \in Partitions : hold[p] # NoHold => hold[p] \in Holds /\ hold[p].offset \in Nat
  BY <1>4 DEF OffsetTypes, Holds
<1>7. HoldsKept
  <2>1. \A p \in Partitions :
          hold[p] # NoHold => /\ hold'[p] \in Holds /\ hold'[p].offset = hold[p].offset
    BY <1>1, <1>6, HoldUpdates
  <2>2. \A p \in Partitions : hold[p] = NoHold => hold'[p] = NoHold
    BY <1>1, <1>2, <1>3
  <2>3. hold' = [p \in Partitions |-> hold'[p]]
    BY <1>1
  <2> QED BY <2>1, <2>2, <2>3, NoHoldAssumption DEF HoldsKept
<1>8. OffsetTypes'
  <2>1. rewind' \in Offsets /\ releasedCaps' \in Offsets
    <3>1. releasedCaps' \in Offsets
      BY <1>1, <1>4 DEF caps, CapsOfPut, OffsetTypes, Offsets
    <3>2. \A p \in pauses : hold[p].offset \in Nat
      BY <1>2, <1>3, <1>6
    <3> QED BY <3>1, <3>2, <1>1, <1>5 DEF Offsets
  <2> QED BY <2>1, <1>1, <1>4, <1>7 DEF OffsetTypes, HoldsKept, Records, log
<1>9. ASSUME NEW p \in Partitions PROVE PartitionOffsets(p)'
  <2>1. PartitionOffsets(p) /\ Delivered(p)' = Delivered(p) /\ rewind[p] = 0 /\ releasedCaps'[p] = 0
    BY <1>1, <1>4, <1>5 DEF OffsetsInv, Delivered, PutPhases
  <2>2. CASE hold[p] = NoHold
    <3>1. hold'[p] = NoHold /\ rewind'[p] = 0
      BY <1>1, <1>2, <1>3, <1>5, <1>7, <2>2 DEF HoldsKept
    <3> QED BY <3>1, <2>1, <2>2, <1>1 DEF PartitionOffsets, FreePartition, Rewound
  <2>3. CASE hold[p] # NoHold
    <3>1. hold'[p] # NoHold /\ hold'[p].offset = hold[p].offset /\ rewind'[p] \in {0, hold[p].offset}
      BY <1>1, <1>5, <1>7, <2>3 DEF HoldsKept
    <3>2. position[p] \in Nat /\ hold[p].offset <= position[p] /\ hold[p].offset \in Nat
      BY <1>4, <1>6, <2>1, <2>3 DEF PartitionOffsets, HeldPartition, Rewound, OffsetTypes, Positions
    <3>3. hold[p].offset <= Rewound(position)'[p]
      BY <3>1, <3>2, <1>1 DEF Rewound
    <3> QED BY <3>1, <3>3, <2>1, <2>3, <1>1 DEF PartitionOffsets, HeldPartition
  <2> QED BY <2>2, <2>3
<1>10. PutPhases'
  <2>1. untried' = {}
    BY <1>1, <1>4 DEF PutPhases
  <2> QED BY <2>1, <1>1, <1>5 DEF PutPhases
<1> QED BY <1>8, <1>9, <1>10 DEF OffsetsInv

LEMMA FailOnRefusedKeepsOffsets ==
  ASSUME OffsetsInv, FailOnRefused
  PROVE  OffsetsInv'
<1>1. PutPhases /\ OffsetTypes
  BY DEF OffsetsInv
<1>2. \A p \in Partitions : CapsOfPut[p] = 0 /\ rewind[p] = 0
  BY <1>1 DEF FailOnRefused, PutPhases, CapsOfPut
<1>3. CapsOfPut = rewind
  BY <1>1, <1>2 DEF OffsetTypes, Offsets, CapsOfPut, PutPhases
<1>4. UNCHANGED <<source, position, current, committed, rewind, batch, hold, untried>>
  BY <1>3 DEF FailOnRefused
<1>5. PutPhases'
  BY <1>1, <1>2, <1>4 DEF FailOnRefused, PutPhases
<1>6. releasedCaps' \in Offsets /\ \A p \in Partitions : releasedCaps'[p] = 0
  BY <1>1, <1>2, <1>3 DEF FailOnRefused, OffsetTypes
<1> QED BY <1>1, <1>4, <1>5, <1>6, <1>2
        DEF OffsetsInv, OffsetTypes, PartitionOffsets, FreePartition, HeldPartition, Rewound,
            Delivered, Records, log

\* A hold starts at a delivered record, which no commit has passed.
LEMMA StartHoldKeepsOffsets ==
  ASSUME OffsetsInv, Busy, NEW r \in ToSet(batch), StartHold(r)
  PROVE  OffsetsInv'
<1>1. /\ hold[r.p] = NoHold
      /\ hold' = [hold EXCEPT ![r.p] = NewHold(r)]
      /\ rewind' \in {rewind, [rewind EXCEPT ![r.p] = r.o]}
      /\ UNCHANGED <<source, position, current, committed, batch, releasedCaps, redelivering,
                     pc, untried>>
  BY DEF StartHold
<1>2. OffsetTypes /\ PutPhases /\ pc = "apply"
  BY DEF OffsetsInv, Busy
<1>3. r.p \in Partitions /\ r.o \in Nat \ {0} /\ r \in Delivered(r.p)
  BY <1>2, RecordFacts DEF OffsetTypes, Delivered
<1>4. NewHold(r) \in Holds /\ NewHold(r).offset = r.o
  <2>1. LastOffset(r.p) \in Nat
    BY <1>2, <1>3, LastOffsetFacts
  <2>2. 0 \in 0..Budget
    BY BudgetAssumption
  <2>3. PausesAtOnce(ChangeAt(r)) \in BOOLEAN
    BY DEF PausesAtOnce, HasSourceKey, IsMove
  <2> DEFINE atOnce == PausesAtOnce(ChangeAt(r))
             last == LastOffset(r.p)
  <2>4. NewHold(r) = [offset |-> r.o, frontier |-> IF atOnce THEN r.o ELSE last,
                      lookahead |-> ~atOnce, ended |-> "no", due |-> TRUE, age |-> 0]
    BY DEF NewHold
  <2>5. atOnce \in BOOLEAN /\ last \in Nat
    BY <2>1, <2>3
  <2> HIDE DEF atOnce, last
  <2> QED BY <1>3, <2>2, <2>4, <2>5 DEF Holds
<1>5. NewHold(r) # NoHold
  BY <1>4, NoHoldAssumption
<1>6. OffsetTypes'
  BY <1>1, <1>2, <1>3, <1>4 DEF OffsetTypes, Offsets, Records, log
<1>7. ASSUME NEW p \in Partitions PROVE PartitionOffsets(p)'
  <2>1. PartitionOffsets(p) /\ Delivered(p)' = Delivered(p)
    BY <1>1 DEF OffsetsInv, Delivered
  <2>2. CASE p # r.p
    <3>1. hold'[p] = hold[p] /\ rewind'[p] = rewind[p]
      BY <1>1, <1>2, <1>3, <2>2 DEF OffsetTypes, Offsets
    <3>2. /\ Rewound(position)'[p] = Rewound(position)[p]
          /\ Rewound(current)'[p] = Rewound(current)[p]
      BY <1>1, <3>1 DEF Rewound
    <3>3. CASE hold[p] = NoHold
      BY <2>1, <3>1, <3>2, <3>3, <1>1 DEF PartitionOffsets, FreePartition
    <3>4. CASE hold[p] # NoHold
      BY <2>1, <3>1, <3>2, <3>4, <1>1 DEF PartitionOffsets, HeldPartition
    <3> QED BY <3>3, <3>4
  <2>3. CASE p = r.p
    <3>1. hold'[p] # NoHold /\ hold'[p].offset = r.o
      BY <1>1, <1>2, <1>3, <1>4, <1>5, <2>3 DEF OffsetTypes
    <3>2. rewind[p] = 0 /\ current[p] <= r.o /\ r.o < position[p]
      BY <1>1, <1>3, <2>1, <2>3 DEF PartitionOffsets, FreePartition
    <3>3. rewind'[p] \in {0, r.o}
      BY <1>1, <1>2, <3>2, <2>3 DEF OffsetTypes, Offsets
    <3>4. /\ committed[p] \in Nat /\ current[p] \in Nat /\ position[p] \in Nat
          /\ committed[p] <= current[p]
      BY <1>2, <2>1 DEF OffsetTypes, Positions, PartitionOffsets
    <3>5. r.o <= Rewound(position)'[p]
      BY <1>1, <1>3, <3>2, <3>3, <3>4 DEF Rewound
    <3>6. HeldPartition(p)'
      BY <1>1, <1>3, <2>1, <2>3, <3>1, <3>2, <3>3, <3>4, <3>5 DEF HeldPartition
    <3> QED BY <3>1, <3>6, <2>1, <1>1 DEF PartitionOffsets
  <2> QED BY <2>2, <2>3
<1>8. PutPhases'
  BY <1>1, <1>2 DEF PutPhases
<1> QED BY <1>6, <1>7, <1>8 DEF OffsetsInv

\* The normal return of a put: ended holds are released behind a rewind and a cap, waiting
\* ones rewind again, and the worker may commit what the batch delivered.
LEMMA PutReturnsKeepsOffsets ==
  ASSUME OffsetsInv, PutReturns
  PROVE  OffsetsInv'
<1> DEFINE released == {p \in Partitions : hold[p] # NoHold /\ hold[p].ended # "no"}
<1>1. /\ pc = "resolve" /\ untried = {} /\ pc' = "idle" /\ redelivering' = FALSE /\ batch' = <<>>
      /\ hold' = [p \in Partitions |-> IF p \in released THEN NoHold ELSE hold[p]]
      /\ releasedCaps' = [p \in Partitions |-> IF p \in released THEN hold[p].offset + 1
                                               ELSE releasedCaps[p]]
      /\ rewind' = [p \in Partitions |->
                      IF p \in released THEN hold[p].offset + 1
                      ELSE IF Waits(p) /\ ~hold[p].lookahead THEN hold[p].offset
                      ELSE rewind[p]]
      /\ current' = [p \in Partitions |-> IF Delivered(p) = {} THEN current[p]
                                          ELSE LastOffset(p) + 1]
      /\ UNCHANGED <<source, position, committed, untried>>
  BY DEF PutReturns, Ended
<1>2. \A p \in released : p \in Partitions /\ hold[p] # NoHold
  OBVIOUS
<1> HIDE DEF released
<1>3. OffsetTypes /\ PutPhases
  BY DEF OffsetsInv
<1>4. \A p \in Partitions :
        /\ position[p] \in Nat \ {0} /\ current[p] \in Nat \ {0} /\ committed[p] \in Nat \ {0}
        /\ rewind[p] \in Nat /\ releasedCaps[p] = 0
        /\ hold[p] # NoHold => hold[p] \in Holds /\ hold[p].offset \in Nat
  BY <1>1, <1>3 DEF OffsetTypes, Offsets, Positions, PutPhases, Holds
<1>5. \A p \in Partitions : Delivered(p)' = {}
  BY <1>1 DEF Delivered, ToSet
<1>6. \A p \in Partitions : Delivered(p) # {} =>
        LastOffset(p) \in Nat /\ committed[p] <= LastOffset(p)
  <2> SUFFICES ASSUME NEW p \in Partitions, Delivered(p) # {}
               PROVE  LastOffset(p) \in Nat /\ committed[p] <= LastOffset(p)
    OBVIOUS
  <2>1. LastOffset(p) \in Nat /\ \A r \in Delivered(p) : r.o <= LastOffset(p) /\ r.o \in Nat
    BY <1>3, LastOffsetFacts, RecordFacts DEF Delivered, OffsetTypes
  <2>2. \E r \in Delivered(p) : committed[p] <= r.o
    <3>1. PartitionOffsets(p)
      BY DEF OffsetsInv
    <3>2. CASE hold[p] = NoHold
      BY <3>1, <3>2, <1>4, <2>1 DEF PartitionOffsets, FreePartition
    <3>3. CASE hold[p] # NoHold
      BY <3>1, <3>3, <1>4, <2>1 DEF PartitionOffsets, HeldPartition
    <3> QED BY <3>2, <3>3
  <2> QED BY <2>1, <2>2, <1>4
<1>7. OffsetTypes'
  <2>1. hold' \in [Partitions -> Holds \cup {NoHold}]
    BY <1>1, <1>3 DEF OffsetTypes
  <2>2. releasedCaps' \in Offsets
    BY <1>1, <1>2, <1>4 DEF Offsets
  <2>3. rewind' \in Offsets
    BY <1>1, <1>2, <1>4 DEF Offsets, Waits
  <2>4. current' \in Positions
    BY <1>1, <1>4, <1>6 DEF Positions
  <2>5. ToSet(batch') = {}
    BY <1>1 DEF ToSet
  <2> QED BY <1>1, <1>3, <2>1, <2>2, <2>3, <2>4, <2>5 DEF OffsetTypes
<1>8. ASSUME NEW p \in Partitions PROVE PartitionOffsets(p)'
  <2>1. PartitionOffsets(p)
    BY DEF OffsetsInv
  <2>2. committed'[p] <= current'[p]
    BY <1>1, <1>4, <1>6, <2>1 DEF PartitionOffsets
  <2>3. current'[p] \in Nat /\ position'[p] \in Nat
    BY <1>1, <1>4, <1>6
  <2>4. CASE p \in released
    <3>1. /\ hold'[p] = NoHold /\ releasedCaps'[p] = hold[p].offset + 1
          /\ rewind'[p] = hold[p].offset + 1
      BY <1>1, <2>4
    <3>2. committed'[p] <= releasedCaps'[p]
      BY <3>1, <1>1, <1>2, <1>4, <2>1, <2>4 DEF PartitionOffsets, HeldPartition
    <3>3. rewind'[p] # 0 /\ rewind'[p] \in Nat
      BY <3>1, <1>2, <1>4, <2>4
    <3>4. FreePartition(p)'
      BY <3>1, <3>3, <1>5, <2>3 DEF FreePartition, Rewound
    <3> QED BY <2>2, <3>1, <3>2, <3>4 DEF PartitionOffsets
  <2>5. CASE p \notin released /\ hold[p] = NoHold
    <3>1. hold'[p] = NoHold /\ releasedCaps'[p] = 0 /\ rewind'[p] = rewind[p]
      BY <1>1, <1>4, <2>5 DEF Waits
    <3>2. Rewound(current)'[p] <= Rewound(position)'[p]
      <4>1. CASE Delivered(p) = {}
        BY <4>1, <3>1, <2>1, <2>5, <1>1 DEF PartitionOffsets, FreePartition, Rewound
      <4>2. CASE Delivered(p) # {}
        <5>1. PICK r \in Delivered(p) : LastOffset(p) = r.o
          BY <4>2, <1>3, LastOffsetFacts
        <5>2. rewind[p] = 0 /\ r.o < position[p]
          BY <5>1, <2>1, <2>5 DEF PartitionOffsets, FreePartition
        <5> QED BY <4>2, <5>1, <5>2, <3>1, <1>1, <1>4, <1>6 DEF Rewound
      <4> QED BY <4>1, <4>2
    <3>3. FreePartition(p)'
      BY <3>1, <3>2, <1>4, <1>5, <2>1, <2>5 DEF PartitionOffsets, FreePartition
    <3> QED BY <2>2, <3>1, <3>3 DEF PartitionOffsets
  <2>6. CASE p \notin released /\ hold[p] # NoHold
    <3>1. /\ hold'[p] = hold[p] /\ releasedCaps'[p] = 0
          /\ rewind'[p] \in {rewind[p], hold[p].offset}
      BY <1>1, <1>4, <2>6
    <3>2. HeldPartition(p)'
      BY <3>1, <1>1, <1>4, <1>5, <2>1, <2>6 DEF PartitionOffsets, HeldPartition, Rewound
    <3> QED BY <2>2, <2>6, <3>1, <3>2 DEF PartitionOffsets
  <2> QED BY <2>4, <2>5, <2>6
<1>9. PutPhases'
  BY <1>1 DEF PutPhases
<1> QED BY <1>7, <1>8, <1>9 DEF OffsetsInv

-----------------------------------------------------------------------------
(* The offset commit, a rebalance and a crash. *)

\* What preCommit hands to Connect lies between the last commit and every cap.
LEMMA CappedFacts ==
  ASSUME OffsetsInv, NEW p \in Partitions
  PROVE  /\ Capped(p) \in Nat \ {0}
         /\ committed[p] <= Capped(p) /\ Capped(p) <= current[p]
         /\ hold[p] # NoHold => Capped(p) <= hold[p].offset
         /\ releasedCaps[p] # 0 => Capped(p) <= releasedCaps[p]
<1>1. PartitionOffsets(p) /\ OffsetTypes
  BY DEF OffsetsInv
<1>2. /\ current[p] \in Nat \ {0} /\ committed[p] \in Nat \ {0} /\ releasedCaps[p] \in Nat
      /\ hold[p] # NoHold => hold[p].offset \in Nat
  BY <1>1 DEF OffsetTypes, Offsets, Positions, Holds
<1>3. CASE hold[p] = NoHold
  BY <1>1, <1>2, <1>3 DEF PartitionOffsets, Capped, PreCommit, Lower
<1>4. CASE hold[p] # NoHold
  BY <1>1, <1>2, <1>4 DEF PartitionOffsets, HeldPartition, Capped, PreCommit, Lower
<1> QED BY <1>3, <1>4

LEMMA CommitKeepsOffsets ==
  ASSUME OffsetsInv, Commit
  PROVE  OffsetsInv' /\ \A p \in Partitions : committed'[p] >= committed[p]
<1>1. /\ committed' \in {committed, [p \in Partitions |-> Capped(p)]}
      /\ UNCHANGED <<source, position, current, rewind, batch, hold, releasedCaps, redelivering,
                     pc, untried>>
  BY DEF Commit, put
<1>2. OffsetTypes /\ PutPhases
  BY DEF OffsetsInv
<1>3. \A p \in Partitions : committed'[p] \in {committed[p], Capped(p)}
  BY <1>1
<1>4. committed' \in Positions
  BY <1>1, <1>2, CappedFacts DEF OffsetTypes, Positions
<1>5. ASSUME NEW p \in Partitions
      PROVE  PartitionOffsets(p)' /\ committed'[p] >= committed[p]
  <2>1. PartitionOffsets(p) /\ Delivered(p)' = Delivered(p)
    BY <1>1 DEF OffsetsInv, Delivered
  <2>2. /\ committed[p] \in Nat /\ committed'[p] \in Nat
        /\ committed[p] <= committed'[p] /\ committed'[p] <= current'[p]
        /\ hold[p] # NoHold => committed'[p] <= hold[p].offset
        /\ releasedCaps[p] # 0 => committed'[p] <= releasedCaps[p]
    BY <1>1, <1>2, <1>3, <2>1, CappedFacts
       DEF PartitionOffsets, HeldPartition, OffsetTypes, Positions
  <2>3. /\ Rewound(position)'[p] = Rewound(position)[p]
        /\ Rewound(current)'[p] = Rewound(current)[p]
    BY <1>1 DEF Rewound
  <2>4. CASE hold[p] = NoHold
    BY <1>1, <2>1, <2>2, <2>3, <2>4 DEF PartitionOffsets, FreePartition
  <2>5. CASE hold[p] # NoHold
    BY <1>1, <2>1, <2>2, <2>3, <2>5 DEF PartitionOffsets, HeldPartition
  <2> QED BY <2>4, <2>5
<1>6. OffsetTypes' /\ PutPhases'
  BY <1>1, <1>2, <1>4 DEF OffsetTypes, PutPhases, Records, log
<1> QED BY <1>5, <1>6 DEF OffsetsInv

LEMMA RebalanceKeepsOffsets ==
  ASSUME OffsetsInv, NEW S \in SUBSET Partitions, Rebalance(S)
  PROVE  OffsetsInv' /\ \A p \in Partitions : committed'[p] >= committed[p]
<1> DEFINE capped == [p \in Partitions |-> PreCommit(p, Rewound(current)[p])]
<1>1. /\ pc = "idle"
      /\ committed' \in {committed, [p \in Partitions |-> IF p \in S THEN capped[p]
                                                            ELSE committed[p]]}
      /\ hold' = [p \in Partitions |-> IF p \in S THEN NoHold ELSE hold[p]]
      /\ releasedCaps' = [p \in Partitions |-> IF p \in S THEN 0 ELSE releasedCaps[p]]
      /\ position' = [p \in Partitions |-> IF p \in S THEN committed'[p] ELSE Rewound(position)[p]]
      /\ current' = [p \in Partitions |-> IF p \in S THEN committed'[p] ELSE Rewound(current)[p]]
      /\ rewind' = [p \in Partitions |-> 0]
      /\ batch' \in Without(S)
      /\ UNCHANGED <<source, redelivering, pc, untried>>
  BY DEF Rebalance, put
<1>2. OffsetTypes /\ PutPhases
  BY DEF OffsetsInv
<1>3. \A p \in Partitions : capped[p] \in Nat /\ committed[p] <= capped[p]
  <2> SUFFICES ASSUME NEW p \in Partitions PROVE capped[p] \in Nat /\ committed[p] <= capped[p]
    OBVIOUS
  <2>1. PartitionOffsets(p)
    BY DEF OffsetsInv
  <2>2. /\ committed[p] \in Nat /\ releasedCaps[p] \in Nat
        /\ hold[p] # NoHold => hold[p].offset \in Nat /\ committed[p] <= hold[p].offset
        /\ releasedCaps[p] # 0 => committed[p] <= releasedCaps[p]
    BY <1>2, <2>1 DEF OffsetTypes, Offsets, Positions, Holds, PartitionOffsets, HeldPartition
  <2> QED BY <2>2, RewoundFacts DEF Lower, PreCommit
<1> HIDE DEF capped
<1>4. \A p \in Partitions :
        /\ committed'[p] \in Nat \ {0} /\ committed[p] <= committed'[p]
        /\ p \notin S => committed'[p] = committed[p]
  BY <1>1, <1>2, <1>3 DEF OffsetTypes, Positions
<1>5. ToSet(batch') = {r \in ToSet(batch) : r.p \notin S}
  <2> DEFINE K == {r \in ToSet(batch) : r.p \notin S}
  <2>1. batch' \in SetToSeqs(K)
    BY <1>1 DEF Without
  <2>2. IsFiniteSet(K)
    <3>1. IsFiniteSet(Records)
      BY <1>2, RecordsFinite DEF OffsetTypes
    <3>2. K \in SUBSET Records
      BY <1>2 DEF OffsetTypes
    <3> HIDE DEF K
    <3> QED BY <3>1, <3>2, FS_Subset
  <2> HIDE DEF K
  <2>3. ToSet(batch') = K
    BY <2>1, <2>2, SetToSeqsFacts
  <2> QED BY <2>3 DEF K
<1>6. \A p \in Partitions : Delivered(p)' = IF p \in S THEN {} ELSE Delivered(p)
  BY <1>5 DEF Delivered
<1>7. \A p \in Partitions :
        /\ rewind'[p] = 0
        /\ Rewound(position)'[p] = position'[p] /\ Rewound(current)'[p] = current'[p]
        /\ p \in S => position'[p] = committed'[p] /\ current'[p] = committed'[p]
        /\ p \notin S => /\ position'[p] = Rewound(position)[p]
                        /\ current'[p] = Rewound(current)[p]
        /\ hold'[p] = IF p \in S THEN NoHold ELSE hold[p]
        /\ releasedCaps'[p] = IF p \in S THEN 0 ELSE releasedCaps[p]
  BY <1>1 DEF Rewound
<1>8. OffsetTypes'
  <2>1. position' \in Positions /\ current' \in Positions
    BY <1>1, <1>4, RewoundFacts DEF Positions
  <2>2. committed' \in Positions
    <3>1. committed' = [p \in Partitions |-> committed'[p]]
      BY <1>1, <1>2 DEF OffsetTypes, Positions
    <3> QED BY <3>1, <1>4 DEF Positions
  <2>3. rewind' \in Offsets /\ releasedCaps' \in Offsets
    BY <1>1, <1>2 DEF OffsetTypes, Offsets
  <2>4. hold' \in [Partitions -> Holds \cup {NoHold}]
    BY <1>1, <1>2 DEF OffsetTypes
  <2> QED BY <1>1, <1>2, <1>5, <2>1, <2>2, <2>3, <2>4 DEF OffsetTypes, Records, log
<1>9. ASSUME NEW p \in Partitions PROVE PartitionOffsets(p)'
  <2>1. PartitionOffsets(p)
    BY DEF OffsetsInv
  <2>2. CASE p \in S
    BY <1>4, <1>6, <1>7, <2>2 DEF PartitionOffsets, FreePartition
  <2>3. CASE p \notin S /\ hold[p] = NoHold
    <3>1. \A r \in Delivered(p) : current'[p] <= r.o /\ r.o < position'[p]
      BY <1>7, <2>1, <2>3 DEF PartitionOffsets, FreePartition, Rewound
    <3> QED BY <3>1, <1>4, <1>6, <1>7, <2>1, <2>3, RewoundFacts DEF PartitionOffsets, FreePartition
  <2>4. CASE p \notin S /\ hold[p] # NoHold
    BY <1>4, <1>6, <1>7, <2>1, <2>4, RewoundFacts DEF PartitionOffsets, HeldPartition
  <2> QED BY <2>2, <2>3, <2>4
<1>10. PutPhases'
  <2>1. untried' = {}
    BY <1>1, <1>2 DEF PutPhases
  <2> QED BY <2>1, <1>1, <1>2, <1>7 DEF PutPhases
<1> QED BY <1>4, <1>8, <1>9, <1>10, RewoundFacts DEF OffsetsInv, OffsetTypes, Positions

LEMMA RestartKeepsOffsets ==
  ASSUME OffsetsInv, Restart
  PROVE  OffsetsInv'
<1>1. OffsetTypes
  BY DEF OffsetsInv
<1>2. /\ position' = committed /\ current' = committed /\ committed' = committed
      /\ source' = source
      /\ rewind' = [p \in Partitions |-> 0] /\ releasedCaps' = [p \in Partitions |-> 0]
      /\ hold' = [p \in Partitions |-> NoHold]
      /\ batch' = <<>> /\ redelivering' = FALSE /\ pc' = "idle" /\ untried' = {}
  BY DEF Restart
<1>3. ToSet(batch') = {} /\ \A p \in Partitions : Delivered(p)' = {}
  BY <1>2 DEF ToSet, Delivered
<1>4. OffsetTypes'
  BY <1>1, <1>2, <1>3 DEF OffsetTypes, Offsets
<1>5. ASSUME NEW p \in Partitions PROVE PartitionOffsets(p)'
  BY <1>1, <1>2, <1>3 DEF PartitionOffsets, FreePartition, Rewound, OffsetTypes, Positions
<1>6. PutPhases'
  BY <1>2 DEF PutPhases
<1> QED BY <1>4, <1>5, <1>6 DEF OffsetsInv

-----------------------------------------------------------------------------
(* The invariant and what follows from it. *)

LEMMA InitOffsets == Init => OffsetsInv
<1> SUFFICES ASSUME Init PROVE OffsetsInv
  OBVIOUS
<1>1. source \in SourceHistories
  BY HistoriesAssumption DEF Init
<1>2. /\ position = [p \in Partitions |-> 1] /\ current = [p \in Partitions |-> 1]
      /\ committed = [p \in Partitions |-> 1] /\ rewind = [p \in Partitions |-> 0]
      /\ releasedCaps = [p \in Partitions |-> 0] /\ hold = [p \in Partitions |-> NoHold]
      /\ batch = <<>> /\ redelivering = FALSE /\ pc = "idle" /\ untried = {}
  BY DEF Init
<1>3. ToSet(batch) = {} /\ \A p \in Partitions : Delivered(p) = {}
  BY <1>2 DEF ToSet, Delivered
<1>4. OffsetTypes
  BY <1>1, <1>2, <1>3 DEF OffsetTypes, Offsets, Positions
<1>5. ASSUME NEW p \in Partitions PROVE PartitionOffsets(p)
  BY <1>2, <1>3 DEF PartitionOffsets, FreePartition, Rewound
<1>6. PutPhases
  BY <1>2 DEF PutPhases
<1> QED BY <1>4, <1>5, <1>6 DEF OffsetsInv

\* Every step keeps the invariant, and none takes a commit back.
LEMMA StepOffsets ==
  ASSUME OffsetsInv, [Next]_vars
  PROVE  OffsetsInv' /\ \A p \in Partitions : committed'[p] >= committed[p]
<1>1. \A p \in Partitions : committed[p] \in Nat
  BY DEF OffsetsInv, OffsetTypes, Positions
<1>2. CASE PollBrings({})
  <2>1. committed' = committed
    BY <1>2 DEF PollBrings, Poll
  <2> QED BY <1>1, <1>2, <2>1, PollKeepsOffsets
<1>3. CASE ReadBatch
  <2>1. committed' = committed
    BY <1>3 DEF ReadBatch
  <2> QED BY <1>1, <1>3, <2>1, ReadBatchKeepsOffsets
<1>4. CASE Apply \/ RerunLanded
  <2>1. committed' = committed
    BY <1>4 DEF Apply, SkipHeldTail, CommitUnit, IsolateRows, RerunLanded, HoldOrReport, SkipSuperseded,
                QuarantineRow, StartHold, FailOnRow, TaskFails, StartResolve, connect
  <2>2. CASE SkipHeldTail \/ CommitUnit \/ IsolateRows \/ RerunLanded \/ StartResolve
    BY <1>1, <2>1, <2>2, ApplyKeepsOffsets
  <2>3. CASE HoldOrReport
    <3>1. PICK r \in ToSet(batch) :
            SkipSuperseded(r) \/ QuarantineRow(r) \/ StartHold(r) \/ FailOnRow(r)
      BY <2>3 DEF HoldOrReport
    <3>2. CASE StartHold(r)
      <4>1. Busy
        BY <2>3 DEF HoldOrReport
      <4> QED BY <1>1, <2>1, <3>2, <4>1, StartHoldKeepsOffsets
    <3>3. CASE SkipSuperseded(r) \/ QuarantineRow(r) \/ FailOnRow(r)
      BY <1>1, <2>1, <3>3, ApplyKeepsOffsets
    <3> QED BY <3>1, <3>2, <3>3
  <2> QED BY <1>4, <2>2, <2>3 DEF Apply
<1>5. CASE Throw
  <2>1. committed' = committed
    BY <1>5 DEF Throw, connect
  <2> QED BY <1>1, <1>5, <2>1, ThrowKeepsOffsets
<1>6. CASE \E p \in Partitions :
             ApplyHeld(p) \/ KeepHeld(p) \/ ExpireHeld(p) \/ Unanswered(p)
  <2>1. committed' = committed
    BY <1>6 DEF ApplyHeld, KeepHeld, ExpireHeld, Unanswered, TaskFails, connect
  <2> QED BY <1>1, <1>6, <2>1, TryKeepsOffsets
<1>7. CASE PutReturns
  <2>1. committed' = committed
    BY <1>7 DEF PutReturns
  <2> QED BY <1>1, <1>7, <2>1, PutReturnsKeepsOffsets
<1>8. CASE Tick
  <2>1. committed' = committed
    BY <1>8 DEF Tick, connect
  <2> QED BY <1>1, <1>8, <2>1, TickKeepsOffsets
<1>9. CASE Commit
  BY <1>9, CommitKeepsOffsets
<1>10. CASE \E S \in SUBSET Partitions \ {{}} : Rebalance(S)
  BY <1>10, RebalanceKeepsOffsets
<1>11. CASE Restart
  <2>1. committed' = committed
    BY <1>11 DEF Restart
  <2> QED BY <1>1, <1>11, <2>1, RestartKeepsOffsets
<1>12. CASE FailOnRefused
  <2>1. committed' = committed
    BY <1>12 DEF FailOnRefused
  <2> QED BY <1>1, <1>12, <2>1, FailOnRefusedKeepsOffsets
<1>13. CASE UNCHANGED vars
  <2>1. UNCHANGED <<source, position, current, committed, rewind, batch, releasedCaps,
                    redelivering, hold, pc, untried>>
    BY <1>13 DEF vars, connect, task, put
  <2>2. PutPhases' /\ untried' \subseteq Partitions
    BY <2>1 DEF OffsetsInv, OffsetTypes, PutPhases
  <2> QED BY <1>1, <2>1, <2>2, OffsetsFrame, HoldsUnchanged
<1> QED BY <1>2, <1>3, <1>4, <1>5, <1>6, <1>7, <1>8, <1>9, <1>10, <1>11, <1>12, <1>13
       DEF Next, Resolve

\* The offsets, holds and delivered records of every partition keep together in every
\* behaviour.
THEOREM OffsetsInvariant == Spec => []OffsetsInv
<1>1. OffsetsInv /\ [Next]_vars => OffsetsInv'
  BY StepOffsets
<1> QED BY InitOffsets, <1>1, PTL DEF Spec

\* No commit passes a held change, nor a release whose rewind has not run (preCommit).
THEOREM CommitNeverPassesAHold == Spec => []CommitBehindHold
<1>1. OffsetsInv => CommitBehindHold
  <2> SUFFICES ASSUME OffsetsInv, NEW p \in Partitions
               PROVE  /\ hold[p] # NoHold => committed[p] <= hold[p].offset
                      /\ releasedCaps[p] # 0 => committed[p] <= releasedCaps[p]
    BY DEF CommitBehindHold
  <2> QED BY DEF OffsetsInv, PartitionOffsets, HeldPartition
<1> QED BY <1>1, OffsetsInvariant, PTL

\* The committed offset of a partition never goes back, whatever rewinds, caps, rebalances
\* and restarts do.
THEOREM CommitNeverGoesBack == Spec => CommitAdvances
<1>1. OffsetsInv /\ [Next]_vars => [\A p \in Partitions : committed'[p] >= committed[p]]_vars
  BY StepOffsets
<1> QED BY <1>1, OffsetsInvariant, PTL DEF Spec, CommitAdvances

\* A release is never pending while a put waits to be redelivered.
THEOREM NoCapAcrossRedeliveryHolds == Spec => []NoCapAcrossRedelivery
<1>1. OffsetsInv => NoCapAcrossRedelivery
  BY DEF OffsetsInv, PutPhases, NoCapAcrossRedelivery
<1> QED BY <1>1, OffsetsInvariant, PTL

-----------------------------------------------------------------------------
(* Pauses.                                                                 *)

PausedInv == paused \subseteq Partitions /\ PausedIsHeld

\* No hold ends, and none begins to look ahead again.
HoldsStay ==
  \A p \in Partitions : hold[p] # NoHold =>
    hold'[p] # NoHold /\ (~hold[p].lookahead => ~hold'[p].lookahead)

\* A step that leaves the pauses and the holds in place keeps every pause for its hold.
LEMMA PausesFrame ==
  ASSUME PausedInv, HoldsStay, UNCHANGED <<paused, pausedByHold>>
  PROVE  PausedInv'
BY DEF PausedInv, PausedIsHeld, HoldsStay

\* What the task changes in a hold leaves it a hold, and never starts a look-ahead.
StaysHeld(h) ==
  /\ \A e \in {"applied", "dead", "replaced"} :
       [h EXCEPT !.ended = e] # NoHold /\ [h EXCEPT !.ended = e].lookahead = h.lookahead
  /\ [h EXCEPT !.lookahead = FALSE] # NoHold /\ ~[h EXCEPT !.lookahead = FALSE].lookahead
  /\ [h EXCEPT !.age = 0] # NoHold /\ [h EXCEPT !.age = 0].lookahead = h.lookahead
  /\ [h EXCEPT !.due = FALSE] # NoHold /\ [h EXCEPT !.due = FALSE].lookahead = h.lookahead
  /\ [h EXCEPT !.due = FALSE, !.age = 0] # NoHold
  /\ [h EXCEPT !.due = FALSE, !.age = 0].lookahead = h.lookahead
  /\ [h EXCEPT !.due = TRUE, !.age = Lower(@ + 1, Budget)] # NoHold
  /\ [h EXCEPT !.due = TRUE, !.age = Lower(@ + 1, Budget)].lookahead = h.lookahead

LEMMA UpdatesStay ==
  ASSUME NEW h \in Holds
  PROVE  StaysHeld(h)
<1>1. /\ \A e \in {"applied", "dead", "replaced"} : [h EXCEPT !.ended = e] # NoHold
      /\ [h EXCEPT !.lookahead = FALSE] # NoHold
      /\ [h EXCEPT !.age = 0] # NoHold /\ [h EXCEPT !.due = FALSE] # NoHold
      /\ [h EXCEPT !.due = FALSE, !.age = 0] # NoHold
      /\ [h EXCEPT !.due = TRUE, !.age = Lower(@ + 1, Budget)] # NoHold
  BY HoldUpdates, NoHoldAssumption
<1>2. /\ \A e \in {"applied", "dead", "replaced"} : [h EXCEPT !.ended = e].lookahead = h.lookahead
      /\ ~[h EXCEPT !.lookahead = FALSE].lookahead
      /\ [h EXCEPT !.age = 0].lookahead = h.lookahead
      /\ [h EXCEPT !.due = FALSE].lookahead = h.lookahead
      /\ [h EXCEPT !.due = FALSE, !.age = 0].lookahead = h.lookahead
  BY DEF Holds
<1>3. [h EXCEPT !.due = TRUE, !.age = Lower(@ + 1, Budget)].lookahead = h.lookahead
  BY DEF Holds
<1> QED BY <1>1, <1>2, <1>3 DEF StaysHeld

\* Its instance for the holds there are.
LEMMA HeldUpdates ==
  ASSUME OffsetsInv
  PROVE  \A p \in Partitions : hold[p] # NoHold => StaysHeld(hold[p])
<1>1. \A p \in Partitions : hold[p] # NoHold => hold[p] \in Holds
  BY DEF OffsetsInv, OffsetTypes
<1> QED BY <1>1, UpdatesStay

\* The steps that change a hold without ending or pausing it.
LEMMA TriesStay ==
  ASSUME OffsetsInv,
         \/ Throw \/ Tick
         \/ \E p \in Partitions : ApplyHeld(p) \/ KeepHeld(p) \/ ExpireHeld(p) \/ Unanswered(p)
  PROVE  HoldsStay
<1>1. hold \in [Partitions -> Holds \cup {NoHold}] /\ \A p \in untried : hold[p] # NoHold
  BY DEF OffsetsInv, OffsetTypes, PutPhases
<1>2. CASE Throw
  <2>1. \A p \in Partitions : hold'[p] = IF Waits(p) THEN [hold[p] EXCEPT !.age = 0] ELSE hold[p]
    BY <1>2 DEF Throw
  <2> QED BY <1>1, <2>1, HeldUpdates DEF HoldsStay, StaysHeld
<1>3. CASE Tick
  <2>1. \A p \in Partitions : hold'[p] =
          IF Waits(p) THEN [hold[p] EXCEPT !.due = TRUE, !.age = Lower(@ + 1, Budget)]
          ELSE hold[p]
    BY <1>3 DEF Tick
  <2> QED BY <1>1, <2>1, HeldUpdates DEF HoldsStay, StaysHeld
<1>4. CASE \E p \in Partitions : ApplyHeld(p) \/ KeepHeld(p) \/ ExpireHeld(p) \/ Unanswered(p)
  <2>1. PICK p \in Partitions : ApplyHeld(p) \/ KeepHeld(p) \/ ExpireHeld(p) \/ Unanswered(p)
    BY <1>4
  <2>2. p \in untried
    BY <2>1 DEF ApplyHeld, KeepHeld, ExpireHeld, Unanswered, Trying
  <2>3. CASE ApplyHeld(p)
    <3>1. hold' = [hold EXCEPT ![p].ended = "applied"]
      BY <2>3 DEF ApplyHeld
    <3> QED BY <1>1, <2>2, <3>1, HeldUpdates DEF HoldsStay, StaysHeld
  <2>4. CASE KeepHeld(p)
    <3>1. hold' = [hold EXCEPT ![p].due = FALSE]
      BY <2>4 DEF KeepHeld
    <3> QED BY <1>1, <2>2, <3>1, HeldUpdates DEF HoldsStay, StaysHeld
  <2>5. CASE ExpireHeld(p)
    <3>1. hold' = [hold EXCEPT ![p].ended = "dead"] \/ hold' = hold
      BY <2>5 DEF ExpireHeld, TaskFails, task
    <3> QED BY <1>1, <2>2, <3>1, HeldUpdates DEF HoldsStay, StaysHeld
  <2>6. CASE Unanswered(p)
    <3>1. \A q \in Partitions : hold'[q] =
            IF Waits(q) THEN [hold[q] EXCEPT !.due = FALSE, !.age = 0] ELSE hold[q]
      BY <2>6 DEF Unanswered
    <3> QED BY <1>1, <3>1, HeldUpdates DEF HoldsStay, StaysHeld
  <2> QED BY <2>1, <2>3, <2>4, <2>5, <2>6
<1> QED BY <1>2, <1>3, <1>4

\* A look-ahead that ends pauses its partition or ends its hold.
LEMMA ReadBatchPauses ==
  ASSUME OffsetsInv, PausedInv, ReadBatch
  PROVE  PausedInv'
<1> DEFINE ahead(p) == {r \in Delivered(p) : r.o > hold[p].frontier}
           looked == {p \in Partitions : Waits(p) /\ hold[p].lookahead /\ ahead(p) # {}}
           replaced == {p \in looked : \E r \in ahead(p) : Superseding(HeadOf(p), r)}
           pauses == looked \ replaced
<1>1. /\ hold' = [p \in Partitions |->
                    IF p \in replaced THEN [hold[p] EXCEPT !.ended = "replaced"]
                    ELSE IF p \in pauses THEN [hold[p] EXCEPT !.lookahead = FALSE]
                    ELSE hold[p]]
      /\ paused' = paused \cup pauses /\ pausedByHold' = pausedByHold \cup pauses
  BY DEF ReadBatch
<1>2. pauses \subseteq Partitions /\ \A p \in looked : hold[p] # NoHold
  BY DEF Waits
<1>3. replaced \subseteq looked /\ pauses \subseteq looked /\ pauses \cap replaced = {}
  OBVIOUS
<1>4. hold \in [Partitions -> Holds \cup {NoHold}]
  BY DEF OffsetsInv, OffsetTypes
<1> HIDE DEF looked, replaced, pauses
<1>5. HoldsStay
  BY <1>1, <1>2, <1>3, <1>4, HeldUpdates DEF HoldsStay, StaysHeld
<1>6. \A p \in pauses : hold'[p] # NoHold /\ ~hold'[p].lookahead
  BY <1>1, <1>2, <1>3, <1>4, HeldUpdates DEF StaysHeld
<1> QED BY <1>1, <1>2, <1>5, <1>6 DEF PausedInv, PausedIsHeld, HoldsStay

\* A hold of a re-keyed table or of a move pauses its partition at once.
LEMMA StartHoldPauses ==
  ASSUME OffsetsInv, PausedInv, NEW r \in ToSet(batch), StartHold(r)
  PROVE  PausedInv'
<1>1. r.p \in Partitions
  BY RecordFacts DEF OffsetsInv, OffsetTypes
<1>2. hold \in [Partitions -> Holds \cup {NoHold}]
  BY DEF OffsetsInv, OffsetTypes
<1>3. hold[r.p] = NoHold /\ hold' = [hold EXCEPT ![r.p] = NewHold(r)]
  BY DEF StartHold
<1>4. \A p \in Partitions \ {r.p} : hold'[p] = hold[p]
  BY <1>2, <1>3
<1>5. r.p \notin paused
  BY <1>3 DEF PausedInv, PausedIsHeld
<1>6. CASE ~PausesAtOnce(ChangeAt(r))
  BY <1>4, <1>5, <1>6 DEF StartHold, PausedInv, PausedIsHeld
<1>7. CASE PausesAtOnce(ChangeAt(r))
  <2>1. paused' = paused \cup {r.p} /\ pausedByHold' = pausedByHold \cup {r.p}
    BY <1>7 DEF StartHold
  <2>2. hold'[r.p] = NewHold(r) /\ ~NewHold(r).lookahead
    BY <1>1, <1>2, <1>3, <1>7 DEF NewHold
  <2>3. NewHold(r) # NoHold
    <3>1. LastOffset(r.p) \in Nat
      BY <1>1, LastOffsetFacts DEF OffsetsInv, OffsetTypes, Delivered
    <3>2. r.o \in Nat /\ 0 \in 0..Budget
      BY RecordFacts, BudgetAssumption DEF OffsetsInv, OffsetTypes
    <3>3. NewHold(r) = [offset |-> r.o, frontier |-> r.o, lookahead |-> FALSE, ended |-> "no",
                        due |-> TRUE, age |-> 0]
      BY <1>7 DEF NewHold
    <3>4. NewHold(r) \in Holds
      BY <3>2, <3>3 DEF Holds
    <3> QED BY <3>4, NoHoldAssumption
  <2> QED BY <1>1, <1>4, <2>1, <2>2, <2>3 DEF PausedInv, PausedIsHeld
<1> QED BY <1>6, <1>7

\* The holds that end are released and their partitions resumed.
LEMMA ReleasePauses ==
  ASSUME OffsetsInv, PausedInv,
         PutReturns \/ Restart \/ \E S \in SUBSET Partitions : Rebalance(S)
  PROVE  PausedInv'
<1>1. CASE PutReturns
  <2> DEFINE released == {p \in Partitions : Ended(p)}
  <2>1. /\ hold' = [p \in Partitions |-> IF p \in released THEN NoHold ELSE hold[p]]
        /\ pausedByHold' = pausedByHold \ (released \cap pausedByHold)
        /\ paused' = paused \ (released \cap pausedByHold)
    BY <1>1 DEF PutReturns, Resumed
  <2> HIDE DEF released
  <2> QED BY <2>1 DEF PausedInv, PausedIsHeld
<1>2. CASE Restart
  BY <1>2 DEF Restart, PausedInv, PausedIsHeld
<1>3. CASE \E S \in SUBSET Partitions : Rebalance(S)
  <2>1. PICK S \in SUBSET Partitions : Rebalance(S)
    BY <1>3
  <2> DEFINE resumed == {p \in Partitions : p \in S \/ hold[p] = NoHold} \cap pausedByHold
  <2>2. /\ hold' = [p \in Partitions |-> IF p \in S THEN NoHold ELSE hold[p]]
        /\ pausedByHold' = pausedByHold \ resumed /\ paused' = paused \ resumed
    BY <2>1 DEF Rebalance, Resumed
  <2> QED BY <2>2 DEF PausedInv, PausedIsHeld
<1> QED BY <1>1, <1>2, <1>3

\* Every pause belongs to a hold, in every behaviour.
THEOREM PausedInvariant == Spec => []PausedInv
<1>1. Init => PausedInv
  BY DEF Init, PausedInv, PausedIsHeld
<1>2. OffsetsInv /\ PausedInv /\ [Next]_vars => PausedInv'
  <2> SUFFICES ASSUME OffsetsInv, PausedInv, [Next]_vars PROVE PausedInv'
    OBVIOUS
  <2>1. ASSUME UNCHANGED <<hold, paused, pausedByHold>> PROVE PausedInv'
    BY <2>1 DEF PausedInv, PausedIsHeld
  <2>2. CASE PollBrings({}) \/ FailOnRefused \/ Commit \/ RerunLanded \/ UNCHANGED vars
    BY <2>1, <2>2 DEF PollBrings, Poll, FailOnRefused, Commit, RerunLanded, vars, connect, task
  <2>3. CASE SkipHeldTail \/ CommitUnit \/ IsolateRows \/ StartResolve
    BY <2>1, <2>3 DEF SkipHeldTail, CommitUnit, IsolateRows, StartResolve, connect, task
  <2>4. CASE HoldOrReport
    <3>1. PICK r \in ToSet(batch) :
            SkipSuperseded(r) \/ QuarantineRow(r) \/ StartHold(r) \/ FailOnRow(r)
      BY <2>4 DEF HoldOrReport
    <3>2. CASE StartHold(r)
      BY <3>2, StartHoldPauses
    <3>3. CASE SkipSuperseded(r) \/ QuarantineRow(r) \/ FailOnRow(r)
      BY <2>1, <3>3 DEF SkipSuperseded, QuarantineRow, FailOnRow, TaskFails, connect, task
    <3> QED BY <3>1, <3>2, <3>3
  <2>5. CASE \/ Throw \/ Tick
             \/ \E p \in Partitions :
                  ApplyHeld(p) \/ KeepHeld(p) \/ ExpireHeld(p) \/ Unanswered(p)
    <3>1. UNCHANGED <<paused, pausedByHold>>
      BY <2>5 DEF Throw, Tick, ApplyHeld, KeepHeld, ExpireHeld, Unanswered, TaskFails, connect,
                  task
    <3> QED BY <2>5, <3>1, TriesStay, PausesFrame
  <2>6. CASE ReadBatch
    BY <2>6, ReadBatchPauses
  <2>7. CASE PutReturns \/ Restart \/ \E S \in SUBSET Partitions \ {{}} : Rebalance(S)
    BY <2>7, ReleasePauses
  <2> QED BY <2>2, <2>3, <2>4, <2>5, <2>6, <2>7 DEF Next, Apply, Resolve
<1> QED BY <1>1, <1>2, OffsetsInvariant, PTL DEF Spec

\* A partition is paused only for a hold of this task that has looked ahead, so that what
\* ends a hold finds every pause it has to lift: nothing stays paused for ever.
THEOREM PausedIsHeldHolds == Spec => []PausedIsHeld
<1>1. PausedInv => PausedIsHeld
  BY DEF PausedInv
<1> QED BY <1>1, PausedInvariant, PTL

-----------------------------------------------------------------------------
(* Sequences of records. *)

\* The elements of a sequence are its head and those of its tail.
LEMMA HeadAndTail ==
  ASSUME NEW T, NEW s \in Seq(T), s # <<>>
  PROVE  /\ Head(s) \in T /\ Tail(s) \in Seq(T)
         /\ ToSet(s) = {Head(s)} \cup ToSet(Tail(s))
<1>1. /\ Head(s) = s[1] /\ Len(s) \in Nat \ {0} /\ DOMAIN s = 1..Len(s)
      /\ Tail(s) \in Seq(T) /\ Len(Tail(s)) = Len(s) - 1
      /\ \A i \in 1..Len(Tail(s)) : Tail(s)[i] = s[i + 1]
  BY EmptySeq, HeadTailProperties
<1>2. DOMAIN Tail(s) = 1..(Len(s) - 1)
  BY <1>1
<1>3. ASSUME NEW x \in ToSet(s) PROVE x = Head(s) \/ x \in ToSet(Tail(s))
  <2>1. PICK i \in 1..Len(s) : x = s[i]
    BY <1>1 DEF ToSet
  <2>2. CASE i = 1
    BY <1>1, <2>1, <2>2
  <2>3. CASE i # 1
    <3>1. i - 1 \in DOMAIN Tail(s) /\ Tail(s)[i - 1] = x
      BY <1>1, <1>2, <2>1, <2>3
    <3> QED BY <3>1 DEF ToSet
  <2> QED BY <2>2, <2>3
<1>4. ASSUME NEW x \in ToSet(Tail(s)) PROVE x \in ToSet(s)
  <2>1. PICK i \in 1..(Len(s) - 1) : x = Tail(s)[i]
    BY <1>2 DEF ToSet
  <2>2. i + 1 \in 1..Len(s) /\ x = s[i + 1]
    BY <1>1, <2>1
  <2> QED BY <1>1, <2>2 DEF ToSet
<1>5. Head(s) \in ToSet(s) /\ Head(s) \in T
  BY <1>1 DEF ToSet
<1> QED BY <1>1, <1>3, <1>4, <1>5

\* The tail of an ascending sequence ascends, and its head is ahead of it.
LEMMA AscendingTail ==
  ASSUME NEW T, NEW s \in Seq(T), s # <<>>, Ascending(s)
  PROVE  Ascending(Tail(s)) /\ \A y \in ToSet(Tail(s)) : y.p = Head(s).p => Head(s).o < y.o
<1>1. /\ Head(s) = s[1] /\ Len(s) \in Nat \ {0} /\ DOMAIN s = 1..Len(s)
      /\ Tail(s) \in Seq(T) /\ Len(Tail(s)) = Len(s) - 1
      /\ \A i \in 1..Len(Tail(s)) : Tail(s)[i] = s[i + 1]
  BY EmptySeq, HeadTailProperties
<1>2. DOMAIN Tail(s) = 1..(Len(s) - 1)
  BY <1>1
<1>3. \A i \in 1..(Len(s) - 1) : i + 1 \in DOMAIN s /\ Tail(s)[i] = s[i + 1] /\ 1 < i + 1
  BY <1>1
<1>4. 1 \in DOMAIN s /\ \A i, j \in 1..(Len(s) - 1) : i < j => i + 1 < j + 1
  BY <1>1
<1>5. Ascending(Tail(s))
  BY <1>2, <1>3, <1>4 DEF Ascending
<1>6. ASSUME NEW y \in ToSet(Tail(s)), y.p = Head(s).p PROVE Head(s).o < y.o
  <2>1. PICK i \in 1..(Len(s) - 1) : y = s[i + 1]
    BY <1>2, <1>3 DEF ToSet
  <2> QED BY <2>1, <1>1, <1>3, <1>4, <1>6 DEF Ascending
<1> QED BY <1>5, <1>6

\* A selection of an ascending sequence ascends.
LEMMA AscendingKept ==
  ASSUME NEW T, NEW s \in Seq(T), NEW S, Ascending(s)
  PROVE  Ascending(Kept(s, S))
<1>1. PICK at \in [1..Len(Kept(s, S)) -> 1..Len(s)] :
              /\ \A k \in 1..Len(Kept(s, S)) : Kept(s, S)[k] = s[at[k]] /\ s[at[k]] \in S
              /\ \A j, k \in 1..Len(Kept(s, S)) : j < k => at[j] < at[k]
  BY KeptFacts
<1>2. Kept(s, S) \in Seq(T)
  BY KeptFacts
<1>3. DOMAIN s = 1..Len(s) /\ DOMAIN Kept(s, S) = 1..Len(Kept(s, S))
  BY <1>2
<1> QED BY <1>1, <1>3 DEF Ascending

\* The elements of a sequence of sequences.
Members(s) == UNION {ToSet(s[i]) : i \in DOMAIN s}

\* The pieces a sequence is cut into hold what it holds.
LEMMA CutsMembers ==
  ASSUME NEW T, NEW s \in Seq(T), NEW parts \in Seq(Seq(T)), NEW first, Cuts(s, parts, first)
  PROVE  Members(parts) = ToSet(s)
<1>2. /\ \A k \in 1..Len(parts), m \in Nat \ {0} : m <= Len(parts[k]) =>
           first[k] + m - 1 \in 1..Len(s) /\ parts[k][m] = s[first[k] + m - 1]
      /\ \A j, k \in 1..Len(parts) : j < k => first[j] + Len(parts[j]) <= first[k]
      /\ \A i \in 1..Len(s) : \E k \in 1..Len(parts), m \in Nat \ {0} :
           m <= Len(parts[k]) /\ i = first[k] + m - 1
      /\ first \in [1..Len(parts) -> 1..Len(s)]
  BY DEF Cuts
<1>3. /\ DOMAIN parts = 1..Len(parts) /\ DOMAIN s = 1..Len(s)
      /\ \A k \in 1..Len(parts) : /\ Len(parts[k]) \in Nat /\ DOMAIN parts[k] = 1..Len(parts[k])
                                  /\ \A m \in 1..Len(parts[k]) : m \in Nat \ {0} /\ m <= Len(parts[k])
  OBVIOUS
<1>4. Members(parts) = ToSet(s)
  <2>1. ASSUME NEW k \in DOMAIN parts, NEW x \in ToSet(parts[k]) PROVE x \in ToSet(s)
    <3>1. PICK m \in 1..Len(parts[k]) : x = parts[k][m]
      BY <1>3, <2>1 DEF ToSet
    <3>2. first[k] + m - 1 \in DOMAIN s /\ x = s[first[k] + m - 1]
      BY <1>2, <1>3, <3>1
    <3> QED BY <3>2 DEF ToSet
  <2>2. ASSUME NEW x \in ToSet(s) PROVE \E k \in DOMAIN parts : x \in ToSet(parts[k])
    <3>1. PICK i \in 1..Len(s) : x = s[i]
      BY <1>3 DEF ToSet
    <3>2. PICK k \in 1..Len(parts), m \in Nat \ {0} : m <= Len(parts[k]) /\ i = first[k] + m - 1
      BY <1>2
    <3>3. m \in DOMAIN parts[k]
      BY <1>3, <3>2
    <3>4. parts[k][m] = s[first[k] + m - 1]
      BY <1>2, <3>2
    <3>5. x = parts[k][m]
      BY <3>1, <3>2, <3>4
    <3> QED BY <1>3, <3>3, <3>5 DEF ToSet
  <2> QED BY <2>1, <2>2 DEF Members
<1> QED BY <1>4

\* Those of an ascending sequence ascend and come one ahead of the other.
LEMMA CutsOrder ==
  ASSUME NEW T, NEW s \in Seq(T), NEW parts \in Seq(Seq(T)), NEW first, Cuts(s, parts, first),
         Ascending(s)
  PROVE  /\ \A i \in DOMAIN parts : Ascending(parts[i])
         /\ \A i, j \in DOMAIN parts : i < j => Ahead(parts[i], parts[j])
<1>2. /\ \A k \in 1..Len(parts), m \in Nat \ {0} : m <= Len(parts[k]) =>
           first[k] + m - 1 \in 1..Len(s) /\ parts[k][m] = s[first[k] + m - 1]
      /\ \A j, k \in 1..Len(parts) : j < k => first[j] + Len(parts[j]) <= first[k]
      /\ \A i \in 1..Len(s) : \E k \in 1..Len(parts), m \in Nat \ {0} :
           m <= Len(parts[k]) /\ i = first[k] + m - 1
      /\ first \in [1..Len(parts) -> 1..Len(s)]
  BY DEF Cuts
<1>3. /\ DOMAIN parts = 1..Len(parts) /\ DOMAIN s = 1..Len(s)
      /\ \A k \in 1..Len(parts) : /\ Len(parts[k]) \in Nat /\ DOMAIN parts[k] = 1..Len(parts[k])
                                  /\ \A m \in 1..Len(parts[k]) : m \in Nat \ {0} /\ m <= Len(parts[k])
  OBVIOUS
<1>4. /\ \A j, k \in 1..Len(parts) : j < k => first[j] + Len(parts[j]) <= first[k]
      /\ \A j \in 1..Len(parts) : first[j] \in Nat
  <2>1. first \in [1..Len(parts) -> 1..Len(s)]
    BY DEF Cuts
  <2>2. ASSUME NEW j \in 1..Len(parts) PROVE first[j] \in Nat
    <3> DEFINE n == Len(s)
               m == Len(parts)
    <3>1. n \in Nat
      OBVIOUS
    <3>2. first \in [1..m -> 1..n] /\ j \in 1..m
      BY <2>1
    <3> HIDE DEF n, m
    <3> QED BY <3>1, <3>2
  <2>3. \A j, k \in 1..Len(parts) : j < k => first[j] + Len(parts[j]) <= first[k]
    BY DEF Cuts
  <2> QED BY <2>2, <2>3
<1>5. ASSUME NEW k \in DOMAIN parts PROVE Ascending(parts[k])
  <2> SUFFICES ASSUME NEW i \in DOMAIN parts[k], NEW j \in DOMAIN parts[k], i < j,
                      parts[k][i].p = parts[k][j].p
               PROVE  parts[k][i].o < parts[k][j].o
    BY DEF Ascending
  <2> DEFINE f == first[k]
  <2>1. /\ f + i - 1 \in 1..Len(s) /\ parts[k][i] = s[f + i - 1]
        /\ f + j - 1 \in 1..Len(s) /\ parts[k][j] = s[f + j - 1]
        /\ i \in Nat \ {0} /\ j \in Nat
    BY <1>2, <1>3
  <2>2. f \in Nat
    BY <1>2, <1>3
  <2>3. f + i - 1 < f + j - 1
    BY <2>1, <2>2
  <2> QED BY <1>3, <2>1, <2>3 DEF Ascending
<1>6. ASSUME NEW j \in DOMAIN parts, NEW k \in DOMAIN parts, j < k,
             NEW x \in ToSet(parts[j]), NEW y \in ToSet(parts[k]), x.p = y.p
      PROVE  x.o < y.o
  <2>1. PICK a \in 1..Len(parts[j]) : x = parts[j][a]
    BY <1>3 DEF ToSet
  <2>2. PICK b \in 1..Len(parts[k]) : y = parts[k][b]
    BY <1>3 DEF ToSet
  <2>3. /\ first[j] + a - 1 \in DOMAIN s /\ x = s[first[j] + a - 1]
        /\ first[k] + b - 1 \in DOMAIN s /\ y = s[first[k] + b - 1]
    BY <1>2, <1>3, <2>1, <2>2
  <2>4. first[j] + a - 1 < first[k] + b - 1
    <3>0. j \in 1..Len(parts) /\ k \in 1..Len(parts)
      BY <1>3
    <3>1. first[j] \in Nat /\ first[k] \in Nat
      BY <1>4, <3>0
    <3>2. first[j] + Len(parts[j]) <= first[k]
      BY <1>4, <1>6, <3>0
    <3>3. Len(parts[j]) \in Nat /\ Len(parts[k]) \in Nat
      BY <1>3, <3>0
    <3>4. a \in 1..Len(parts[j]) /\ b \in 1..Len(parts[k])
      OBVIOUS
    <3>5. a \in Nat /\ a <= Len(parts[j]) /\ b \in Nat /\ b >= 1
      BY <3>3, <3>4
    <3> DEFINE l == Len(parts[j])
               f == first[j]
               g == first[k]
    <3>6. f \in Nat /\ g \in Nat /\ l \in Nat /\ f + l <= g /\ a \in Nat /\ a <= l /\ b \in Nat /\ b >= 1
      BY <3>1, <3>2, <3>3, <3>5
    <3> HIDE DEF l, f, g
    <3>7. f + a - 1 < g + b - 1
      BY <3>6
    <3> QED BY <3>7 DEF f, g
  <2> QED BY <2>3, <2>4, <1>6 DEF Ascending
<1> QED BY <1>5, <1>6 DEF Ahead

\* The members of a sequence of sequences are those of its head and of its tail's.
LEMMA MembersOfTail ==
  ASSUME NEW T, NEW s \in Seq(Seq(T)), s # <<>>
  PROVE  /\ Head(s) \in Seq(T) /\ Tail(s) \in Seq(Seq(T))
         /\ Members(s) = ToSet(Head(s)) \cup Members(Tail(s))
         /\ DOMAIN s = 1..Len(s) /\ 1 \in DOMAIN s /\ Head(s) = s[1]
         /\ \A i \in DOMAIN Tail(s) : i \in Nat /\ i + 1 \in DOMAIN s /\ Tail(s)[i] = s[i + 1]
<1>1. /\ Head(s) = s[1] /\ Len(s) \in Nat \ {0} /\ DOMAIN s = 1..Len(s)
      /\ Tail(s) \in Seq(Seq(T)) /\ Len(Tail(s)) = Len(s) - 1 /\ Head(s) \in Seq(T)
      /\ \A i \in 1..Len(Tail(s)) : Tail(s)[i] = s[i + 1]
  BY EmptySeq, HeadTailProperties
<1>2. DOMAIN Tail(s) = 1..(Len(s) - 1)
  BY <1>1
<1>3. \A i \in DOMAIN Tail(s) : i \in Nat /\ i + 1 \in DOMAIN s /\ Tail(s)[i] = s[i + 1]
  BY <1>1, <1>2
<1>4. ASSUME NEW x \in Members(s) PROVE x \in ToSet(Head(s)) \/ x \in Members(Tail(s))
  <2>1. PICK i \in 1..Len(s) : x \in ToSet(s[i])
    BY <1>1 DEF Members
  <2>2. CASE i = 1
    BY <1>1, <2>1, <2>2
  <2>3. CASE i # 1
    <3>1. i - 1 \in DOMAIN Tail(s) /\ Tail(s)[i - 1] = s[i]
      BY <1>1, <1>2, <2>1, <2>3
    <3>2. x \in ToSet(Tail(s)[i - 1])
      BY <2>1, <3>1
    <3> QED BY <3>1, <3>2 DEF Members
  <2> QED BY <2>2, <2>3
<1>5. 1 \in DOMAIN s
  BY <1>1
<1>6. ToSet(Head(s)) \subseteq Members(s) /\ Members(Tail(s)) \subseteq Members(s)
  <2>1. ToSet(Head(s)) \subseteq Members(s)
    BY <1>1, <1>5 DEF Members
  <2>2. ASSUME NEW x \in Members(Tail(s)) PROVE x \in Members(s)
    <3>1. PICK i \in DOMAIN Tail(s) : x \in ToSet(Tail(s)[i])
      BY DEF Members
    <3> QED BY <3>1, <1>3 DEF Members
  <2> QED BY <2>1, <2>2
<1> QED BY <1>1, <1>3, <1>4, <1>5, <1>6

\* A sequence of one item, and none.
LEMMA Single ==
  ASSUME NEW T, NEW x \in T
  PROVE  <<x>> \in Seq(T) /\ ToSet(<<x>>) = {x} /\ ToSet(<<>>) = {} /\ <<x>> # <<>>
         /\ Ascending(<<x>>) /\ Ascending(<<>>)
BY DEF ToSet, Ascending

\* A selection of one item has no two.
LEMMA KeptOfOne ==
  ASSUME NEW T, NEW x \in T, NEW S
  PROVE  ~(Len(Kept(<<x>>, S)) > 1)
<1> DEFINE s == <<x>>
<1>1. s \in Seq(T) /\ Len(s) = 1
  OBVIOUS
<1> HIDE DEF s
<1>2. PICK at \in [1..Len(Kept(s, S)) -> 1..Len(s)] :
        \A j, k \in 1..Len(Kept(s, S)) : j < k => at[j] < at[k]
  BY <1>1, KeptFacts
<1>3. Len(Kept(s, S)) \in Nat
  BY <1>1, KeptFacts
<1>4. ASSUME Len(Kept(s, S)) > 1 PROVE FALSE
  <2>1. 1 \in 1..Len(Kept(s, S)) /\ 2 \in 1..Len(Kept(s, S))
    BY <1>3, <1>4
  <2>2. at[1] = 1 /\ at[2] = 1
    BY <1>1, <2>1
  <2> QED BY <1>2, <2>1, <2>2
<1> QED BY <1>4 DEF s

-----------------------------------------------------------------------------
(* The put in progress: its next unit, and what is left after it. *)

\* What a put has to go through.
PutTypes ==
  /\ rows \in Seq(Records) /\ todo \in Seq(Seq(Records))

\* The records of the next unit that are not behind a hold make its transaction.
LEMMA UnitFacts ==
  ASSUME PutTypes, Busy
  PROVE  /\ Upcoming \in Seq(Records) /\ Unit \in Seq(Records)
         /\ ToSet(Unit) = {r \in ToSet(Upcoming) : ~HeldTail(r)}
         /\ PutOrder => Ascending(Upcoming) /\ Ascending(Unit)
         /\ Len(Unit) > 1 => rows = <<>>
<1>1. CASE rows # <<>>
  <2>1. Head(rows) \in Records
    BY <1>1, HeadAndTail DEF PutTypes
  <2>2. Upcoming = <<Head(rows)>>
    BY <1>1 DEF Upcoming
  <2>3. Upcoming \in Seq(Records) /\ Ascending(Upcoming)
    BY <2>1, <2>2, Single
  <2>4. ~(Len(Unit) > 1)
    BY <2>1, <2>2, KeptOfOne DEF Unit
  <2>5. Unit \in Seq(Records) /\ ToSet(Unit) = {r \in ToSet(Upcoming) : ~HeldTail(r)}
    BY <2>3, KeptFacts, KeptSet DEF Unit
  <2>6. Ascending(Unit)
    BY <2>3, AscendingKept DEF Unit
  <2> QED BY <2>3, <2>4, <2>5, <2>6
<1>2. CASE rows = <<>>
  <2>1. todo # <<>> /\ Upcoming = Head(todo)
    BY <1>2 DEF Busy, Upcoming
  <2>2. Upcoming \in Seq(Records) /\ 1 \in DOMAIN todo /\ Upcoming = todo[1]
    BY <2>1, MembersOfTail DEF PutTypes
  <2>3. PutOrder => Ascending(Upcoming)
    BY <2>2 DEF PutOrder
  <2>4. Unit \in Seq(Records) /\ ToSet(Unit) = {r \in ToSet(Upcoming) : ~HeldTail(r)}
    BY <2>2, KeptFacts, KeptSet DEF Unit
  <2>5. PutOrder => Ascending(Unit)
    BY <2>2, <2>3, AscendingKept DEF Unit
  <2> QED BY <1>2, <2>2, <2>3, <2>4, <2>5
<1> QED BY <1>1, <1>2

\* A unit that is done leaves the rest, which comes after it.
LEMMA UnitDoneFacts ==
  ASSUME PutTypes, Busy, UnitDone
  PROVE  /\ rows' \in Seq(Records) /\ todo' \in Seq(Seq(Records))
         /\ Left = ToSet(Upcoming) \cup Left'
         /\ PutOrder => PutOrder' /\ \A x \in ToSet(Upcoming), y \in Left' : x.p = y.p => x.o < y.o
<1>1. CASE rows # <<>>
  <2>1. rows' = Tail(rows) /\ todo' = todo /\ Upcoming = <<Head(rows)>>
    BY <1>1 DEF UnitDone, Upcoming
  <2>2. /\ Head(rows) \in Records /\ Tail(rows) \in Seq(Records)
        /\ ToSet(rows) = {Head(rows)} \cup ToSet(Tail(rows))
    BY <1>1, HeadAndTail DEF PutTypes
  <2>3. ToSet(Upcoming) = {Head(rows)}
    BY <2>1, <2>2, Single
  <2>4. Left = ToSet(Upcoming) \cup Left'
    BY <2>1, <2>2, <2>3 DEF Left
  <2>5. ASSUME PutOrder
        PROVE  PutOrder' /\ \A x \in ToSet(Upcoming), y \in Left' : x.p = y.p => x.o < y.o
    <3>1. /\ Ascending(Tail(rows))
          /\ \A y \in ToSet(Tail(rows)) : y.p = Head(rows).p => Head(rows).o < y.o
      BY <1>1, <2>5, AscendingTail DEF PutOrder, PutTypes
    <3>2. PutOrder'
      BY <2>1, <2>2, <2>5, <3>1 DEF PutOrder, Ahead, Ascending
    <3>3. \A i \in DOMAIN todo : \A y \in ToSet(todo[i]) : y.p = Head(rows).p => Head(rows).o < y.o
      BY <2>2, <2>5 DEF PutOrder, Ahead
    <3> QED BY <2>1, <2>3, <3>1, <3>2, <3>3 DEF Left
  <2> QED BY <2>1, <2>2, <2>4, <2>5 DEF PutTypes
<1>2. CASE rows = <<>>
  <2>1. rows' = rows /\ todo # <<>> /\ todo' = Tail(todo) /\ Upcoming = Head(todo)
    BY <1>2 DEF UnitDone, Upcoming, Busy
  <2>2. /\ Head(todo) \in Seq(Records) /\ Tail(todo) \in Seq(Seq(Records))
        /\ Members(todo) = ToSet(Head(todo)) \cup Members(Tail(todo))
        /\ DOMAIN todo = 1..Len(todo) /\ 1 \in DOMAIN todo /\ Head(todo) = todo[1]
        /\ \A i \in DOMAIN Tail(todo) : i \in Nat /\ i + 1 \in DOMAIN todo /\ Tail(todo)[i] = todo[i + 1]
    BY <2>1, MembersOfTail DEF PutTypes
  <2>3. ToSet(rows) = {}
    BY <1>2 DEF ToSet
  <2>4. Left = ToSet(Upcoming) \cup Left'
    BY <2>1, <2>2, <2>3 DEF Left, Members
  <2>5. ASSUME PutOrder
        PROVE  PutOrder' /\ \A x \in ToSet(Upcoming), y \in Left' : x.p = y.p => x.o < y.o
    <3>1. \A i \in DOMAIN Tail(todo) : 1 < i + 1
      <4>1. \A i \in DOMAIN Tail(todo) : i + 1 \in 1..Len(todo) /\ i \in Nat
        BY <2>2
      <4>2. DOMAIN Tail(todo) = 1..Len(Tail(todo))
        BY <2>2
      <4> QED BY <4>1, <4>2
    <3>2. \A i \in DOMAIN Tail(todo) : Ahead(Head(todo), Tail(todo)[i])
      BY <2>2, <2>5, <3>1 DEF PutOrder
    <3>3. \A i, j \in DOMAIN Tail(todo) : i < j => Ahead(Tail(todo)[i], Tail(todo)[j])
      <4>1. \A i, j \in DOMAIN Tail(todo) : i < j => i + 1 < j + 1
        BY <2>2
      <4> QED BY <2>2, <2>5, <4>1 DEF PutOrder
    <3>4. \A i \in DOMAIN Tail(todo) : Ascending(Tail(todo)[i]) /\ Ahead(rows, Tail(todo)[i])
      BY <2>2, <2>5 DEF PutOrder
    <3>5. Ascending(rows)
      BY <2>5 DEF PutOrder
    <3>6. PutOrder'
      <4> DEFINE t == Tail(todo)
      <4>1. rows' = rows /\ todo' = t
        BY <2>1
      <4>2. \A i \in DOMAIN t : Ascending(t[i]) /\ Ahead(rows, t[i])
        BY <3>4
      <4>3. \A i, j \in DOMAIN t : i < j => Ahead(t[i], t[j])
        BY <3>3
      <4> HIDE DEF t
      <4> QED BY <4>1, <4>2, <4>3, <3>5 DEF PutOrder, Ahead, Ascending
    <3>7. ASSUME NEW x \in ToSet(Upcoming), NEW y \in Left', x.p = y.p PROVE x.o < y.o
      <4>1. PICK i \in DOMAIN Tail(todo) : y \in ToSet(Tail(todo)[i])
        BY <2>1, <2>3 DEF Left
      <4> QED BY <2>1, <3>2, <3>7, <4>1 DEF Ahead
    <3> QED BY <3>6, <3>7
  <2> QED BY <1>2, <2>1, <2>2, <2>4, <2>5 DEF PutTypes
<1> QED BY <1>1, <1>2

\* A rejected chunk is replayed row by row, without the rows behind a hold.
LEMMA IsolateFacts ==
  ASSUME PutTypes, IsolateRows
  PROVE  /\ rows' \in Seq(Records) /\ todo' \in Seq(Seq(Records))
         /\ Left' \subseteq Left /\ \A r \in Left : r \in Left' \/ HeldTail(r)
         /\ PutOrder => PutOrder'
<1>1. /\ Busy /\ Len(Unit) > 1 /\ rows' = Unit /\ todo' = Tail(todo)
  BY DEF IsolateRows
<1>2. /\ Unit \in Seq(Records) /\ rows = <<>> /\ (PutOrder => Ascending(Unit))
      /\ ToSet(Unit) = {r \in ToSet(Upcoming) : ~HeldTail(r)}
  BY <1>1, UnitFacts
<1>3. todo # <<>> /\ Upcoming = Head(todo)
  BY <1>1, <1>2 DEF Busy, Upcoming
<1>4. /\ Tail(todo) \in Seq(Seq(Records))
      /\ Members(todo) = ToSet(Head(todo)) \cup Members(Tail(todo))
      /\ DOMAIN todo = 1..Len(todo) /\ 1 \in DOMAIN todo /\ Head(todo) = todo[1]
      /\ \A i \in DOMAIN Tail(todo) : i \in Nat /\ i + 1 \in DOMAIN todo /\ Tail(todo)[i] = todo[i + 1]
  BY <1>3, MembersOfTail DEF PutTypes
<1>5. Left = ToSet(Head(todo)) \cup Members(Tail(todo))
  <2>1. ToSet(rows) = {}
    BY <1>2 DEF ToSet
  <2> QED BY <2>1, <1>4 DEF Left, Members
<1>6. Left' = ToSet(Unit) \cup Members(Tail(todo))
  BY <1>1 DEF Left, Members
<1>7. ASSUME PutOrder PROVE PutOrder'
  <2>1. DOMAIN Tail(todo) = 1..Len(Tail(todo))
    BY <1>4
  <2>2. \A i \in DOMAIN Tail(todo) : 1 < i + 1
    BY <1>4, <2>1
  <2>3. \A i \in DOMAIN Tail(todo) : Ahead(Head(todo), Tail(todo)[i]) /\ Ascending(Tail(todo)[i])
    BY <1>4, <1>7, <2>2 DEF PutOrder
  <2>4. \A i \in DOMAIN Tail(todo) : Ahead(Unit, Tail(todo)[i])
    BY <1>2, <1>3, <2>3 DEF Ahead
  <2>5. \A i, j \in DOMAIN Tail(todo) : i < j => Ahead(Tail(todo)[i], Tail(todo)[j])
    <3>1. \A i, j \in DOMAIN Tail(todo) : i < j => i + 1 < j + 1
      BY <1>4
    <3> QED BY <1>4, <1>7, <3>1 DEF PutOrder
  <2>6. Ascending(Unit)
    BY <1>2, <1>7
  <2> DEFINE t == Tail(todo)
             u == Unit
  <2>7. rows' = u /\ todo' = t
    BY <1>1
  <2>8. /\ Ascending(u)
        /\ \A i \in DOMAIN t : Ascending(t[i]) /\ Ahead(u, t[i])
        /\ \A i, j \in DOMAIN t : i < j => Ahead(t[i], t[j])
    BY <2>3, <2>4, <2>5, <2>6
  <2> HIDE DEF t, u
  <2> QED BY <2>7, <2>8 DEF PutOrder, Ahead, Ascending
<1> QED BY <1>1, <1>2, <1>3, <1>4, <1>5, <1>6, <1>7

\* The records this put has to write, in the chunks of Batches.partition.
LEMMA PreparedFacts ==
  ASSUME batch \in Seq(Records), ReadBatch
  PROVE  /\ putBatch' \in Seq(Records) /\ todo' \in Seq(Seq(Records))
         /\ Members(todo)' = {r \in ToSet(batch) : Prepares(r)}
         /\ Ascending(batch) /\ rows = <<>> => PutOrder'
<1> DEFINE prepared == Kept(batch, {r \in ToSet(batch) : Prepares(r)})
           weights == [n \in DOMAIN prepared |-> Weight(ChangeAt(prepared[n]))]
           sizes == [n \in DOMAIN prepared |-> 0]
<1>1. /\ putBatch' = prepared /\ rows' = rows
      /\ todo' = Partition(prepared, BatchSize, 1, sizes, weights)
  BY DEF ReadBatch
<1>2. /\ prepared \in Seq(Records)
      /\ ToSet(prepared) = {r \in ToSet(batch) : Prepares(r)}
      /\ Ascending(batch) => Ascending(prepared)
  BY KeptFacts, KeptSet, AscendingKept
<1> HIDE DEF prepared, weights, sizes
<1>3. todo' \in Seq(Seq(Records))
  BY <1>1, <1>2, PartitionCuts
<1>4. PICK first : Cuts(prepared, todo', first)
  BY <1>1, <1>2, PartitionCuts
<1>5. Members(todo') = ToSet(prepared)
  BY <1>2, <1>3, <1>4, CutsMembers
<1>6. ASSUME Ascending(batch), rows = <<>> PROVE PutOrder'
  <2>1. /\ \A i \in DOMAIN todo' : Ascending(todo'[i])
        /\ \A i, j \in DOMAIN todo' : i < j => Ahead(todo'[i], todo'[j])
    BY <1>2, <1>3, <1>4, <1>6, CutsOrder
  <2>2. rows' = <<>> /\ ToSet(<<>>) = {} /\ Ascending(<<>>)
    BY <1>1, <1>6 DEF ToSet, Ascending
  <2> QED BY <2>1, <2>2 DEF PutOrder, Ahead, Ascending
<1> QED BY <1>1, <1>2, <1>3, <1>5, <1>6 DEF Members

-----------------------------------------------------------------------------
(* The batches that Connect delivers. *)

\* The sequences of a finite set are sequences.
LEMMA SetToSeqsTypes ==
  ASSUME NEW T, NEW K \in SUBSET T, IsFiniteSet(K), NEW s \in SetToSeqs(K)
  PROVE  s \in Seq(T)
<1>1. Cardinality(K) \in Nat
  BY FS_CardinalityType
<1>2. s \in [1..Cardinality(K) -> K]
  BY DEF SetToSeqs
<1> DEFINE c == Cardinality(K)
<1>3. c \in Nat /\ s \in [1..c -> T]
  BY <1>1, <1>2
<1> HIDE DEF c
<1> QED BY <1>3

\* A poll that fetches brings all the records from the position on, in the order of the log.
LEMMA FetchedFacts ==
  ASSUME OffsetsInv, NEW n \in [Partitions -> 0..MaxPoll], \A p \in Partitions : n[p] <= Fetchable(p),
         NEW s \in SetToSeqs(Fetched(n)), InOrder(s)
  PROVE  /\ s \in Seq(Records) /\ Ascending(s)
         /\ ToSet(s) = Fetched(n)
<1> DEFINE K == Fetched(n)
<1>1. K \subseteq Records
  BY FetchedRecords
<1>2. IsFiniteSet(K)
  <2>1. IsFiniteSet(Records)
    BY RecordsFinite DEF OffsetsInv, OffsetTypes
  <2> HIDE DEF K
  <2> QED BY <1>1, <2>1, FS_Subset
<1> HIDE DEF K
<1>3. s \in SetToSeqs(K)
  BY DEF K
<1>4. ToSet(s) = K
  BY <1>2, <1>3, SetToSeqsFacts
<1>5. s \in Seq(Records)
  BY <1>1, <1>2, <1>3, SetToSeqsTypes
<1>6. Ascending(s)
  BY DEF InOrder, Ascending
<1> QED BY <1>4, <1>5, <1>6 DEF K

\* What a rebalance leaves of a batch is in the same order.
LEMMA WithoutFacts ==
  ASSUME OffsetsInv, batch \in Seq(Records), NEW S, NEW s \in Without(S)
  PROVE  /\ s \in Seq(Records)
         /\ ToSet(s) = {r \in ToSet(batch) : r.p \notin S}
         /\ Ascending(batch) => Ascending(s)
<1> DEFINE K == {r \in ToSet(batch) : r.p \notin S}
           at(r) == CHOOSE i \in DOMAIN batch : batch[i] = r
<1>1. s \in SetToSeqs(K) /\ \A i, j \in DOMAIN s : i < j => at(s[i]) < at(s[j])
  BY DEF Without
<1>2. K \subseteq Records
  BY DEF OffsetsInv, OffsetTypes
<1>3. \A r \in ToSet(batch) : at(r) \in DOMAIN batch /\ batch[at(r)] = r
  <2> SUFFICES ASSUME NEW r \in ToSet(batch) PROVE at(r) \in DOMAIN batch /\ batch[at(r)] = r
    OBVIOUS
  <2>1. \E i \in DOMAIN batch : batch[i] = r
    BY DEF ToSet
  <2> QED BY <2>1
<1> HIDE DEF at
<1>4. IsFiniteSet(K)
  <2>1. IsFiniteSet(Records)
    BY RecordsFinite DEF OffsetsInv, OffsetTypes
  <2> HIDE DEF K
  <2> QED BY <1>2, <2>1, FS_Subset
<1>5. ToSet(s) = K
  <2> HIDE DEF K
  <2> QED BY <1>1, <1>4, SetToSeqsFacts
<1>6. s \in Seq(Records)
  <2> HIDE DEF K
  <2> QED BY <1>1, <1>2, <1>4, SetToSeqsTypes
<1>7. ASSUME Ascending(batch) PROVE Ascending(s)
  <2>1. \A i \in DOMAIN s : s[i] \in ToSet(batch)
    BY <1>5 DEF ToSet
  <2> QED BY <1>1, <1>3, <1>7, <2>1 DEF Ascending
<1> QED BY <1>5, <1>6, <1>7

-----------------------------------------------------------------------------
(* Types. *)

\* No step changes the history that is replicated.
LEMMA SourceStays ==
  ASSUME [Next]_vars
  PROVE  source' = source /\ Records' = Records
<1>1. source' = source
  <2>1. CASE PollBrings({}) \/ ReadBatch \/ FailOnRefused \/ Throw \/ RerunLanded \/ Tick \/ Commit
             \/ Restart \/ UNCHANGED vars
    BY <2>1 DEF PollBrings, Poll, ReadBatch, FailOnRefused, Throw, RerunLanded, Tick, Commit, Restart, vars
  <2>2. CASE Apply
    BY <2>2 DEF Apply, SkipHeldTail, CommitUnit, IsolateRows, HoldOrReport, SkipSuperseded, QuarantineRow,
                StartHold, FailOnRow, TaskFails, StartResolve
  <2>3. CASE Resolve \/ \E p \in Partitions : Unanswered(p)
    BY <2>3 DEF Resolve, ApplyHeld, KeepHeld, ExpireHeld, PutReturns, Unanswered, TaskFails
  <2>4. CASE \E S \in SUBSET Partitions \ {{}} : Rebalance(S)
    BY <2>4 DEF Rebalance
  <2> QED BY <2>1, <2>2, <2>3, <2>4 DEF Next
<1>2. Records' = Records
  BY <1>1 DEF Records, log
<1> QED BY <1>1, <1>2

\* The history variables and the table.
SeenTypes ==
  /\ target \in Tables
  /\ fate \in [Records -> {"new", "written", "dead", "skipped"}]
  /\ reports \in [Records -> Nat]
  /\ transients \in 0..MaxTransient /\ restarts \in 0..MaxRestarts

LEMMA StepSeenTypes ==
  ASSUME SeenTypes, [Next]_vars
  PROVE  SeenTypes'
<1>1. Records' = Records
  BY SourceStays
<1>2. ASSUME UNCHANGED <<target, seen>> PROVE SeenTypes'
  BY <1>1, <1>2 DEF SeenTypes, seen
<1>3. \A S : Wrote(S) => fate' \in [Records -> {"new", "written", "dead", "skipped"}]
  BY DEF Wrote, SeenTypes
<1>4. \A S : Reported(S) => /\ fate' \in [Records -> {"new", "written", "dead", "skipped"}]
                             /\ reports' \in [Records -> Nat]
  BY DEF Reported, SeenTypes
<1>5. CASE PollBrings({}) \/ FailOnRefused \/ Tick \/ Commit \/ UNCHANGED vars
  BY <1>2, <1>5 DEF PollBrings, Poll, FailOnRefused, Tick, Commit, vars
<1>6. CASE ReadBatch
  <2>1. fate' \in [Records -> {"new", "written", "dead", "skipped"}] /\ reports' \in [Records -> Nat]
    BY <1>6 DEF ReadBatch, SeenTypes
  <2>2. UNCHANGED <<target, transients, restarts>>
    BY <1>6 DEF ReadBatch
  <2> QED BY <1>1, <2>1, <2>2 DEF SeenTypes
<1>7. CASE SkipHeldTail \/ IsolateRows \/ StartResolve
  BY <1>2, <1>7 DEF SkipHeldTail, IsolateRows, StartResolve
<1>8. CASE CommitUnit
  BY <1>1, <1>3, <1>8 DEF CommitUnit, SeenTypes
<1>9. CASE HoldOrReport
  <2>1. PICK r \in ToSet(batch) :
          SkipSuperseded(r) \/ QuarantineRow(r) \/ StartHold(r) \/ FailOnRow(r)
    BY <1>9 DEF HoldOrReport
  <2>2. CASE SkipSuperseded(r)
    BY <1>1, <2>2 DEF SkipSuperseded, SeenTypes
  <2>3. CASE QuarantineRow(r)
    BY <1>1, <1>4, <2>3 DEF QuarantineRow, SeenTypes
  <2>4. CASE StartHold(r) \/ FailOnRow(r)
    BY <1>2, <2>4 DEF StartHold, FailOnRow, TaskFails
  <2> QED BY <2>1, <2>2, <2>3, <2>4
<1>10. CASE Throw \/ RerunLanded
  <2>1. transients' \in 0..MaxTransient
    BY <1>10, BoundsAssumption DEF Throw, RerunLanded, SeenTypes
  <2>2. UNCHANGED <<reports, restarts>> /\ target' \in Tables
    BY <1>10 DEF Throw, RerunLanded, SeenTypes
  <2>3. fate' \in [Records -> {"new", "written", "dead", "skipped"}]
    BY <1>3, <1>10 DEF Throw, RerunLanded, SeenTypes
  <2> QED BY <1>1, <2>1, <2>2, <2>3 DEF SeenTypes
<1>11. CASE \E p \in Partitions : ApplyHeld(p) \/ KeepHeld(p) \/ ExpireHeld(p) \/ Unanswered(p)
  <2>1. PICK p \in Partitions : ApplyHeld(p) \/ KeepHeld(p) \/ ExpireHeld(p) \/ Unanswered(p)
    BY <1>11
  <2>2. CASE ApplyHeld(p)
    BY <1>1, <1>3, <2>2 DEF ApplyHeld, SeenTypes
  <2>3. CASE KeepHeld(p)
    BY <1>2, <2>3 DEF KeepHeld
  <2>4. CASE ExpireHeld(p)
    <3>1. CASE DlqWired
      BY <1>1, <1>4, <2>4, <3>1 DEF ExpireHeld, SeenTypes
    <3>2. CASE ~DlqWired
      BY <1>2, <2>4, <3>2 DEF ExpireHeld, TaskFails
    <3> QED BY <3>1, <3>2
  <2>5. CASE Unanswered(p)
    <3>0. transients < MaxTransient /\ transients' = transients + 1
      BY <2>5 DEF Unanswered
    <3>1. transients' \in 0..MaxTransient
      BY <3>0, BoundsAssumption DEF SeenTypes
    <3>2. UNCHANGED <<reports, restarts>> /\ target' \in Tables
      BY <2>5 DEF Unanswered, SeenTypes
    <3>3. fate' \in [Records -> {"new", "written", "dead", "skipped"}]
      BY <1>3, <2>5 DEF Unanswered, SeenTypes
    <3> QED BY <1>1, <3>1, <3>2, <3>3 DEF SeenTypes
  <2> QED BY <2>1, <2>2, <2>3, <2>4, <2>5
<1>12. CASE PutReturns
  BY <1>2, <1>12 DEF PutReturns
<1>13. CASE Restart \/ \E S \in SUBSET Partitions \ {{}} : Rebalance(S)
  <2>1. restarts' \in 0..MaxRestarts /\ UNCHANGED <<target, fate, reports, transients>>
    BY <1>13, BoundsAssumption DEF Restart, Rebalance, SeenTypes
  <2> QED BY <1>1, <2>1 DEF SeenTypes
<1> QED BY <1>5, <1>6, <1>7, <1>8, <1>9, <1>10, <1>11, <1>12, <1>13 DEF Next, Apply, Resolve

\* The batch, what this put made of it, and what the task remembers of it.
BatchTypes ==
  /\ batch \in Seq(Records) /\ putBatch \in Seq(Records) /\ putRefused \subseteq Records /\ PutTypes
  /\ pausedByHold \subseteq Partitions
  /\ refusedAhead \in [Partitions -> SUBSET Nat]
  /\ redelivering \in BOOLEAN
  /\ pc \in {"idle", "read", "apply", "resolve", "failed"}

LEMMA StepBatchTypes ==
  ASSUME OffsetsInv, BatchTypes, [Next]_vars
  PROVE  BatchTypes'
<1>1. Records' = Records /\ source \in SourceHistories
  BY SourceStays DEF OffsetsInv, OffsetTypes
<1>2. ASSUME UNCHANGED <<batch, putBatch, putRefused, rows, todo, pausedByHold, refusedAhead>>,
             redelivering' \in BOOLEAN,
             pc' \in {"idle", "read", "apply", "resolve", "failed"}
      PROVE  BatchTypes'
  BY <1>1, <1>2 DEF BatchTypes, PutTypes
<1>3. <<>> \in Seq(Records) /\ <<>> \in Seq(Seq(Records))
  OBVIOUS
<1>4. ASSUME Busy, UnitDone,
             UNCHANGED <<batch, putBatch, putRefused, pausedByHold, refusedAhead, redelivering, pc>>
      PROVE  BatchTypes'
  <2>1. rows' \in Seq(Records) /\ todo' \in Seq(Seq(Records))
    BY <1>4, UnitDoneFacts DEF BatchTypes
  <2> QED BY <1>1, <1>4, <2>1 DEF BatchTypes, PutTypes
<1>5. CASE PollBrings({})
  <2>1. PICK n \in [Partitions -> 0..MaxPoll] :
          (\A p \in Partitions : n[p] <= Fetchable(p)) /\ Poll(n)
    BY <1>5 DEF PollBrings
  <2>2. batch' \in Seq(Records)
    <3>1. CASE batch # <<>>
      BY <2>1, <3>1 DEF Poll, BatchTypes
    <3>2. CASE batch = <<>>
      <4>1. batch' \in SetToSeqs(Fetched(n)) /\ InOrder(batch')
        BY <2>1, <3>2 DEF Poll
      <4> QED BY <2>1, <4>1, FetchedFacts
    <3> QED BY <3>1, <3>2
  <2> QED BY <1>1, <2>1, <2>2 DEF Poll, BatchTypes, PutTypes, task
<1>6. CASE ReadBatch
  <2>1. putBatch' \in Seq(Records) /\ todo' \in Seq(Seq(Records)) /\ rows' = rows /\ batch' = batch
    BY <1>6, PreparedFacts DEF BatchTypes, ReadBatch
  <2>2. putRefused' \subseteq Records
    BY <1>6 DEF ReadBatch, OffsetsInv, OffsetTypes
  <2>3. pausedByHold' \subseteq Partitions
    BY <1>6 DEF ReadBatch, BatchTypes
  <2>4. redelivering' = TRUE /\ pc' = "apply" /\ refusedAhead' = refusedAhead
    BY <1>6 DEF ReadBatch
  <2> QED BY <1>1, <2>1, <2>2, <2>3, <2>4 DEF BatchTypes, PutTypes
<1>7. CASE FailOnRefused \/ Tick \/ RerunLanded \/ UNCHANGED vars
           \/ \E p \in Partitions : ApplyHeld(p) \/ KeepHeld(p) \/ ExpireHeld(p) \/ Unanswered(p)
  <2>1. UNCHANGED <<batch, putBatch, putRefused, rows, todo, pausedByHold, refusedAhead>>
        /\ redelivering' \in {redelivering, TRUE} /\ pc' \in {pc, "failed"}
    BY <1>7 DEF FailOnRefused, Tick, RerunLanded, ApplyHeld, KeepHeld, ExpireHeld, Unanswered,
                TaskFails, vars, connect, task, put
  <2> QED BY <1>2, <2>1 DEF BatchTypes
<1>8. CASE SkipHeldTail \/ CommitUnit
  BY <1>4, <1>8 DEF SkipHeldTail, CommitUnit, connect, task
<1>9. CASE IsolateRows
  <2>1. rows' \in Seq(Records) /\ todo' \in Seq(Seq(Records))
    BY <1>9, IsolateFacts DEF BatchTypes
  <2> QED BY <1>1, <1>9, <2>1 DEF IsolateRows, BatchTypes, PutTypes, connect, task
<1>10. CASE HoldOrReport
  <2>1. PICK r \in ToSet(batch) :
          SkipSuperseded(r) \/ QuarantineRow(r) \/ StartHold(r) \/ FailOnRow(r)
    BY <1>10 DEF HoldOrReport
  <2>2. CASE SkipSuperseded(r) \/ QuarantineRow(r)
    BY <1>4, <1>10, <2>2 DEF HoldOrReport, SkipSuperseded, QuarantineRow, connect, task
  <2>3. CASE StartHold(r)
    <3>1. r.p \in Partitions
      BY <1>1, RecordFacts DEF OffsetsInv, OffsetTypes
    <3>2. RefusedBehind(r) \subseteq Nat
      BY <1>1, RecordFacts DEF RefusedBehind, BatchTypes
    <3>3. refusedAhead' \in [Partitions -> SUBSET Nat]
      BY <2>3, <3>2 DEF StartHold, BatchTypes
    <3>4. pausedByHold' \subseteq Partitions
      BY <2>3, <3>1 DEF StartHold, BatchTypes
    <3>5. rows' \in Seq(Records) /\ todo' \in Seq(Seq(Records))
      BY <1>10, <2>3, UnitDoneFacts DEF BatchTypes, HoldOrReport, StartHold
    <3> QED BY <1>1, <2>3, <3>3, <3>4, <3>5 DEF StartHold, BatchTypes, PutTypes
  <2>4. CASE FailOnRow(r)
    BY <1>2, <2>4 DEF FailOnRow, TaskFails, connect, task, BatchTypes
  <2> QED BY <2>1, <2>2, <2>3, <2>4
<1>11. CASE Throw
  BY <1>1, <1>3, <1>11 DEF Throw, BatchTypes, PutTypes, connect
<1>12. CASE StartResolve
  BY <1>1, <1>3, <1>12 DEF StartResolve, BatchTypes, PutTypes, connect, task
<1>13. CASE PutReturns
  BY <1>1, <1>3, <1>13 DEF PutReturns, BatchTypes, PutTypes
<1>14. CASE Commit
  <2>1. refusedAhead' \in [Partitions -> SUBSET Nat]
    BY <1>14 DEF Commit, BatchTypes
  <2> QED BY <1>1, <1>14, <2>1 DEF Commit, BatchTypes, PutTypes, put
<1>15. CASE \E S \in SUBSET Partitions \ {{}} : Rebalance(S)
  <2>1. PICK S \in SUBSET Partitions : Rebalance(S)
    BY <1>15
  <2>2. batch' \in Seq(Records)
    BY <1>1, <2>1, WithoutFacts DEF Rebalance, BatchTypes
  <2>3. refusedAhead' \in [Partitions -> SUBSET Nat]
    BY <2>1 DEF Rebalance, BatchTypes
  <2>4. pausedByHold' \subseteq Partitions
    BY <2>1 DEF Rebalance, BatchTypes
  <2> QED BY <1>1, <2>1, <2>2, <2>3, <2>4 DEF Rebalance, BatchTypes, PutTypes, put
<1>16. CASE Restart
  <2>1. refusedAhead' \in [Partitions -> SUBSET Nat]
    BY <1>16 DEF Restart
  <2> QED BY <1>1, <1>3, <1>16, <2>1 DEF Restart, BatchTypes, PutTypes
<1> QED BY <1>5, <1>6, <1>7, <1>8, <1>9, <1>10, <1>11, <1>12, <1>13, <1>14, <1>15, <1>16
       DEF Next, Apply, Resolve

-----------------------------------------------------------------------------
(* What is dealt with stays dealt with. *)

FatesGrow ==
  \A r \in Records : (fate[r] # "new" => fate'[r] # "new") /\ (Settled(r) => Settled(r)')

LEMMA StepFatesGrow ==
  ASSUME SeenTypes, [Next]_vars
  PROVE  FatesGrow
<1>1. ASSUME UNCHANGED fate PROVE \A r \in Records : fate[r] # "new" => fate'[r] # "new"
  BY <1>1
<1>2. ASSUME NEW S, Wrote(S) \/ Reported(S)
      PROVE  \A r \in Records : fate[r] # "new" => fate'[r] # "new"
  BY <1>2 DEF Wrote, Reported
<1>3. \A r \in Records : fate[r] # "new" => fate'[r] # "new"
  <2>1. CASE PollBrings({}) \/ FailOnRefused \/ Tick \/ Commit \/ Restart \/ UNCHANGED vars
             \/ \E S \in SUBSET Partitions \ {{}} : Rebalance(S)
    BY <1>1, <2>1 DEF PollBrings, Poll, FailOnRefused, Tick, Commit, Restart, Rebalance, vars, seen
  <2>2. CASE ReadBatch
    BY <2>2 DEF ReadBatch
  <2>3. CASE SkipHeldTail \/ IsolateRows \/ StartResolve \/ PutReturns
    BY <1>1, <2>3 DEF SkipHeldTail, IsolateRows, StartResolve, PutReturns, seen
  <2>4. CASE CommitUnit
    BY <1>2, <2>4 DEF CommitUnit
  <2>5. CASE HoldOrReport
    <3>1. PICK r \in ToSet(batch) :
            SkipSuperseded(r) \/ QuarantineRow(r) \/ StartHold(r) \/ FailOnRow(r)
      BY <2>5 DEF HoldOrReport
    <3>2. CASE SkipSuperseded(r)
      BY <3>2 DEF SkipSuperseded, SeenTypes
    <3>3. CASE QuarantineRow(r)
      BY <1>2, <3>3 DEF QuarantineRow
    <3>4. CASE StartHold(r) \/ FailOnRow(r)
      BY <1>1, <3>4 DEF StartHold, FailOnRow, TaskFails, seen
    <3> QED BY <3>1, <3>2, <3>3, <3>4
  <2>6. CASE Throw \/ RerunLanded
    BY <1>1, <1>2, <2>6 DEF Throw, RerunLanded
  <2>7. CASE \E p \in Partitions : ApplyHeld(p) \/ KeepHeld(p) \/ ExpireHeld(p) \/ Unanswered(p)
    BY <1>1, <1>2, <2>7 DEF ApplyHeld, KeepHeld, ExpireHeld, Unanswered, TaskFails, seen
  <2> QED BY <2>1, <2>2, <2>3, <2>4, <2>5, <2>6, <2>7 DEF Next, Apply, Resolve
<1>4. \A r \in Records : ChangeAt(r)' = ChangeAt(r)
  BY SourceStays DEF ChangeAt, log
<1> QED BY <1>3, <1>4 DEF FatesGrow, Settled

\* SettledBelow after the step.
SettledThen(p, n) == \A r \in Records : r.p = p /\ r.o < n => Settled(r)'

\* A hold stands where it stood, and if its change has been dealt with it is settled.
HoldStands(p) ==
  /\ hold'[p] = NoHold <=> hold[p] = NoHold
  /\ hold[p] # NoHold =>
       /\ hold'[p].offset = hold[p].offset
       /\ Ended(p)' => Ended(p) \/ \A r \in Records : r.p = p /\ r.o = hold[p].offset => Settled(r)'

LEMMA PartitionFrame ==
  ASSUME OffsetsInv, OffsetsInv', Records' = Records, FatesGrow,
         NEW p \in Partitions, PartitionSettled(p), HoldStands(p),
         refusedAhead'[p] \subseteq refusedAhead[p],
         hold[p] = NoHold => /\ Rewound(current)'[p] = Rewound(current)[p]
                             /\ Rewound(position)'[p] = Rewound(position)[p],
         \A x \in ToSet(batch) : x.p = p => x \in ToSet(batch')
  PROVE  PartitionSettled(p)'
<1>1. \A r \in Records : r.p = p /\ r.o \in refusedAhead'[p] => fate'[r] # "new"
  BY DEF PartitionSettled, FatesGrow
<1>2. \A n : SettledBelow(p, n) => SettledThen(p, n)
  BY DEF SettledBelow, SettledThen, FatesGrow
<1>3. CASE hold[p] = NoHold
  <2>1. SettledThen(p, Rewound(current)'[p])
    BY <1>2, <1>3 DEF PartitionSettled
  <2>2. \A o \in Rewound(current)'[p]..(Rewound(position)'[p] - 1) : [p |-> p, o |-> o] \in ToSet(batch')
    BY <1>3 DEF PartitionSettled
  <2> QED BY <1>1, <1>3, <2>1, <2>2 DEF PartitionSettled, SettledBelow, SettledThen, HoldStands
<1>4. CASE hold[p] # NoHold
  <2>1. hold[p].offset \in Nat /\ hold'[p] # NoHold /\ hold'[p].offset = hold[p].offset
    BY <1>4 DEF OffsetsInv, OffsetTypes, Holds, HoldStands
  <2>2. SettledBelow(p, hold[p].offset) /\ (Ended(p) => SettledBelow(p, hold[p].offset + 1))
    <3>1. \A r \in Records : r.o \in Nat
      BY RecordFacts DEF OffsetsInv, OffsetTypes
    <3> QED BY <1>4, <2>1, <3>1 DEF PartitionSettled, SettledBelow
  <2>3. SettledThen(p, hold[p].offset) /\ (Ended(p)' => SettledThen(p, hold[p].offset + 1))
    <3>1. SettledThen(p, hold[p].offset)
      BY <1>2, <2>1, <2>2
    <3>2. ASSUME Ended(p)' PROVE SettledThen(p, hold[p].offset + 1)
      <4>1. CASE Ended(p)
        BY <1>2, <2>1, <2>2, <4>1
      <4>2. CASE ~Ended(p)
        <5>1. \A r \in Records : r.p = p /\ r.o = hold[p].offset => Settled(r)'
          BY <1>4, <3>2, <4>2 DEF HoldStands
        <5>2. \A r \in Records : r.p = p /\ r.o < hold[p].offset => Settled(r)'
          BY <2>2 DEF SettledBelow, FatesGrow
        <5>3. \A r \in Records : r.o \in Nat
          BY RecordFacts DEF OffsetsInv, OffsetTypes
        <5> QED BY <2>1, <5>1, <5>2, <5>3 DEF SettledThen
      <4> QED BY <4>1, <4>2
    <3> QED BY <3>1, <3>2
  <2> QED BY <1>1, <2>1, <2>3 DEF PartitionSettled, SettledBelow, SettledThen
<1> QED BY <1>3, <1>4

\* Whatever may be committed is settled.
LEMMA SettledCommit ==
  ASSUME OffsetsInv, NEW p \in Partitions, PartitionSettled(p), NEW c \in Nat,
         IF hold[p] = NoHold THEN c <= Rewound(current)[p] ELSE c <= hold[p].offset
  PROVE  SettledBelow(p, c)
<1>1. \A r \in Records : r.o \in Nat
  BY RecordFacts DEF OffsetsInv, OffsetTypes
<1>2. Rewound(current)[p] \in Nat /\ (hold[p] # NoHold => hold[p].offset \in Nat)
  BY RewoundFacts DEF Holds
<1>3. CASE hold[p] = NoHold
  BY <1>1, <1>2, <1>3 DEF PartitionSettled, SettledBelow
<1>4. CASE hold[p] # NoHold
  BY <1>1, <1>2, <1>4 DEF PartitionSettled, SettledBelow
<1> QED BY <1>3, <1>4

-----------------------------------------------------------------------------
(* The order of what a put has still to apply. *)

Typed == OffsetsInv /\ BatchTypes /\ SeenTypes

LEMMA StepOrder ==
  ASSUME Typed, SettledInv, [Next]_vars
  PROVE  Ascending(batch)' /\ PutOrder'
<1>1. Ascending(batch) /\ PutOrder /\ PutCovers /\ BatchTypes /\ OffsetsInv
  BY DEF SettledInv, Typed
<1>2. Ascending(<<>>)
  BY DEF Ascending
<1>3. ASSUME UNCHANGED <<rows, todo>> PROVE PutOrder'
  BY <1>1, <1>3 DEF PutOrder, Ahead, Ascending
<1>4. ASSUME rows' = <<>>, todo' = <<>> PROVE PutOrder'
  <2>1. DOMAIN todo' = {}
    BY <1>4
  <2> QED BY <1>2, <1>4, <2>1 DEF PutOrder, Ascending
<1>5. ASSUME Busy, UnitDone PROVE PutOrder'
  BY <1>1, <1>5, UnitDoneFacts DEF BatchTypes
<1>6. ASSUME UNCHANGED batch PROVE Ascending(batch)'
  BY <1>1, <1>6 DEF Ascending
<1>7. CASE PollBrings({})
  <2>1. PICK n \in [Partitions -> 0..MaxPoll] :
          (\A p \in Partitions : n[p] <= Fetchable(p)) /\ Poll(n)
    BY <1>7 DEF PollBrings
  <2>2. Ascending(batch')
    <3>1. CASE batch # <<>>
      BY <1>1, <2>1, <3>1 DEF Poll
    <3>2. CASE batch = <<>>
      <4>1. batch' \in SetToSeqs(Fetched(n)) /\ InOrder(batch')
        BY <2>1, <3>2 DEF Poll
      <4> QED BY <1>1, <2>1, <4>1, FetchedFacts
    <3> QED BY <3>1, <3>2
  <2>3. UNCHANGED <<rows, todo>>
    BY <2>1 DEF Poll
  <2> QED BY <1>3, <2>2, <2>3 DEF Ascending
<1>8. CASE ReadBatch
  <2>1. rows = <<>> /\ UNCHANGED batch
    BY <1>1, <1>8 DEF ReadBatch, PutCovers
  <2>2. PutOrder'
    BY <1>1, <1>8, <2>1, PreparedFacts DEF BatchTypes
  <2> QED BY <1>6, <2>1, <2>2
<1>9. CASE FailOnRefused \/ Tick \/ Commit \/ RerunLanded \/ UNCHANGED vars
           \/ \E p \in Partitions : ApplyHeld(p) \/ KeepHeld(p) \/ ExpireHeld(p) \/ Unanswered(p)
  <2>1. UNCHANGED <<rows, todo, batch>>
    BY <1>9 DEF FailOnRefused, Tick, Commit, RerunLanded, ApplyHeld, KeepHeld, ExpireHeld, Unanswered,
                TaskFails, vars, connect, put
  <2> QED BY <1>3, <1>6, <2>1
<1>10. CASE SkipHeldTail \/ CommitUnit
  BY <1>5, <1>6, <1>10 DEF SkipHeldTail, CommitUnit, connect
<1>11. CASE IsolateRows
  <2>1. PutOrder'
    BY <1>1, <1>11, IsolateFacts DEF BatchTypes
  <2> QED BY <1>6, <1>11, <2>1 DEF IsolateRows, connect
<1>12. CASE HoldOrReport
  <2>1. Busy /\ \E r \in ToSet(batch) :
          SkipSuperseded(r) \/ QuarantineRow(r) \/ StartHold(r) \/ FailOnRow(r)
    BY <1>12 DEF HoldOrReport
  <2>2. UNCHANGED batch /\ (UnitDone \/ UNCHANGED <<rows, todo>>)
    BY <2>1 DEF SkipSuperseded, QuarantineRow, StartHold, FailOnRow, TaskFails, connect
  <2> QED BY <1>3, <1>5, <1>6, <2>1, <2>2
<1>13. CASE Throw \/ StartResolve
  <2>1. UNCHANGED batch /\ (UNCHANGED <<rows, todo>> \/ (rows' = <<>> /\ todo' = <<>>))
    BY <1>13 DEF Throw, StartResolve, connect
  <2> QED BY <1>3, <1>4, <1>6, <2>1
<1>14. CASE PutReturns
  BY <1>2, <1>3, <1>14 DEF PutReturns
<1>15. CASE Restart
  BY <1>2, <1>4, <1>15 DEF Restart
<1>16. CASE \E S \in SUBSET Partitions \ {{}} : Rebalance(S)
  <2>1. PICK S \in SUBSET Partitions : Rebalance(S)
    BY <1>16
  <2>2. Ascending(batch')
    BY <1>1, <2>1, WithoutFacts DEF Rebalance, BatchTypes
  <2> QED BY <1>3, <2>1, <2>2 DEF Rebalance, put, Ascending
<1> QED BY <1>7, <1>8, <1>9, <1>10, <1>11, <1>12, <1>13, <1>14, <1>15, <1>16 DEF Next, Apply, Resolve

-----------------------------------------------------------------------------
(* A delivered record is dealt with, behind a hold, or still to be applied. *)

\* The holds stand where they stood, so what was behind one still is.
TailsStay == \A r \in Records : HeldTail(r) => HeldTail(r)'

LEMMA CoversFrame ==
  ASSUME Typed, SettledInv, Records' = Records, FatesGrow, TailsStay,
         UNCHANGED <<batch, rows, todo>>,
         putRefused' \in {putRefused, {}}, pc' \in {pc, "failed"}
  PROVE  PutCovers'
<1>1. PutCovers /\ ToSet(batch) \subseteq Records
  BY DEF SettledInv, Typed, OffsetsInv, OffsetTypes
<1>2. Left' = Left
  BY DEF Left
<1>3. \A r \in ToSet(batch) : Settled(r) \/ HeldTail(r) => Settled(r)' \/ HeldTail(r)'
  BY <1>1 DEF FatesGrow, TailsStay
<1>4. \A r \in putRefused : fate'[r] # "new"
  BY <1>1 DEF FatesGrow, PutCovers
<1> QED BY <1>1, <1>2, <1>3, <1>4 DEF PutCovers

\* A unit that was dealt with leaves nothing of its records uncovered.
LEMMA CoversUnitDone ==
  ASSUME Typed, SettledInv, Records' = Records, FatesGrow, TailsStay, Busy, UnitDone,
         \A r \in ToSet(Unit) : Settled(r)' \/ HeldTail(r)',
         UNCHANGED <<batch, putRefused, pc>>
  PROVE  PutCovers'
<1>1. PutCovers /\ ToSet(batch) \subseteq Records /\ PutTypes /\ pc = "apply"
  BY DEF SettledInv, Typed, OffsetsInv, OffsetTypes, BatchTypes, Busy
<1>2. Left = ToSet(Upcoming) \cup Left'
  BY <1>1, UnitDoneFacts
<1>3. ToSet(Unit) = {r \in ToSet(Upcoming) : ~HeldTail(r)}
  BY <1>1, UnitFacts
<1>4. \A r \in ToSet(batch) : Settled(r)' \/ HeldTail(r)' \/ r \in Left'
  <2> SUFFICES ASSUME NEW r \in ToSet(batch) PROVE Settled(r)' \/ HeldTail(r)' \/ r \in Left'
    OBVIOUS
  <2>1. Settled(r) \/ HeldTail(r) \/ r \in Left
    BY <1>1 DEF PutCovers
  <2> QED BY <1>1, <1>2, <1>3, <2>1 DEF FatesGrow, TailsStay
<1>5. \A r \in putRefused : fate'[r] # "new"
  BY <1>1 DEF FatesGrow, PutCovers
<1> QED BY <1>1, <1>2, <1>4, <1>5 DEF PutCovers

\* What a put skips is behind a hold, or went to the dead-letter queue behind one.
LEMMA CoversReadBatch ==
  ASSUME Typed, SettledInv, Records' = Records, FatesGrow, TailsStay, ReadBatch
  PROVE  PutCovers'
<1>1. /\ PutCovers /\ ToSet(batch) \subseteq Records /\ batch \in Seq(Records)
      /\ \A p \in Partitions : PartitionSettled(p)
  BY DEF SettledInv, Typed, OffsetsInv, OffsetTypes, BatchTypes
<1>2. /\ pc = "read" /\ pc' = "apply" /\ rows' = rows /\ batch' = batch
      /\ putRefused' = {r \in ToSet(batch) : Refuses(r)}
      /\ \A r \in Records : r \in putRefused' => fate'[r] = "dead"
  BY DEF ReadBatch
<1>3. Left' = {r \in ToSet(batch) : Prepares(r)}
  <2>1. rows' = <<>> /\ ToSet(<<>>) = {}
    BY <1>1, <1>2 DEF PutCovers, ToSet
  <2>2. Members(todo)' = {r \in ToSet(batch) : Prepares(r)}
    BY <1>1, PreparedFacts
  <2> QED BY <2>1, <2>2 DEF Left, Members
<1>4. ASSUME NEW r \in ToSet(batch) PROVE Settled(r)' \/ HeldTail(r)' \/ r \in Left'
  <2>1. r \in Records /\ r.p \in Partitions
    BY <1>1, RecordFacts DEF Typed, OffsetsInv, OffsetTypes
  <2>2. CASE HeldTail(r)
    BY <2>1, <2>2 DEF TailsStay
  <2>3. CASE r.o \in refusedAhead[r.p]
    BY <1>1, <2>1, <2>3 DEF PartitionSettled, FatesGrow, Settled
  <2>4. CASE Refuses(r)
    BY <1>2, <2>1, <2>4 DEF Settled
  <2>5. CASE IsDelete(ChangeAt(r)) /\ ~DeleteEnabled
    BY <2>1, <2>5 DEF Settled, FatesGrow
  <2>6. CapsOfPut[r.p] = 0
    BY <1>2, <2>1 DEF Typed, OffsetsInv, PutPhases, CapsOfPut
  <2> QED BY <1>3, <2>2, <2>3, <2>4, <2>5, <2>6 DEF Prepares, SkipHeldOrRefused
<1>5. \A r \in putRefused' : r \in ToSet(batch) /\ fate'[r] # "new"
  BY <1>1, <1>2
<1> QED BY <1>2, <1>3, <1>4, <1>5 DEF PutCovers

-----------------------------------------------------------------------------
(* The holds of a step that starts and releases none. *)

\* A record is its partition and its offset.
LEMMA RecordIs ==
  ASSUME NEW r \in Records
  PROVE  r = [p |-> r.p, o |-> r.o]
BY DEF Records

\* Only what ends a hold changes whether it has ended.
LEMMA EndedUpdates ==
  ASSUME NEW h \in Holds
  PROVE  /\ [h EXCEPT !.lookahead = FALSE].ended = h.ended
         /\ [h EXCEPT !.age = 0].ended = h.ended
         /\ [h EXCEPT !.due = FALSE].ended = h.ended
         /\ [h EXCEPT !.due = FALSE, !.age = 0].ended = h.ended
         /\ [h EXCEPT !.due = TRUE, !.age = Lower(@ + 1, Budget)].ended = h.ended
BY DEF Holds

\* Whatever the task updates, a hold stays a hold where it stood; one that a step ends has
\* been applied, dead-lettered or replaced by it.
LEMMA HoldsStand ==
  ASSUME Typed, Records' = Records,
         \/ UNCHANGED hold
         \/ ReadBatch \/ Throw \/ Tick
         \/ \E p \in Partitions : ApplyHeld(p) \/ KeepHeld(p) \/ ExpireHeld(p) \/ Unanswered(p)
  PROVE  \A p \in Partitions : HoldStands(p)
<1>1. /\ hold \in [Partitions -> Holds \cup {NoHold}] /\ untried \subseteq Partitions
      /\ \A p \in untried : hold[p] # NoHold
      /\ \A p \in Partitions : hold[p] # NoHold => hold[p] \in Holds
  BY DEF Typed, OffsetsInv, OffsetTypes, PutPhases
\* An update h of p's hold.
<1> DEFINE Same(p, h) == h # NoHold /\ h.offset = hold[p].offset /\ h.ended = hold[p].ended
           Done(p) == \A r \in Records : r.p = p /\ r.o = hold[p].offset => Settled(r)'
           Ends(p, h) == h # NoHold /\ h.offset = hold[p].offset /\ Done(p)
<1>2. \A p \in Partitions : hold[p] # NoHold =>
        /\ Same(p, [hold[p] EXCEPT !.lookahead = FALSE])
        /\ Same(p, [hold[p] EXCEPT !.age = 0])
        /\ Same(p, [hold[p] EXCEPT !.due = FALSE])
        /\ Same(p, [hold[p] EXCEPT !.due = FALSE, !.age = 0])
        /\ Same(p, [hold[p] EXCEPT !.due = TRUE, !.age = Lower(@ + 1, Budget)])
        /\ Same(p, hold[p])
  <2> SUFFICES ASSUME NEW p \in Partitions, hold[p] # NoHold, NEW h, h = hold[p]
               PROVE  /\ Same(p, [h EXCEPT !.lookahead = FALSE])
                      /\ Same(p, [h EXCEPT !.age = 0])
                      /\ Same(p, [h EXCEPT !.due = FALSE])
                      /\ Same(p, [h EXCEPT !.due = FALSE, !.age = 0])
                      /\ Same(p, [h EXCEPT !.due = TRUE, !.age = Lower(@ + 1, Budget)])
                      /\ Same(p, h)
    OBVIOUS
  <2>1. h \in Holds
    BY <1>1
  <2> QED BY <2>1, HoldUpdates, EndedUpdates, NoHoldAssumption
<1>3. \A p \in Partitions : hold[p] # NoHold /\ Done(p) =>
        \A e \in {"applied", "dead", "replaced"} : Ends(p, [hold[p] EXCEPT !.ended = e])
  <2> SUFFICES ASSUME NEW p \in Partitions, hold[p] # NoHold, Done(p), NEW h, h = hold[p],
                      NEW e \in {"applied", "dead", "replaced"}
               PROVE  Ends(p, [h EXCEPT !.ended = e])
    OBVIOUS
  <2>1. h \in Holds
    BY <1>1
  <2>2. [h EXCEPT !.ended = e] \in Holds /\ [h EXCEPT !.ended = e].offset = h.offset
    BY <2>1, HoldUpdates
  <2> QED BY <2>2, NoHoldAssumption
<1>4. ASSUME NEW p \in Partitions,
             IF hold[p] = NoHold THEN hold'[p] = NoHold ELSE Same(p, hold'[p]) \/ Ends(p, hold'[p])
      PROVE  HoldStands(p)
  BY <1>4 DEF HoldStands, Ended
<1>5. \A p \in Partitions : hold[p] # NoHold => \A r \in Records :
        r.p = p /\ r.o = hold[p].offset => r = HeadOf(p)
  BY RecordIs DEF HeadOf
<1> HIDE DEF Same, Ends
<1>6. CASE UNCHANGED hold
  BY <1>2, <1>4, <1>6
<1>7. CASE Throw
  <2>1. \A p \in Partitions : hold'[p] = IF Waits(p) THEN [hold[p] EXCEPT !.age = 0] ELSE hold[p]
    BY <1>7 DEF Throw
  <2> QED BY <1>2, <1>4, <2>1 DEF Waits
<1>8. CASE Tick
  <2>1. \A p \in Partitions : hold'[p] =
          IF Waits(p) THEN [hold[p] EXCEPT !.due = TRUE, !.age = Lower(@ + 1, Budget)] ELSE hold[p]
    BY <1>8 DEF Tick
  <2> QED BY <1>2, <1>4, <2>1 DEF Waits
<1>9. CASE ReadBatch
  <2> DEFINE ahead(p) == {r \in Delivered(p) : r.o > hold[p].frontier}
             looked == {p \in Partitions : Waits(p) /\ hold[p].lookahead /\ ahead(p) # {}}
             replaced == {p \in looked : \E r \in ahead(p) : Superseding(HeadOf(p), r)}
             pauses == looked \ replaced
             refused == {r \in ToSet(batch) : Refuses(r)}
  <2>1. /\ hold' = [p \in Partitions |->
                      IF p \in replaced THEN [hold[p] EXCEPT !.ended = "replaced"]
                      ELSE IF p \in pauses THEN [hold[p] EXCEPT !.lookahead = FALSE]
                      ELSE hold[p]]
        /\ fate' = [r \in Records |-> IF r \in refused THEN "dead"
                                      ELSE IF r \in {HeadOf(p) : p \in replaced} THEN "skipped"
                                      ELSE fate[r]]
    BY <1>9 DEF ReadBatch
  <2>2. \A p \in looked : hold[p] # NoHold
    BY DEF Waits
  <2>3. replaced \subseteq looked /\ pauses \subseteq looked /\ looked \subseteq Partitions
    OBVIOUS
  <2> HIDE DEF looked, replaced, pauses, refused
  <2>4. \A p \in replaced : Done(p)
    <3> SUFFICES ASSUME NEW p \in replaced, NEW r \in Records, r.p = p, r.o = hold[p].offset
                 PROVE  Settled(r)'
      OBVIOUS
    <3>1. r = HeadOf(p)
      BY <1>5, <2>2, <2>3
    <3>2. fate'[r] \in {"dead", "skipped"}
      BY <2>1, <3>1
    <3> QED BY <3>2 DEF Settled
  <2>5. ASSUME NEW p \in Partitions PROVE HoldStands(p)
    <3>1. CASE p \in replaced
      <4>1. hold'[p] = [hold[p] EXCEPT !.ended = "replaced"] /\ hold[p] # NoHold
        BY <2>1, <2>2, <2>3, <3>1
      <4>2. Ends(p, hold'[p])
        BY <1>3, <2>4, <3>1, <4>1
      <4> QED BY <1>4, <4>1, <4>2
    <3>2. CASE p \in pauses /\ p \notin replaced
      BY <1>2, <1>4, <2>1, <2>2, <2>3, <3>2
    <3>3. CASE p \notin pauses /\ p \notin replaced
      BY <1>2, <1>4, <2>1, <3>3
    <3> QED BY <3>1, <3>2, <3>3
  <2> QED BY <2>5
<1>10. CASE \E p \in Partitions : ApplyHeld(p) \/ KeepHeld(p) \/ ExpireHeld(p) \/ Unanswered(p)
  <2>1. PICK p \in Partitions : ApplyHeld(p) \/ KeepHeld(p) \/ ExpireHeld(p) \/ Unanswered(p)
    BY <1>10
  <2>2. hold[p] # NoHold
    BY <1>1, <2>1 DEF ApplyHeld, KeepHeld, ExpireHeld, Unanswered, Trying
  <2>3. ASSUME NEW e \in {"applied", "dead"}, hold' = [hold EXCEPT ![p].ended = e], Done(p)
        PROVE  \A q \in Partitions : HoldStands(q)
    <3>1. Ends(p, hold'[p]) /\ \A q \in Partitions \ {p} : hold'[q] = hold[q]
      BY <1>1, <1>3, <2>2, <2>3
    <3> QED BY <1>2, <1>4, <2>2, <3>1
  <2>4. CASE ApplyHeld(p)
    <3>1. Done(p)
      BY <1>5, <2>2, <2>4 DEF ApplyHeld, Wrote, Settled
    <3> QED BY <2>3, <2>4, <3>1 DEF ApplyHeld
  <2>5. CASE KeepHeld(p)
    <3>1. Same(p, hold'[p]) /\ \A q \in Partitions \ {p} : hold'[q] = hold[q]
      BY <1>1, <1>2, <2>2, <2>5 DEF KeepHeld
    <3> QED BY <1>2, <1>4, <2>2, <3>1
  <2>6. CASE ExpireHeld(p)
    <3>1. CASE DlqWired
      <4>1. Done(p)
        BY <1>5, <2>2, <2>6, <3>1 DEF ExpireHeld, Reported, Settled
      <4> QED BY <2>3, <2>6, <3>1, <4>1 DEF ExpireHeld
    <3>2. CASE ~DlqWired
      BY <1>2, <1>4, <2>6, <3>2 DEF ExpireHeld, TaskFails, task
    <3> QED BY <3>1, <3>2
  <2>7. CASE Unanswered(p)
    <3>1. \A q \in Partitions : hold'[q] =
            IF Waits(q) THEN [hold[q] EXCEPT !.due = FALSE, !.age = 0] ELSE hold[q]
      BY <2>7 DEF Unanswered
    <3> QED BY <1>2, <1>4, <3>1 DEF Waits
  <2> QED BY <2>1, <2>4, <2>5, <2>6, <2>7
<1> QED BY <1>6, <1>7, <1>8, <1>9, <1>10

\* What is behind such a hold stays behind it.
LEMMA TailsStand ==
  ASSUME Typed, \A p \in Partitions : HoldStands(p)
  PROVE  TailsStay
<1>1. \A r \in Records : r.p \in Partitions
  BY RecordFacts DEF Typed, OffsetsInv, OffsetTypes
<1> QED BY <1>1 DEF TailsStay, HeldTail, HoldStands

-----------------------------------------------------------------------------
(* PutCovers, step by step. *)

\* A hold that starts has its change and what follows it behind it.
LEMMA StartHoldTails ==
  ASSUME Typed, NEW r \in ToSet(batch), StartHold(r)
  PROVE  /\ TailsStay /\ HeldTail(r)'
         /\ r \in Records /\ r.p \in Partitions /\ r.o \in Nat \ {0} /\ hold[r.p] = NoHold
         /\ hold'[r.p] # NoHold /\ hold'[r.p].offset = r.o /\ hold'[r.p].ended = "no"
         /\ \A p \in Partitions \ {r.p} : hold'[p] = hold[p]
<1>1. r \in Records /\ r.p \in Partitions /\ r.o \in Nat \ {0}
  BY RecordFacts DEF Typed, OffsetsInv, OffsetTypes
<1>2. /\ hold \in [Partitions -> Holds \cup {NoHold}] /\ hold[r.p] = NoHold
      /\ hold' = [hold EXCEPT ![r.p] = NewHold(r)]
  BY DEF Typed, OffsetsInv, OffsetTypes, StartHold
<1>3. NewHold(r) # NoHold /\ NewHold(r).offset = r.o /\ NewHold(r).ended = "no"
  <2> DEFINE atOnce == PausesAtOnce(ChangeAt(r))
             last == LastOffset(r.p)
  <2>1. last \in Nat
    BY <1>1, LastOffsetFacts DEF Typed, OffsetsInv, OffsetTypes, Delivered
  <2>2. atOnce \in BOOLEAN
    BY DEF PausesAtOnce, HasSourceKey, IsMove
  <2>3. NewHold(r) = [offset |-> r.o, frontier |-> IF atOnce THEN r.o ELSE last,
                      lookahead |-> ~atOnce, ended |-> "no", due |-> TRUE, age |-> 0]
    BY DEF NewHold
  <2>4. 0 \in 0..Budget
    BY BudgetAssumption
  <2> HIDE DEF atOnce, last
  <2>5. NewHold(r) \in Holds
    BY <1>1, <2>1, <2>2, <2>3, <2>4 DEF Holds
  <2>6. NewHold(r).offset = r.o /\ NewHold(r).ended = "no"
    BY <2>3
  <2>7. NewHold(r) # NoHold
    BY <2>5, NoHoldAssumption
  <2> QED BY <2>6, <2>7
<1>4. /\ hold'[r.p] # NoHold /\ hold'[r.p].offset = r.o /\ hold'[r.p].ended = "no"
      /\ \A p \in Partitions \ {r.p} : hold'[p] = hold[p]
  BY <1>1, <1>2, <1>3
<1>5. TailsStay
  <2>1. \A x \in Records : x.p \in Partitions
    BY RecordFacts DEF Typed, OffsetsInv, OffsetTypes
  <2> QED BY <1>2, <1>4, <2>1 DEF TailsStay, HeldTail
<1>6. HeldTail(r)'
  BY <1>1, <1>4 DEF HeldTail
<1> QED BY <1>1, <1>2, <1>4, <1>5, <1>6

LEMMA StepCovers ==
  ASSUME Typed, SettledInv, [Next]_vars
  PROVE  PutCovers'
<1>1. Records' = Records /\ FatesGrow /\ PutCovers
  BY SourceStays, StepFatesGrow DEF Typed, SettledInv
<1>2. UNCHANGED hold => TailsStay
  <2>1. UNCHANGED hold => \A p \in Partitions : HoldStands(p)
    BY <1>1, HoldsStand
  <2> QED BY <2>1, TailsStand
<1>3. ASSUME UNCHANGED <<rows, todo>>, rows = <<>>, todo = <<>>, putRefused = {}, putRefused' = {},
             pc' \in {"idle", "read", "failed"}
      PROVE  PutCovers'
  <2>1. Left' = {}
    BY <1>3 DEF Left, ToSet
  <2> QED BY <1>3, <2>1 DEF PutCovers
<1>4. ASSUME rows' = <<>>, todo' = <<>>, putRefused' = {}, pc' = "idle" PROVE PutCovers'
  <2>1. Left' = {}
    BY <1>4 DEF Left, ToSet
  <2> QED BY <1>4, <2>1 DEF PutCovers
<1>5. CASE PollBrings({})
  <2>1. /\ pc = "idle" /\ pc' = "read" /\ UNCHANGED <<rows, todo, putRefused>>
    BY <1>5 DEF PollBrings, Poll
  <2> QED BY <1>1, <1>3, <2>1 DEF PutCovers
<1>6. CASE ReadBatch
  <2>1. TailsStay
    BY <1>1, <1>6, HoldsStand, TailsStand
  <2> QED BY <1>1, <1>6, <2>1, CoversReadBatch
<1>7. CASE FailOnRefused
  <2>1. pc = "read" /\ pc' = "failed" /\ UNCHANGED <<rows, todo, putRefused>>
    BY <1>7 DEF FailOnRefused
  <2> QED BY <1>1, <1>3, <2>1 DEF PutCovers
<1>8. CASE SkipHeldTail
  <2>1. Busy /\ UnitDone /\ Unit = <<>> /\ UNCHANGED <<hold, batch, putRefused, pc>>
    BY <1>8 DEF SkipHeldTail, connect, task
  <2>2. ToSet(Unit) = {}
    BY <2>1 DEF ToSet
  <2> QED BY <1>1, <1>2, <2>1, <2>2, CoversUnitDone
<1>9. CASE CommitUnit
  <2>1. Busy /\ UnitDone /\ Wrote(ToSet(Unit)) /\ UNCHANGED <<hold, batch, putRefused, pc>>
    BY <1>9 DEF CommitUnit, connect, task
  <2>2. \A r \in ToSet(Unit) : r \in Records
    BY <2>1, UnitFacts DEF Typed, BatchTypes, ToSet
  <2>3. \A r \in ToSet(Unit) : Settled(r)'
    BY <2>1, <2>2 DEF Wrote, Settled
  <2> QED BY <1>1, <1>2, <2>1, <2>3, CoversUnitDone
<1>10. CASE IsolateRows
  <2>1. /\ UNCHANGED <<hold, batch, putRefused, pc>> /\ Busy
    BY <1>10 DEF IsolateRows, connect, task
  <2>2. Left' \subseteq Left /\ \A r \in Left : r \in Left' \/ HeldTail(r)
    BY <1>10, IsolateFacts DEF Typed, BatchTypes
  <2>3. ToSet(batch) \subseteq Records
    BY DEF Typed, OffsetsInv, OffsetTypes
  <2>4. \A r \in ToSet(batch) : Settled(r)' \/ HeldTail(r)' \/ r \in Left'
    BY <1>1, <1>2, <2>1, <2>2, <2>3 DEF PutCovers, FatesGrow, TailsStay, Busy
  <2>5. \A r \in putRefused : fate'[r] # "new"
    BY <1>1, <2>3 DEF PutCovers, FatesGrow
  <2> QED BY <1>1, <2>1, <2>2, <2>4, <2>5 DEF PutCovers, Busy
<1>11. CASE HoldOrReport
  <2>1. PICK r \in ToSet(batch) :
          SkipSuperseded(r) \/ QuarantineRow(r) \/ StartHold(r) \/ FailOnRow(r)
    BY <1>11 DEF HoldOrReport
  <2>2. Busy /\ r \in Records
    BY <1>11 DEF HoldOrReport, Typed, OffsetsInv, OffsetTypes
  <2>3. ToSet(Unit) = {r}
    BY <2>1, <2>2, Single DEF SkipSuperseded, QuarantineRow, StartHold, FailOnRow, RejectedRow
  <2>4. CASE SkipSuperseded(r) \/ QuarantineRow(r)
    <3>1. UnitDone /\ UNCHANGED <<hold, batch, putRefused, pc>>
      BY <2>4 DEF SkipSuperseded, QuarantineRow, connect, task
    <3>2. Settled(r)'
      <4>1. CASE SkipSuperseded(r)
        BY <2>2, <4>1 DEF SkipSuperseded, Settled, Typed, SeenTypes
      <4>2. CASE QuarantineRow(r)
        BY <2>2, <4>2 DEF QuarantineRow, Reported, Settled
      <4> QED BY <2>4, <4>1, <4>2
    <3> QED BY <1>1, <1>2, <2>2, <2>3, <3>1, <3>2, CoversUnitDone
  <2>5. CASE StartHold(r)
    <3>1. UnitDone /\ UNCHANGED <<batch, putRefused, pc>>
      BY <2>5 DEF StartHold
    <3>2. TailsStay /\ HeldTail(r)'
      BY <2>5, StartHoldTails
    <3> QED BY <1>1, <2>2, <2>3, <3>1, <3>2, CoversUnitDone
  <2>6. CASE FailOnRow(r)
    <3>1. UNCHANGED <<hold, batch, rows, todo, putRefused>> /\ pc' = "failed"
      BY <2>6 DEF FailOnRow, TaskFails, connect, task
    <3> QED BY <1>1, <1>2, <3>1, CoversFrame
  <2> QED BY <2>1, <2>4, <2>5, <2>6
<1>12. CASE Throw
  BY <1>4, <1>12 DEF Throw
<1>13. CASE RerunLanded \/ Commit \/ UNCHANGED vars
  <2>1. UNCHANGED <<hold, batch, rows, todo, putRefused, pc>>
    BY <1>13 DEF RerunLanded, Commit, vars, connect, task, put
  <2> QED BY <1>1, <1>2, <2>1, CoversFrame
<1>14. CASE Tick \/ \E p \in Partitions :
                      ApplyHeld(p) \/ KeepHeld(p) \/ ExpireHeld(p) \/ Unanswered(p)
  <2>1. UNCHANGED <<batch, rows, todo, putRefused>> /\ pc' \in {pc, "failed"}
    BY <1>14 DEF Tick, ApplyHeld, KeepHeld, ExpireHeld, Unanswered, TaskFails, connect, put
  <2>2. TailsStay
    BY <1>1, <1>14, HoldsStand, TailsStand
  <2> QED BY <1>1, <2>1, <2>2, CoversFrame
<1>15. CASE StartResolve
  <2>1. UNCHANGED <<hold, batch, rows, todo>> /\ putRefused' = {} /\ pc = "apply" /\ pc' = "resolve"
        /\ rows = <<>> /\ todo = <<>>
    BY <1>15 DEF StartResolve, connect, task
  <2>2. ToSet(batch) \subseteq Records
    BY DEF Typed, OffsetsInv, OffsetTypes
  <2>3. Left' = Left /\ Left = {}
    BY <2>1 DEF Left, ToSet
  <2>4. \A r \in ToSet(batch) : Settled(r)' \/ HeldTail(r)'
    BY <1>1, <1>2, <2>1, <2>2, <2>3 DEF PutCovers, FatesGrow, TailsStay
  <2> QED BY <2>1, <2>3, <2>4 DEF PutCovers
<1>16. CASE PutReturns
  <2>1. pc = "resolve" /\ pc' = "idle" /\ UNCHANGED <<rows, todo, putRefused>>
    BY <1>16 DEF PutReturns
  <2> QED BY <1>1, <1>3, <2>1 DEF PutCovers
<1>17. CASE Restart
  BY <1>4, <1>17 DEF Restart
<1>18. CASE \E S \in SUBSET Partitions \ {{}} : Rebalance(S)
  <2>1. pc = "idle" /\ UNCHANGED <<rows, todo, putRefused, pc>>
    BY <1>18 DEF Rebalance, put
  <2> QED BY <1>1, <1>3, <2>1 DEF PutCovers
<1> QED BY <1>5, <1>6, <1>7, <1>8, <1>9, <1>10, <1>11, <1>12, <1>13, <1>14, <1>15, <1>16, <1>17, <1>18
       DEF Next, Apply, Resolve

-----------------------------------------------------------------------------
(* Up to where a partition is settled, step by step. *)

\* A batch that is fetched begins where the last one ended.
LEMMA PollSettles ==
  ASSUME Typed, OffsetsInv', SettledInv, Records' = Records, FatesGrow, PollBrings({}),
         NEW p \in Partitions
  PROVE  PartitionSettled(p)'
<1>1. PICK n \in [Partitions -> 0..MaxPoll] :
        (\A q \in Partitions : n[q] <= Fetchable(q)) /\ Poll(n)
  BY DEF PollBrings
<1>2. /\ UNCHANGED <<hold, refusedAhead>> /\ rewind'[p] = 0
      /\ position'[p] = Rewound(position)[p] + n[p] /\ current'[p] = Rewound(current)[p]
  BY <1>1 DEF Poll, task, Rewound
<1>3. /\ Rewound(position)'[p] = Rewound(position)[p] + n[p]
      /\ Rewound(current)'[p] = Rewound(current)[p]
  BY <1>2 DEF Rewound
<1>4. PartitionSettled(p) /\ HoldStands(p)
  <2>1. UNCHANGED hold
    BY <1>2
  <2> QED BY <2>1, HoldsStand DEF SettledInv
<1>5. n[p] \in Nat /\ Rewound(position)[p] \in Nat /\ Rewound(current)[p] \in Nat
  BY <1>1, BoundsAssumption, RewoundFacts DEF Typed
<1>6. CASE hold[p] # NoHold
  <2>1. hold'[p] # NoHold
    BY <1>2, <1>6
  <2>2. (\A r \in Records : r.p = p /\ r.o \in refusedAhead'[p] => fate'[r] # "new")
        /\ SettledThen(p, IF Ended(p) THEN hold[p].offset + 1 ELSE hold[p].offset)
    BY <1>2, <1>4, <1>6 DEF PartitionSettled, SettledBelow, SettledThen, FatesGrow
  <2> QED BY <1>2, <2>1, <2>2 DEF PartitionSettled, SettledThen, SettledBelow, Ended
<1>7. CASE hold[p] = NoHold /\ batch # <<>>
  <2>1. batch' = batch /\ n[p] = 0
    BY <1>1, <1>7 DEF Poll
  <2> QED BY <1>2, <1>3, <1>4, <1>5, <2>1, PartitionFrame DEF Typed
<1>8. CASE hold[p] = NoHold /\ batch = <<>>
  <2>1. ToSet(batch') = Fetched(n)
    <3>1. batch' \in SetToSeqs(Fetched(n)) /\ InOrder(batch')
      BY <1>1, <1>8 DEF Poll
    <3> QED BY <1>1, <3>1, FetchedFacts DEF Typed
  <2>2. \A o \in Rewound(current)[p]..(Rewound(position)[p] - 1) : FALSE
    <3>1. ToSet(batch) = {}
      BY <1>8 DEF ToSet
    <3> QED BY <1>4, <1>8, <3>1 DEF PartitionSettled
  <2>3. ASSUME NEW o \in Rewound(current)'[p]..(Rewound(position)'[p] - 1)
        PROVE  [p |-> p, o |-> o] \in ToSet(batch')
    <3>1. o \in Rewound(position)[p]..(Rewound(position)[p] + n[p] - 1)
      BY <1>3, <1>5, <2>2
    <3> QED BY <2>1, <3>1 DEF Fetched
  <2>4. (\A r \in Records : r.p = p /\ r.o \in refusedAhead'[p] => fate'[r] # "new")
        /\ SettledThen(p, Rewound(current)[p])
    BY <1>2, <1>4, <1>8 DEF PartitionSettled, SettledBelow, SettledThen, FatesGrow
  <2> QED BY <1>2, <1>3, <1>8, <2>3, <2>4 DEF PartitionSettled, SettledThen, SettledBelow
<1> QED BY <1>6, <1>7, <1>8

\* The hold that starts is the first change of its partition that is not settled.
LEMMA StartHoldSettles ==
  ASSUME Typed, OffsetsInv', SettledInv, Records' = Records, FatesGrow,
         Busy, NEW r \in ToSet(batch), StartHold(r), NEW p \in Partitions
  PROVE  PartitionSettled(p)'
<1>1. /\ r \in Records /\ r.p \in Partitions /\ r.o \in Nat \ {0} /\ hold[r.p] = NoHold
      /\ hold'[r.p] # NoHold /\ hold'[r.p].offset = r.o /\ hold'[r.p].ended = "no"
      /\ \A q \in Partitions \ {r.p} : hold'[q] = hold[q]
  BY StartHoldTails
<1>2. PartitionSettled(p) /\ PutCovers /\ PutOrder /\ PutTypes /\ ToSet(batch) \subseteq Records
  BY DEF SettledInv, Typed, BatchTypes, OffsetsInv, OffsetTypes
<1>3. /\ refusedAhead \in [Partitions -> SUBSET Nat] /\ rewind \in Offsets
      /\ refusedAhead' = [refusedAhead EXCEPT ![r.p] = @ \cup RefusedBehind(r)]
      /\ rewind' \in {rewind, [rewind EXCEPT ![r.p] = r.o]}
      /\ UNCHANGED <<position, current, batch>>
  BY DEF Typed, BatchTypes, OffsetsInv, OffsetTypes, StartHold
<1>4. CASE p # r.p
  <2>1. hold'[p] = hold[p] /\ refusedAhead'[p] = refusedAhead[p] /\ rewind'[p] = rewind[p]
    BY <1>1, <1>3, <1>4 DEF Offsets
  <2>2. HoldStands(p)
    BY <2>1 DEF HoldStands, Ended
  <2>3. Rewound(current)'[p] = Rewound(current)[p] /\ Rewound(position)'[p] = Rewound(position)[p]
    BY <1>3, <2>1 DEF Rewound
  <2> QED BY <1>2, <1>3, <2>1, <2>2, <2>3, PartitionFrame DEF Typed
<1>5. CASE p = r.p
  <2>1. ASSUME NEW x \in Records, x.p = p, x.o \in refusedAhead'[p] PROVE fate'[x] # "new"
    <3>1. CASE x.o \in refusedAhead[p]
      BY <1>2, <2>1, <3>1 DEF PartitionSettled, FatesGrow
    <3>2. CASE x.o \in RefusedBehind(r)
      <4>1. PICK y \in putRefused : y.p = r.p /\ y.o = x.o
        BY <3>2 DEF RefusedBehind
      <4>2. y \in Records /\ fate[y] # "new"
        BY <1>2 DEF PutCovers
      <4>3. x = y
        BY <1>5, <2>1, <4>1, <4>2, RecordIs
      <4> QED BY <4>2, <4>3 DEF FatesGrow
    <3> QED BY <1>1, <1>3, <1>5, <2>1, <3>1, <3>2
  <2>2. ASSUME NEW x \in Records, x.p = p, x.o < r.o PROVE Settled(x)'
    <3>1. /\ rewind[p] = 0 /\ current[p] <= r.o /\ r.o < position[p]
          /\ current[p] \in Nat /\ position[p] \in Nat /\ x.o \in Nat
      <4>1. PartitionOffsets(p) /\ r \in Delivered(p)
        BY <1>5 DEF Typed, OffsetsInv, Delivered
      <4>2. current[p] \in Nat /\ position[p] \in Nat /\ x.o \in Nat
        BY RecordFacts DEF Typed, OffsetsInv, OffsetTypes, Positions
      <4> QED BY <1>1, <1>5, <4>1, <4>2 DEF PartitionOffsets, FreePartition
    <3>2. Rewound(current)[p] = current[p] /\ Rewound(position)[p] = position[p]
      BY <3>1 DEF Rewound
    <3>3. CASE x.o < current[p]
      BY <1>1, <1>2, <1>5, <2>2, <3>2, <3>3 DEF PartitionSettled, SettledBelow, FatesGrow
    <3>4. CASE current[p] <= x.o
      <4>1. x.o \in Rewound(current)[p]..(Rewound(position)[p] - 1)
        BY <1>1, <2>2, <3>1, <3>2, <3>4
      <4>2. x \in ToSet(batch)
        BY <1>1, <1>2, <1>5, <2>2, <4>1, RecordIs DEF PartitionSettled
      <4>3. Settled(x) \/ x \in Left
        BY <1>1, <1>2, <1>5, <2>2, <4>2 DEF PutCovers, Busy, HeldTail
      <4>4. x \notin Left
        <5>1. UnitDone /\ Unit = <<r>>
          BY DEF StartHold, RejectedRow
        <5>2. /\ Left = ToSet(Upcoming) \cup Left'
              /\ \A z \in ToSet(Upcoming), y \in Left' : z.p = y.p => z.o < y.o
          BY <1>2, <5>1, UnitDoneFacts
        <5>3. {r} = {z \in ToSet(Upcoming) : ~HeldTail(z)}
          BY <1>1, <1>2, <5>1, UnitFacts, Single
        <5>4. x \notin ToSet(Upcoming)
          BY <1>1, <1>5, <2>2, <3>1, <5>3 DEF HeldTail
        <5>5. x \notin Left'
          <6>1. x \in Left' => r.o < x.o
            BY <1>5, <2>2, <5>2, <5>3
          <6> QED BY <1>1, <2>2, <3>1, <6>1
        <5> QED BY <5>2, <5>4, <5>5
      <4> QED BY <4>3, <4>4 DEF FatesGrow
    <3> QED BY <3>1, <3>3, <3>4
  <2> QED BY <1>1, <1>5, <2>1, <2>2 DEF PartitionSettled, SettledBelow, Ended
<1> QED BY <1>4, <1>5

\* What a put delivered is settled up to its last record, or a hold is not.
LEMMA PutReturnsSettles ==
  ASSUME Typed, OffsetsInv', SettledInv, Records' = Records, FatesGrow, PutReturns,
         NEW p \in Partitions
  PROVE  PartitionSettled(p)'
<1>1. /\ pc = "resolve" /\ batch' = <<>> /\ UNCHANGED <<position, refusedAhead>>
      /\ hold'[p] = IF Ended(p) THEN NoHold ELSE hold[p]
      /\ rewind'[p] = IF Ended(p) THEN hold[p].offset + 1
                      ELSE IF Waits(p) /\ ~hold[p].lookahead THEN hold[p].offset
                      ELSE rewind[p]
      /\ current'[p] = IF Delivered(p) = {} THEN current[p] ELSE LastOffset(p) + 1
  BY DEF PutReturns
<1>2. /\ PartitionSettled(p) /\ PutCovers /\ PartitionOffsets(p) /\ ToSet(batch) \subseteq Records
      /\ \A r \in Records : r.o \in Nat
  BY RecordFacts DEF SettledInv, Typed, OffsetsInv, OffsetTypes
<1>3. \A r \in Records : r.p = p /\ r.o \in refusedAhead'[p] => fate'[r] # "new"
  BY <1>1, <1>2 DEF PartitionSettled, FatesGrow
<1>4. CASE Ended(p)
  <2>1. hold[p] # NoHold /\ hold[p].offset \in Nat
    BY <1>4 DEF Ended, Typed, OffsetsInv, OffsetTypes, Holds
  <2>2. hold'[p] = NoHold /\ Rewound(current)'[p] = hold[p].offset + 1
        /\ Rewound(position)'[p] = hold[p].offset + 1
    BY <1>1, <1>4, <2>1 DEF Rewound
  <2>3. SettledThen(p, hold[p].offset + 1)
    BY <1>2, <1>4, <2>1 DEF PartitionSettled, SettledBelow, SettledThen, FatesGrow
  <2>4. \A o \in Rewound(current)'[p]..(Rewound(position)'[p] - 1) : FALSE
    BY <2>1, <2>2
  <2> QED BY <1>3, <2>2, <2>3, <2>4 DEF PartitionSettled, SettledBelow, SettledThen
<1>5. CASE ~Ended(p) /\ hold[p] # NoHold
  <2>1. hold'[p] # NoHold /\ hold'[p] = hold[p] /\ ~Ended(p)'
    BY <1>1, <1>5 DEF Ended
  <2>2. SettledThen(p, hold[p].offset)
    BY <1>2, <1>5 DEF PartitionSettled, SettledBelow, SettledThen, FatesGrow
  <2> QED BY <1>3, <2>1, <2>2 DEF PartitionSettled, SettledBelow, SettledThen
<1>6. CASE hold[p] = NoHold
  <2>1. hold'[p] = NoHold /\ rewind'[p] = rewind[p]
    BY <1>1, <1>6 DEF Ended, Waits
  <2>2. Rewound(position)'[p] = Rewound(position)[p]
    BY <1>1, <2>1 DEF Rewound
  <2>3. /\ SettledBelow(p, Rewound(current)[p])
        /\ \A o \in Rewound(current)[p]..(Rewound(position)[p] - 1) : [p |-> p, o |-> o] \in Delivered(p)
    BY <1>2, <1>6 DEF PartitionSettled, Delivered
  <2>4. CASE Delivered(p) = {}
    <3>1. Rewound(current)'[p] = Rewound(current)[p]
      BY <1>1, <2>1, <2>4 DEF Rewound
    <3>2. SettledThen(p, Rewound(current)[p])
      BY <2>3 DEF SettledBelow, SettledThen, FatesGrow
    <3>3. \A o \in Rewound(current)[p]..(Rewound(position)[p] - 1) : FALSE
      BY <2>3, <2>4
    <3> QED BY <1>3, <2>1, <2>2, <3>1, <3>2, <3>3 DEF PartitionSettled, SettledBelow, SettledThen
  <2>5. CASE Delivered(p) # {}
    <3>1. /\ LastOffset(p) \in Nat /\ \E r \in Delivered(p) : LastOffset(p) = r.o
          /\ \A r \in Delivered(p) : r.o <= LastOffset(p)
      BY <2>5, LastOffsetFacts DEF Typed, OffsetsInv
    <3>2. /\ rewind[p] = 0 /\ current[p] <= LastOffset(p) /\ LastOffset(p) < position[p]
          /\ current[p] \in Nat /\ position[p] \in Nat
      <4>1. current[p] \in Nat /\ position[p] \in Nat
        BY DEF Typed, OffsetsInv, OffsetTypes, Positions
      <4> QED BY <1>2, <1>6, <3>1, <4>1 DEF PartitionOffsets, FreePartition
    <3>3. /\ Rewound(current)'[p] = LastOffset(p) + 1 /\ Rewound(position)'[p] = position[p]
          /\ Rewound(current)[p] = current[p] /\ Rewound(position)[p] = position[p]
      BY <1>1, <2>1, <2>5, <3>2 DEF Rewound
    <3>4. ASSUME NEW r \in Records, r.p = p, r.o < LastOffset(p) + 1 PROVE Settled(r)'
      <4>1. CASE r.o < current[p]
        BY <2>3, <3>3, <3>4, <4>1 DEF SettledBelow, FatesGrow
      <4>2. CASE current[p] <= r.o
        <5>1. r.o \in Rewound(current)[p]..(Rewound(position)[p] - 1)
          BY <1>2, <3>1, <3>2, <3>3, <3>4, <4>2
        <5>2. r \in ToSet(batch)
          BY <2>3, <3>4, <5>1, RecordIs DEF Delivered
        <5>3. Left = {}
          BY <1>1, <1>2 DEF PutCovers, Left, ToSet
        <5>4. Settled(r)
          BY <1>1, <1>2, <1>6, <3>4, <5>2, <5>3 DEF PutCovers, HeldTail
        <5> QED BY <5>4 DEF FatesGrow
      <4> QED BY <1>2, <3>2, <4>1, <4>2
    <3>5. ASSUME NEW o \in (LastOffset(p) + 1)..(position[p] - 1) PROVE FALSE
      <4>1. [p |-> p, o |-> o] \in Delivered(p)
        BY <2>3, <3>1, <3>2, <3>3
      <4>2. o <= LastOffset(p)
        BY <3>1, <4>1
      <4> QED BY <3>1, <4>2
    <3> QED BY <1>3, <2>1, <3>3, <3>4, <3>5 DEF PartitionSettled, SettledBelow
  <2> QED BY <2>4, <2>5
<1> QED BY <1>4, <1>5, <1>6

\* A partition that is taken away is read again from its commit, which is settled.
LEMMA RebalanceSettles ==
  ASSUME Typed, OffsetsInv', SettledInv, Records' = Records, FatesGrow,
         NEW S \in SUBSET Partitions, Rebalance(S), NEW p \in Partitions
  PROVE  PartitionSettled(p)'
<1> DEFINE capped == [q \in Partitions |-> PreCommit(q, Rewound(current)[q])]
<1>1. /\ committed' \in {committed, [q \in Partitions |-> IF q \in S THEN capped[q] ELSE committed[q]]}
      /\ refusedAhead'[p] = IF p \in S THEN {} ELSE {o \in refusedAhead[p] : o >= capped[p]}
      /\ hold'[p] = IF p \in S THEN NoHold ELSE hold[p]
      /\ position'[p] = IF p \in S THEN committed'[p] ELSE Rewound(position)[p]
      /\ current'[p] = IF p \in S THEN committed'[p] ELSE Rewound(current)[p]
      /\ rewind'[p] = 0 /\ batch' \in Without(S)
  BY DEF Rebalance
<1>2. PartitionSettled(p) /\ PartitionOffsets(p)
  BY DEF SettledInv, Typed, OffsetsInv
<1>3. ToSet(batch') = {r \in ToSet(batch) : r.p \notin S}
  BY <1>1, WithoutFacts DEF Typed, BatchTypes
<1>4. Rewound(current)'[p] = current'[p] /\ Rewound(position)'[p] = position'[p]
  BY <1>1 DEF Rewound
<1>5. CASE p \in S
  <2>1. committed'[p] \in {committed[p], PreCommit(p, Rewound(current)[p])}
    BY <1>1, <1>5
  <2>2. /\ committed[p] \in Nat /\ releasedCaps[p] \in Nat /\ Rewound(current)[p] \in Nat
        /\ committed[p] <= Rewound(current)[p]
        /\ hold[p] # NoHold => hold[p].offset \in Nat /\ committed[p] <= hold[p].offset
    BY <1>2, RewoundFacts
       DEF Typed, OffsetsInv, OffsetTypes, Offsets, Positions, Holds, PartitionOffsets, HeldPartition
  <2>3. PreCommit(p, Rewound(current)[p]) \in Nat /\
        IF hold[p] = NoHold THEN PreCommit(p, Rewound(current)[p]) <= Rewound(current)[p]
        ELSE PreCommit(p, Rewound(current)[p]) <= hold[p].offset
    BY <2>2 DEF PreCommit, Lower
  <2>4. committed'[p] \in Nat /\
        IF hold[p] = NoHold THEN committed'[p] <= Rewound(current)[p]
        ELSE committed'[p] <= hold[p].offset
    BY <2>1, <2>2, <2>3
  <2>5. SettledBelow(p, committed'[p])
    BY <1>2, <2>4, SettledCommit DEF Typed
  <2>6. SettledThen(p, committed'[p])
    BY <2>5 DEF SettledBelow, SettledThen, FatesGrow
  <2>7. \A o \in committed'[p]..(committed'[p] - 1) : FALSE
    BY <2>4
  <2> QED BY <1>1, <1>4, <1>5, <2>6, <2>7 DEF PartitionSettled, SettledBelow, SettledThen
<1>6. CASE p \notin S
  <2>1. HoldStands(p) /\ refusedAhead'[p] \subseteq refusedAhead[p]
    BY <1>1, <1>6 DEF HoldStands, Ended
  <2> QED BY <1>1, <1>2, <1>3, <1>4, <1>6, <2>1, PartitionFrame DEF Typed
<1> QED BY <1>5, <1>6

\* So is what a restarted task reads again.
LEMMA RestartSettles ==
  ASSUME Typed, OffsetsInv', SettledInv, Records' = Records, FatesGrow, Restart,
         NEW p \in Partitions
  PROVE  PartitionSettled(p)'
<1>1. /\ position'[p] = committed[p] /\ current'[p] = committed[p] /\ rewind'[p] = 0
      /\ hold'[p] = NoHold /\ refusedAhead'[p] = {}
  BY DEF Restart
<1>2. PartitionSettled(p) /\ PartitionOffsets(p) /\ committed[p] \in Nat
  BY DEF SettledInv, Typed, OffsetsInv, OffsetTypes, Positions
<1>3. SettledBelow(p, committed[p])
  BY <1>2, RewoundFacts, SettledCommit DEF Typed, PartitionOffsets, HeldPartition
<1>4. SettledThen(p, committed[p])
  BY <1>3 DEF SettledBelow, SettledThen, FatesGrow
<1>5. Rewound(current)'[p] = committed[p] /\ Rewound(position)'[p] = committed[p]
  BY <1>1 DEF Rewound
<1>6. \A o \in committed[p]..(committed[p] - 1) : FALSE
  BY <1>2
<1> QED BY <1>1, <1>4, <1>5, <1>6 DEF PartitionSettled, SettledBelow, SettledThen

LEMMA StepSettles ==
  ASSUME Typed, OffsetsInv', SettledInv, [Next]_vars, NEW p \in Partitions
  PROVE  PartitionSettled(p)'
<1>1. Records' = Records /\ FatesGrow /\ PartitionSettled(p) /\ OffsetsInv /\ PutPhases
  BY SourceStays, StepFatesGrow DEF Typed, SettledInv, OffsetsInv
<1>2. ASSUME HoldStands(p), refusedAhead'[p] \subseteq refusedAhead[p],
             UNCHANGED <<position, current, batch>>,
             hold[p] = NoHold => rewind'[p] = rewind[p]
      PROVE  PartitionSettled(p)'
  <2>1. hold[p] = NoHold => /\ Rewound(current)'[p] = Rewound(current)[p]
                            /\ Rewound(position)'[p] = Rewound(position)[p]
    BY <1>2 DEF Rewound
  <2> QED BY <1>1, <1>2, <2>1, PartitionFrame
<1>3. UNCHANGED hold => HoldStands(p)
  BY <1>1, HoldsStand
<1>4. CASE PollBrings({})
  BY <1>1, <1>4, PollSettles
<1>5. CASE ReadBatch
  <2>1. HoldStands(p)
    BY <1>1, <1>5, HoldsStand
  <2>2. hold[p] = NoHold => rewind'[p] = rewind[p]
    <3>1. hold[p] = NoHold => rewind'[p] = CapsOfPut[p]
      BY <1>5 DEF ReadBatch, Waits
    <3>2. CapsOfPut[p] = 0 /\ rewind[p] = 0
      BY <1>1, <1>5 DEF ReadBatch, PutPhases, CapsOfPut
    <3> QED BY <3>1, <3>2
  <2> QED BY <1>2, <1>5, <2>1, <2>2 DEF ReadBatch
<1>6. CASE FailOnRefused
  <2>1. CapsOfPut[p] = 0 /\ rewind[p] = 0 /\ rewind' = CapsOfPut
    BY <1>1, <1>6 DEF FailOnRefused, PutPhases, CapsOfPut
  <2> QED BY <1>2, <1>3, <1>6, <2>1 DEF FailOnRefused
<1>7. CASE SkipHeldTail \/ CommitUnit \/ IsolateRows \/ RerunLanded \/ StartResolve \/ UNCHANGED vars
  <2>1. UNCHANGED <<position, current, batch, rewind, hold, refusedAhead>>
    BY <1>7 DEF SkipHeldTail, CommitUnit, IsolateRows, RerunLanded, StartResolve, vars, connect, task
  <2> QED BY <1>2, <1>3, <2>1
<1>8. CASE HoldOrReport
  <2>1. PICK r \in ToSet(batch) :
          SkipSuperseded(r) \/ QuarantineRow(r) \/ StartHold(r) \/ FailOnRow(r)
    BY <1>8 DEF HoldOrReport
  <2>2. CASE SkipSuperseded(r) \/ QuarantineRow(r) \/ FailOnRow(r)
    <3>1. UNCHANGED <<position, current, batch, rewind, hold, refusedAhead>>
      BY <2>2 DEF SkipSuperseded, QuarantineRow, FailOnRow, TaskFails, connect, task
    <3> QED BY <1>2, <1>3, <3>1
  <2>3. CASE StartHold(r)
    <3>1. Busy
      BY <1>8 DEF HoldOrReport
    <3> QED BY <1>1, <2>3, <3>1, StartHoldSettles
  <2> QED BY <2>1, <2>2, <2>3
<1>9. CASE Throw \/ Tick \/ \E q \in Partitions :
                              ApplyHeld(q) \/ KeepHeld(q) \/ ExpireHeld(q) \/ Unanswered(q)
  <2>1. UNCHANGED <<position, current, batch, rewind, refusedAhead>>
    BY <1>9 DEF Throw, Tick, ApplyHeld, KeepHeld, ExpireHeld, Unanswered, TaskFails, connect, task
  <2>2. HoldStands(p)
    BY <1>1, <1>9, HoldsStand
  <2> QED BY <1>2, <2>1, <2>2
<1>10. CASE PutReturns
  BY <1>1, <1>10, PutReturnsSettles
<1>11. CASE Commit
  <2>1. UNCHANGED <<position, current, batch, rewind, hold>>
        /\ refusedAhead' = [q \in Partitions |-> {o \in refusedAhead[q] : o >= Capped(q)}]
    BY <1>11 DEF Commit
  <2> QED BY <1>2, <1>3, <2>1
<1>12. CASE \E S \in SUBSET Partitions \ {{}} : Rebalance(S)
  BY <1>1, <1>12, RebalanceSettles
<1>13. CASE Restart
  BY <1>1, <1>13, RestartSettles
<1> QED BY <1>4, <1>5, <1>6, <1>7, <1>8, <1>9, <1>10, <1>11, <1>12, <1>13 DEF Next, Apply, Resolve

-----------------------------------------------------------------------------
(* The theorems. *)

LEMMA InitSettled == Init => Typed /\ SettledInv
<1> SUFFICES ASSUME Init PROVE Typed /\ SettledInv
  OBVIOUS
<1>1. OffsetsInv
  BY InitOffsets
<1>2. /\ source \in SourceHistories /\ target = source.base
      /\ current = [p \in Partitions |-> 1] /\ position = [p \in Partitions |-> 1]
      /\ rewind = [p \in Partitions |-> 0] /\ hold = [p \in Partitions |-> NoHold]
      /\ refusedAhead = [p \in Partitions |-> {}]
      /\ batch = <<>> /\ putBatch = <<>> /\ rows = <<>> /\ todo = <<>> /\ putRefused = {}
      /\ pausedByHold = {} /\ redelivering = FALSE /\ pc = "idle"
      /\ fate = [r \in Records |-> "new"] /\ reports = [r \in Records |-> 0]
      /\ transients = 0 /\ restarts = 0
  BY HistoriesAssumption DEF Init
<1>3. BatchTypes
  <2>1. <<>> \in Seq(Records) /\ <<>> \in Seq(Seq(Records))
    OBVIOUS
  <2> QED BY <1>2, <2>1 DEF BatchTypes, PutTypes
<1>4. SeenTypes
  <2>1. source.base \in Tables
    BY <1>2 DEF SourceHistories
  <2>2. transients \in 0..MaxTransient /\ restarts \in 0..MaxRestarts
    BY <1>2, BoundsAssumption
  <2> QED BY <1>2, <2>1, <2>2 DEF SeenTypes
<1>5. Ascending(batch) /\ PutOrder
  <2>1. DOMAIN <<>> = {}
    OBVIOUS
  <2> QED BY <1>2, <2>1 DEF PutOrder, Ascending
<1>6. PutCovers
  <2>1. Left = {}
    BY <1>2 DEF Left, ToSet
  <2> QED BY <1>2, <2>1 DEF PutCovers
<1>7. ASSUME NEW p \in Partitions PROVE PartitionSettled(p)
  <2>1. Rewound(current)[p] = 1 /\ Rewound(position)[p] = 1 /\ hold[p] = NoHold /\ refusedAhead[p] = {}
    BY <1>2 DEF Rewound
  <2>2. SettledBelow(p, 1)
    BY <1>2, RecordFacts DEF SettledBelow
  <2>3. \A o \in 1..(1 - 1) : FALSE
    OBVIOUS
  <2> QED BY <2>1, <2>2, <2>3 DEF PartitionSettled
<1> QED BY <1>1, <1>3, <1>4, <1>5, <1>6, <1>7 DEF Typed, SettledInv

\* What a put still has to apply, up to where a partition is settled, and the types both need.
THEOREM SettledInvariant == Spec => [](Typed /\ SettledInv)
<1>1. ASSUME Typed, SettledInv, [Next]_vars PROVE Typed' /\ SettledInv'
  <2>1. OffsetsInv /\ OffsetsInv'
    BY <1>1, StepOffsets DEF Typed
  <2>2. Typed'
    BY <1>1, <2>1, StepBatchTypes, StepSeenTypes DEF Typed
  <2>3. Ascending(batch)' /\ PutOrder' /\ PutCovers'
    BY <1>1, StepOrder, StepCovers
  <2>4. \A p \in Partitions : PartitionSettled(p)'
    BY <1>1, <2>1, StepSettles
  <2> QED BY <2>2, <2>3, <2>4 DEF SettledInv
<1>2. Typed /\ SettledInv /\ [Next]_vars => (Typed /\ SettledInv)'
  BY <1>1
<1> QED BY InitSettled, <1>2, PTL DEF Spec

\* Every variable keeps its type, whatever fails and restarts.
THEOREM TypeOKHolds == Spec => []TypeOK
<1>1. Typed /\ PausedInv => TypeOK
  BY DEF Typed, OffsetsInv, OffsetTypes, BatchTypes, PutTypes, SeenTypes, PausedInv, TypeOK
<1> QED BY <1>1, SettledInvariant, PausedInvariant, PTL

\* A commit never passes a change that nobody has dealt with: holds, rewinds, releases,
\* redeliveries, rebalances and crashes leave none behind.
THEOREM CommittedIsSettledHolds == Spec => []CommittedIsSettled
<1>1. Typed /\ SettledInv => CommittedIsSettled
  <2> SUFFICES ASSUME Typed, SettledInv, NEW r \in Records, r.o < committed[r.p]
               PROVE  fate[r] # "new" \/ (IsDelete(ChangeAt(r)) /\ ~DeleteEnabled)
    BY DEF CommittedIsSettled
  <2> DEFINE p == r.p
  <2>1. /\ p \in Partitions /\ PartitionSettled(p) /\ PartitionOffsets(p) /\ committed[p] \in Nat
        /\ committed[p] <= Rewound(current)[p]
    BY RecordFacts, RewoundFacts DEF Typed, OffsetsInv, OffsetTypes, Positions, SettledInv
  <2>2. hold[p] # NoHold => committed[p] <= hold[p].offset
    BY <2>1 DEF PartitionOffsets, HeldPartition
  <2>3. SettledBelow(p, committed[p])
    BY <2>1, <2>2, SettledCommit DEF Typed
  <2> QED BY <2>3 DEF SettledBelow, Settled
<1> QED BY <1>1, SettledInvariant, PTL

-----------------------------------------------------------------------------
(* Who is dealt with in a step: TailWaits. *)

\* A step gives a new outcome to what it writes or reports and to the changes of holds.
LEMMA NewOutcomes ==
  ASSUME Typed, [Next]_vars, NEW r \in Records, fate'[r] # fate[r] \/ reports'[r] # reports[r]
  PROVE  \/ Busy /\ r \in ToSet(Unit)
         \/ Refuses(r)
         \/ \E p \in Partitions : hold[p] # NoHold /\ r = HeadOf(p)
<1> DEFINE Goal == \/ Busy /\ r \in ToSet(Unit)
                   \/ Refuses(r)
                   \/ \E p \in Partitions : hold[p] # NoHold /\ r = HeadOf(p)
<1> SUFFICES Goal
  OBVIOUS
<1>1. ~UNCHANGED <<fate, reports>>
  OBVIOUS
<1>2. /\ fate \in [Records -> {"new", "written", "dead", "skipped"}]
      /\ \A p \in untried : p \in Partitions /\ hold[p] # NoHold
      /\ Records' = Records
  BY SourceStays DEF Typed, SeenTypes, OffsetsInv, OffsetTypes, PutPhases
<1>3. ASSUME NEW S, Wrote(S), UNCHANGED reports PROVE r \in S
  BY <1>3 DEF Wrote
<1>4. ASSUME NEW S, Reported(S) PROVE r \in S
  BY <1>4 DEF Reported
<1>5. CASE ReadBatch
  <2> DEFINE ahead(p) == {x \in Delivered(p) : x.o > hold[p].frontier}
             looked == {p \in Partitions : Waits(p) /\ hold[p].lookahead /\ ahead(p) # {}}
             replaced == {p \in looked : \E x \in ahead(p) : Superseding(HeadOf(p), x)}
             refused == {x \in ToSet(batch) : Refuses(x)}
  <2>1. /\ fate' = [x \in Records |-> IF x \in refused THEN "dead"
                                      ELSE IF x \in {HeadOf(p) : p \in replaced} THEN "skipped"
                                      ELSE fate[x]]
        /\ reports' = [x \in Records |-> IF x \in refused THEN reports[x] + 1 ELSE reports[x]]
    BY <1>5 DEF ReadBatch
  <2>2. \A p \in replaced : p \in Partitions /\ hold[p] # NoHold
    BY DEF Waits
  <2> HIDE DEF replaced
  <2>3. r \in refused \/ r \in {HeadOf(p) : p \in replaced}
    BY <2>1
  <2> QED BY <2>2, <2>3
<1>6. CASE CommitUnit \/ Throw \/ RerunLanded
  <2>1. Busy /\ UNCHANGED reports /\ (UNCHANGED fate \/ Wrote(ToSet(Unit)))
    BY <1>6 DEF CommitUnit, Throw, RerunLanded
  <2> QED BY <1>3, <2>1
<1>7. CASE HoldOrReport
  <2>1. PICK x \in ToSet(batch) : SkipSuperseded(x) \/ QuarantineRow(x) \/ StartHold(x) \/ FailOnRow(x)
    BY <1>7 DEF HoldOrReport
  <2>2. Busy /\ x \in Records
    BY <1>7 DEF HoldOrReport, Typed, OffsetsInv, OffsetTypes
  <2>3. ToSet(Unit) = {x}
    BY <2>1, <2>2, Single DEF SkipSuperseded, QuarantineRow, StartHold, FailOnRow, RejectedRow
  <2>4. CASE SkipSuperseded(x)
    BY <1>2, <2>2, <2>3, <2>4 DEF SkipSuperseded
  <2>5. CASE QuarantineRow(x)
    BY <1>4, <2>2, <2>3, <2>5 DEF QuarantineRow
  <2>6. CASE StartHold(x) \/ FailOnRow(x)
    BY <1>1, <2>6 DEF StartHold, FailOnRow, TaskFails, seen
  <2> QED BY <2>1, <2>4, <2>5, <2>6
<1>8. CASE \E p \in Partitions : ApplyHeld(p) \/ KeepHeld(p) \/ ExpireHeld(p) \/ Unanswered(p)
  <2>1. PICK p \in Partitions : ApplyHeld(p) \/ KeepHeld(p) \/ ExpireHeld(p) \/ Unanswered(p)
    BY <1>8
  <2>2. hold[p] # NoHold
    BY <1>2, <2>1 DEF ApplyHeld, KeepHeld, ExpireHeld, Unanswered, Trying
  <2>3. r \in {HeadOf(p)}
    BY <1>1, <1>3, <1>4, <2>1 DEF ApplyHeld, KeepHeld, ExpireHeld, Unanswered, TaskFails, seen
  <2> QED BY <2>2, <2>3
<1>9. CASE PollBrings({}) \/ FailOnRefused \/ SkipHeldTail \/ IsolateRows \/ StartResolve \/ PutReturns
           \/ Tick \/ Commit \/ Restart \/ UNCHANGED vars \/ \E S \in SUBSET Partitions \ {{}} : Rebalance(S)
  BY <1>1, <1>9 DEF PollBrings, Poll, FailOnRefused, SkipHeldTail, IsolateRows, StartResolve, PutReturns,
                    Tick, Commit, Restart, Rebalance, vars, seen
<1> QED BY <1>5, <1>6, <1>7, <1>8, <1>9 DEF Next, Apply, Resolve

\* Whatever the task does while a hold waits, nothing behind it is written, skipped or
\* quarantined on its partition.
THEOREM TailWaitsHolds == Spec => TailWaits
<1> DEFINE Waiting ==
      \A r \in Records : (Waits(r.p) /\ hold'[r.p] # NoHold /\ r.o > hold[r.p].offset)
                           => (fate'[r] = fate[r] /\ reports'[r] = reports[r])
<1>1. ASSUME Typed, [Next]_vars PROVE Waiting
  <2> SUFFICES ASSUME NEW r \in Records, Waits(r.p), r.o > hold[r.p].offset,
                      fate'[r] # fate[r] \/ reports'[r] # reports[r]
               PROVE  FALSE
    OBVIOUS
  <2>1. /\ r.p \in Partitions /\ r.o \in Nat /\ hold[r.p] # NoHold /\ hold[r.p].offset \in Nat
    BY <1>1, RecordFacts DEF Typed, OffsetsInv, OffsetTypes, Waits, Holds
  <2>2. HeldTail(r)
    BY <2>1 DEF HeldTail
  <2>3. ~(Busy /\ r \in ToSet(Unit))
    BY <1>1, <2>2, UnitFacts DEF Typed, BatchTypes
  <2>4. ~Refuses(r)
    BY <2>2 DEF Refuses, SkipHeldOrRefused
  <2>5. \A p \in Partitions : r # HeadOf(p)
    BY <2>1 DEF HeadOf
  <2> QED BY <1>1, <2>3, <2>4, <2>5, NewOutcomes
<1>2. Typed /\ [Next]_vars => [Waiting]_vars
  BY <1>1
<1> QED BY <1>2, SettledInvariant, PTL DEF Spec, TailWaits

-----------------------------------------------------------------------------
(* Who is reported again: ReportedOncePerDelivery. *)

\* A hold that has ended stays ended until it is released.
EndsStay == \A p \in Partitions : Ended(p) => Ended(p)'

LEMMA HoldsEnd ==
  ASSUME Typed, Records' = Records,
         \/ UNCHANGED hold
         \/ ReadBatch \/ Throw \/ Tick
         \/ \E p \in Partitions : ApplyHeld(p) \/ KeepHeld(p) \/ ExpireHeld(p) \/ Unanswered(p)
  PROVE  EndsStay
<1>1. /\ hold \in [Partitions -> Holds \cup {NoHold}] /\ untried \subseteq Partitions
      /\ \A p \in untried : hold[p] # NoHold
      /\ \A p \in Partitions : hold[p] # NoHold => hold[p] \in Holds /\ hold'[p] # NoHold
  BY HoldsStand DEF Typed, OffsetsInv, OffsetTypes, PutPhases, HoldStands
<1>2. SUFFICES ASSUME NEW p \in Partitions, Ended(p) PROVE hold'[p].ended # "no"
  BY <1>1 DEF EndsStay, Ended
<1>3. ~Waits(p) /\ hold[p].ended # "no" /\ hold[p] \in Holds
  BY <1>1, <1>2 DEF Ended, Waits
<1>4. CASE UNCHANGED hold
  BY <1>3, <1>4
<1>5. CASE ReadBatch
  <2> DEFINE ahead(q) == {r \in Delivered(q) : r.o > hold[q].frontier}
             looked == {q \in Partitions : Waits(q) /\ hold[q].lookahead /\ ahead(q) # {}}
             replaced == {q \in looked : \E r \in ahead(q) : Superseding(HeadOf(q), r)}
             pauses == looked \ replaced
  <2>1. hold' = [q \in Partitions |->
                   IF q \in replaced THEN [hold[q] EXCEPT !.ended = "replaced"]
                   ELSE IF q \in pauses THEN [hold[q] EXCEPT !.lookahead = FALSE]
                   ELSE hold[q]]
    BY <1>5 DEF ReadBatch
  <2>2. p \notin replaced /\ p \notin pauses
    BY <1>3
  <2> HIDE DEF replaced, pauses
  <2> QED BY <1>3, <2>1, <2>2
<1>6. CASE Throw \/ Tick
  BY <1>3, <1>6 DEF Throw, Tick
<1>7. CASE \E q \in Partitions : ApplyHeld(q) \/ KeepHeld(q) \/ ExpireHeld(q) \/ Unanswered(q)
  <2>1. PICK q \in Partitions : ApplyHeld(q) \/ KeepHeld(q) \/ ExpireHeld(q) \/ Unanswered(q)
    BY <1>7
  <2>2. ASSUME NEW e \in {"applied", "dead"}, hold' = [hold EXCEPT ![q].ended = e]
        PROVE  hold'[p].ended # "no"
    <3>1. CASE p = q
      <4> DEFINE h == hold[p]
      <4>1. h \in Holds /\ hold'[p] = [h EXCEPT !.ended = e]
        BY <1>1, <1>3, <2>2, <3>1
      <4> HIDE DEF h
      <4>2. [h EXCEPT !.ended = e].ended = e
        BY <4>1 DEF Holds
      <4> QED BY <4>1, <4>2
    <3>2. CASE p # q
      BY <1>1, <1>3, <2>2, <3>2
    <3> QED BY <3>1, <3>2
  <2>3. CASE ApplyHeld(q)
    BY <2>2, <2>3 DEF ApplyHeld
  <2>4. CASE KeepHeld(q)
    <3>1. CASE p = q
      <4> DEFINE h == hold[p]
      <4>1. h \in Holds /\ hold'[p] = [h EXCEPT !.due = FALSE]
        BY <1>1, <1>3, <2>4, <3>1 DEF KeepHeld
      <4> HIDE DEF h
      <4>2. [h EXCEPT !.due = FALSE].ended = h.ended
        BY <4>1 DEF Holds
      <4> QED BY <1>3, <4>1, <4>2 DEF h
    <3>2. CASE p # q
      BY <1>1, <1>3, <2>4, <3>2 DEF KeepHeld
    <3> QED BY <3>1, <3>2
  <2>5. CASE ExpireHeld(q)
    BY <1>3, <2>2, <2>5 DEF ExpireHeld, TaskFails, task
  <2>6. CASE Unanswered(q)
    BY <1>3, <2>6 DEF Unanswered
  <2> QED BY <2>1, <2>3, <2>4, <2>5, <2>6
<1> QED BY <1>4, <1>5, <1>6, <1>7

\* What nothing delivers again stays so while its hold, its batch and its commit stay.
LEMMA PassedFrame ==
  ASSUME Typed, Typed', Records' = Records, NEW r \in Records, Passed(r),
         \A p \in Partitions : HoldStands(p), EndsStay,
         refusedAhead' = refusedAhead, batch' = batch,
         hold[r.p] = NoHold => Rewound(current)'[r.p] = Rewound(current)[r.p],
         pc \in {"apply", "resolve", "failed"} => pc' \in {"apply", "resolve", "failed"}
  PROVE  Passed(r)'
<1>1. r.p \in Partitions /\ HoldStands(r.p) /\ (Ended(r.p) => Ended(r.p)')
  BY RecordFacts DEF Typed, OffsetsInv, OffsetTypes, EndsStay
<1>2. CASE hold[r.p] = NoHold
  <2>1. hold'[r.p] = NoHold /\ ~Ended(r.p)
    BY <1>1, <1>2 DEF HoldStands, Ended
  <2> QED BY <1>2, <2>1 DEF Passed
<1>3. CASE hold[r.p] # NoHold
  <2>1. hold'[r.p] # NoHold /\ hold'[r.p].offset = hold[r.p].offset
    BY <1>1, <1>3 DEF HoldStands
  <2> QED BY <1>1, <1>3, <2>1 DEF Passed
<1> QED BY <1>2, <1>3

\* Nothing is spent after a failure: every record may be reported once more.
LEMMA FailureSpendsNone ==
  ASSUME Typed, Typed', ReportsInv, Records' = Records, reports' = reports,
         \/ transients' = transients + 1 /\ restarts' = restarts
         \/ transients' = transients /\ restarts' = restarts + 1
  PROVE  \A r \in Records : ~Spent(r)' /\ reports'[r] <= 1 + transients' + restarts'
<1>1. transients \in Nat /\ restarts \in Nat /\ reports \in [Records -> Nat]
  BY BoundsAssumption DEF Typed, SeenTypes
<1>2. \A r \in Records : reports[r] \in Nat /\ reports[r] <= 1 + transients + restarts
  BY <1>1 DEF ReportsInv
<1> SUFFICES ASSUME NEW r \in Records
             PROVE  ~Spent(r)' /\ reports'[r] <= 1 + transients' + restarts'
  OBVIOUS
<1> QED BY <1>1, <1>2 DEF Spent

\* A failure keeps the invariant: it spends nothing, and what is left of a put and of the
\* holds is what was there.
LEMMA FailureKeepsReports ==
  ASSUME Typed, Typed', ReportsInv, Records' = Records, reports' = reports,
         \/ transients' = transients + 1 /\ restarts' = restarts
         \/ transients' = transients /\ restarts' = restarts + 1,
         pc' = "apply" => pc = "apply" /\ UNCHANGED <<hold, refusedAhead, rows, todo>>,
         pc' = "resolve" => untried' = {},
         \A p \in Partitions : Waits(p)' =>
           Waits(p) /\ hold'[p].offset = hold[p].offset /\ refusedAhead'[p] \subseteq refusedAhead[p]
  PROVE  ReportsInv'
<1>1. \A r \in Records : ~Spent(r)' /\ reports'[r] <= 1 + transients' + restarts'
  BY FailureSpendsNone
<1>2. /\ ToSet(batch') \subseteq Records
      /\ \A r \in Left : pc = "apply" => HeldTail(r) \/ r.o \notin refusedAhead[r.p]
      /\ \A p \in Partitions : Waits(p) => hold[p].offset \notin refusedAhead[p]
  BY DEF Typed, OffsetsInv, OffsetTypes, ReportsInv
<1>3. pc' = "apply" => \A r \in Left' : HeldTail(r)' \/ (~Spent(r)' /\ r.o \notin refusedAhead'[r.p])
  <2> SUFFICES ASSUME pc' = "apply", NEW r \in Left'
               PROVE  HeldTail(r)' \/ (~Spent(r)' /\ r.o \notin refusedAhead'[r.p])
    OBVIOUS
  <2>1. Left' = Left /\ HeldTail(r)' = HeldTail(r) /\ refusedAhead' = refusedAhead
    BY DEF Left, HeldTail
  <2>2. r \in Records
    BY <2>1 DEF Typed, Left, BatchTypes, PutTypes, ToSet
  <2> QED BY <1>1, <1>2, <2>1, <2>2
<1>4. \A p \in Partitions : Waits(p)' => hold'[p].offset \notin refusedAhead'[p]
  BY <1>2
<1> HIDE DEF Spent
<1> QED BY <1>1, <1>2, <1>3, <1>4 DEF ReportsInv

\* A step that neither reports nor fails, and keeps batch, holds and commits as they are.
LEMMA QuietStepKeepsReports ==
  ASSUME Typed, Typed', ReportsInv, Records' = Records, UNCHANGED <<reports, transients, restarts>>,
         \A p \in Partitions : HoldStands(p), EndsStay,
         refusedAhead' = refusedAhead, batch' = batch,
         \A p \in Partitions : hold[p] = NoHold => Rewound(current)'[p] = Rewound(current)[p],
         Left' \subseteq Left, pc' = "apply" => putRefused' = putRefused,
         pc' \in {pc, "failed"} \/ (pc = "apply" /\ pc' = "resolve"),
         pc' = "resolve" => \A p \in untried' : Waits(p)'
  PROVE  ReportsInv'
<1>1. /\ \A r \in Records : r.p \in Partitions
      /\ ToSet(batch) \subseteq Records /\ Left \subseteq ToSet(batch) \cup Left
      /\ \A r \in Left : r \in Records
  <2>1. Left \subseteq Records
    BY DEF Typed, Left, BatchTypes, PutTypes, ToSet
  <2> QED BY <2>1, RecordFacts DEF Typed, OffsetsInv, OffsetTypes
<1>2. \A r \in Records : Spent(r)' <=> Spent(r)
  BY DEF Spent
<1>3. \A r \in Records : HeldTail(r) <=> HeldTail(r)'
  BY <1>1 DEF HeldTail, HoldStands
<1>4. \A r \in Records : reports'[r] <= 1 + transients' + restarts'
  BY DEF ReportsInv
<1>5. \A r \in Records : Spent(r)' => Passed(r)'
  <2>1. ASSUME NEW r \in Records, Spent(r) PROVE Passed(r)'
    <3>1. Passed(r) /\ r.p \in Partitions
      BY <1>1, <2>1 DEF ReportsInv
    <3>2. pc \in {"apply", "resolve", "failed"} => pc' \in {"apply", "resolve", "failed"}
      OBVIOUS
    <3> QED BY <3>1, <3>2, PassedFrame
  <2> QED BY <1>2, <2>1
<1> HIDE DEF Spent, Passed
<1>6. pc' = "idle" /\ batch' # <<>> => \A r \in Records : ~Spent(r)'
  BY <1>2 DEF ReportsInv
<1>7. pc' = "read" => \A r \in ToSet(batch') : Spent(r)' => HeldTail(r)' \/ r.o \in refusedAhead'[r.p]
  BY <1>1, <1>2, <1>3 DEF ReportsInv
<1>8. pc' = "apply" => \A r \in Left' : HeldTail(r)' \/ (~Spent(r)' /\ r.o \notin refusedAhead'[r.p])
  BY <1>1, <1>2, <1>3 DEF ReportsInv
<1>9. pc' = "apply" => \A r \in ToSet(batch') \ putRefused' :
        (Spent(r)' /\ hold'[r.p] = NoHold /\ r.o \notin refusedAhead'[r.p]) =>
           \A y \in Left' : y.p = r.p => r.o < y.o
  <2>1. \A r \in Records : hold'[r.p] = NoHold => hold[r.p] = NoHold
    BY <1>1 DEF HoldStands
  <2> QED BY <1>1, <1>2, <2>1 DEF ReportsInv
<1>10. \A p \in Partitions : Waits(p)' => hold'[p].offset \notin refusedAhead'[p]
  <2>1. ASSUME NEW p \in Partitions, Waits(p)' PROVE hold'[p].offset \notin refusedAhead'[p]
    <3>1. Waits(p) /\ hold'[p].offset = hold[p].offset
      BY <2>1 DEF Waits, HoldStands, EndsStay, Ended
    <3> QED BY <3>1 DEF ReportsInv
  <2> QED BY <2>1
<1> QED BY <1>4, <1>5, <1>6, <1>7, <1>8, <1>9, <1>10 DEF ReportsInv

\* A poll that fetches brings nothing that was passed.
LEMMA PollReports ==
  ASSUME Typed, Typed', ReportsInv, Records' = Records, PollBrings({})
  PROVE  ReportsInv'
<1>1. PICK n \in [Partitions -> 0..MaxPoll] :
        (\A q \in Partitions : n[q] <= Fetchable(q)) /\ Poll(n)
  BY DEF PollBrings
<1>2. /\ pc = "idle" /\ pc' = "read"
      /\ UNCHANGED <<hold, refusedAhead, untried, reports, transients, restarts>>
      /\ current' = Rewound(current) /\ rewind' = [p \in Partitions |-> 0]
  BY <1>1 DEF Poll, task, seen
<1>3. \A p \in Partitions : Rewound(current)'[p] = Rewound(current)[p]
  BY <1>2 DEF Rewound
<1>4. \A r \in Records : /\ Spent(r)' <=> Spent(r)
                         /\ HeldTail(r)' <=> HeldTail(r)
                         /\ r.p \in Partitions /\ r.o \in Nat
  BY <1>2, RecordFacts DEF Spent, HeldTail, Typed, OffsetsInv, OffsetTypes
<1>5. ASSUME NEW r \in Records, Spent(r)
      PROVE  /\ batch = <<>>
             /\ \/ r.o \in refusedAhead[r.p]
                \/ hold[r.p] = NoHold /\ r.o < Rewound(current)[r.p]
                \/ hold[r.p] # NoHold /\ r.o < hold[r.p].offset
                \/ Ended(r.p) /\ r.o = hold[r.p].offset
  <2>1. Passed(r) /\ batch = <<>>
    BY <1>2, <1>5 DEF ReportsInv
  <2> QED BY <1>2, <2>1 DEF Passed
<1>6. \A r \in Records : Spent(r)' => Passed(r)'
  <2> SUFFICES ASSUME NEW r \in Records, Spent(r) PROVE Passed(r)'
    BY <1>4
  <2> QED BY <1>2, <1>3, <1>4, <1>5 DEF Passed, Ended
<1>7. ASSUME NEW r \in ToSet(batch'), Spent(r)' PROVE HeldTail(r)' \/ r.o \in refusedAhead'[r.p]
  <2>1. r \in Records
    BY DEF Typed, OffsetsInv, OffsetTypes
  <2>2. Spent(r) /\ batch = <<>>
    BY <1>4, <1>5, <1>7, <2>1
  <2>3. r \in Fetched(n)
    <3>1. batch' \in SetToSeqs(Fetched(n)) /\ InOrder(batch')
      BY <1>1, <2>2 DEF Poll
    <3>2. ToSet(batch') = Fetched(n)
      BY <1>1, <3>1, FetchedFacts DEF Typed
    <3> QED BY <3>2
  <2>4. r.p \in Partitions /\ Rewound(position)[r.p] <= r.o
    <3>1. PICK p \in Partitions : r \in [p: {p}, o: Rewound(position)[p]..(Rewound(position)[p] + n[p] - 1)]
      BY <2>3 DEF Fetched
    <3>2. r.p = p /\ r.o \in Rewound(position)[p]..(Rewound(position)[p] + n[p] - 1)
      BY <3>1
    <3>3. Rewound(position)[p] \in Nat /\ n[p] \in Nat
      BY <1>1, RewoundFacts, BoundsAssumption DEF Typed
    <3> QED BY <3>2, <3>3
  <2>5. PartitionOffsets(r.p) /\ r.o \in Nat
        /\ Rewound(position)[r.p] \in Nat /\ Rewound(current)[r.p] \in Nat
    BY <2>1, <2>4, <1>4, RewoundFacts DEF Typed, OffsetsInv
  <2>6. hold[r.p] # NoHold => hold[r.p].offset \in Nat
    BY <2>4 DEF Typed, OffsetsInv, OffsetTypes, Holds
  <2>7. ~(hold[r.p] = NoHold /\ r.o < Rewound(current)[r.p])
    BY <2>4, <2>5 DEF PartitionOffsets, FreePartition
  <2>8. ~(hold[r.p] # NoHold /\ r.o < hold[r.p].offset)
    BY <2>4, <2>5, <2>6 DEF PartitionOffsets, HeldPartition
  <2>9. Ended(r.p) /\ r.o = hold[r.p].offset => HeldTail(r)
    BY <2>5 DEF Ended, HeldTail
  <2> QED BY <1>2, <1>4, <1>5, <2>1, <2>2, <2>7, <2>8, <2>9
<1>8. \A r \in Records : reports'[r] <= 1 + transients' + restarts'
  BY <1>2 DEF ReportsInv
<1>9. \A p \in Partitions : Waits(p)' => hold'[p].offset \notin refusedAhead'[p]
  BY <1>2 DEF Waits, ReportsInv
<1> HIDE DEF Spent, Passed
<1> QED BY <1>2, <1>6, <1>7, <1>8, <1>9 DEF ReportsInv

\* A record is refused only if it has not been reported since the last failure.
LEMMA ReadBatchReports ==
  ASSUME Typed, Typed', SettledInv, ReportsInv, Records' = Records, ReadBatch
  PROVE  ReportsInv'
<1>1. /\ pc = "read" /\ pc' = "apply" /\ UNCHANGED <<refusedAhead, batch, current, transients, restarts>>
      /\ rewind = [p \in Partitions |-> 0] \/ \A p \in Partitions : rewind[p] = 0
      /\ putRefused' = {r \in ToSet(batch) : Refuses(r)}
      /\ reports' = [r \in Records |-> IF r \in putRefused' THEN reports[r] + 1 ELSE reports[r]]
  BY DEF ReadBatch, Typed, OffsetsInv, PutPhases
<1>2. /\ \A p \in Partitions : HoldStands(p)
      /\ EndsStay
  BY HoldsStand, HoldsEnd
<1>3. /\ \A r \in Records : r.p \in Partitions /\ r.o \in Nat
      /\ ToSet(batch) \subseteq Records /\ batch \in Seq(Records)
      /\ reports \in [Records -> Nat] /\ transients \in Nat /\ restarts \in Nat
  BY RecordFacts, BoundsAssumption DEF Typed, OffsetsInv, OffsetTypes, BatchTypes, SeenTypes
<1>4. \A r \in Records : HeldTail(r) <=> HeldTail(r)'
  BY <1>2, <1>3 DEF HeldTail, HoldStands
<1>5. \A r \in ToSet(batch) : Spent(r) => HeldTail(r) \/ r.o \in refusedAhead[r.p]
  BY <1>1 DEF ReportsInv
<1>6. \A r \in putRefused' : r \in ToSet(batch) /\ ~HeldTail(r) /\ r.o \notin refusedAhead[r.p] /\ ~Spent(r)
  BY <1>1, <1>5 DEF Refuses, SkipHeldOrRefused
<1>7. \A r \in Records : r \notin putRefused' => (Spent(r)' <=> Spent(r)) /\ reports'[r] = reports[r]
  BY <1>1 DEF Spent
<1>8. ASSUME NEW r \in Records PROVE reports'[r] <= 1 + transients' + restarts'
  <2>1. CASE r \in putRefused'
    <3>1. ~(reports[r] > transients + restarts) /\ reports'[r] = reports[r] + 1
      BY <1>1, <1>6, <2>1 DEF Spent
    <3> QED BY <1>1, <1>3, <3>1
  <2>2. CASE r \notin putRefused'
    BY <1>1, <1>7, <2>2 DEF ReportsInv
  <2> QED BY <2>1, <2>2
<1>9. ASSUME NEW r \in Records, Spent(r)' PROVE Passed(r)'
  <2>1. CASE r \in putRefused'
    <3>1. r \in ToSet(batch) /\ ~HeldTail(r) /\ r.p \in Partitions /\ r.o \in Nat
      BY <1>3, <1>6, <2>1
    <3>2. CASE hold[r.p] = NoHold
      BY <1>1, <1>2, <3>1, <3>2 DEF Passed, HoldStands
    <3>3. CASE hold[r.p] # NoHold
      <4>1. r.o < hold[r.p].offset
        BY <3>1, <3>3 DEF HeldTail, Typed, OffsetsInv, OffsetTypes, Holds
      <4> QED BY <1>2, <3>1, <3>3, <4>1 DEF Passed, HoldStands
    <3> QED BY <3>2, <3>3
  <2>2. CASE r \notin putRefused'
    <3>1. Passed(r)
      BY <1>7, <1>9, <2>2 DEF ReportsInv
    <3>2. hold[r.p] = NoHold => Rewound(current)'[r.p] = Rewound(current)[r.p]
      <4>1. r.p \in Partitions /\ rewind[r.p] = 0 /\ CapsOfPut[r.p] = 0
        BY <1>1, <1>3 DEF Typed, OffsetsInv, PutPhases, CapsOfPut
      <4>2. hold[r.p] = NoHold => rewind'[r.p] = CapsOfPut[r.p]
        BY <4>1 DEF ReadBatch, Waits
      <4> QED BY <1>1, <4>1, <4>2 DEF Rewound
    <3> QED BY <1>1, <1>2, <3>1, <3>2, PassedFrame
  <2> QED BY <2>1, <2>2
<1>10. Left' = {r \in ToSet(batch) : Prepares(r)}
  <2>1. rows' = <<>> /\ ToSet(<<>>) = {}
    BY DEF ReadBatch, SettledInv, PutCovers, ToSet
  <2>2. Members(todo)' = {r \in ToSet(batch) : Prepares(r)}
    BY <1>3, PreparedFacts
  <2> QED BY <2>1, <2>2 DEF Left, Members
<1>11. \A r \in Left' : HeldTail(r)' \/ (~Spent(r)' /\ r.o \notin refusedAhead'[r.p])
  <2> SUFFICES ASSUME NEW r \in Left'
               PROVE  HeldTail(r)' \/ (~Spent(r)' /\ r.o \notin refusedAhead'[r.p])
    OBVIOUS
  <2>1. r \in Records /\ r \in ToSet(batch) /\ r \notin putRefused' /\ r.o \notin refusedAhead[r.p]
    BY <1>1, <1>3, <1>10 DEF Prepares, SkipHeldOrRefused
  <2> QED BY <1>1, <1>4, <1>5, <1>7, <2>1
<1>12. ASSUME NEW r \in ToSet(batch') \ putRefused', Spent(r)', hold'[r.p] = NoHold,
              r.o \notin refusedAhead'[r.p]
       PROVE  FALSE
  <2>1. r \in Records /\ Spent(r) /\ r \in ToSet(batch)
    BY <1>1, <1>3, <1>7, <1>12
  <2>2. HeldTail(r)'
    BY <1>1, <1>4, <1>5, <1>12, <2>1
  <2> QED BY <1>12, <2>2 DEF HeldTail
<1>13. \A p \in Partitions : Waits(p)' => hold'[p].offset \notin refusedAhead'[p]
  <2> SUFFICES ASSUME NEW p \in Partitions, Waits(p)' PROVE hold'[p].offset \notin refusedAhead'[p]
    OBVIOUS
  <2>1. Waits(p) /\ hold'[p].offset = hold[p].offset
    BY <1>2 DEF Waits, HoldStands, EndsStay, Ended
  <2> QED BY <1>1, <2>1 DEF ReportsInv
<1> HIDE DEF Spent, Passed
<1> QED BY <1>1, <1>8, <1>9, <1>11, <1>12, <1>13 DEF ReportsInv

\* The row that is rejected on its own has not been reported since the last failure, and
\* precedes what is left of its partition.
LEMMA RejectedFacts ==
  ASSUME Typed, SettledInv, ReportsInv, Busy, UnitDone, NEW r \in ToSet(batch), RejectedRow(r)
  PROVE  /\ r \in Records /\ r.p \in Partitions /\ r.o \in Nat
         /\ r \in Left /\ ~HeldTail(r) /\ ~Spent(r) /\ r.o \notin refusedAhead[r.p]
         /\ Left' \subseteq Left /\ \A y \in Left' : y.p = r.p => r.o < y.o
<1>1. PutTypes /\ PutOrder /\ r \in Records /\ r.p \in Partitions /\ r.o \in Nat
  BY RecordFacts DEF Typed, BatchTypes, SettledInv, OffsetsInv, OffsetTypes
<1>2. /\ Left = ToSet(Upcoming) \cup Left'
      /\ \A z \in ToSet(Upcoming), y \in Left' : z.p = y.p => z.o < y.o
  BY <1>1, UnitDoneFacts
<1>3. {r} = {z \in ToSet(Upcoming) : ~HeldTail(z)}
  <2>1. ToSet(Unit) = {r}
    BY <1>1, Single DEF RejectedRow
  <2> QED BY <1>1, <2>1, UnitFacts
<1>4. r \in Left /\ ~HeldTail(r) /\ r \in ToSet(Upcoming)
  BY <1>2, <1>3
<1>5. ~Spent(r) /\ r.o \notin refusedAhead[r.p]
  BY <1>4 DEF ReportsInv, Busy
<1> QED BY <1>1, <1>2, <1>4, <1>5

LEMMA QuarantineReports ==
  ASSUME Typed, Typed', SettledInv, ReportsInv, Records' = Records, Busy,
         NEW r \in ToSet(batch), QuarantineRow(r)
  PROVE  ReportsInv'
<1>1. /\ pc = "apply" /\ pc' = "apply" /\ UnitDone /\ RejectedRow(r)
      /\ UNCHANGED <<hold, refusedAhead, rewind, current, batch, putRefused, transients, restarts>>
      /\ reports' = [x \in Records |-> IF x \in {r} THEN reports[x] + 1 ELSE reports[x]]
  BY DEF QuarantineRow, Reported, connect, task, Busy
<1>2. /\ r \in Records /\ r.p \in Partitions /\ r.o \in Nat
      /\ r \in Left /\ ~HeldTail(r) /\ ~Spent(r) /\ r.o \notin refusedAhead[r.p]
      /\ Left' \subseteq Left /\ \A y \in Left' : y.p = r.p => r.o < y.o
  BY <1>1, RejectedFacts
<1>3. /\ reports \in [Records -> Nat] /\ transients \in Nat /\ restarts \in Nat
      /\ ToSet(batch) \subseteq Records
      /\ Left \subseteq Records
  <2>1. Left \subseteq Records
    BY DEF Typed, Left, BatchTypes, PutTypes, ToSet
  <2> QED BY <2>1, BoundsAssumption DEF Typed, SeenTypes, OffsetsInv, OffsetTypes
<1>4. \A x \in Records : /\ x # r => (Spent(x)' <=> Spent(x)) /\ reports'[x] = reports[x]
                         /\ HeldTail(x)' <=> HeldTail(x)
                         /\ Passed(x)' <=> Passed(x)
  BY <1>1 DEF Spent, HeldTail, Passed, Rewound, Ended
<1>5. \A x \in Records : reports'[x] <= 1 + transients' + restarts'
  <2>1. reports'[r] <= 1 + transients' + restarts'
    <3>1. ~(reports[r] > transients + restarts) /\ reports'[r] = reports[r] + 1
      BY <1>1, <1>2 DEF Spent
    <3> QED BY <1>1, <1>2, <1>3, <3>1
  <2> QED BY <1>1, <1>4, <2>1 DEF ReportsInv
<1>6. \A x \in Records : Spent(x)' => Passed(x)'
  <2>1. Passed(r)
    <3>1. CASE hold[r.p] = NoHold
      BY <1>1, <3>1 DEF Passed
    <3>2. CASE hold[r.p] # NoHold
      <4>1. r.o < hold[r.p].offset
        BY <1>2, <3>2 DEF HeldTail, Typed, OffsetsInv, OffsetTypes, Holds
      <4> QED BY <3>2, <4>1 DEF Passed
    <3> QED BY <3>1, <3>2
  <2> QED BY <1>2, <1>4, <2>1 DEF ReportsInv
<1>7. r \notin Left'
  BY <1>2
<1> HIDE DEF Spent, Passed
<1>8. \A y \in Left' : HeldTail(y)' \/ (~Spent(y)' /\ y.o \notin refusedAhead'[y.p])
  BY <1>1, <1>2, <1>3, <1>4, <1>7 DEF ReportsInv
<1>9. ASSUME NEW x \in ToSet(batch') \ putRefused', Spent(x)', hold'[x.p] = NoHold,
             x.o \notin refusedAhead'[x.p], NEW y \in Left', y.p = x.p
      PROVE  x.o < y.o
  <2>1. x \in ToSet(batch) \ putRefused /\ x \in Records /\ hold[x.p] = NoHold /\ x.o \notin refusedAhead[x.p]
    BY <1>1, <1>3, <1>9
  <2>2. CASE x = r
    BY <1>2, <1>9, <2>2
  <2>3. CASE x # r
    BY <1>1, <1>2, <1>4, <1>9, <2>1, <2>3 DEF ReportsInv
  <2> QED BY <2>2, <2>3
<1>10. \A p \in Partitions : Waits(p)' => hold'[p].offset \notin refusedAhead'[p]
  BY <1>1 DEF Waits, ReportsInv
<1> QED BY <1>1, <1>5, <1>6, <1>8, <1>9, <1>10 DEF ReportsInv

\* A hold that starts has nothing before it that is not passed, and remembers what was
\* refused behind it.
LEMMA StartHoldReports ==
  ASSUME Typed, Typed', SettledInv, ReportsInv, Records' = Records, Busy,
         NEW r \in ToSet(batch), StartHold(r)
  PROVE  ReportsInv'
<1>1. /\ pc = "apply" /\ pc' = "apply" /\ UnitDone /\ RejectedRow(r)
      /\ UNCHANGED <<current, batch, putRefused, reports, transients, restarts>>
      /\ refusedAhead' = [refusedAhead EXCEPT ![r.p] = @ \cup RefusedBehind(r)]
      /\ rewind' \in {rewind, [rewind EXCEPT ![r.p] = r.o]}
  BY DEF StartHold, seen, Busy
<1>2. /\ r \in Records /\ r.p \in Partitions /\ r.o \in Nat
      /\ r \in Left /\ ~HeldTail(r) /\ ~Spent(r) /\ r.o \notin refusedAhead[r.p]
      /\ Left' \subseteq Left /\ \A y \in Left' : y.p = r.p => r.o < y.o
  BY <1>1, RejectedFacts
<1>3. /\ hold[r.p] = NoHold /\ hold'[r.p] # NoHold /\ hold'[r.p].offset = r.o
      /\ \A q \in Partitions \ {r.p} : hold'[q] = hold[q]
  BY StartHoldTails
<1>4. /\ ToSet(batch) \subseteq Records /\ Left \subseteq Records /\ PutCovers
      /\ \A x \in Records : x.p \in Partitions /\ x.o \in Nat
  <2>1. Left \subseteq Records
    BY DEF Typed, Left, BatchTypes, PutTypes, ToSet
  <2> QED BY <2>1, RecordFacts DEF Typed, OffsetsInv, OffsetTypes, SettledInv
<1>5. /\ refusedAhead'[r.p] = refusedAhead[r.p] \cup RefusedBehind(r)
      /\ \A q \in Partitions \ {r.p} : /\ refusedAhead'[q] = refusedAhead[q]
                                       /\ Rewound(current)'[q] = Rewound(current)[q]
  <2>1. refusedAhead \in [Partitions -> SUBSET Nat] /\ rewind \in [Partitions -> Nat]
    BY DEF Typed, OffsetsInv, OffsetTypes, BatchTypes, Offsets
  <2> QED BY <1>1, <1>2, <2>1 DEF Rewound
<1>6. \A x \in Records : /\ Spent(x)' <=> Spent(x)
                         /\ x.p # r.p => (HeldTail(x)' <=> HeldTail(x)) /\ (Passed(x)' <=> Passed(x))
  BY <1>1, <1>3, <1>4, <1>5 DEF Spent, HeldTail, Passed, Ended
<1>7. ASSUME NEW x \in Records, Spent(x)' PROVE Passed(x)'
  <2>1. Spent(x) /\ Passed(x) /\ x # r
    BY <1>2, <1>6, <1>7 DEF ReportsInv
  <2>2. CASE x.p # r.p
    BY <1>6, <2>1, <2>2
  <2>3. CASE x.p = r.p
    <3>1. x.o < r.o => Passed(x)'
      BY <1>3, <2>3 DEF Passed
    <3>2. x.o \in refusedAhead[r.p] => Passed(x)'
      BY <1>5, <2>3 DEF Passed
    <3>3. CASE x.o < Rewound(current)[r.p]
      <4>1. /\ rewind[r.p] = 0 /\ current[r.p] <= r.o /\ current[r.p] \in Nat
        BY <1>2, <1>3 DEF Typed, OffsetsInv, OffsetTypes, Positions, PartitionOffsets, FreePartition, Delivered
      <4>2. Rewound(current)[r.p] = current[r.p]
        BY <1>2, <4>1 DEF Rewound
      <4> QED BY <1>2, <1>4, <3>1, <3>3, <4>1, <4>2
    <3>4. CASE x \in ToSet(batch) /\ x.o \notin refusedAhead[r.p]
      <4>1. CASE x \in putRefused
        <5>1. x.o > r.o => x.o \in RefusedBehind(r)
          BY <2>3, <4>1 DEF RefusedBehind
        <5>2. x.o # r.o
          BY <1>2, <2>1, <2>3, RecordIs
        <5>3. x.o \in RefusedBehind(r) => Passed(x)'
          BY <1>5, <2>3 DEF Passed
        <5> QED BY <1>2, <1>4, <3>1, <5>1, <5>2, <5>3
      <4>2. CASE x \notin putRefused
        BY <1>1, <1>2, <1>3, <2>1, <2>3, <3>1, <3>4, <4>2 DEF ReportsInv
      <4> QED BY <4>1, <4>2
    <3>5. \/ x.o \in refusedAhead[r.p]
          \/ x.o < Rewound(current)[r.p]
          \/ x \in ToSet(batch)
      BY <1>3, <2>1, <2>3 DEF Passed, Ended
    <3> QED BY <3>2, <3>3, <3>4, <3>5
  <2> QED BY <2>2, <2>3
<1> HIDE DEF Spent, Passed
<1>8. ASSUME NEW y \in Left' PROVE HeldTail(y)' \/ (~Spent(y)' /\ y.o \notin refusedAhead'[y.p])
  <2>1. y \in Left /\ y \in Records /\ y.p \in Partitions /\ y.o \in Nat
    BY <1>2, <1>4
  <2>2. CASE y.p = r.p
    <3>1. r.o < y.o
      BY <1>2, <2>2
    <3> QED BY <1>2, <1>3, <2>1, <2>2, <3>1 DEF HeldTail
  <2>3. CASE y.p # r.p
    BY <1>1, <1>5, <1>6, <2>1, <2>3 DEF ReportsInv
  <2> QED BY <2>2, <2>3
<1>9. ASSUME NEW x \in ToSet(batch') \ putRefused', Spent(x)', hold'[x.p] = NoHold,
             x.o \notin refusedAhead'[x.p], NEW y \in Left', y.p = x.p
      PROVE  x.o < y.o
  <2>1. x \in ToSet(batch) \ putRefused /\ x \in Records /\ Spent(x) /\ x.p \in Partitions /\ x.p # r.p
    BY <1>1, <1>3, <1>4, <1>6, <1>9
  <2>2. hold[x.p] = NoHold /\ x.o \notin refusedAhead[x.p]
    BY <1>3, <1>5, <1>9, <2>1
  <2> QED BY <1>1, <1>2, <1>9, <2>1, <2>2 DEF ReportsInv
<1>10. ASSUME NEW p \in Partitions, Waits(p)' PROVE hold'[p].offset \notin refusedAhead'[p]
  <2>1. CASE p = r.p
    <3>1. r.o \notin RefusedBehind(r)
      BY <1>2, <1>4 DEF RefusedBehind, PutCovers
    <3> QED BY <1>2, <1>3, <1>5, <2>1, <3>1
  <2>2. CASE p # r.p
    BY <1>3, <1>5, <1>10, <2>2 DEF Waits, ReportsInv
  <2> QED BY <2>1, <2>2
<1>11. \A x \in Records : reports'[x] <= 1 + transients' + restarts'
  BY <1>1 DEF ReportsInv
<1> QED BY <1>1, <1>7, <1>8, <1>9, <1>10, <1>11 DEF ReportsInv

\* A hold that runs out of its budget reports its change for the first time.
LEMMA TryReports ==
  ASSUME Typed, Typed', SettledInv, ReportsInv, Records' = Records, NEW p \in Partitions,
         ApplyHeld(p) \/ KeepHeld(p) \/ ExpireHeld(p)
  PROVE  ReportsInv'
<1>1. /\ UNCHANGED <<refusedAhead, current, rewind, batch, rows, todo, putRefused, transients, restarts>>
      /\ pc = "resolve" /\ p \in untried
      /\ \/ pc' = "resolve" /\ untried' = untried \ {p}
         \/ pc' = "failed"
  BY DEF ApplyHeld, KeepHeld, ExpireHeld, TaskFails, Trying, connect, task, put, seen
<1>2. (\A q \in Partitions : HoldStands(q)) /\ EndsStay
  BY HoldsStand, HoldsEnd
<1>3. \A q \in Partitions : Rewound(current)'[q] = Rewound(current)[q]
  BY <1>1 DEF Rewound
<1>4. pc' = "resolve" => \A q \in untried' : Waits(q)'
  <2> SUFFICES ASSUME pc' = "resolve", NEW q \in untried' PROVE Waits(q)'
    OBVIOUS
  <2>1. q \in Partitions /\ q # p /\ Waits(q)
    <3>1. untried \subseteq Partitions /\ untried' = untried \ {p}
      BY <1>1 DEF Typed, OffsetsInv, OffsetTypes
    <3> QED BY <1>1, <3>1 DEF ReportsInv
  <2>2. hold \in [Partitions -> Holds \cup {NoHold}]
    BY DEF Typed, OffsetsInv, OffsetTypes
  <2>3. hold'[q] = hold[q]
    BY <2>1, <2>2 DEF ApplyHeld, KeepHeld, ExpireHeld, TaskFails, task
  <2> QED BY <2>1, <2>3 DEF Waits
<1>5. Left' = Left
  BY <1>1 DEF Left
<1>6. CASE UNCHANGED reports
  BY <1>1, <1>2, <1>3, <1>4, <1>5, <1>6, QuietStepKeepsReports
<1>7. CASE ~UNCHANGED reports
  <2>1. /\ ExpireHeld(p) /\ DlqWired /\ pc' = "resolve"
        /\ reports' = [x \in Records |-> IF x = HeadOf(p) THEN reports[x] + 1 ELSE reports[x]]
        /\ hold' = [hold EXCEPT ![p].ended = "dead"]
    BY <1>1, <1>7 DEF ApplyHeld, KeepHeld, ExpireHeld, TaskFails, Reported, seen
  <2>2. Waits(p) /\ hold[p] # NoHold /\ hold[p] \in Holds
    BY <1>1 DEF ReportsInv, Typed, OffsetsInv, OffsetTypes, Waits
  <2>3. Ended(p)' /\ hold'[p].offset = hold[p].offset
    <3> DEFINE h == hold[p]
    <3>1. hold'[p] = [h EXCEPT !.ended = "dead"] /\ h \in Holds
      BY <2>1, <2>2 DEF Typed, OffsetsInv, OffsetTypes
    <3> HIDE DEF h
    <3>2. [h EXCEPT !.ended = "dead"].ended = "dead"
      BY <3>1 DEF Holds
    <3>3. hold'[p] # NoHold /\ hold'[p].offset = hold[p].offset
      BY <1>2, <2>2 DEF HoldStands
    <3> QED BY <3>1, <3>2, <3>3 DEF Ended
  <2>4. \A x \in Records : x.p \in Partitions /\ x.o \in Nat
    BY RecordFacts DEF Typed, OffsetsInv, OffsetTypes
  <2>5. ASSUME NEW x \in Records, x = HeadOf(p) PROVE ~Spent(x) /\ x.p = p /\ x.o = hold[p].offset
    <3>1. x.p = p /\ x.o = hold[p].offset
      BY <2>5 DEF HeadOf
    <3>2. ~Passed(x)
      <4>1. hold[p].offset \notin refusedAhead[p] /\ ~Ended(p) /\ hold[p].offset \in Nat
        BY <2>2 DEF ReportsInv, Waits, Ended, Holds
      <4> QED BY <2>2, <3>1, <4>1 DEF Passed
    <3> QED BY <3>1, <3>2 DEF ReportsInv
  <2>6. \A x \in Records : x # HeadOf(p) => reports'[x] = reports[x] /\ (Spent(x)' <=> Spent(x))
    BY <1>1, <2>1 DEF Spent
  <2>7. ASSUME NEW x \in Records PROVE reports'[x] <= 1 + transients' + restarts'
    <3>1. CASE x = HeadOf(p)
      <4>1. /\ ~(reports[x] > transients + restarts) /\ reports'[x] = reports[x] + 1
            /\ reports[x] \in Nat /\ transients \in Nat /\ restarts \in Nat
        BY <2>1, <2>5, <3>1, BoundsAssumption DEF Spent, Typed, SeenTypes
      <4> QED BY <1>1, <4>1
    <3>2. CASE x # HeadOf(p)
      BY <1>1, <2>6, <3>2 DEF ReportsInv
    <3> QED BY <3>1, <3>2
  <2>8. ASSUME NEW x \in Records, Spent(x)' PROVE Passed(x)'
    <3>1. CASE x = HeadOf(p)
      BY <2>3, <2>5, <3>1 DEF Passed
    <3>2. CASE x # HeadOf(p)
      <4>1. Passed(x)
        BY <2>6, <2>8, <3>2 DEF ReportsInv
      <4> QED BY <1>1, <1>2, <1>3, <2>4, <4>1, PassedFrame
    <3> QED BY <3>1, <3>2
  <2>9. ASSUME NEW q \in Partitions, Waits(q)' PROVE hold'[q].offset \notin refusedAhead'[q]
    <3>1. Waits(q) /\ hold'[q].offset = hold[q].offset
      BY <1>2, <2>9 DEF Waits, HoldStands, EndsStay, Ended
    <3> QED BY <1>1, <3>1 DEF ReportsInv
  <2> HIDE DEF Spent, Passed
  <2> QED BY <1>4, <2>1, <2>7, <2>8, <2>9 DEF ReportsInv
<1> QED BY <1>6, <1>7

\* When a put returns, the worker's offset passes what it reported.
LEMMA PutReturnsReports ==
  ASSUME Typed, Typed', SettledInv, ReportsInv, Records' = Records, PutReturns
  PROVE  ReportsInv'
<1>1. /\ pc = "resolve" /\ pc' = "idle" /\ batch' = <<>>
      /\ UNCHANGED <<refusedAhead, reports, transients, restarts>>
  BY DEF PutReturns, seen
<1>2. ASSUME NEW p \in Partitions
      PROVE  /\ hold'[p] = IF Ended(p) THEN NoHold ELSE hold[p]
             /\ rewind'[p] = IF Ended(p) THEN hold[p].offset + 1
                             ELSE IF Waits(p) /\ ~hold[p].lookahead THEN hold[p].offset
                             ELSE rewind[p]
             /\ current'[p] = IF Delivered(p) = {} THEN current[p] ELSE LastOffset(p) + 1
  BY DEF PutReturns
<1>3. \A r \in Records : (Spent(r)' <=> Spent(r)) /\ r.p \in Partitions /\ r.o \in Nat
  BY <1>1, RecordFacts DEF Spent, Typed, OffsetsInv, OffsetTypes
<1>4. ASSUME NEW r \in Records, Spent(r)' PROVE Passed(r)'
  <2> DEFINE p == r.p
  <2>1. Passed(r) /\ p \in Partitions /\ PartitionOffsets(p) /\ r.o \in Nat
    BY <1>3, <1>4 DEF ReportsInv, Typed, OffsetsInv
  <2>2. CASE r.o \in refusedAhead[p]
    BY <1>1, <2>2 DEF Passed
  <2>3. CASE hold[p] = NoHold /\ (r.o < Rewound(current)[p] \/ r \in ToSet(batch))
    <3>1. hold'[p] = NoHold /\ rewind'[p] = rewind[p]
      BY <1>2, <2>1, <2>3 DEF Ended, Waits
    <3>2. CASE Delivered(p) = {}
      <4>1. Rewound(current)'[p] = Rewound(current)[p]
        BY <1>2, <2>1, <3>1, <3>2 DEF Rewound
      <4>2. r \notin ToSet(batch)
        BY <3>2 DEF Delivered
      <4> QED BY <2>3, <3>1, <4>1, <4>2 DEF Passed
    <3>3. CASE Delivered(p) # {}
      <4>1. /\ LastOffset(p) \in Nat /\ \E x \in Delivered(p) : LastOffset(p) = x.o
            /\ \A x \in Delivered(p) : x.o <= LastOffset(p)
        BY <2>1, <3>3, LastOffsetFacts DEF Typed, OffsetsInv
      <4>2. rewind[p] = 0 /\ current[p] <= LastOffset(p) /\ current[p] \in Nat
        <5>1. current[p] \in Nat
          BY <2>1 DEF Typed, OffsetsInv, OffsetTypes, Positions
        <5> QED BY <2>1, <2>3, <4>1, <5>1 DEF PartitionOffsets, FreePartition
      <4>3. Rewound(current)[p] = current[p] /\ Rewound(current)'[p] = LastOffset(p) + 1
        BY <1>2, <2>1, <3>1, <3>3, <4>2 DEF Rewound
      <4>4. r \in ToSet(batch) => r.o <= LastOffset(p)
        BY <4>1 DEF Delivered
      <4>5. r.o < LastOffset(p) + 1
        BY <2>1, <2>3, <4>1, <4>2, <4>3, <4>4
      <4> QED BY <3>1, <4>3, <4>5 DEF Passed
    <3> QED BY <3>2, <3>3
  <2>4. CASE hold[p] # NoHold /\ (r.o < hold[p].offset \/ (Ended(p) /\ r.o = hold[p].offset))
    <3>1. hold[p].offset \in Nat
      BY <2>1, <2>4 DEF Typed, OffsetsInv, OffsetTypes, Holds
    <3>2. CASE Ended(p)
      <4>1. hold'[p] = NoHold /\ rewind'[p] = hold[p].offset + 1
        BY <1>2, <2>1, <3>2
      <4>2. Rewound(current)'[p] = hold[p].offset + 1
        BY <2>1, <3>1, <4>1 DEF Rewound
      <4> QED BY <2>1, <2>4, <3>1, <4>1, <4>2 DEF Passed
    <3>3. CASE ~Ended(p)
      BY <1>2, <2>1, <2>4, <3>3 DEF Passed
    <3> QED BY <3>2, <3>3
  <2> QED BY <2>1, <2>2, <2>3, <2>4 DEF Passed, Ended
<1>5. ASSUME NEW p \in Partitions, Waits(p)' PROVE hold'[p].offset \notin refusedAhead'[p]
  <2>1. hold'[p] = hold[p] /\ Waits(p)
    BY <1>2, <1>5 DEF Waits
  <2> QED BY <1>1, <2>1 DEF ReportsInv
<1>6. \A r \in Records : reports'[r] <= 1 + transients' + restarts'
  BY <1>1 DEF ReportsInv
<1> HIDE DEF Spent, Passed
<1> QED BY <1>1, <1>4, <1>5, <1>6 DEF ReportsInv

\* A commit forgets only refusals that it has passed.
LEMMA CommitReports ==
  ASSUME Typed, Typed', ReportsInv, Records' = Records, Commit
  PROVE  ReportsInv'
<1>1. /\ pc \in {"idle", "failed"} /\ UNCHANGED <<pc, hold, batch, current, rewind, untried>>
      /\ UNCHANGED <<reports, transients, restarts>>
      /\ refusedAhead' = [p \in Partitions |-> {o \in refusedAhead[p] : o >= Capped(p)}]
  BY DEF Commit, put, seen
<1>2. \A r \in Records : (Spent(r)' <=> Spent(r)) /\ r.p \in Partitions /\ r.o \in Nat
  BY <1>1, RecordFacts DEF Spent, Typed, OffsetsInv, OffsetTypes
<1>3. Rewound(current)' = Rewound(current)
  BY <1>1 DEF Rewound
<1>4. ASSUME NEW r \in Records, Spent(r)' PROVE Passed(r)'
  <2> DEFINE p == r.p
  <2>1. Passed(r) /\ p \in Partitions /\ r.o \in Nat
    BY <1>2, <1>4 DEF ReportsInv
  <2>2. CASE r.o \in refusedAhead[p] /\ r.o >= Capped(p)
    BY <1>1, <2>1, <2>2 DEF Passed
  <2>3. CASE r.o \in refusedAhead[p] /\ ~(r.o >= Capped(p))
    <3>1. /\ Capped(p) \in Nat /\ current[p] \in Nat /\ Capped(p) <= current[p]
          /\ hold[p] # NoHold => Capped(p) <= hold[p].offset /\ hold[p].offset \in Nat
          /\ releasedCaps[p] \in Nat /\ (releasedCaps[p] # 0 => Capped(p) <= releasedCaps[p])
      BY <2>1, CappedFacts DEF Typed, OffsetsInv, OffsetTypes, Positions, Offsets, Holds
    <3>2. CASE hold[p] = NoHold
      <4>1. rewind[p] # 0 => rewind[p] = releasedCaps[p]
        BY <2>1, <3>2 DEF Typed, OffsetsInv, PartitionOffsets, FreePartition
      <4>2. Rewound(current)[p] = IF rewind[p] = 0 THEN current[p] ELSE rewind[p]
        BY <2>1 DEF Rewound
      <4>3. r.o < Rewound(current)[p]
        BY <2>1, <2>3, <3>1, <4>1, <4>2
      <4> QED BY <1>1, <1>3, <3>2, <4>3 DEF Passed
    <3>3. CASE hold[p] # NoHold
      <4>1. r.o < hold[p].offset
        BY <2>1, <2>3, <3>1, <3>3
      <4> QED BY <1>1, <3>3, <4>1 DEF Passed
    <3> QED BY <3>2, <3>3
  <2>4. CASE r.o \notin refusedAhead[p]
    BY <1>1, <1>3, <2>1, <2>4 DEF Passed, Ended
  <2> QED BY <2>2, <2>3, <2>4
<1>5. pc' = "idle" /\ batch' # <<>> => \A r \in Records : ~Spent(r)'
  BY <1>1, <1>2 DEF ReportsInv
<1>6. \A p \in Partitions : Waits(p)' => hold'[p].offset \notin refusedAhead'[p]
  BY <1>1 DEF Waits, ReportsInv
<1>7. \A r \in Records : reports'[r] <= 1 + transients' + restarts'
  BY <1>1 DEF ReportsInv
<1> HIDE DEF Spent, Passed
<1> QED BY <1>1, <1>4, <1>5, <1>6, <1>7 DEF ReportsInv

LEMMA StepReports ==
  ASSUME Typed, Typed', SettledInv, ReportsInv, [Next]_vars
  PROVE  ReportsInv'
<1>1. Records' = Records
  BY SourceStays
<1>2. ASSUME UNCHANGED hold PROVE (\A p \in Partitions : HoldStands(p)) /\ EndsStay
  BY <1>1, <1>2, HoldsStand, HoldsEnd
\* The steps of a put that report nothing.
<1>3. ASSUME pc = "apply", UNCHANGED <<hold, refusedAhead, rewind, current, batch>>,
             UNCHANGED <<reports, transients, restarts>>, Left' \subseteq Left,
             \/ pc' = "apply" /\ putRefused' = putRefused
             \/ pc' = "failed"
             \/ pc' = "resolve" /\ untried' = {p \in Partitions : Waits(p) /\ hold[p].due}
      PROVE  ReportsInv'
  <2>1. \A p \in Partitions : Rewound(current)'[p] = Rewound(current)[p]
    BY <1>3 DEF Rewound
  <2>2. pc' = "resolve" => \A p \in untried' : Waits(p)'
    BY <1>3 DEF Waits
  <2> QED BY <1>1, <1>2, <1>3, <2>1, <2>2, QuietStepKeepsReports
<1>4. ASSUME Busy, UnitDone PROVE Left' \subseteq Left
  BY <1>4, UnitDoneFacts DEF Typed, BatchTypes
<1>5. CASE PollBrings({})
  BY <1>1, <1>5, PollReports
<1>6. CASE ReadBatch
  BY <1>1, <1>6, ReadBatchReports
<1>7. CASE FailOnRefused
  <2>1. /\ pc = "read" /\ pc' = "failed" /\ rewind' = CapsOfPut
        /\ UNCHANGED <<hold, refusedAhead, current, batch, rows, todo, reports, transients, restarts>>
    BY <1>7 DEF FailOnRefused, seen
  <2>2. \A p \in Partitions : Rewound(current)'[p] = Rewound(current)[p]
    BY <2>1 DEF Rewound, Typed, OffsetsInv, PutPhases, CapsOfPut
  <2>3. Left' = Left
    BY <2>1 DEF Left
  <2> QED BY <1>1, <1>2, <2>1, <2>2, <2>3, QuietStepKeepsReports
<1>8. CASE SkipHeldTail \/ CommitUnit
  <2>1. /\ Busy /\ UnitDone /\ UNCHANGED <<hold, refusedAhead, rewind, current, batch>>
        /\ UNCHANGED <<pc, putRefused, reports, transients, restarts>>
    BY <1>8 DEF SkipHeldTail, CommitUnit, connect, task, seen
  <2> QED BY <1>3, <1>4, <2>1 DEF Busy
<1>9. CASE IsolateRows
  <2>1. /\ Busy /\ UNCHANGED <<hold, refusedAhead, rewind, current, batch>>
        /\ UNCHANGED <<pc, putRefused, reports, transients, restarts>>
    BY <1>9 DEF IsolateRows, connect, task, seen
  <2>2. Left' \subseteq Left
    BY <1>9, IsolateFacts DEF Typed, BatchTypes
  <2> QED BY <1>3, <2>1, <2>2 DEF Busy
<1>10. CASE HoldOrReport
  <2>1. PICK r \in ToSet(batch) : SkipSuperseded(r) \/ QuarantineRow(r) \/ StartHold(r) \/ FailOnRow(r)
    BY <1>10 DEF HoldOrReport
  <2>2. Busy /\ pc = "apply"
    BY <1>10 DEF HoldOrReport, Busy
  <2>3. CASE SkipSuperseded(r)
    <3>1. /\ UnitDone /\ UNCHANGED <<hold, refusedAhead, rewind, current, batch>>
          /\ UNCHANGED <<pc, putRefused, reports, transients, restarts>>
      BY <2>3 DEF SkipSuperseded, connect, task
    <3> QED BY <1>3, <1>4, <2>2, <3>1
  <2>4. CASE QuarantineRow(r)
    BY <1>1, <2>2, <2>4, QuarantineReports
  <2>5. CASE StartHold(r)
    BY <1>1, <2>2, <2>5, StartHoldReports
  <2>6. CASE FailOnRow(r)
    <3>1. /\ UNCHANGED <<hold, refusedAhead, rewind, current, batch, rows, todo>> /\ pc' = "failed"
          /\ UNCHANGED <<reports, transients, restarts>>
      BY <2>6 DEF FailOnRow, TaskFails, connect, task, seen
    <3>2. Left' = Left
      BY <3>1 DEF Left
    <3> QED BY <1>3, <2>2, <3>1, <3>2
  <2> QED BY <2>1, <2>3, <2>4, <2>5, <2>6
<1>11. CASE StartResolve
  <2>1. /\ UNCHANGED <<hold, refusedAhead, rewind, current, batch, rows, todo>>
        /\ UNCHANGED <<reports, transients, restarts>>
        /\ pc = "apply" /\ pc' = "resolve" /\ untried' = {p \in Partitions : Waits(p) /\ hold[p].due}
    BY <1>11 DEF StartResolve, connect, task, seen
  <2>2. Left' = Left
    BY <2>1 DEF Left
  <2> QED BY <1>3, <2>1, <2>2
<1>12. ASSUME \A p \in Partitions : HoldStands(p), EndsStay, UNCHANGED refusedAhead
       PROVE  \A p \in Partitions : Waits(p)' =>
                Waits(p) /\ hold'[p].offset = hold[p].offset /\ refusedAhead'[p] \subseteq refusedAhead[p]
  BY <1>12 DEF Waits, HoldStands, EndsStay, Ended
<1>13. CASE Throw \/ \E p \in Partitions : Unanswered(p)
  <2>1. /\ UNCHANGED <<refusedAhead, reports>> /\ transients' = transients + 1 /\ restarts' = restarts
        /\ pc' = "idle" \/ (pc' = "resolve" /\ untried' = {})
    BY <1>13 DEF Throw, Unanswered, Trying
  <2>2. (\A p \in Partitions : HoldStands(p)) /\ EndsStay
    BY <1>1, <1>13, HoldsStand, HoldsEnd
  <2> QED BY <1>1, <1>12, <2>1, <2>2, FailureKeepsReports
<1>14. CASE RerunLanded
  <2>1. /\ UNCHANGED <<refusedAhead, reports, hold, rows, todo>>
        /\ transients' = transients + 1 /\ restarts' = restarts
        /\ pc = "apply" /\ pc' = "apply"
    BY <1>14 DEF RerunLanded, Busy, task, put
  <2> QED BY <1>1, <1>2, <1>12, <2>1, FailureKeepsReports
<1>15. CASE \E p \in Partitions : ApplyHeld(p) \/ KeepHeld(p) \/ ExpireHeld(p)
  BY <1>1, <1>15, TryReports
<1>16. CASE PutReturns
  BY <1>1, <1>16, PutReturnsReports
<1>17. CASE Tick
  <2>1. /\ UNCHANGED <<refusedAhead, rewind, current, batch, rows, todo, putRefused, untried, pc>>
        /\ UNCHANGED <<reports, transients, restarts>> /\ pc # "resolve"
    BY <1>17 DEF Tick, connect, put, seen
  <2>2. (\A p \in Partitions : HoldStands(p)) /\ EndsStay
    BY <1>1, <1>17, HoldsStand, HoldsEnd
  <2>3. Left' = Left /\ \A p \in Partitions : Rewound(current)'[p] = Rewound(current)[p]
    BY <2>1 DEF Left, Rewound
  <2> QED BY <1>1, <2>1, <2>2, <2>3, QuietStepKeepsReports
<1>18. CASE Commit
  BY <1>1, <1>18, CommitReports
<1>19. CASE \E S \in SUBSET Partitions \ {{}} : Rebalance(S)
  <2>1. PICK S \in SUBSET Partitions : Rebalance(S)
    BY <1>19
  <2>2. /\ reports' = reports /\ transients' = transients /\ restarts' = restarts + 1
        /\ pc = "idle" /\ pc' = "idle"
    BY <2>1 DEF Rebalance, put
  <2>3. ASSUME NEW p \in Partitions, Waits(p)'
        PROVE  Waits(p) /\ hold'[p].offset = hold[p].offset /\ refusedAhead'[p] \subseteq refusedAhead[p]
    <3>1. hold'[p] = IF p \in S THEN NoHold ELSE hold[p]
      BY <2>1 DEF Rebalance
    <3>2. p \notin S /\ hold'[p] = hold[p]
      BY <2>3, <3>1 DEF Waits
    <3>3. refusedAhead'[p] \subseteq refusedAhead[p]
      BY <2>1, <3>2 DEF Rebalance
    <3> QED BY <2>3, <3>2, <3>3 DEF Waits
  <2> QED BY <1>1, <2>2, <2>3, FailureKeepsReports
<1>20. CASE Restart
  <2>1. /\ reports' = reports /\ transients' = transients /\ restarts' = restarts + 1 /\ pc' = "idle"
        /\ hold' = [p \in Partitions |-> NoHold]
    BY <1>20 DEF Restart
  <2>2. \A p \in Partitions : ~Waits(p)'
    BY <2>1 DEF Waits
  <2> QED BY <1>1, <2>1, <2>2, FailureKeepsReports
<1>21. CASE UNCHANGED vars
  <2>1. /\ UNCHANGED <<hold, refusedAhead, rewind, current, batch, rows, todo, putRefused, untried, pc>>
        /\ UNCHANGED <<reports, transients, restarts>>
    BY <1>21 DEF vars, connect, task, put, seen
  <2>2. Left' = Left /\ \A p \in Partitions : Rewound(current)'[p] = Rewound(current)[p]
    BY <2>1 DEF Left, Rewound
  <2>3. pc' = "resolve" => \A p \in untried' : Waits(p)'
    BY <2>1 DEF ReportsInv, Waits
  <2> QED BY <1>1, <1>2, <2>1, <2>2, <2>3, QuietStepKeepsReports
<1> QED BY <1>5, <1>6, <1>7, <1>8, <1>9, <1>10, <1>11, <1>13, <1>14, <1>15, <1>16, <1>17, <1>18, <1>19,
           <1>20, <1>21 DEF Next, Apply, Resolve

\* Nothing is reported twice without a failure between, and what a redelivery skips stays
\* skipped.
THEOREM ReportsInvariant == Spec => []ReportsInv
<1>1. Init => ReportsInv
  <2> SUFFICES ASSUME Init PROVE ReportsInv
    OBVIOUS
  <2>1. /\ reports = [r \in Records |-> 0] /\ transients = 0 /\ restarts = 0 /\ pc = "idle"
        /\ batch = <<>> /\ hold = [p \in Partitions |-> NoHold]
    BY DEF Init
  <2>2. \A r \in Records : reports[r] <= 1 + transients + restarts /\ ~Spent(r)
    BY <2>1 DEF Spent
  <2>3. \A p \in Partitions : ~Waits(p)
    BY <2>1 DEF Waits
  <2> HIDE DEF Spent
  <2> QED BY <2>1, <2>2, <2>3 DEF ReportsInv
<1>2. Typed /\ Typed' /\ SettledInv /\ ReportsInv /\ [Next]_vars => ReportsInv'
  BY StepReports
<1> QED BY <1>1, <1>2, SettledInvariant, PTL DEF Spec

\* A change reaches the dead-letter queue once per time a failure had it delivered again.
THEOREM ReportedOncePerDeliveryHolds == Spec => []ReportedOncePerDelivery
<1>1. ReportsInv => ReportedOncePerDelivery
  BY DEF ReportsInv, ReportedOncePerDelivery
<1> QED BY <1>1, ReportsInvariant, PTL
==============================================================================
