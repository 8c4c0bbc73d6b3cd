------------------------ MODULE DeadLetterLogProofs ------------------------
(***************************************************************************)
(* Proofs about DeadLetterLog, for any dead letters and tables, any polls  *)
(* and checks that read the log together and any number of reads, failures *)
(* and restarts: no line falls behind the position unread but the ones set *)
(* apart, the ledger counts each line once, and the reading implements     *)
(* what the cut-over gate relies on.                                       *)
(***************************************************************************)
EXTENDS DeadLetterLog, FiniteSetTheorems, TLAPS

-----------------------------------------------------------------------------
(* Numbers: the grid of the moments, and the latest of a set of times.     *)

\* A non-empty set of naturals has a least element.
LEMMA LeastNatural ==
  ASSUME NEW T, T \subseteq Nat, T # {}
  PROVE  \E x \in T : \A y \in T : x <= y
<1> DEFINE R == OpToRel(<, Nat)
<1>1. IsWellFoundedOn(R, Nat)
  BY NatLessThanWellFounded
<1>2. PICK x \in T : \A y \in T : ~(<<y, x>> \in R)
  <2> HIDE DEF R
  <2> QED BY <1>1, WFMin
<1>3. \A y \in T : ~(y < x)
  BY <1>2 DEF OpToRel
<1> QED BY <1>3

\* A finite set of naturals is bounded: by as many steps as it has elements.
LEMMA FiniteIsBounded ==
  ASSUME NEW S, S \subseteq Nat, IsFiniteSet(S)
  PROVE  \E b \in Nat : \A x \in S : x <= b
<1>1. PICK n \in Nat : ExistsSurjection(1..n, S)
  BY FS_NatSurjection
<1>2. PICK f \in [1..n -> S] : \A x \in S : \E i \in 1..n : f[i] = x
  BY <1>1 DEF ExistsSurjection, Surjection
<1> DEFINE bad == {m \in 0..n : \A b \in Nat : \E i \in 1..m : f[i] > b}
<1>3. ASSUME NEW i \in 1..n PROVE f[i] \in Nat
  BY <1>2
<1>4. bad = {}
  <2> SUFFICES ASSUME bad # {} PROVE FALSE
    OBVIOUS
  <2>1. bad \subseteq Nat
    OBVIOUS
  <2>2. PICK m \in bad : \A k \in bad : m <= k
    <3> HIDE DEF bad
    <3> QED BY <2>1, LeastNatural
  <2>3. m \in 0..n /\ \A b \in Nat : \E i \in 1..m : f[i] > b
    BY <2>2
  <2>4. m # 0
    BY <2>3
  <2>5. m - 1 \notin bad
    <3> HIDE DEF bad
    <3> QED BY <2>1, <2>2
  <2>6. m - 1 \in 0..n
    BY <2>3, <2>4
  <2>7. PICK b \in Nat : \A i \in 1..(m - 1) : ~(f[i] > b)
    BY <2>5, <2>6
  <2> HIDE DEF bad
  <2>8. m \in 1..n
    BY <2>3, <2>4
  <2>13. f[m] \in Nat
    BY <2>8, <1>3
  <2>14. b + f[m] \in Nat
    BY <2>13
  <2>9. PICK i \in 1..m : f[i] > b + f[m]
    BY <2>3, <2>14
  <2>10. i \in 1..n
    BY <2>3, <2>9
  <2>15. f[i] \in Nat
    BY <2>10, <1>3
  <2>11. CASE i = m
    BY <2>11, <2>9, <2>13
  <2>12. CASE i # m
    <3>1. ~(f[i] > b)
      BY <2>12, <2>7, <2>3, <2>9
    <3> QED BY <3>1, <2>13, <2>9, <2>15
  <2> QED BY <2>11, <2>12
<1>5. n \notin bad
  BY <1>4
<1>6. PICK b \in Nat : \A i \in 1..n : ~(f[i] > b)
  BY <1>5
<1> QED BY <1>2, <1>3, <1>6

\* Latest is at least each time of a finite set, and one of them.
LEMMA LatestFacts ==
  ASSUME NEW S, S \subseteq Time, IsFiniteSet(S)
  PROVE  /\ Latest(S) \in Time
         /\ \A t \in S \ {None} : Latest(S) \in Nat /\ t <= Latest(S)
         /\ Latest(S) # None => Latest(S) \in S
<1> USE SinkLogAssumption
<1>1. CASE S \subseteq {None}
  BY <1>1 DEF Latest, Time
<1>2. CASE ~(S \subseteq {None})
  <2> DEFINE T == S \ {None}
  <2>1. T \subseteq Nat /\ T # {}
    BY <1>2 DEF Time
  <2>2. IsFiniteSet(T)
    BY FS_Subset
  <2> HIDE SinkLogAssumption
  <2>3. PICK b \in Nat : \A x \in T : x <= b
    <3> HIDE DEF T
    <3> QED BY <2>1, <2>2, FiniteIsBounded
  <2> DEFINE U == {b - x : x \in T}
  <2>4. U \subseteq Nat /\ U # {}
    <3>1. \A x \in T : b - x \in Nat
      BY <2>1, <2>3
    <3> QED BY <3>1, <2>1
  <2>5. PICK u \in U : \A y \in U : u <= y
    <3> HIDE DEF U
    <3> QED BY <2>4, LeastNatural
  <2>6. PICK x \in T : u = b - x
    BY <2>5
  <2>7. \A y \in T : x >= y
    <3> SUFFICES ASSUME NEW y \in T PROVE x >= y
      OBVIOUS
    <3>1. b - x <= b - y
      BY <2>5, <2>6
    <3> QED BY <3>1, <2>1
  <2>8. Max(T) \in T /\ \A y \in T : Max(T) >= y
    <3> HIDE DEF T
    <3> QED BY <2>6, <2>7 DEF Max
  <2>9. Latest(S) = Max(T)
    BY <1>2 DEF Latest
  <2> HIDE DEF T
  <2>10. Latest(S) \in Nat /\ Latest(S) \in T /\ \A y \in T : y <= Latest(S)
    BY <2>1, <2>8, <2>9
  <2> QED BY <2>10 DEF T, Time
<1> QED BY <1>1, <1>2

\* The times of some dead letters are finitely many.
LEMMA TimesAreFinite ==
  ASSUME NEW S \in SUBSET Lines, NEW f
  PROVE  IsFiniteSet({f[l] : l \in S})
<1> DEFINE T == {f[l] : l \in S}
           g == [l \in S |-> f[l]]
<1>1. IsFiniteSet(S)
  BY FS_Subset, SinkLogAssumption
<1>2. g \in Surjection(S, T)
  BY DEF Surjection
<1> QED BY <1>1, <1>2, FS_Surjection

-----------------------------------------------------------------------------
(* The ledger.                                                             *)

\* The lines of a table are finitely many.
LEMMA LinesAreFinite ==
  ASSUME NEW C \in SUBSET Lines, NEW tb
  PROVE  /\ LinesOf(tb, C) \in SUBSET Lines /\ IsFiniteSet(LinesOf(tb, C))
         /\ Cardinality(LinesOf(tb, C)) \in Nat
         /\ Cardinality(LinesOf(tb, C)) = 0 <=> LinesOf(tb, C) = {}
<1>1. LinesOf(tb, C) \in SUBSET Lines
  BY DEF LinesOf
<1>2. IsFiniteSet(LinesOf(tb, C))
  BY <1>1, FS_Subset, SinkLogAssumption
<1> QED BY <1>1, <1>2, FS_CardinalityType, FS_EmptySet

\* Folding lines in counts each of them, and the time is the latest of the old and the new.
LEMMA FoldedEntry ==
  ASSUME NEW e \in [Tables -> Entries], NEW S \in SUBSET Lines, \A l \in S : at[l] \in Nat,
         NEW tb \in Tables
  PROVE  \E c \in Nat, t \in Time :
           /\ c = Cardinality(LinesOf(tb, S))
           /\ Folded(e, S)[tb] = [count |-> e[tb].count + c, last |-> t]
           /\ e[tb].last # None => t # None /\ e[tb].last <= t
           /\ \A l \in LinesOf(tb, S) : t # None /\ at[l] <= t
<1> DEFINE new == LinesOf(tb, S)
           old == {e[tb].last}
           ats == {at[l] : l \in new}
           times == old \cup ats
<1>1. Folded(e, S)[tb] = [count |-> e[tb].count + Cardinality(new), last |-> Latest(times)]
  BY DEF Folded
<1>2. times \subseteq Time
  <2>1. e[tb].last \in Time
    BY DEF Entries
  <2>2. \A l \in new : at[l] \in Time
    BY DEF LinesOf, Time
  <2> QED BY <2>1, <2>2
<1>3. IsFiniteSet(times)
  <2>1. IsFiniteSet(ats)
    BY LinesAreFinite, TimesAreFinite
  <2>2. IsFiniteSet(old)
    BY FS_Singleton
  <2> HIDE DEF old, ats
  <2> QED BY <2>1, <2>2, FS_Union
<1>4. /\ Latest(times) \in Time
      /\ \A t \in times \ {None} : Latest(times) \in Nat /\ t <= Latest(times)
  <2> HIDE DEF times
  <2> QED BY <1>2, <1>3, LatestFacts
<1>5. Cardinality(new) \in Nat
  BY LinesAreFinite
<1>6. e[tb].last # None => Latest(times) # None /\ e[tb].last <= Latest(times)
  <2>1. e[tb].last \in times
    OBVIOUS
  <2> HIDE DEF times
  <2> QED BY <2>1, <1>4, SinkLogAssumption
<1>7. \A l \in new : Latest(times) # None /\ at[l] <= Latest(times)
  <2> SUFFICES ASSUME NEW l \in new PROVE Latest(times) # None /\ at[l] <= Latest(times)
    OBVIOUS
  <2>1. at[l] \in times
    OBVIOUS
  <2>2. at[l] \in Nat
    BY DEF LinesOf
  <2> HIDE DEF times
  <2> QED BY <2>1, <2>2, <1>4, SinkLogAssumption
<1> HIDE DEF times
<1> QED BY <1>1, <1>4, <1>5, <1>6, <1>7

\* The lines of two sets are no more than those of each together.
LEMMA LinesOfBoth ==
  ASSUME NEW C \in SUBSET Lines, NEW S \in SUBSET Lines, NEW tb
  PROVE  Cardinality(LinesOf(tb, C \cup S)) <= Cardinality(LinesOf(tb, C)) + Cardinality(LinesOf(tb, S))
<1> DEFINE A == LinesOf(tb, C)  B == LinesOf(tb, S)
<1>1. LinesOf(tb, C \cup S) = A \cup B
  BY DEF LinesOf
<1>2. IsFiniteSet(A) /\ IsFiniteSet(B) /\ Cardinality(A) \in Nat /\ Cardinality(B) \in Nat
  BY LinesAreFinite
<1> HIDE DEF A, B
<1>3. IsFiniteSet(A \cap B)
  BY <1>2, FS_Intersection
<1>4. Cardinality(A \cap B) \in Nat
  BY <1>3, FS_CardinalityType
<1>5. Cardinality(A \cup B) = Cardinality(A) + Cardinality(B) - Cardinality(A \cap B)
  BY <1>2, FS_Union
<1>6. Cardinality(A \cup B) <= Cardinality(A) + Cardinality(B)
  BY <1>2, <1>4, <1>5
<1> QED BY <1>1, <1>6 DEF A, B
-----------------------------------------------------------------------------
(* The grid.                                                               *)

\* A multiple of Unit is no less than its factor.
LEMMA Multiples == \A n \in Nat : Unit * n \in Nat /\ n <= Unit * n
<1> SUFFICES ASSUME NEW n \in Nat PROVE Unit * n \in Nat /\ n <= Unit * n
  OBVIOUS
<1>1. Unit \in Nat /\ Unit > 0
  BY SinkLogAssumption
<1>2. PICK u \in Nat : Unit = u + 1
  <2>1. Unit - 1 \in Nat /\ Unit = (Unit - 1) + 1
    BY <1>1
  <2> QED BY <2>1
<1>3. u * n \in Nat
  OBVIOUS
<1>4. Unit * n = u * n + n
  BY <1>2
<1> QED BY <1>3, <1>4

\* A time is on the grid if it is a multiple of Unit.
LEMMA GridIsMultiples == \A t \in Nat : OnGrid(t) <=> \E k \in Nat : t = Unit * k
<1> SUFFICES ASSUME NEW t \in Nat, NEW k \in Nat, t = Unit * k PROVE k \in 0..t
  BY DEF OnGrid
<1> QED BY Multiples

\* Sums and differences stay on the grid, and what follows on it follows a Unit later.
LEMMA GridFacts ==
  ASSUME NEW a \in Nat, NEW b \in Nat, OnGrid(a), OnGrid(b)
  PROVE  OnGrid(a + b) /\ (b <= a => OnGrid(a - b)) /\ (a < b => a + Unit <= b)
<1> DEFINE U == Unit
<1>1. PICK i \in Nat : a = Unit * i
  BY GridIsMultiples
<1>2. PICK j \in Nat : b = Unit * j
  BY GridIsMultiples
<1>3. Unit \in Nat /\ Unit > 0
  BY SinkLogAssumption
<1>4. OnGrid(a + b)
  <2>1. a + b = Unit * (i + j)
    BY <1>1, <1>2, <1>3
  <2> QED BY <2>1, GridIsMultiples
<1>5. ASSUME b <= a PROVE OnGrid(a - b)
  <2>1. CASE j <= i
    <3>1. a - b = Unit * (i - j)
      BY <1>1, <1>2, <1>3
    <3>2. i - j \in Nat /\ a - b \in Nat
      BY <2>1, <1>5
    <3> QED BY <3>1, <3>2, GridIsMultiples
  <2>2. CASE ~(j <= i)
    <3>1. j - i \in Nat
      BY <2>2
    <3>2. b = a + Unit * (j - i)
      BY <1>1, <1>2, <1>3
    <3>3. a - b = 0
      BY <3>1, <3>2, <1>5, Multiples
    <3>4. 0 = Unit * 0
      BY <1>3
    <3> QED BY <3>3, <3>4, GridIsMultiples
  <2> QED BY <2>1, <2>2
<1>6. ASSUME a < b PROVE a + Unit <= b
  <2>1. CASE i < j
    <3>1. j - i - 1 \in Nat
      BY <2>1
    <3>2. b = a + Unit + Unit * (j - i - 1)
      <4>1. j = i + 1 + (j - i - 1)
        OBVIOUS
      <4>2. Unit * j = Unit * i + Unit + Unit * (j - i - 1)
        BY <1>3
      <4> QED BY <4>2, <1>1, <1>2
    <3>3. Unit * (j - i - 1) \in Nat
      BY <3>1, Multiples
    <3> QED BY <3>2, <3>3, <1>3
  <2>2. CASE ~(i < j)
    <3>1. i - j \in Nat
      BY <2>2
    <3>2. a = b + Unit * (i - j)
      BY <1>1, <1>2, <1>3
    <3>3. Unit * (i - j) \in Nat
      BY <3>1, Multiples
    <3> QED BY <3>2, <3>3, <1>6
  <2> QED BY <2>1, <2>2
<1> QED BY <1>4, <1>5, <1>6

\* A moment is a time on the grid, between the bounds.
LEMMA MomentFacts ==
  ASSUME NEW t \in Moments
  PROVE  t \in Nat /\ First <= t /\ t <= Last /\ OnGrid(t)
<1>1. First \in Nat /\ Last \in Nat /\ t \in First..Last
  BY SinkLogAssumption DEF Moments
<1>2. t \in Nat /\ First <= t /\ t <= Last
  BY <1>1
<1>3. PICK k \in 0..t : t = First + Unit * k
  BY DEF Moments
<1>4. k \in Nat /\ Unit * k \in Nat
  BY <1>3, <1>2, Multiples
<1>5. OnGrid(First)
  BY LogAssumption DEF OnGrid
<1>6. OnGrid(Unit * k)
  BY <1>4, GridIsMultiples
<1>7. OnGrid(First + Unit * k)
  BY <1>1, <1>4, <1>5, <1>6, GridFacts
<1> QED BY <1>2, <1>3, <1>7

\* The clock can stand at First.
LEMMA FirstIsMoment == First \in Moments
<1>1. First \in Nat /\ Last \in Nat /\ First <= Last /\ Unit \in Nat
  BY SinkLogAssumption
<1>2. First = First + Unit * 0 /\ 0 \in 0..First /\ First \in First..Last
  BY <1>1
<1> QED BY <1>2 DEF Moments

\* The next moment.
LEMMA NextMoment ==
  ASSUME NEW t \in Moments, t + Unit <= Last
  PROVE  t + Unit \in Moments
<1>1. First \in Nat /\ Last \in Nat /\ Unit \in Nat /\ t \in Nat /\ First <= t
  BY SinkLogAssumption, MomentFacts
<1>2. PICK k \in 0..t : t = First + Unit * k
  BY DEF Moments
<1>3. k \in Nat
  BY <1>2, <1>1
<1>4. t + Unit = First + Unit * (k + 1)
  BY <1>1, <1>2, <1>3
<1>5. k + 1 <= Unit * (k + 1)
  BY <1>3, Multiples
<1>7. Unit * (k + 1) \in Nat
  BY <1>3, Multiples
<1>6. k + 1 \in 0..(t + Unit)
  BY <1>1, <1>3, <1>4, <1>5, <1>7
<1>8. t + Unit \in First..Last
  BY <1>1
<1> QED BY <1>4, <1>6, <1>8 DEF Moments

-----------------------------------------------------------------------------
(* The largest of a few numbers.                                           *)

\* The larger of two.
LEMMA MaxOfTwo ==
  ASSUME NEW a \in Int, NEW b \in Int
  PROVE  Max({a, b}) = IF a <= b THEN b ELSE a
<1>1. CASE a <= b
  <2>1. \A x \in {a, b} : (\A y \in {a, b} : x >= y) => x = b
    BY <1>1
  <2>2. \A y \in {a, b} : b >= y
    BY <1>1
  <2> QED BY <1>1, <2>1, <2>2 DEF Max
<1>2. CASE ~(a <= b)
  <2>1. \A x \in {a, b} : (\A y \in {a, b} : x >= y) => x = a
    BY <1>2
  <2>2. \A y \in {a, b} : a >= y
    BY <1>2
  <2> QED BY <1>2, <2>1, <2>2 DEF Max
<1> QED BY <1>1, <1>2

\* The smaller of two.
LEMMA MinOfTwo ==
  ASSUME NEW a \in Int, NEW b \in Int
  PROVE  Min({a, b}) = IF a <= b THEN a ELSE b
<1>1. CASE a <= b
  <2>1. \A x \in {a, b} : (\A y \in {a, b} : x <= y) => x = a
    BY <1>1
  <2>2. \A y \in {a, b} : a <= y
    BY <1>1
  <2> QED BY <1>1, <2>1, <2>2 DEF Min
<1>2. CASE ~(a <= b)
  <2>1. \A x \in {a, b} : (\A y \in {a, b} : x <= y) => x = b
    BY <1>2
  <2>2. \A y \in {a, b} : b <= y
    BY <1>2
  <2> QED BY <1>2, <2>1, <2>2 DEF Min
<1> QED BY <1>1, <1>2

\* A finite set of naturals has a largest element, and Max is that.
LEMMA MaxFacts ==
  ASSUME NEW T, T \subseteq Nat, T # {}, IsFiniteSet(T)
  PROVE  Max(T) \in T /\ \A y \in T : y <= Max(T)
<1>1. None \notin T /\ T \subseteq Time
  BY SinkLogAssumption DEF Time
<1>2. Latest(T) = Max(T)
  <2>1. T \ {None} = T
    BY <1>1
  <2> QED BY <2>1, <1>1 DEF Latest
<1>3. /\ \A t \in T \ {None} : Latest(T) \in Nat /\ t <= Latest(T)
      /\ Latest(T) # None => Latest(T) \in T
  BY <1>1, LatestFacts
<1>4. \A t \in T : Latest(T) \in Nat /\ t <= Latest(T)
  BY <1>1, <1>3
<1>5. Latest(T) # None
  BY <1>4, SinkLogAssumption
<1> QED BY <1>2, <1>3, <1>4, <1>5

\* What is in the set and no earlier than the rest is the latest.
LEMMA LatestIs ==
  ASSUME NEW S, S \subseteq Time, NEW t \in S, t # None, \A u \in S \ {None} : u <= t
  PROVE  Latest(S) = t
<1> DEFINE T == S \ {None}
<1>1. t \in T /\ T \subseteq Nat
  BY DEF Time
<1>2. Latest(S) = Max(T)
  BY DEF Latest
<1> HIDE DEF T
<1>3. \A x \in T : (\A y \in T : x >= y) => x = t
  <2> SUFFICES ASSUME NEW x \in T, \A y \in T : x >= y PROVE x = t
    OBVIOUS
  <2>1. x >= t
    BY <1>1
  <2>2. x <= t
    BY DEF T
  <2> QED BY <2>1, <2>2, <1>1
<1>4. \A y \in T : t >= y
  <2> SUFFICES ASSUME NEW y \in T PROVE t >= y
    OBVIOUS
  <2>1. y <= t
    BY DEF T
  <2> QED BY <2>1, <1>1
<1> QED BY <1>1, <1>2, <1>3, <1>4 DEF Max

\* Of no time, the latest is None.
LEMMA LatestOfNothing == \A S : S \subseteq {None} => Latest(S) = None
  BY DEF Latest

\* The latest of some times and the latest of others is the latest of all.
LEMMA LatestOfBoth ==
  ASSUME NEW A, NEW B, A \subseteq Time, B \subseteq Time, IsFiniteSet(A), IsFiniteSet(B)
  PROVE  Latest({Latest(A)} \cup B) = Latest(A \cup B)
<1> DEFINE C == A \cup B  a == Latest(A)  D == {a} \cup B
<1>1. C \subseteq Time /\ IsFiniteSet(C)
  BY FS_Union
<1>2. /\ a \in Time /\ \A t \in A \ {None} : a \in Nat /\ t <= a
      /\ a # None => a \in A
  BY LatestFacts
<1>3. /\ Latest(C) \in Time /\ \A t \in C \ {None} : Latest(C) \in Nat /\ t <= Latest(C)
      /\ Latest(C) # None => Latest(C) \in C
  <2> HIDE DEF C
  <2> QED BY <1>1, LatestFacts
<1>4. None \notin Nat
  BY SinkLogAssumption
<1>5. CASE Latest(C) = None
  <2>1. C \subseteq {None}
    BY <1>3, <1>4, <1>5
  <2>2. a = None
    BY <2>1, <1>2
  <2>3. D \subseteq {None}
    BY <2>1, <2>2
  <2> HIDE DEF D
  <2> QED BY <2>3, <1>5, LatestOfNothing DEF D, C
<1>6. CASE Latest(C) # None
  <2> DEFINE m == Latest(C)
  <2>1. m \in C /\ m \in Nat
    BY <1>3, <1>6 DEF Time
  <2>2. m \in D
    <3>1. CASE m \in B
      BY <3>1
    <3>2. CASE m \in A
      <4>1. a \in Nat /\ m <= a
        BY <3>2, <1>2, <1>6
      <4>2. a \in C \ {None}
        BY <4>1, <1>2, <1>4
      <4>3. a <= m
        BY <4>2, <1>3
      <4>4. a = m
        BY <4>1, <4>3, <2>1
      <4> QED BY <4>4
    <3> QED BY <3>1, <3>2, <2>1
  <2>3. D \subseteq Time
    BY <1>2
  <2>4. \A u \in D \ {None} : u <= m
    BY <1>2, <1>3
  <2> HIDE DEF D, m
  <2>5. Latest(D) = m
    BY <2>2, <2>3, <2>4, <1>6, LatestIs DEF m
  <2> QED BY <2>5 DEF D, m, C
<1> QED BY <1>5, <1>6

-----------------------------------------------------------------------------
(* The look-back, and what the lines are before and after a step.          *)

\* The settings are times.
LEMMA SettingsAreNaturals ==
  /\ Unit \in Nat /\ Unit > 0 /\ Skew \in Nat /\ Grace \in Nat /\ First \in Nat /\ Last \in Nat
  /\ Lookback \in Nat /\ Furthest \in Nat /\ Slack \in Nat /\ ResumeAge \in Nat /\ MaxReads \in Nat
  /\ Lookback <= Furthest /\ Furthest < First /\ MaxReads < Unit /\ Skew <= First /\ None \notin Nat
  BY SinkLogAssumption, LogAssumption

\* How far a read without a position looks back.
LEMMA WindowIs ==
  ASSUME NEW n \in Nat, NEW s \in Nat
  PROVE  Max({Lookback, Min({n - s + Slack, Furthest})})
           = IF n - s + Slack <= Lookback THEN Lookback
             ELSE IF n - s + Slack <= Furthest THEN n - s + Slack ELSE Furthest
<1> DEFINE w == n - s + Slack
<1>1. w \in Int /\ Lookback \in Nat /\ Furthest \in Nat /\ Lookback <= Furthest
  BY SettingsAreNaturals
<1> HIDE DEF w
<1>2. Min({w, Furthest}) = IF w <= Furthest THEN w ELSE Furthest
  BY <1>1, MinOfTwo
<1>3. Min({w, Furthest}) \in Int
  BY <1>1, <1>2
<1>4. Max({Lookback, Min({w, Furthest})})
        = IF Lookback <= Min({w, Furthest}) THEN Min({w, Furthest}) ELSE Lookback
  <2> DEFINE m == Min({w, Furthest})
  <2> HIDE DEF m
  <2>1. m \in Int
    BY <1>3 DEF m
  <2>2. Max({Lookback, m}) = IF Lookback <= m THEN m ELSE Lookback
    BY <2>1, <1>1, MaxOfTwo
  <2> QED BY <2>2 DEF m
<1>5. CASE w <= Lookback
  BY <1>1, <1>2, <1>4, <1>5 DEF w
<1>6. CASE ~(w <= Lookback) /\ w <= Furthest
  BY <1>1, <1>2, <1>4, <1>6 DEF w
<1>7. CASE ~(w <= Lookback) /\ ~(w <= Furthest)
  BY <1>1, <1>2, <1>4, <1>7 DEF w
<1> QED BY <1>5, <1>6, <1>7

\* A read reaches back to a time, and the next one no further, however late it is.
LEMMA WindowFacts ==
  ASSUME TypeOK
  PROVE  Window \in Nat /\ now \in Nat /\ now - Window \in Nat
<1>1. now \in Nat /\ First <= now
  BY MomentFacts DEF TypeOK
<1>2. cdcStart = None \/ cdcStart \in Nat
  BY SinkLogAssumption DEF TypeOK
<1>3. Window \in Nat /\ Window <= Furthest
  <2>1. CASE cdcStart = None
    BY <2>1, SettingsAreNaturals DEF Window
  <2>2. CASE cdcStart # None
    <3> DEFINE w == now - cdcStart + Slack
    <3>1. cdcStart \in Nat
      BY <1>2, <2>2
    <3>2. w \in Int
      BY <1>1, <3>1, SettingsAreNaturals
    <3>3. Window = IF w <= Lookback THEN Lookback ELSE IF w <= Furthest THEN w ELSE Furthest
      BY <1>1, <2>2, <3>1, WindowIs DEF Window
    <3> HIDE DEF w
    <3> QED BY <3>2, <3>3, SettingsAreNaturals
  <2> QED BY <2>1, <2>2
<1> QED BY <1>1, <1>3, SettingsAreNaturals

\* A length clamped between Lookback and Furthest grows no faster than the length.
LEMMA ClampSlides ==
  ASSUME NEW w \in Int, NEW d \in Nat, NEW x, NEW y,
         x = (IF w <= Lookback THEN Lookback ELSE IF w <= Furthest THEN w ELSE Furthest),
         y = (IF w + d <= Lookback THEN Lookback ELSE IF w + d <= Furthest THEN w + d ELSE Furthest)
  PROVE  x \in Int /\ y \in Int /\ y <= x + d
<1>1. Lookback \in Nat /\ Furthest \in Nat /\ Lookback <= Furthest
  BY SettingsAreNaturals
<1>2. CASE w <= Lookback
  BY <1>1, <1>2
<1>3. CASE ~(w <= Lookback) /\ w <= Furthest
  BY <1>1, <1>3
<1>4. CASE ~(w <= Lookback) /\ ~(w <= Furthest)
  BY <1>1, <1>4
<1> QED BY <1>2, <1>3, <1>4

\* The window of a look-back does not move back as the clock goes on.
LEMMA WindowSlides ==
  ASSUME TypeOK, TypeOK', now <= now', cdcStart' = cdcStart
  PROVE  now - Window <= now' - Window'
<1>1. now \in Nat /\ now' \in Nat
  BY MomentFacts DEF TypeOK
<1>2. cdcStart = None \/ cdcStart \in Nat
  BY SinkLogAssumption DEF TypeOK
<1>5. PICK n \in Nat, m \in Nat : n = now /\ m = now'
  BY <1>1
<1>6. n <= m
  BY <1>5
<1>3. CASE cdcStart = None
  <2>1. Window = Lookback /\ Window' = Lookback
    BY <1>3 DEF Window
  <2>2. Lookback \in Nat
    BY SettingsAreNaturals
  <2>3. n - Lookback <= m - Lookback
    BY <1>6, <2>2
  <2> QED BY <2>1, <2>3, <1>5
<1>4. CASE cdcStart # None
  <2>1. PICK s \in Nat : cdcStart = s
    BY <1>2, <1>4
  <2> DEFINE w == n - s + Slack
             d == m - n
             v == m - s + Slack
  <2>2. w \in Int /\ d \in Nat /\ v = w + d
    BY <1>6, SettingsAreNaturals
  <2>3. Window = IF w <= Lookback THEN Lookback ELSE IF w <= Furthest THEN w ELSE Furthest
    BY <1>4, <1>5, <2>1, WindowIs DEF Window
  <2>4. Window' = IF v <= Lookback THEN Lookback ELSE IF v <= Furthest THEN v ELSE Furthest
    BY <1>4, <1>5, <2>1, WindowIs DEF Window
  <2>5. PICK x, y : x = Window /\ y = Window'
    OBVIOUS
  <2> HIDE DEF w, v
  <2>6. x \in Int /\ y \in Int /\ y <= x + d
    <3> HIDE DEF d
    <3>1. x = IF w <= Lookback THEN Lookback ELSE IF w <= Furthest THEN w ELSE Furthest
      BY <2>3, <2>5
    <3>2. y = IF w + d <= Lookback THEN Lookback ELSE IF w + d <= Furthest THEN w + d ELSE Furthest
      BY <2>2, <2>4, <2>5
    <3> QED BY <2>2, <3>1, <3>2, ClampSlides
  <2>7. n - x <= m - y
    BY <2>6
  <2> QED BY <2>7, <2>5, <1>5
<1> QED BY <1>3, <1>4

\* The lines that are taken were shown, and a shown line has its time.
LEMMA TakenFacts ==
  ASSUME TypeOK, ClockInv, SeenInv
  PROVE  /\ Shown \subseteq Lines /\ Taken \subseteq Shown /\ SavedTaken \subseteq Shown
         /\ \A l \in Shown : at[l] \in Nat /\ shown[l] \in Nat /\ OnGrid(at[l])
         /\ overtaken \subseteq Lines /\ counted \cup InAir \cup dropped = Taken
<1>1. Shown \subseteq Lines /\ Taken \subseteq Shown /\ SavedTaken \subseteq Shown
  BY DEF Shown, SeenInv, SavedTaken, Taken
<1>2. ASSUME NEW l \in Shown PROVE at[l] \in Nat /\ shown[l] \in Nat /\ OnGrid(at[l])
  BY SettingsAreNaturals DEF TypeOK, ClockInv, Shown, Time
<1> QED BY <1>1, <1>2 DEF TypeOK, Taken

-----------------------------------------------------------------------------
(* What every step but a restart has in common.                            *)

\* Time goes on, a shown line stays as it is, what is taken stays taken.  A line shown newly is
\* overtaken if the reading is past it, and carries a time less than the grace ago.
Onward ==
  /\ now <= now' /\ reads <= reads' /\ lookedBack <= lookedBack' /\ cdcStart' = cdcStart
  /\ Shown \subseteq Shown' /\ Taken \subseteq Taken' /\ overtaken \subseteq overtaken'
  /\ \A l \in Shown : at'[l] = at[l] /\ shown'[l] = shown[l]
  /\ \A l \in Shown' \ Shown :
       /\ at'[l] = at[l] /\ at[l] # None /\ shown'[l] = now /\ now < at[l] + Grace
       /\ Past(at[l]) => l \in overtaken'

\* A position bounds what it has passed: a line shown newly below it, the reading was past.
LEMMA PastPositions ==
  ASSUME TypeOK, ClockInv, SeenInv, NEW c \in Nat, NEW T \in SUBSET Shown, Bounded(c, T),
         \A k \in T : at[k] < c => k \in Taken,
         NEW l \in Lines, at[l] # None, now < at[l] + Grace, at[l] < c
  PROVE  Past(at[l])
<1>1. at[l] \in Nat /\ OnGrid(at[l])
  BY DEF TypeOK, ClockInv, Time
<1>2. now \in Nat /\ OnGrid(now) /\ reads \in Nat /\ reads < Unit /\ OnGrid(Grace) /\ Grace \in Nat /\ Unit \in Nat
  <2>1. now \in Nat /\ OnGrid(now)
    BY MomentFacts DEF TypeOK
  <2>2. reads \in Nat /\ reads < Unit
    BY SettingsAreNaturals DEF TypeOK
  <2>3. OnGrid(Grace)
    BY LogAssumption DEF OnGrid
  <2> QED BY <2>1, <2>2, <2>3, SettingsAreNaturals
<1>3. c # 0
  BY <1>1
<1>4. ~(c + Grace <= now + reads)
  <2>1. PICK a \in Nat : a = at[l] /\ OnGrid(a)
    BY <1>1
  <2>2. PICK g \in Nat : g = Grace /\ OnGrid(g)
    BY <1>2
  <2>7. a + g \in Nat
    OBVIOUS
  <2>3. OnGrid(a + g)
    BY <2>1, <2>2, GridFacts
  <2>4. now < a + g
    BY <2>1, <2>2
  <2>5. now + Unit <= a + g
    BY <2>3, <2>4, <2>7, <1>2, GridFacts
  <2>6. c > a
    BY <2>1
  <2> QED BY <2>2, <2>5, <2>6, <1>2
<1>5. PICK k \in T : at[k] < c /\ c <= at[k] + reads
  BY <1>3, <1>4 DEF Bounded
<1>6. at[k] \in Nat /\ OnGrid(at[k]) /\ k \in Taken
  BY <1>5, TakenFacts
<1>7. at[l] <= at[k]
  <2> SUFFICES ASSUME ~(at[l] <= at[k]) PROVE FALSE
    OBVIOUS
  <2>1. at[k] + Unit <= at[l]
    BY <1>1, <1>6, GridFacts
  <2> QED BY <2>1, <1>1, <1>2, <1>5, <1>6
<1> QED BY <1>6, <1>7 DEF Past

\* What a position is after the step, in the lines T.
BoundedNext(c, T) ==
  \/ c = 0 \/ c + Grace <= now' + reads'
  \/ \E k \in T : at'[k] < c /\ c <= at'[k] + reads'
SweptNext(c, T) ==
  \A l \in Lines : shown'[l] # None /\ lookedBack' <= at'[l] /\ at'[l] < c => l \in T \cup overtaken'
StandsNext(c, T) == c # None => BoundedNext(c, T) /\ SweptNext(c, T)

\* A position goes on standing through such a step.
LEMMA PositionsStand ==
  ASSUME TypeOK, TypeOK', ClockInv, SeenInv, Onward, NEW c \in Time, NEW T \in SUBSET Shown, NEW U,
         Stands(c, T), T \subseteq U, c # None => \A k \in T : at[k] < c => k \in Taken
  PROVE  StandsNext(c, U)
<1> SUFFICES ASSUME c # None PROVE BoundedNext(c, U) /\ SweptNext(c, U)
  BY DEF StandsNext
<1>1. c \in Nat /\ Bounded(c, T) /\ Swept(c, T)
  BY DEF Stands, Time
<1>2. now \in Nat /\ now' \in Nat /\ reads \in Nat /\ reads' \in Nat
  BY MomentFacts DEF TypeOK
<1>3. \A k \in T : at'[k] = at[k] /\ at[k] \in Nat
  BY TakenFacts DEF Onward
<1>4. BoundedNext(c, U)
  <2>1. CASE c = 0
    BY <2>1 DEF BoundedNext
  <2>2. CASE c + Grace <= now + reads
    <3>2. now <= now' /\ reads <= reads'
      BY DEF Onward
    <3>3. Grace \in Nat
      BY SettingsAreNaturals
    <3>4. PICK n \in Nat, m \in Nat, q \in Nat, r \in Nat :
            n = now /\ m = now' /\ q = reads /\ r = reads'
      BY <1>2
    <3>5. n <= m /\ q <= r /\ c + Grace <= n + q
      BY <3>2, <3>4, <2>2
    <3>6. c + Grace <= m + r
      BY <3>3, <3>5, <1>1
    <3>1. c + Grace <= now' + reads'
      BY <3>4, <3>6
    <3> QED BY <3>1 DEF BoundedNext
  <2>3. ASSUME NEW k \in T, at[k] < c, c <= at[k] + reads PROVE BoundedNext(c, U)
    <3>1. at'[k] < c /\ c <= at'[k] + reads' /\ k \in U
      BY <2>3, <1>1, <1>2, <1>3 DEF Onward
    <3> QED BY <3>1 DEF BoundedNext
  <2> QED BY <1>1, <2>1, <2>2, <2>3 DEF Bounded
<1>5. SweptNext(c, U)
  <2> SUFFICES ASSUME NEW l \in Lines, shown'[l] # None, lookedBack' <= at'[l], at'[l] < c
               PROVE  l \in U \cup overtaken'
    BY DEF SweptNext
  <2>1. l \in Shown'
    BY DEF Shown
  <2>2. CASE l \in Shown
    <3>1. at'[l] = at[l] /\ at[l] \in Nat /\ lookedBack \in Nat /\ lookedBack' \in Nat
      BY <2>2, TakenFacts DEF Onward, TypeOK
    <3>2. lookedBack <= at[l] /\ at[l] < c
      BY <3>1 DEF Onward
    <3>3. l \in T \cup overtaken
      BY <2>2, <3>2, <1>1 DEF Swept
    <3> QED BY <3>3 DEF Onward
  <2>3. CASE l \notin Shown
    <3>1. at'[l] = at[l] /\ at[l] # None /\ now < at[l] + Grace /\ (Past(at[l]) => l \in overtaken')
      BY <2>1, <2>3 DEF Onward
    <3>2. at[l] < c
      BY <3>1
    <3>3. Past(at[l])
      BY <3>1, <3>2, <1>1, PastPositions
    <3> QED BY <3>1, <3>3
  <2> QED BY <2>2, <2>3
<1> QED BY <1>4, <1>5

\* Taken lines stay known: what was shown before an earlier moment is counted or excused.
KnownNext(b) ==
  \A l \in Lines : shown'[l] # None /\ shown'[l] < b =>
    l \in Taken' \cup overtaken' \/ at'[l] < lookedBack'

\* What KnownBefore says, with Taken in place of its parts.
LEMMA KnownIs ==
  /\ \A b : KnownBefore(b)
              <=> \A l \in Lines : shown[l] # None /\ shown[l] < b =>
                    l \in Taken \cup overtaken \/ at[l] < lookedBack
  /\ KnownBefore(reader.began)' <=> KnownNext(reader'.began)
  BY DEF KnownBefore, KnownNext, Excused, Taken, Shown

\* What was known before a time of the past stays known: a line is shown later than that.
LEMMA KnowledgeStays ==
  ASSUME TypeOK, TypeOK', ClockInv, SeenInv, Onward, NEW b \in Nat, b <= now, KnownBefore(b)
  PROVE  KnownNext(b)
<1> SUFFICES ASSUME NEW l \in Lines, shown'[l] # None, shown'[l] < b
             PROVE  l \in Taken' \cup overtaken' \/ at'[l] < lookedBack'
  BY DEF KnownNext
<1>1. l \in Shown' /\ now \in Nat
  BY MomentFacts DEF Shown, TypeOK
<1>2. l \in Shown
  <2> SUFFICES ASSUME l \notin Shown PROVE FALSE
    OBVIOUS
  <2>1. shown'[l] = now
    BY <1>1 DEF Onward
  <2> QED BY <2>1, <1>1
<1>3. at'[l] = at[l] /\ shown'[l] = shown[l] /\ at[l] \in Nat /\ lookedBack \in Nat /\ lookedBack' \in Nat
  BY <1>2, TakenFacts DEF Onward, TypeOK
<1>4. l \in Taken \cup overtaken \/ at[l] < lookedBack
  BY <1>2, <1>3, KnownIs DEF Shown
<1> QED BY <1>3, <1>4 DEF Onward

\* The positions of before stand after such a step too.
LEMMA PositionsGoOn ==
  ASSUME TypeOK, TypeOK', ClockInv, SeenInv, PositionInv, Onward, UNCHANGED <<saved, dropped>>
  PROVE  /\ StandsNext(reader.cursor, Taken') /\ StandsNext(cursor, Taken')
         /\ \A f \in Flights : StandsNext(flight[f].cursor, Taken')
         /\ StandsNext(saved'.cursor, SavedTaken')
         /\ saved'.cursor # None => \A k \in SavedTaken' : at'[k] < saved'.cursor => k \in Taken'
<1>1. /\ reader.cursor \in Time /\ cursor \in Time /\ saved.cursor \in Time
      /\ \A f \in Flights : flight[f].cursor \in Time
  BY DEF TypeOK, Flight
<1>2. Taken \in SUBSET Shown /\ SavedTaken \in SUBSET Shown /\ SavedTaken' = SavedTaken /\ saved' = saved
  BY TakenFacts DEF SavedTaken
<1>3. Taken \subseteq Taken'
  BY DEF Onward
<1>4. ASSUME NEW c \in Time, Stands(c, Taken) PROVE StandsNext(c, Taken')
  BY <1>2, <1>3, <1>4, PositionsStand
<1>5. StandsNext(reader.cursor, Taken') /\ StandsNext(cursor, Taken')
  BY <1>1, <1>4 DEF PositionInv
<1>6. \A f \in Flights : StandsNext(flight[f].cursor, Taken')
  BY <1>1, <1>4 DEF PositionInv
<1>7. StandsNext(saved.cursor, SavedTaken)
  BY <1>1, <1>2, PositionsStand DEF PositionInv
<1>8. saved.cursor # None => \A k \in SavedTaken : at'[k] < saved.cursor => k \in Taken'
  BY <1>2, <1>3 DEF PositionInv, Onward
<1> QED BY <1>2, <1>5, <1>6, <1>7, <1>8

\* The invariant of the positions, from what each is after a step.
LEMMA PositionInvIs ==
  ASSUME StandsNext(reader'.cursor, Taken'), StandsNext(cursor', Taken'),
         \A f \in Flights : StandsNext(flight'[f].cursor, Taken'),
         StandsNext(saved'.cursor, SavedTaken'),
         saved'.cursor # None => \A k \in SavedTaken' : at'[k] < saved'.cursor => k \in Taken'
  PROVE  PositionInv'
<1>1. ASSUME NEW c, NEW T, StandsNext(c, T)
      PROVE  c # None => /\ \/ c = 0 \/ c + Grace <= now' + reads'
                            \/ \E k \in T : at'[k] < c /\ c <= at'[k] + reads'
                         /\ \A l \in Shown' : lookedBack' <= at'[l] /\ at'[l] < c => l \in T \cup overtaken'
  BY <1>1 DEF StandsNext, BoundedNext, SweptNext, Shown
<1>2. Stands(reader.cursor, Taken)'
  BY <1>1 DEF Stands, Bounded, Swept
<1>3. Stands(cursor, Taken)'
  BY <1>1 DEF Stands, Bounded, Swept
<1>4. ASSUME NEW f \in Flights PROVE Stands(flight[f].cursor, Taken)'
  BY <1>1 DEF Stands, Bounded, Swept
<1>5. Stands(saved.cursor, SavedTaken)'
  BY <1>1 DEF Stands, Bounded, Swept
<1> QED BY <1>2, <1>3, <1>4, <1>5 DEF PositionInv

-----------------------------------------------------------------------------
(* A read.                                                                 *)

\* Where the controller's position moves to.
LEMMA PositionFacts ==
  ASSUME TypeOK, ClockInv, SeenInv, NEW c \in Resume, NEW fresh \in SUBSET Shown, NEW capped \in BOOLEAN,
         NEW p, p = Position(c, fresh, capped)
  PROVE  /\ p \in Time /\ (p = None => reader.cursor = None)
         /\ \/ p = None /\ capped /\ reader.cursor = None
            \/ p = reader.cursor
            \/ p = 0 /\ ~capped
            \/ p + Grace = c.began /\ ~capped
            \/ reader.cursor # None /\ reader.cursor # 0 /\ p = reader.cursor + 1 /\ ~capped
            \/ \E k \in fresh : p = at[k] + 1
<1> DEFINE old == IF reader.cursor = None THEN 0 ELSE reader.cursor
           ats == {at[l] : l \in fresh}
           T == {old} \cup ats
           newest == Max(T)
<1>1. old \in Nat /\ c.began \in Nat /\ Grace \in Nat
  BY SettingsAreNaturals DEF TypeOK, Time, Resume
<1>2. T \subseteq Nat /\ T # {} /\ IsFiniteSet(T)
  <2>1. ats \subseteq Nat
    BY TakenFacts
  <2>2. fresh \in SUBSET Lines
    BY TakenFacts
  <2>3. IsFiniteSet(ats)
    BY <2>2, TimesAreFinite
  <2>4. IsFiniteSet({old})
    BY FS_Singleton
  <2> HIDE DEF old, ats
  <2> QED BY <1>1, <2>1, <2>3, <2>4, FS_Union
<1>3. newest \in T /\ \A y \in T : y <= newest
  <2> HIDE DEF T
  <2> QED BY <1>2, MaxFacts
<1>4. newest \in Nat /\ old <= newest
  BY <1>2, <1>3
<1>5. newest = old \/ \E k \in fresh : newest = at[k]
  BY <1>3
<1>6. p = IF ~capped THEN Max({IF newest = 0 THEN 0 ELSE newest + 1, c.began - Grace})
          ELSE IF newest > old THEN newest + 1 ELSE reader.cursor
  BY DEF Position
<1> HIDE DEF newest
<1>7. CASE ~capped
  <2> DEFINE a == IF newest = 0 THEN 0 ELSE newest + 1
             b == c.began - Grace
  <2>1. a \in Int /\ b \in Int /\ a \in Nat
    BY <1>1, <1>4
  <2>2. p = Max({a, b})
    BY <1>6, <1>7
  <2> HIDE DEF a, b
  <2>3. p = IF a <= b THEN b ELSE a
    BY <2>1, <2>2, MaxOfTwo
  <2>4. p \in Nat
    BY <2>1, <2>3
  <2>9. p # None
    BY <2>4, SettingsAreNaturals
  <2>5. CASE p = b
    BY <2>4, <2>5, <2>9, <1>1, <1>7 DEF b, Time
  <2>6. CASE p = a /\ newest = 0
    BY <2>6, <2>9, <1>7 DEF a, Time
  <2>7. CASE p = a /\ newest # 0 /\ newest = old
    <3>1. reader.cursor # None /\ reader.cursor = newest
      BY <2>7
    <3> QED BY <2>7, <2>9, <3>1, <2>4, <1>7 DEF a, Time
  <2>8. CASE p = a /\ newest # 0 /\ newest # old
    BY <2>8, <2>9, <2>4, <1>5, <1>7 DEF a, Time
  <2> QED BY <2>3, <2>5, <2>6, <2>7, <2>8
<1>8. CASE capped
  <2>1. CASE newest > old
    <3>1. newest # old
      BY <2>1, <1>1, <1>4
    <3>2. PICK k \in fresh : newest = at[k]
      BY <3>1, <1>5
    <3>3. p = newest + 1
      BY <2>1, <1>6, <1>8
    <3>4. p \in Nat /\ p # None
      BY <1>4, <3>3, SettingsAreNaturals
    <3> QED BY <3>2, <3>3, <3>4 DEF Time
  <2>2. CASE ~(newest > old)
    BY <2>2, <1>6, <1>8 DEF TypeOK
  <2> QED BY <2>1, <2>2
<1> QED BY <1>7, <1>8

\* What a chain stands for: below its start nothing is left that it could have met.
LEMMA ChainFacts ==
  ASSUME TypeOK, ClockInv, SeenInv, PositionInv, ResumeInv, NEW c \in Chains,
         NEW lb, lb = IF reader.cursor = None THEN c.from ELSE lookedBack
  PROVE  /\ c \in Resume /\ c.began \in Moments /\ c.began <= now
         /\ lb \in Nat /\ lookedBack <= lb /\ lb <= now - Window
         /\ \A l \in Shown : lb <= at[l] /\ at[l] < c.next => l \in Taken \cup overtaken
<1>1. now \in Nat /\ now \in Moments /\ Window \in Nat /\ now - Window \in Nat
  BY WindowFacts DEF TypeOK
<1>2. lookedBack \in Nat /\ lookedBack <= now - Window
  BY DEF TypeOK, ClockInv
<1>3. reader.cursor \in Time /\ (reader.cursor # None => reader.cursor \in Nat)
  BY DEF TypeOK, Time
<1>4. ASSUME reader.cursor # None, NEW l \in Shown, lookedBack <= at[l], at[l] < reader.cursor
      PROVE  l \in Taken \cup overtaken
  BY <1>4 DEF PositionInv, Stands, Swept
<1>5. CASE c = Afresh
  <2> DEFINE s == IF reader.cursor # None THEN reader.cursor ELSE now - Window
  <2>1. c = [from |-> s, next |-> s, began |-> now] /\ s \in Nat
    BY <1>1, <1>3, <1>5 DEF Afresh
  <2> HIDE DEF s
  <2>2. c \in Resume /\ c.began = now /\ c.from = s /\ c.next = s
    BY <2>1, <1>1 DEF Resume
  <2>3. CASE reader.cursor # None
    <3>1. lb = lookedBack /\ s = reader.cursor
      BY <2>3 DEF s
    <3> QED BY <1>1, <1>2, <1>4, <2>2, <2>3, <3>1
  <2>4. CASE reader.cursor = None
    <3>1. lb = s /\ s = now - Window
      BY <2>2, <2>4 DEF s
    <3>2. \A l \in Shown : at[l] \in Nat
      BY TakenFacts
    <3>3. \A l \in Shown : ~(s <= at[l] /\ at[l] < s)
      BY <2>1, <3>2
    <3> QED BY <1>1, <1>2, <2>1, <2>2, <3>1, <3>3
  <2> QED BY <2>3, <2>4
<1>6. CASE c # Afresh
  <2>1. reader.resume # None /\ c = reader.resume
    BY <1>6 DEF Chains, Continuation
  <2>2. c \in Resume
    BY <2>1 DEF TypeOK
  <2>3. c.began \in Moments /\ c.began <= now /\ (reader.cursor = None => c.from = lookedBack)
    BY <2>1 DEF ResumeInv
  <2>4. lb = lookedBack
    BY <2>3
  <2>5. ASSUME NEW l \in Shown, lookedBack <= at[l], at[l] < c.next PROVE l \in Taken \cup overtaken
    <3>1. CASE reader.cursor = None \/ reader.cursor <= at[l]
      BY <2>1, <2>5, <3>1 DEF ResumeInv
    <3>2. CASE reader.cursor # None /\ ~(reader.cursor <= at[l])
      <4>1. at[l] < reader.cursor
        BY <3>2, <1>3, TakenFacts
      <4> QED BY <1>4, <2>5, <3>2, <4>1
    <3> QED BY <3>1, <3>2
  <2> QED BY <1>2, <2>2, <2>3, <2>4, <2>5
<1> QED BY <1>5, <1>6

\* A read of chain c that answered: it found the lines of got, and left the continuation r.
Answered(c, got, r) ==
  /\ got \in SUBSET Shown /\ r \in Resume \cup {None}
  /\ reader' = After(c, got, r) /\ LooksBack(c)
  /\ overtaken \subseteq overtaken' /\ overtaken' \subseteq Lines
  /\ r = None => ChainFrom(c) \subseteq got
  /\ r # None =>
       /\ r.from = c.from /\ r.began = c.began
       /\ \A l \in ChainFrom(c) : at[l] < r.next => l \in got
       /\ \A k \in got : /\ at[k] <= r.next
                         /\ at[k] = r.next =>
                              \A l \in ChainFrom(c) : at[l] = r.next => l \in got \cup overtaken'

\* A read that reaches the end takes up its chain and answers.
LEMMA CompleteAnswers ==
  ASSUME TypeOK, NEW c \in Resume, NEW got, Completes(c, got)
  PROVE  Answered(c, got, None)
<1>1. got = ChainFrom(c) /\ ChainFrom(c) \subseteq Shown
  BY DEF Completes, ChainFrom
<1>2. overtaken' = overtaken /\ overtaken \subseteq Lines
  BY DEF Completes, TypeOK
<1>3. reader' = After(c, got, None) /\ LooksBack(c)
  BY DEF Completes
<1> QED BY <1>1, <1>2, <1>3 DEF Answered

\* A read that stops at its page cap leaves a continuation behind what it took up.
LEMMA CappedAnswers ==
  ASSUME TypeOK, ClockInv, SeenInv, NEW c \in Resume, NEW got, StopsAtCap(c, got)
  PROVE  \E r \in Resume : Answered(c, got, r)
<1>0. PICK t \in Stops(c) : \E S \in CapsAt(c, t) :
        /\ got = Passed(c, t, S)
        /\ reader' = After(c, got, [from |-> c.from, next |-> t, began |-> c.began])
        /\ overtaken' = overtaken \cup (IF S = {} THEN {} ELSE {l \in ChainFrom(c) : at[l] = t} \ S)
  BY DEF StopsAtCap
<1>1. PICK S \in CapsAt(c, t) :
        /\ got = Passed(c, t, S)
        /\ reader' = After(c, got, [from |-> c.from, next |-> t, began |-> c.began])
        /\ overtaken' = overtaken \cup (IF S = {} THEN {} ELSE {l \in ChainFrom(c) : at[l] = t} \ S)
  BY <1>0
<1> DEFINE r == [from |-> c.from, next |-> t, began |-> c.began]
<1>2. ChainFrom(c) \subseteq Shown /\ Shown \subseteq Lines /\ \A l \in ChainFrom(c) : at[l] \in Nat
  BY TakenFacts DEF ChainFrom
<1>3. t \in Nat
  BY <1>2 DEF Stops, Resume
<1>4. r \in Resume /\ r # None /\ r.next = t /\ r.from = c.from /\ r.began = c.began
  <2>1. c.from \in Nat /\ c.began \in Nat
    BY DEF Resume
  <2>2. r \in Resume /\ r.next = t /\ r.from = c.from /\ r.began = c.began
    BY <1>3, <2>1 DEF Resume
  <2> QED BY <2>2, NoneAssumption
<1>5. S \subseteq ChainFrom(c) /\ \A l \in S : at[l] = t
  BY DEF CapsAt
<1>6. got = {l \in ChainFrom(c) : at[l] < t} \cup S
  BY <1>1 DEF Passed
<1>7. got \in SUBSET Shown
  BY <1>2, <1>5, <1>6
<1>8. overtaken \subseteq overtaken' /\ overtaken' \subseteq Lines
  <2>1. overtaken \subseteq Lines
    BY DEF TypeOK
  <2> QED BY <1>1, <1>2, <2>1
<1>9. \A l \in ChainFrom(c) : at[l] < t => l \in got
  BY <1>6
<1>10. ASSUME NEW k \in got
       PROVE  at[k] <= t /\ (at[k] = t => \A l \in ChainFrom(c) : at[l] = t => l \in got \cup overtaken')
  <2>1. at[k] \in Nat
    BY <1>2, <1>5, <1>6
  <2>2. CASE k \in S
    <3>1. at[k] = t
      BY <2>2, <1>5
    <3>2. \A l \in ChainFrom(c) : at[l] = t => l \in S \cup overtaken'
      BY <2>2, <1>1
    <3> QED BY <3>1, <3>2, <1>3, <1>6
  <2>3. CASE k \notin S
    <3>1. at[k] < t
      BY <2>3, <1>6
    <3> QED BY <3>1, <2>1, <1>3
  <2> QED BY <2>2, <2>3
<1>11. LooksBack(c)
  BY DEF StopsAtCap
<1>12. reader' = After(c, got, r)
  BY <1>1
<1> HIDE DEF r
<1> QED BY <1>4, <1>7, <1>8, <1>9, <1>10, <1>11, <1>12 DEF Answered

\* Whatever it answers, a read finds lines the log shows and hands them to its flight.
LEMMA ReadIs ==
  ASSUME TypeOK, ClockInv, SeenInv, PositionInv, ResumeInv, NEW f \in Flights, Read(f)
  PROVE  \E got \in SUBSET Shown :
           /\ flight' = [flight EXCEPT ![f] =
                [Idle EXCEPT !.stage = "read", !.lines = got \ reader.seen, !.began = now]]
           /\ \/ Fails(got)
              \/ \E c \in Chains : \E r \in Resume \cup {None} : Answered(c, got, r)
<1>1. PICK got \in SUBSET Shown :
           /\ Fails(got) \/ \E c \in Chains : Completes(c, got) \/ StopsAtCap(c, got)
           /\ flight' = [flight EXCEPT ![f] =
                [Idle EXCEPT !.stage = "read", !.lines = got \ reader.seen, !.began = now]]
  BY DEF Read
<1>2. ASSUME NEW c \in Chains, Completes(c, got) \/ StopsAtCap(c, got)
      PROVE  \E r \in Resume \cup {None} : Answered(c, got, r)
  <2>1. c \in Resume
    <3> DEFINE lb == IF reader.cursor = None THEN c.from ELSE lookedBack
    <3> HIDE DEF lb
    <3> QED BY ChainFacts DEF lb
  <2>2. CASE Completes(c, got)
    BY <2>1, <2>2, CompleteAnswers
  <2>3. CASE StopsAtCap(c, got)
    BY <2>1, <2>3, CappedAnswers
  <2> QED BY <1>2, <2>2, <2>3
<1> QED BY <1>1, <1>2

\* The controller afterwards.
ReaderType ==
  [cursor : Time, seen : SUBSET Lines, resume : Resume \cup {None}, ok : BOOLEAN,
   capped : BOOLEAN, began : Time, history : Time]

\* What the controller holds after an answer.
LEMMA AnsweredFacts ==
  ASSUME TypeOK, ClockInv, SeenInv, PositionInv, ResumeInv, NEW c \in Chains, NEW got, NEW r, Answered(c, got, r)
  PROVE  /\ reader' \in ReaderType
         /\ reader'.cursor = Position(c, got \ reader.seen, r # None)
         /\ reader'.cursor = None => reader.cursor = None
         /\ reader'.seen = reader.seen \cup got /\ reader'.resume = r
         /\ reader'.ok /\ reader'.capped = (r # None) /\ reader'.began = c.began
         /\ r = None => reader'.history # None
         /\ lookedBack' = (IF reader.cursor = None THEN c.from ELSE lookedBack)
<1> DEFINE fresh == got \ reader.seen
           p == Position(c, fresh, r # None)
           h == IF reader.history = None /\ (r = None \/ p # None) THEN c.from ELSE reader.history
<1>1. c \in Resume
  <2> DEFINE lb == IF reader.cursor = None THEN c.from ELSE lookedBack
  <2> HIDE DEF lb
  <2> QED BY ChainFacts DEF lb
<1>2. c.began \in Nat /\ c.from \in Nat
  BY <1>1 DEF Resume
<1>3. fresh \in SUBSET Shown /\ Shown \subseteq Lines
  BY DEF Answered, Shown
<1>4. p \in Time /\ (p = None => reader.cursor = None)
  <2>1. PICK capped \in BOOLEAN : capped = (r # None)
    OBVIOUS
  <2> HIDE DEF fresh
  <2> QED BY <1>1, <1>3, <2>1, PositionFacts
<1>5. reader' = [cursor |-> p, seen |-> reader.seen \cup fresh, resume |-> r,
                 ok |-> TRUE, capped |-> r # None, began |-> c.began, history |-> h]
  BY DEF Answered, After
<1>6. reader.history \in Time /\ reader.seen \subseteq Lines
  BY DEF TypeOK
<1>7. h \in Time /\ (r = None => h # None)
  BY <1>2, <1>6, SettingsAreNaturals DEF Time
<1>8. reader.seen \cup fresh = reader.seen \cup got
  OBVIOUS
<1>9. r \in Resume \cup {None} /\ (r # None) \in BOOLEAN /\ c.began \in Time /\ reader.seen \cup fresh \in SUBSET Lines
  BY <1>2, <1>3, <1>6 DEF Answered, Time
<1>11. lookedBack' = IF reader.cursor = None THEN c.from ELSE lookedBack
  BY DEF Answered, LooksBack
<1> HIDE DEF p, h, fresh
<1>10. reader' \in ReaderType
  BY <1>4, <1>5, <1>7, <1>9 DEF ReaderType
<1> QED BY <1>4, <1>5, <1>7, <1>8, <1>10, <1>11 DEF p, fresh

\* What a read that answered has swept, is taken or overtaken afterwards.
LEMMA AnsweredSweeps ==
  ASSUME TypeOK, ClockInv, SeenInv, PositionInv, ResumeInv, NEW c \in Chains, NEW got, NEW r, Answered(c, got, r),
         NEW l \in Shown, lookedBack' <= at[l],
         r = None \/ at[l] < r.next \/ \E k \in got : at[l] <= at[k]
  PROVE  l \in Taken \cup overtaken' \cup got
<1> DEFINE lb == IF reader.cursor = None THEN c.from ELSE lookedBack
<1>1. lookedBack' = lb
  BY DEF Answered, LooksBack
<1>2. lb = IF reader.cursor = None THEN c.from ELSE lookedBack
  OBVIOUS
<1> HIDE DEF lb
<1>3. c \in Resume /\ \A m \in Shown : lb <= at[m] /\ at[m] < c.next => m \in Taken \cup overtaken
  BY <1>2, ChainFacts
<1>4. at[l] \in Nat /\ c.next \in Nat
  BY <1>3, TakenFacts DEF Resume
<1>5. CASE at[l] < c.next
  BY <1>1, <1>3, <1>5 DEF Answered
<1>6. CASE ~(at[l] < c.next)
  <2>1. l \in ChainFrom(c)
    BY <1>4, <1>6 DEF ChainFrom
  <2>2. CASE r = None
    BY <2>1, <2>2 DEF Answered
  <2>3. CASE r # None /\ at[l] < r.next
    BY <2>1, <2>3 DEF Answered
  <2>4. CASE r # None /\ ~(at[l] < r.next)
    <3>1. PICK k \in got : at[l] <= at[k]
      BY <2>4
    <3>2. r.next \in Nat /\ at[k] \in Nat /\ at[k] <= r.next
      BY <2>4, TakenFacts DEF Answered, Resume
    <3>3. at[l] = r.next /\ at[k] = r.next
      BY <2>4, <3>1, <3>2, <1>4
    <3> QED BY <2>1, <2>4, <3>3 DEF Answered
  <2> QED BY <2>2, <2>3, <2>4
<1> QED BY <1>5, <1>6

-----------------------------------------------------------------------------
(* The types.                                                              *)

\* What the sink and the log do: time goes on along the grid, a line keeps its time, and one is
\* shown within the grace.
LEMMA WorldFacts ==
  ASSUME TypeOK, ClockInv, WorldNext
  PROVE  /\ now' \in Moments /\ now <= now' /\ cdcStart' = cdcStart
         /\ at' \in [Lines -> Time] /\ shown' \in [Lines -> Time]
         /\ \A l \in Lines :
              /\ at[l] # None => at'[l] = at[l]
              /\ at'[l] # None => OnGrid(at'[l])
              /\ shown[l] # None => shown'[l] = shown[l]
              /\ shown[l] = None /\ shown'[l] # None =>
                   shown'[l] = now /\ at'[l] = at[l] /\ at[l] # None /\ now < at[l] + Grace
<1>1. now \in Moments /\ now \in Nat /\ OnGrid(now) /\ First <= now
  BY MomentFacts DEF TypeOK
<1>2. at \in [Lines -> Time] /\ shown \in [Lines -> Time] /\ \A l \in Lines : at[l] # None => OnGrid(at[l])
  BY DEF TypeOK, ClockInv
<1>3. CASE Tick
  <2>1. now' = now + Unit /\ now + Unit <= Last /\ cdcStart' = cdcStart /\ at' = at /\ shown' = shown
    BY <1>3 DEF Tick
  <2>2. now' \in Moments
    BY <1>1, <2>1, NextMoment
  <2>3. now <= now + Unit
    BY <1>1, SettingsAreNaturals
  <2> QED BY <1>1, <1>2, <2>1, <2>2, <2>3
<1>4. ASSUME NEW k \in Lines, DeadLetter(k)
      PROVE  /\ now' \in Moments /\ now <= now' /\ cdcStart' = cdcStart
             /\ at' \in [Lines -> Time] /\ shown' \in [Lines -> Time]
             /\ \A l \in Lines :
                  /\ at[l] # None => at'[l] = at[l]
                  /\ at'[l] # None => OnGrid(at'[l])
                  /\ shown[l] # None => shown'[l] = shown[l]
                  /\ shown[l] = None /\ shown'[l] # None =>
                       shown'[l] = now /\ at'[l] = at[l] /\ at[l] # None /\ now < at[l] + Grace
  <2>1. PICK t \in {now - Skew, now, now + Skew} : at' = [at EXCEPT ![k] = t]
    BY <1>4 DEF DeadLetter
  <2>2. now' = now /\ cdcStart' = cdcStart /\ shown' = shown /\ at[k] = None
    BY <1>4 DEF DeadLetter
  <2>3. Skew \in Nat /\ OnGrid(Skew) /\ Skew <= now
    <3>1. OnGrid(Skew)
      BY LogAssumption DEF OnGrid
    <3> QED BY <1>1, <3>1, SettingsAreNaturals
  <2>4. t \in Nat /\ OnGrid(t)
    <3>1. PICK n \in Nat : n = now /\ OnGrid(n) /\ Skew <= n
      BY <1>1, <2>3
    <3>2. OnGrid(n + Skew) /\ OnGrid(n - Skew)
      BY <2>3, <3>1, GridFacts
    <3>3. n + Skew \in Nat /\ n - Skew \in Nat
      BY <2>3, <3>1
    <3> QED BY <3>1, <3>2, <3>3
  <2>5. at' \in [Lines -> Time] /\ at'[k] = t /\ \A l \in Lines \ {k} : at'[l] = at[l]
    BY <1>2, <2>1, <2>4 DEF Time
  <2>6. now <= now
    BY <1>1
  <2> QED BY <1>1, <1>2, <2>2, <2>4, <2>5, <2>6
<1>5. ASSUME NEW k \in Lines, Show(k)
      PROVE  /\ now' \in Moments /\ now <= now' /\ cdcStart' = cdcStart
             /\ at' \in [Lines -> Time] /\ shown' \in [Lines -> Time]
             /\ \A l \in Lines :
                  /\ at[l] # None => at'[l] = at[l]
                  /\ at'[l] # None => OnGrid(at'[l])
                  /\ shown[l] # None => shown'[l] = shown[l]
                  /\ shown[l] = None /\ shown'[l] # None =>
                       shown'[l] = now /\ at'[l] = at[l] /\ at[l] # None /\ now < at[l] + Grace
  <2>1. /\ at[k] # None /\ shown[k] = None /\ now < at[k] + Grace
        /\ shown' = [shown EXCEPT ![k] = now]
        /\ now' = now /\ cdcStart' = cdcStart /\ at' = at
    BY <1>5 DEF Show
  <2>2. shown' \in [Lines -> Time] /\ shown'[k] = now /\ \A l \in Lines \ {k} : shown'[l] = shown[l]
    BY <1>1, <1>2, <2>1 DEF Time
  <2>3. now <= now
    BY <1>1
  <2> QED BY <1>1, <1>2, <2>1, <2>2, <2>3
<1> QED BY <1>3, <1>4, <1>5 DEF WorldNext

\* What the controller says of its last read.
LEMMA OutcomeFacts ==
  ASSUME TypeOK, ReportsInv, NEW b \in Moments, b <= now
  PROVE  /\ Outcome(b) \in Reports /\ Outcome(b) # None
         /\ HonestReport(Outcome(b))
<1> DEFINE g == IF reader.ok /\ reader.began < b THEN reader.began ELSE b
           k == reader.ok /\ ~reader.capped
           r == [read |-> [began |-> g, ok |-> reader.ok, complete |-> k], from |-> reader.history]
<1>1. reader.ok \in BOOLEAN /\ reader.capped \in BOOLEAN /\ reader.history \in Time
  BY DEF TypeOK
<1>2. reader.ok => reader.began \in Moments /\ reader.began <= now
  BY DEF ReportsInv
<1>3. g \in Moments /\ g <= now /\ k \in BOOLEAN
  BY <1>1, <1>2
<1>4. Outcome(b) = r
  BY DEF Outcome
<1>5. k => reader.ok /\ g <= reader.began /\ reader.history # None /\ KnownBefore(reader.began)
  <2>1. b \in Nat
    BY MomentFacts
  <2>2. reader.ok => reader.began \in Nat
    BY <1>2, MomentFacts
  <2> QED BY <2>1, <2>2 DEF ReportsInv
<1> HIDE DEF g, k
<1>6. r \in Reports
  BY <1>1, <1>3 DEF Reports, Record
<1>7. r # None
  BY <1>6, NoneAssumption
<1>8. k => KnownBefore(g)
  <2> SUFFICES ASSUME k, NEW l \in Shown, shown[l] < g PROVE l \in counted \cup Excused
    BY DEF KnownBefore
  <2>1. g \in Nat /\ reader.began \in Nat /\ g <= reader.began
    BY <1>2, <1>3, <1>5, MomentFacts
  <2>2. shown[l] \in Nat
    BY DEF TypeOK, Shown, Time
  <2>3. shown[l] < reader.began
    BY <2>1, <2>2
  <2> QED BY <1>5, <2>3 DEF KnownBefore
<1>9. HonestReport(r)
  BY <1>3, <1>5, <1>8 DEF HonestReport, Honest
<1> QED BY <1>4, <1>6, <1>7, <1>9

\* Folding lines into the ledger keeps its type.
LEMMA FoldedType ==
  ASSUME NEW e \in [Tables -> Entries], NEW S \in SUBSET Lines, \A l \in S : at[l] \in Nat
  PROVE  Folded(e, S) \in [Tables -> Entries]
<1> DEFINE n == Folded(e, S)
<1>1. n = [tb \in Tables |-> n[tb]]
  BY DEF Folded
<1>2. ASSUME NEW tb \in Tables PROVE n[tb] \in Entries
  <2>0. \E c \in Nat, t \in Time : Folded(e, S)[tb] = [count |-> e[tb].count + c, last |-> t]
    BY FoldedEntry
  <2>1. PICK c \in Nat, t \in Time : n[tb] = [count |-> e[tb].count + c, last |-> t]
    BY <2>0
  <2> HIDE DEF n
  <2>2. e[tb].count + c \in Nat
    BY DEF Entries
  <2> QED BY <2>1, <2>2 DEF Entries
<1> HIDE DEF n
<1>3. n \in [Tables -> Entries]
  BY <1>1, <1>2
<1> QED BY <1>3 DEF n

FlightType == [Flights -> Flight]
SavedType == [cursor : Time, ledger : [Tables -> Entries], readFrom : Time,
              counted : SUBSET Lines, air : SUBSET Lines]

\* The types that are records, and the lines in the air.
LEMMA TypesAre ==
  ASSUME TypeOK
  PROVE  /\ reader \in ReaderType /\ flight \in FlightType /\ saved \in SavedType
         /\ Idle \in Flight /\ InAir \subseteq Lines /\ None \in Time /\ Moments \subseteq Time
         /\ \A f \in Flights : /\ flight[f] \in Flight /\ flight[f].lines \subseteq Lines
                               /\ flight[f].cursor \in Time /\ flight[f].seen \subseteq Lines
                               /\ flight[f].report \in Reports \cup {None}
<1>1. reader \in ReaderType /\ flight \in FlightType /\ saved \in SavedType
  BY DEF TypeOK, ReaderType, FlightType, SavedType
<1>2. \A f \in Flights : flight[f] \in Flight
  BY <1>1 DEF FlightType
<1>3. \A f \in Flights : /\ flight[f].lines \subseteq Lines /\ flight[f].cursor \in Time
                         /\ flight[f].seen \subseteq Lines /\ flight[f].report \in Reports \cup {None}
  BY <1>2 DEF Flight
<1>4. InAir \subseteq Lines
  BY <1>3 DEF InAir
<1>5. None \in Time /\ Moments \subseteq Time
  BY MomentFacts DEF Time
<1>6. Idle \in Flight
  BY <1>5 DEF Idle, Flight
<1> QED BY <1>1, <1>2, <1>3, <1>4, <1>5, <1>6

\* The lines in the air, when one flight changes.
LEMMA AirIs ==
  ASSUME NEW f \in Flights, \A g \in Flights \ {f} : flight'[g] = flight[g],
         NEW L, flight'[f].lines = L
  PROVE  /\ L \subseteq InAir' /\ InAir' \subseteq InAir \cup L
         /\ flight[f].lines \subseteq InAir /\ InAir \subseteq InAir' \cup flight[f].lines
<1>1. flight[f].lines \subseteq InAir
  BY DEF InAir
<1>3. InAir' = UNION {flight'[g].lines : g \in Flights}
  BY DEF InAir
<1>4. L \subseteq InAir'
  BY <1>3
<1>5. InAir' \subseteq InAir \cup L
  <2> SUFFICES ASSUME NEW l \in InAir', l \notin L PROVE l \in InAir
    OBVIOUS
  <2>1. PICK g \in Flights : l \in flight'[g].lines
    BY <1>3
  <2>2. g # f /\ flight'[g] = flight[g]
    BY <2>1
  <2> QED BY <2>1, <2>2 DEF InAir
<1>6. InAir \subseteq InAir' \cup flight[f].lines
  <2> SUFFICES ASSUME NEW l \in InAir, l \notin flight[f].lines PROVE l \in InAir'
    OBVIOUS
  <2>1. PICK g \in Flights : l \in flight[g].lines
    BY DEF InAir
  <2>2. g # f /\ flight'[g] = flight[g]
    BY <2>1
  <2> QED BY <2>1, <2>2, <1>3
<1> QED BY <1>1, <1>4, <1>5, <1>6

\* What a step that reads hands on.
LEMMA ReadLines ==
  ASSUME IInv, NEW f \in Flights, NEW got \in SUBSET Shown, flight[f].stage = "idle",
         flight' = [flight EXCEPT ![f] =
           [Idle EXCEPT !.stage = "read", !.lines = got \ reader.seen, !.began = now]],
         counted' = counted, dropped' = dropped
  PROVE  /\ flight' \in FlightType
         /\ flight'[f].stage = "read" /\ flight'[f].began = now /\ flight'[f].lines = got \ reader.seen
         /\ flight'[f].report = None /\ flight'[f].cursor = None /\ flight'[f].seen = {}
         /\ \A g \in Flights \ {f} : flight'[g] = flight[g]
         /\ InAir' = InAir \cup (got \ reader.seen) /\ Taken' = Taken \cup (got \ reader.seen)
         /\ got \subseteq counted' \cup InAir'
<1> DEFINE new == got \ reader.seen
           x == [Idle EXCEPT !.stage = "read", !.lines = new, !.began = now]
<1>1. TypeOK /\ SeenInv /\ ReportsInv
  BY DEF IInv
<1>2. flight[f] = Idle /\ flight[f].lines = {}
  <2>1. flight[f] = Idle
    BY <1>1 DEF ReportsInv
  <2>2. Idle.lines = {}
    BY DEF Idle
  <2> QED BY <2>1, <2>2
<1>3. now \in Time /\ new \subseteq Lines /\ Idle \in Flight
  BY <1>1, TypesAre DEF TypeOK, Shown
<1>5. /\ x \in Flight /\ x.stage = "read" /\ x.lines = new /\ x.began = now
      /\ x.report = None /\ x.cursor = None /\ x.seen = {}
  <2>1. x = [Idle EXCEPT !.stage = "read", !.lines = new, !.began = now]
    OBVIOUS
  <2> HIDE DEF new, x
  <2>2. x \in Flight /\ x.stage = "read" /\ x.lines = new /\ x.began = now
    BY <1>3, <2>1 DEF Flight
  <2>3. x.report = Idle.report /\ x.cursor = Idle.cursor /\ x.seen = Idle.seen
    BY <1>3, <2>1 DEF Flight
  <2>4. Idle.report = None /\ Idle.cursor = None /\ Idle.seen = {}
    BY DEF Idle
  <2> QED BY <2>2, <2>3, <2>4
<1>6. flight' = [flight EXCEPT ![f] = x]
  OBVIOUS
<1> HIDE DEF x, new
<1>11. /\ flight' \in FlightType /\ flight'[f] = x /\ \A g \in Flights \ {f} : flight'[g] = flight[g]
  BY <1>1, <1>5, <1>6, TypesAre DEF FlightType
<1>7. new \subseteq InAir' /\ InAir' \subseteq InAir \cup new /\ InAir \subseteq InAir' \cup flight[f].lines
  BY <1>5, <1>11, AirIs
<1>8. InAir' = InAir \cup new
  BY <1>2, <1>5, <1>7
<1>9. Taken' = Taken \cup new
  BY <1>8 DEF Taken
<1>10. got \subseteq counted' \cup InAir'
  <2>1. reader.seen \subseteq counted \cup InAir
    BY <1>1 DEF SeenInv
  <2> QED BY <2>1, <1>8 DEF new
<1> QED BY <1>5, <1>11, <1>8, <1>9, <1>10 DEF new

\* Whatever it answers, the controller keeps its shape, and what is behind it does not shrink.
LEMMA ReadReader ==
  ASSUME IInv, NEW got \in SUBSET Shown,
         Fails(got) \/ \E c \in Chains : \E r \in Resume \cup {None} : Answered(c, got, r)
  PROVE  /\ reader' \in ReaderType
         /\ reader'.seen = reader.seen \cup got
         /\ lookedBack' \in Nat /\ lookedBack <= lookedBack' /\ lookedBack' <= now - Window
         /\ overtaken \subseteq overtaken' /\ overtaken' \subseteq Lines
<1>1. TypeOK /\ ClockInv /\ SeenInv /\ PositionInv /\ ResumeInv
  BY DEF IInv
<1>2. lookedBack \in Nat /\ lookedBack <= lookedBack /\ lookedBack <= now - Window
  BY <1>1 DEF TypeOK, ClockInv
<1>3. CASE Fails(got)
  <2>1. PICK r \in {Continuation, None} : reader' = [reader EXCEPT !.ok = FALSE, !.resume = r]
    BY <1>3 DEF Fails
  <2>2. got = {} /\ overtaken' = overtaken /\ lookedBack' = lookedBack
    BY <1>3 DEF Fails
  <2>3. reader \in ReaderType
    BY <1>1, TypesAre
  <2>4. r \in Resume \cup {None}
    BY <2>1, <2>3 DEF Continuation, ReaderType
  <2>5. reader' \in ReaderType /\ reader'.seen = reader.seen
    BY <2>1, <2>3, <2>4 DEF ReaderType
  <2>6. overtaken \subseteq Lines
    BY <1>1 DEF TypeOK
  <2> QED BY <1>2, <2>2, <2>5, <2>6
<1>4. ASSUME NEW c \in Chains, NEW r \in Resume \cup {None}, Answered(c, got, r)
      PROVE  /\ reader' \in ReaderType
             /\ reader'.seen = reader.seen \cup got
             /\ lookedBack' \in Nat /\ lookedBack <= lookedBack' /\ lookedBack' <= now - Window
             /\ overtaken \subseteq overtaken' /\ overtaken' \subseteq Lines
  <2> DEFINE lb == IF reader.cursor = None THEN c.from ELSE lookedBack
  <2>1. reader' \in ReaderType /\ reader'.seen = reader.seen \cup got /\ lookedBack' = lb
    BY <1>1, <1>4, AnsweredFacts
  <2>2. lb = IF reader.cursor = None THEN c.from ELSE lookedBack
    OBVIOUS
  <2> HIDE DEF lb
  <2>3. lb \in Nat /\ lookedBack <= lb /\ lb <= now - Window
    BY <1>1, <2>2, ChainFacts
  <2> QED BY <1>4, <2>1, <2>3 DEF Answered
<1> QED BY <1>3, <1>4

\* A read keeps the types, and no line that was taken up is given up.
LEMMA ReadTypes ==
  ASSUME IInv, NEW f \in Flights, Read(f)
  PROVE  TypeOK' /\ Onward
<1>1. TypeOK /\ ClockInv /\ SeenInv /\ PositionInv /\ ResumeInv
  BY DEF IInv
<1>2. PICK got \in SUBSET Shown :
        /\ flight' = [flight EXCEPT ![f] =
             [Idle EXCEPT !.stage = "read", !.lines = got \ reader.seen, !.began = now]]
        /\ Fails(got) \/ \E c \in Chains : \E r \in Resume \cup {None} : Answered(c, got, r)
  BY <1>1, ReadIs
<1>3. /\ flight[f].stage = "idle" /\ reads + faults < MaxReads /\ reads' = reads + 1
      /\ claim' = IF f \in Checks THEN now ELSE claim
      /\ now' = now /\ cdcStart' = cdcStart /\ at' = at /\ shown' = shown /\ faults' = faults
      /\ cursor' = cursor /\ seen' = seen /\ audited' = audited /\ ledger' = ledger
      /\ readFrom' = readFrom /\ lastRead' = lastRead /\ pending' = pending /\ counted' = counted
      /\ saved' = saved /\ dropped' = dropped /\ restarted' = restarted
  BY DEF Read, world, session
<1>4. /\ flight' \in FlightType /\ Taken' = Taken \cup (got \ reader.seen)
  BY <1>2, <1>3, ReadLines
<1>5. /\ reader' \in ReaderType
      /\ lookedBack' \in Nat /\ lookedBack <= lookedBack'
      /\ overtaken \subseteq overtaken' /\ overtaken' \subseteq Lines
  BY <1>2, ReadReader
<1>6. reads' \in 0..MaxReads /\ reads <= reads'
  <2>1. reads \in Nat /\ faults \in Nat /\ MaxReads \in Nat
    BY <1>1, SettingsAreNaturals DEF TypeOK
  <2>2. reads + 1 \in 0..MaxReads /\ reads <= reads + 1
    BY <2>1, <1>3
  <2> QED BY <2>2, <1>3
<1>7. claim' \in Time
  BY <1>1, <1>3, TypesAre DEF TypeOK
<1>8. TypeOK'
  <2>1. (restarted \in BOOLEAN /\ now \in Moments /\ cdcStart \in Starts /\ faults \in 0..MaxFaults)'
    BY <1>1, <1>3 DEF TypeOK
  <2>2. (at \in [Lines -> Time] /\ shown \in [Lines -> Time])'
    BY <1>1, <1>3 DEF TypeOK
  <2>3. (cursor \in Time /\ readFrom \in Time)'
    BY <1>1, <1>3 DEF TypeOK
  <2>4. (seen \subseteq Lines /\ audited \subseteq counted /\ counted \subseteq Lines /\ dropped \subseteq Lines)'
    BY <1>1, <1>3 DEF TypeOK
  <2>5. (ledger \in [Tables -> Entries] /\ lastRead \in Record \cup {None} /\ pending \in Reports \cup {None})'
    BY <1>1, <1>3 DEF TypeOK
  <2>6. saved' \in SavedType
    BY <1>1, <1>3, TypesAre
  <2> QED BY <1>4, <1>5, <1>6, <1>7, <2>1, <2>2, <2>3, <2>4, <2>5, <2>6
          DEF TypeOK, ReaderType, FlightType, SavedType
<1>9. Onward
  <2>1. Shown' = Shown /\ Taken \subseteq Taken'
    BY <1>3, <1>4 DEF Shown
  <2>2. now <= now'
    BY <1>1, <1>3, WindowFacts
  <2> QED BY <1>3, <1>5, <1>6, <2>1, <2>2 DEF Onward
<1> QED BY <1>8, <1>9

\* A report: the flight goes on to land, a poll's with outcome and position already with the session.
LEMMA ReportIs ==
  ASSUME IInv, NEW f \in Flights, Report(f)
  PROVE  /\ flight[f].began \in Moments /\ flight[f].began <= now
         /\ flight' \in FlightType /\ \A g \in Flights \ {f} : flight'[g] = flight[g]
         /\ flight'[f].stage = "landing" /\ flight'[f].began = flight[f].began
         /\ InAir' = InAir
         /\ f \in Polls =>
              /\ pending' = Outcome(flight[f].began) /\ cursor' = reader.cursor /\ seen' = reader.seen
              /\ flight'[f].report = flight[f].report /\ flight'[f].cursor = flight[f].cursor
              /\ flight'[f].seen = flight[f].seen
         /\ f \notin Polls =>
              /\ flight'[f].report = Outcome(flight[f].began)
              /\ flight'[f].cursor = reader.cursor /\ flight'[f].seen = reader.seen
              /\ UNCHANGED <<pending, cursor, seen>>
         /\ UNCHANGED <<world, reader, reads, faults, claim, audited, ledger, readFrom, lastRead, counted,
                        saved, dropped, overtaken, lookedBack, restarted>>
<1>1. TypeOK /\ ReportsInv
  BY DEF IInv
<1>2. flight \in FlightType /\ reader \in ReaderType
  BY <1>1, TypesAre
<1>3. flight[f].stage = "read" /\ flight[f].began \in Moments /\ flight[f].began <= now
  BY <1>1 DEF Report, ReportsInv
<1> DEFINE r == Outcome(flight[f].began)
<1>4. r \in Reports
  BY <1>1, <1>3, OutcomeFacts
<1>5. UNCHANGED <<world, reader, reads, faults, claim, audited, ledger, readFrom, lastRead, counted,
                  saved, dropped, overtaken, lookedBack, restarted>>
  BY DEF Report
<1> HIDE DEF r
<1>6. CASE f \in Polls
  <2>1. /\ pending' = r /\ cursor' = reader.cursor /\ seen' = reader.seen
        /\ flight' = [flight EXCEPT ![f].stage = "landing"]
    BY <1>6 DEF Report, r
  <2>2. /\ flight' \in FlightType /\ \A g \in Flights \ {f} : flight'[g] = flight[g]
    BY <1>2, <2>1 DEF FlightType, Flight
  <2>3. /\ flight'[f].stage = "landing" /\ flight'[f].began = flight[f].began
        /\ flight'[f].lines = flight[f].lines
        /\ flight'[f].report = flight[f].report /\ flight'[f].cursor = flight[f].cursor
        /\ flight'[f].seen = flight[f].seen
    BY <1>2, <2>1 DEF FlightType, Flight
  <2>4. InAir' = InAir
    <3> DEFINE L == flight[f].lines
    <3>1. flight'[f].lines = L
      BY <2>3
    <3> HIDE DEF L
    <3>2. L \subseteq InAir' /\ InAir' \subseteq InAir \cup L /\ L \subseteq InAir /\ InAir \subseteq InAir' \cup L
      <4>1. /\ L \subseteq InAir' /\ InAir' \subseteq InAir \cup L
            /\ flight[f].lines \subseteq InAir /\ InAir \subseteq InAir' \cup flight[f].lines
        BY <2>2, <3>1, AirIs
      <4> QED BY <4>1 DEF L
    <3> QED BY <3>2
  <2> QED BY <1>3, <1>5, <1>6, <2>1, <2>2, <2>3, <2>4 DEF r
<1>7. CASE f \notin Polls
  <2>1. /\ flight' = [flight EXCEPT ![f].stage = "landing", ![f].report = r,
                          ![f].cursor = reader.cursor, ![f].seen = reader.seen]
        /\ UNCHANGED <<pending, cursor, seen>>
    BY <1>7 DEF Report, r
  <2>5. reader.cursor \in Time /\ reader.seen \in SUBSET Lines
    BY <1>2 DEF ReaderType
  <2>2. /\ flight' \in FlightType /\ \A g \in Flights \ {f} : flight'[g] = flight[g]
    <3> DEFINE a == [flight EXCEPT ![f].stage = "landing"]
               b == [a EXCEPT ![f].report = r]
               c == [b EXCEPT ![f].cursor = reader.cursor]
               d == [c EXCEPT ![f].seen = reader.seen]
    <3>1. a \in FlightType /\ \A g \in Flights \ {f} : a[g] = flight[g]
      BY <1>2 DEF FlightType, Flight
    <3>2. b \in FlightType /\ \A g \in Flights \ {f} : b[g] = a[g]
      <4> HIDE DEF a
      <4> QED BY <1>4, <3>1 DEF FlightType, Flight
    <3>3. c \in FlightType /\ \A g \in Flights \ {f} : c[g] = b[g]
      <4> HIDE DEF b
      <4> QED BY <2>5, <3>2 DEF FlightType, Flight
    <3>4. d \in FlightType /\ \A g \in Flights \ {f} : d[g] = c[g]
      <4> HIDE DEF c
      <4> QED BY <2>5, <3>3 DEF FlightType, Flight
    <3>5. flight' = d
      BY <2>1
    <3> HIDE DEF a, b, c, d
    <3> QED BY <3>1, <3>2, <3>3, <3>4, <3>5
  <2>3. /\ flight'[f].stage = "landing" /\ flight'[f].began = flight[f].began
        /\ flight'[f].lines = flight[f].lines
        /\ flight'[f].report = r /\ flight'[f].cursor = reader.cursor
        /\ flight'[f].seen = reader.seen
    BY <1>2, <2>1 DEF FlightType, Flight
  <2>4. InAir' = InAir
    <3> DEFINE L == flight[f].lines
    <3>1. flight'[f].lines = L
      BY <2>3
    <3> HIDE DEF L
    <3>2. L \subseteq InAir' /\ InAir' \subseteq InAir \cup L /\ L \subseteq InAir /\ InAir \subseteq InAir' \cup L
      <4>1. /\ L \subseteq InAir' /\ InAir' \subseteq InAir \cup L
            /\ flight[f].lines \subseteq InAir /\ InAir \subseteq InAir' \cup flight[f].lines
        BY <2>2, <3>1, AirIs
      <4> QED BY <4>1 DEF L
    <3> QED BY <3>2
  <2> QED BY <1>3, <1>5, <1>7, <2>1, <2>2, <2>3, <2>4 DEF r
<1> QED BY <1>6, <1>7

\* The world as it was: all of TypeOK that a step of the tool leaves alone.
LEMMA WorldTypes ==
  ASSUME TypeOK, UNCHANGED world
  PROVE  (now \in Moments /\ cdcStart \in Starts /\ at \in [Lines -> Time] /\ shown \in [Lines -> Time])'
  BY DEF TypeOK, world

\* Nothing moves but the tool, and it gives no line up.
LEMMA StillOnward ==
  ASSUME TypeOK, UNCHANGED <<world, overtaken, lookedBack>>, reads' = reads, Taken \subseteq Taken'
  PROVE  Onward
<1>1. now <= now /\ reads <= reads /\ lookedBack <= lookedBack
  BY WindowFacts DEF TypeOK
<1>2. now' = now /\ cdcStart' = cdcStart /\ at' = at /\ shown' = shown /\ Shown' = Shown
  BY DEF world, Shown
<1> QED BY <1>1, <1>2 DEF Onward

\* So does a report.
LEMMA ReportTypes ==
  ASSUME IInv, NEW f \in Flights, Report(f)
  PROVE  TypeOK' /\ Onward
<1>1. TypeOK /\ ReportsInv
  BY DEF IInv
<1>2. /\ flight[f].began \in Moments /\ flight[f].began <= now /\ flight' \in FlightType /\ InAir' = InAir
      /\ UNCHANGED <<world, reader, reads, faults, claim, audited, ledger, readFrom, lastRead, counted,
                     saved, dropped, overtaken, lookedBack, restarted>>
  BY ReportIs
<1>3. cursor' \in {cursor, reader.cursor} /\ seen' \in {seen, reader.seen}
      /\ pending' \in {pending, Outcome(flight[f].began)}
  BY ReportIs
<1>4. cursor' \in Time /\ seen' \subseteq Lines /\ pending' \in Reports \cup {None}
  <2>1. reader.cursor \in Time /\ reader.seen \subseteq Lines /\ cursor \in Time /\ seen \subseteq Lines
        /\ pending \in Reports \cup {None}
    BY <1>1 DEF TypeOK
  <2>2. Outcome(flight[f].began) \in Reports
    BY <1>1, <1>2, OutcomeFacts
  <2> QED BY <1>3, <2>1, <2>2
<1>5. (now \in Moments /\ cdcStart \in Starts /\ at \in [Lines -> Time] /\ shown \in [Lines -> Time])'
  BY <1>1, <1>2, WorldTypes
<1>6. (restarted \in BOOLEAN /\ reads \in 0..MaxReads /\ faults \in 0..MaxFaults
       /\ claim \in Time /\ readFrom \in Time /\ lookedBack \in Nat)'
  BY <1>1, <1>2 DEF TypeOK
<1>7. (audited \subseteq counted /\ counted \subseteq Lines /\ dropped \cup overtaken \subseteq Lines
       /\ ledger \in [Tables -> Entries] /\ lastRead \in Record \cup {None})'
  BY <1>1, <1>2 DEF TypeOK
<1>8. reader' \in ReaderType /\ saved' \in SavedType
  BY <1>1, <1>2, TypesAre
<1>9. TypeOK'
  BY <1>2, <1>4, <1>5, <1>6, <1>7, <1>8 DEF TypeOK, ReaderType, FlightType, SavedType
<1>10. Taken' = Taken
  BY <1>2 DEF Taken
<1>11. Onward
  BY <1>1, <1>2, <1>10, StillOnward
<1> QED BY <1>9, <1>11

\* A landing folds the flight's lines in, and publishes a report or none.
Lands(f) ==
  /\ Fold(flight[f].lines) /\ flight' = [flight EXCEPT ![f] = Idle]
  /\ \/ UNCHANGED <<lastRead, readFrom>>
     \/ \E r \in {pending, flight[f].report} : r # None /\ Promote(r)
  /\ pending' \in {pending, None}
  /\ \/ UNCHANGED <<cursor, seen>>
     \/ cursor' = flight[f].cursor /\ seen' = flight[f].seen
  /\ claim' \in {claim, None}
  /\ UNCHANGED <<world, reader, reads, faults, saved, dropped, overtaken, lookedBack, restarted>>

\* Both landings land the lines of their flight.
LEMMA LandingsLand ==
  ASSUME IInv, NEW f \in Flights, LandPoll(f) \/ LandCheck(f)
  PROVE  Lands(f)
<1>1. CASE LandPoll(f)
  <2>1. /\ Fold(flight[f].lines) /\ flight' = [flight EXCEPT ![f] = Idle]
        /\ IF pending = None THEN UNCHANGED <<lastRead, readFrom>> ELSE Promote(pending)
        /\ pending' = None /\ cursor' = cursor /\ seen' = seen /\ claim' = claim
        /\ UNCHANGED <<world, reader, reads, faults, saved, dropped, overtaken, lookedBack, restarted>>
    BY <1>1 DEF LandPoll
  <2> QED BY <2>1 DEF Lands
<1>2. CASE LandCheck(f)
  <2>1. /\ Fold(flight[f].lines) /\ flight' = [flight EXCEPT ![f] = Idle]
        /\ Promote(flight[f].report) /\ pending' = pending
        /\ cursor' = flight[f].cursor /\ seen' = flight[f].seen /\ claim' = None
        /\ UNCHANGED <<world, reader, reads, faults, saved, dropped, overtaken, lookedBack, restarted>>
    BY <1>2 DEF LandCheck
  <2>2. flight[f].report # None
    BY <1>2 DEF LandCheck, IInv, ReportsInv
  <2> QED BY <2>1, <2>2 DEF Lands
<1> QED BY <1>1, <1>2

\* What it counts was in the air before.
LEMMA LandLines ==
  ASSUME IInv, NEW f \in Flights, Lands(f)
  PROVE  /\ flight' \in FlightType /\ flight'[f] = Idle /\ \A g \in Flights \ {f} : flight'[g] = flight[g]
         /\ counted' = counted \cup flight[f].lines /\ audited' = audited \cup flight[f].lines
         /\ ledger' = Folded(ledger, flight[f].lines \ audited)
         /\ flight[f].lines \subseteq Shown
         /\ counted' \cup InAir' = counted \cup InAir /\ Taken' = Taken
<1>1. TypeOK /\ SeenInv
  BY DEF IInv
<1>2. flight \in FlightType /\ Idle \in Flight
  BY <1>1, TypesAre
<1>3. flight' = [flight EXCEPT ![f] = Idle] /\ dropped' = dropped
      /\ counted' = counted \cup flight[f].lines /\ audited' = audited \cup flight[f].lines
      /\ ledger' = Folded(ledger, flight[f].lines \ audited)
  BY DEF Lands, Fold
<1>4. flight' \in FlightType /\ flight'[f] = Idle /\ \A g \in Flights \ {f} : flight'[g] = flight[g]
  BY <1>2, <1>3 DEF FlightType
<1>5. flight'[f].lines = {}
  BY <1>4 DEF Idle
<1>6. InAir' \subseteq InAir /\ flight[f].lines \subseteq InAir /\ InAir \subseteq InAir' \cup flight[f].lines
  BY <1>4, <1>5, AirIs
<1>7. counted' \cup InAir' = counted \cup InAir
  BY <1>3, <1>6
<1>8. Taken' = Taken
  BY <1>3, <1>7 DEF Taken
<1>9. flight[f].lines \subseteq Shown
  BY <1>1, <1>6 DEF SeenInv, Taken
<1> QED BY <1>3, <1>4, <1>7, <1>8, <1>9

\* What it publishes is what a read proved.
LEMMA LandPublishes ==
  ASSUME IInv, NEW f \in Flights, Lands(f)
  PROVE  \/ UNCHANGED <<lastRead, readFrom>>
         \/ \E r \in Reports : r # None /\ HonestReport(r) /\ Promote(r)
<1>1. ASSUME NEW r \in {pending, flight[f].report}, r # None PROVE r \in Reports /\ HonestReport(r)
  <2>1. pending \in Reports \cup {None} /\ flight[f].report \in Reports \cup {None}
    BY TypesAre DEF IInv, TypeOK
  <2>2. HonestReport(r)
    BY <1>1 DEF IInv, ReportsInv
  <2> QED BY <1>1, <2>1, <2>2
<1> QED BY <1>1 DEF Lands

\* A landing keeps the types, and no line that was taken up is given up.
LEMMA LandTypes ==
  ASSUME IInv, NEW f \in Flights, Lands(f)
  PROVE  TypeOK' /\ Onward
<1>1. TypeOK /\ ClockInv /\ SeenInv
  BY DEF IInv
<1>2. /\ flight' \in FlightType
      /\ counted' = counted \cup flight[f].lines /\ audited' = audited \cup flight[f].lines
      /\ ledger' = Folded(ledger, flight[f].lines \ audited)
      /\ flight[f].lines \subseteq Shown /\ Taken' = Taken
  BY LandLines
<1>3. UNCHANGED <<world, reader, reads, faults, saved, dropped, overtaken, lookedBack, restarted>>
  BY DEF Lands
<1>4. (now \in Moments /\ cdcStart \in Starts /\ at \in [Lines -> Time] /\ shown \in [Lines -> Time])'
  BY <1>1, <1>3, WorldTypes
<1>5. (restarted \in BOOLEAN /\ reads \in 0..MaxReads /\ faults \in 0..MaxFaults
       /\ lookedBack \in Nat /\ dropped \cup overtaken \subseteq Lines)'
  BY <1>1, <1>3 DEF TypeOK
<1>6. claim' \in Time /\ cursor' \in Time /\ seen' \subseteq Lines /\ pending' \in Reports \cup {None}
  <2>1. claim' \in {claim, None} /\ cursor' \in {cursor, flight[f].cursor} /\ seen' \in {seen, flight[f].seen}
        /\ pending' \in {pending, None}
    BY DEF Lands
  <2>2. claim \in Time /\ cursor \in Time /\ seen \subseteq Lines /\ pending \in Reports \cup {None}
    BY <1>1 DEF TypeOK
  <2>3. None \in Time /\ flight[f].cursor \in Time /\ flight[f].seen \subseteq Lines
    BY <1>1, TypesAre
  <2> QED BY <2>1, <2>2, <2>3
<1>7. audited' \subseteq counted' /\ counted' \subseteq Lines
  BY <1>1, <1>2 DEF TypeOK, Shown
<1>8. ledger' \in [Tables -> Entries]
  <2>1. ledger \in [Tables -> Entries]
    BY <1>1 DEF TypeOK
  <2>2. flight[f].lines \ audited \in SUBSET Lines /\ \A l \in flight[f].lines \ audited : at[l] \in Nat
    BY <1>1, <1>2, TakenFacts
  <2> QED BY <1>2, <2>1, <2>2, FoldedType
<1>9. lastRead' \in Record \cup {None} /\ readFrom' \in Time
  <2>1. lastRead \in Record \cup {None} /\ readFrom \in Time
    BY <1>1 DEF TypeOK
  <2>2. ASSUME NEW r \in Reports, Promote(r) PROVE lastRead' \in Record /\ readFrom' \in Time
    BY <2>1, <2>2 DEF Promote, Reports
  <2> QED BY <2>1, <2>2, LandPublishes
<1>10. reader' \in ReaderType /\ saved' \in SavedType
  BY <1>1, <1>3, TypesAre
<1>11. TypeOK'
  BY <1>2, <1>4, <1>5, <1>6, <1>7, <1>8, <1>9, <1>10 DEF TypeOK, ReaderType, FlightType, SavedType
<1>12. Onward
  BY <1>1, <1>2, <1>3, StillOnward
<1> QED BY <1>11, <1>12

\* The tool as it was.
LEMMA ToolTypes ==
  ASSUME TypeOK, UNCHANGED <<reader, flight, claim, session, restarted>>
  PROVE  /\ (restarted \in BOOLEAN /\ claim \in Time /\ cursor \in Time /\ readFrom \in Time
             /\ seen \subseteq Lines /\ audited \subseteq counted /\ counted \subseteq Lines
             /\ ledger \in [Tables -> Entries] /\ lastRead \in Record \cup {None}
             /\ pending \in Reports \cup {None})'
         /\ reader' \in ReaderType /\ flight' \in FlightType
<1>1. reader \in ReaderType /\ flight \in FlightType
  BY TypesAre
<1> QED BY <1>1 DEF TypeOK, session

\* So does a step of the log.
LEMMA WorldStepTypes ==
  ASSUME IInv, World
  PROVE  TypeOK' /\ Onward /\ Taken' = Taken
<1>1. TypeOK /\ ClockInv
  BY DEF IInv
<1>2. /\ WorldNext
      /\ overtaken' = overtaken \cup {l \in Lines : shown[l] # shown'[l] /\ Past(at[l])}
      /\ UNCHANGED <<reader, reads, faults, flight, claim, session, saved, dropped, lookedBack, restarted>>
  BY DEF World
<1>3. /\ now' \in Moments /\ now <= now' /\ cdcStart' = cdcStart
      /\ at' \in [Lines -> Time] /\ shown' \in [Lines -> Time]
      /\ \A l \in Lines :
           /\ at[l] # None => at'[l] = at[l]
           /\ shown[l] # None => shown'[l] = shown[l]
           /\ shown[l] = None /\ shown'[l] # None =>
                shown'[l] = now /\ at'[l] = at[l] /\ at[l] # None /\ now < at[l] + Grace
  BY <1>1, <1>2, WorldFacts
<1>4. /\ (restarted \in BOOLEAN /\ claim \in Time /\ cursor \in Time /\ readFrom \in Time
          /\ seen \subseteq Lines /\ audited \subseteq counted /\ counted \subseteq Lines
          /\ ledger \in [Tables -> Entries] /\ lastRead \in Record \cup {None}
          /\ pending \in Reports \cup {None})'
      /\ reader' \in ReaderType /\ flight' \in FlightType
  BY <1>1, <1>2, ToolTypes
<1>5. (reads \in 0..MaxReads /\ faults \in 0..MaxFaults /\ lookedBack \in Nat /\ cdcStart \in Starts)'
  BY <1>1, <1>2, <1>3 DEF TypeOK
<1>6. (dropped \cup overtaken)' \subseteq Lines /\ saved' \in SavedType
  <2>1. dropped \cup overtaken \subseteq Lines /\ saved \in SavedType
    BY <1>1, TypesAre DEF TypeOK
  <2> QED BY <2>1, <1>2
<1>7. TypeOK'
  BY <1>3, <1>4, <1>5, <1>6 DEF TypeOK, ReaderType, FlightType, SavedType
<1>8. Taken' = Taken
  BY <1>2 DEF Taken, InAir, session
<1>9. \A l \in Shown : at'[l] = at[l] /\ shown'[l] = shown[l]
  BY <1>1, <1>3 DEF ClockInv, Shown
<1>10. Shown \subseteq Shown'
  BY <1>9 DEF Shown
<1>11. ASSUME NEW l \in Shown' \ Shown
       PROVE  /\ at'[l] = at[l] /\ at[l] # None /\ shown'[l] = now /\ now < at[l] + Grace
              /\ Past(at[l]) => l \in overtaken'
  <2>1. l \in Lines /\ shown[l] = None /\ shown'[l] # None
    BY DEF Shown
  <2> QED BY <2>1, <1>2, <1>3
<1>12. reads <= reads' /\ lookedBack <= lookedBack' /\ overtaken \subseteq overtaken'
  BY <1>1, <1>2 DEF TypeOK
<1>13. Onward
  BY <1>3, <1>8, <1>9, <1>10, <1>11, <1>12 DEF Onward
<1> QED BY <1>7, <1>8, <1>13

\* A controller built anew.
LEMMA SeededFacts ==
  ASSUME NEW c \in Time, NEW s \in SUBSET Lines
  PROVE  /\ Seeded(c, s) \in ReaderType
         /\ Seeded(c, s).cursor = c /\ Seeded(c, s).seen = s /\ Seeded(c, s).resume = None
         /\ ~Seeded(c, s).ok
<1>1. None \in Time
  BY DEF Time
<1> QED BY <1>1 DEF Seeded, ReaderType

\* The bound on faults.
LEMMA FaultTypes ==
  ASSUME TypeOK, MayFault, faults' = faults + 1
  PROVE  faults' \in 0..MaxFaults
<1>1. faults \in Nat /\ MaxFaults \in Nat /\ faults < MaxFaults
  BY LogAssumption DEF TypeOK, MayFault
<1>2. faults + 1 \in 0..MaxFaults
  BY <1>1
<1> QED BY <1>2

\* A controller built anew keeps the types, and no line that was taken up is given up.
LEMMA RebuildTypes ==
  ASSUME IInv, Rebuild
  PROVE  TypeOK' /\ Onward /\ Taken' = Taken
<1>1. TypeOK
  BY DEF IInv
<1>2. /\ MayFault /\ faults' = faults + 1 /\ reader' = Seeded(cursor, seen)
      /\ UNCHANGED <<world, reads, flight, claim, session, saved, dropped, overtaken, lookedBack, restarted>>
  BY DEF Rebuild
<1>3. (now \in Moments /\ cdcStart \in Starts /\ at \in [Lines -> Time] /\ shown \in [Lines -> Time])'
  BY <1>1, <1>2, WorldTypes
<1>4. (restarted \in BOOLEAN /\ claim \in Time /\ cursor \in Time /\ readFrom \in Time
       /\ seen \subseteq Lines /\ audited \subseteq counted /\ counted \subseteq Lines
       /\ ledger \in [Tables -> Entries] /\ lastRead \in Record \cup {None}
       /\ pending \in Reports \cup {None})'
  BY <1>1, <1>2 DEF TypeOK, session
<1>5. (reads \in 0..MaxReads /\ lookedBack \in Nat /\ dropped \cup overtaken \subseteq Lines)'
  BY <1>1, <1>2 DEF TypeOK
<1>6. reader' \in ReaderType
  <2>1. cursor \in Time /\ seen \in SUBSET Lines
    BY <1>1 DEF TypeOK
  <2> QED BY <1>2, <2>1, SeededFacts
<1>7. flight' \in FlightType /\ saved' \in SavedType
  BY <1>1, <1>2, TypesAre
<1>8. faults' \in 0..MaxFaults
  BY <1>1, <1>2, FaultTypes
<1>9. TypeOK'
  BY <1>3, <1>4, <1>5, <1>6, <1>7, <1>8 DEF TypeOK, ReaderType, FlightType, SavedType
<1>10. Taken' = Taken
  BY <1>2 DEF Taken, InAir, session
<1>11. Onward
  BY <1>1, <1>2, <1>10, StillOnward
<1> QED BY <1>9, <1>10, <1>11

\* So does a snapshot.
LEMMA SaveTypes ==
  ASSUME IInv, Save
  PROVE  TypeOK' /\ Onward /\ Taken' = Taken
<1>1. TypeOK
  BY DEF IInv
<1>2. /\ saved' = [cursor |-> cursor, ledger |-> ledger, readFrom |-> readFrom,
                   counted |-> counted, air |-> InAir \ counted]
      /\ UNCHANGED <<world, reader, reads, faults, flight, claim, session, dropped, overtaken, lookedBack, restarted>>
  BY DEF Save
<1>3. (now \in Moments /\ cdcStart \in Starts /\ at \in [Lines -> Time] /\ shown \in [Lines -> Time])'
  BY <1>1, <1>2, WorldTypes
<1>4. /\ (restarted \in BOOLEAN /\ claim \in Time /\ cursor \in Time /\ readFrom \in Time
          /\ seen \subseteq Lines /\ audited \subseteq counted /\ counted \subseteq Lines
          /\ ledger \in [Tables -> Entries] /\ lastRead \in Record \cup {None}
          /\ pending \in Reports \cup {None})'
      /\ reader' \in ReaderType /\ flight' \in FlightType
  BY <1>1, <1>2, ToolTypes
<1>5. (reads \in 0..MaxReads /\ faults \in 0..MaxFaults /\ lookedBack \in Nat /\ dropped \cup overtaken \subseteq Lines)'
  BY <1>1, <1>2 DEF TypeOK
<1>6. saved' \in SavedType
  <2>1. /\ cursor \in Time /\ ledger \in [Tables -> Entries] /\ readFrom \in Time
        /\ counted \in SUBSET Lines /\ InAir \ counted \in SUBSET Lines
    BY <1>1, TypesAre DEF TypeOK
  <2> QED BY <1>2, <2>1 DEF SavedType
<1>9. TypeOK'
  BY <1>3, <1>4, <1>5, <1>6 DEF TypeOK, ReaderType, FlightType, SavedType
<1>10. Taken' = Taken
  BY <1>2 DEF Taken, InAir, session
<1>11. Onward
  BY <1>1, <1>2, <1>10, StillOnward
<1> QED BY <1>9, <1>10, <1>11

\* A restart goes back to the snapshot.
LEMMA RestartIs ==
  ASSUME IInv, Restart
  PROVE  /\ flight' \in FlightType /\ \A f \in Flights : flight'[f] = Idle
         /\ reader' \in ReaderType /\ reader'.cursor = saved.cursor /\ reader'.seen = {}
         /\ reader'.resume = None /\ ~reader'.ok
         /\ cursor' = saved.cursor /\ seen' = {} /\ audited' = {} /\ claim' = None
         /\ ledger' = saved.ledger /\ readFrom' = saved.readFrom /\ counted' = saved.counted
         /\ lastRead' = None /\ pending' = None /\ restarted'
         /\ dropped' = dropped \cup (saved.air \cap Behind(saved.cursor))
         /\ UNCHANGED <<world, reads, saved, overtaken, lookedBack>>
         /\ MayFault /\ faults' = faults + 1
         /\ InAir' = {} /\ Taken' = saved.counted \cup dropped \cup (saved.air \cap Behind(saved.cursor))
<1>1. TypeOK
  BY DEF IInv
<1>2. saved \in SavedType /\ Idle \in Flight /\ saved.cursor \in Time
  BY <1>1, TypesAre DEF SavedType
<1>3. /\ flight' = [f \in Flights |-> Idle] /\ reader' = Seeded(saved.cursor, {})
      /\ cursor' = saved.cursor /\ seen' = {} /\ audited' = {} /\ claim' = None
      /\ ledger' = saved.ledger /\ readFrom' = saved.readFrom /\ counted' = saved.counted
      /\ lastRead' = None /\ pending' = None /\ restarted' = TRUE
      /\ dropped' = dropped \cup (saved.air \cap Behind(saved.cursor))
      /\ UNCHANGED <<world, reads, saved, overtaken, lookedBack>>
      /\ MayFault /\ faults' = faults + 1
  BY DEF Restart
<1>4. flight' \in FlightType /\ \A f \in Flights : flight'[f] = Idle
  BY <1>2, <1>3 DEF FlightType
<1>5. InAir' = {}
  <2>1. \A f \in Flights : flight'[f].lines = {}
    BY <1>4 DEF Idle
  <2> QED BY <2>1 DEF InAir
<1>6. Taken' = saved.counted \cup dropped \cup (saved.air \cap Behind(saved.cursor))
  BY <1>3, <1>5 DEF Taken
<1>7. {} \in SUBSET Lines
  OBVIOUS
<1>8. /\ reader' \in ReaderType /\ reader'.cursor = saved.cursor /\ reader'.seen = {}
      /\ reader'.resume = None /\ ~reader'.ok
  BY <1>2, <1>3, <1>7, SeededFacts
<1> QED BY <1>3, <1>4, <1>5, <1>6, <1>8

\* A restart keeps the types.
LEMMA RestartTypes ==
  ASSUME IInv, Restart
  PROVE  TypeOK'
<1>1. TypeOK
  BY DEF IInv
<1>2. saved \in SavedType
  BY <1>1, TypesAre
<1>3. /\ saved.cursor \in Time /\ saved.ledger \in [Tables -> Entries] /\ saved.readFrom \in Time
      /\ saved.counted \subseteq Lines /\ saved.air \subseteq Lines /\ None \in Time
  BY <1>2 DEF SavedType, Time
<1>4. (now \in Moments /\ cdcStart \in Starts /\ at \in [Lines -> Time] /\ shown \in [Lines -> Time])'
  BY <1>1, RestartIs, WorldTypes
<1>5. (restarted \in BOOLEAN /\ claim \in Time /\ cursor \in Time /\ readFrom \in Time)'
  <2>1. restarted' \in BOOLEAN
    BY DEF Restart
  <2> QED BY <1>3, <2>1, RestartIs
<1>6. (seen \subseteq Lines /\ audited \subseteq counted /\ counted \subseteq Lines)'
  BY <1>3, RestartIs
<1>7. (ledger \in [Tables -> Entries] /\ lastRead \in Record \cup {None} /\ pending \in Reports \cup {None})'
  BY <1>3, RestartIs
<1>8. (reads \in 0..MaxReads /\ lookedBack \in Nat)'
  BY <1>1, RestartIs DEF TypeOK
<1>9. (dropped \cup overtaken \subseteq Lines)'
  <2>1. dropped \cup overtaken \subseteq Lines
    BY <1>1 DEF TypeOK
  <2>2. dropped' \subseteq Lines /\ overtaken' \subseteq Lines
    BY <2>1, <1>3, RestartIs
  <2> QED BY <2>2
<1>10. faults' \in 0..MaxFaults
  BY <1>1, RestartIs, FaultTypes
<1>11. flight' \in FlightType /\ reader' \in ReaderType /\ saved' \in SavedType
  BY <1>2, RestartIs
<1> QED BY <1>4, <1>5, <1>6, <1>7, <1>8, <1>9, <1>10, <1>11 DEF TypeOK, ReaderType, FlightType, SavedType

\* A step that changes nothing.
LEMMA IdleTypes ==
  ASSUME IInv, UNCHANGED vars
  PROVE  TypeOK' /\ IInv'
<1>1. TypeOK' = TypeOK
  BY DEF vars, world, session, TypeOK
<1>2. ClockInv' = ClockInv
  BY DEF vars, world, session, ClockInv, Window, Shown
<1>3. InAir' = InAir /\ Taken' = Taken /\ Shown' = Shown
  BY DEF vars, world, session, InAir, Taken, Shown
<1>4. SeenInv' = SeenInv
  BY <1>3 DEF vars, world, session, SeenInv
<1>5. PositionInv' = PositionInv
  BY <1>3 DEF vars, world, session, PositionInv, Stands, Bounded, Swept, SavedTaken
<1>6. ResumeInv' = ResumeInv
  BY <1>3 DEF vars, world, session, ResumeInv
<1>7. LedgerInv' = LedgerInv
  BY DEF vars, world, session, LedgerInv, LedgerIsExact, Exact, LinesOf
<1>8. ReportsInv' = ReportsInv
  BY <1>3 DEF vars, world, session, ReportsInv, KnownBefore, Excused, Honest, HonestReport
<1> QED BY <1>1, <1>2, <1>4, <1>5, <1>6, <1>7, <1>8 DEF IInv

-----------------------------------------------------------------------------
(* Clock, seen lines and positions.                                        *)

\* ClockInv when the clock stands still.
LEMMA StillClock ==
  ASSUME TypeOK, ClockInv, UNCHANGED world, lookedBack' = lookedBack \/ lookedBack' <= now - Window
  PROVE  ClockInv'
<1>1. Window' = Window /\ now' = now /\ at' = at /\ Shown' = Shown
  BY DEF world, Window, Shown
<1>2. \A l \in Lines : at'[l] # None => OnGrid(at'[l])
  BY <1>1 DEF ClockInv
<1>3. \A l \in Shown' : at'[l] # None
  BY <1>1 DEF ClockInv
<1>4. lookedBack' <= now' - Window'
  BY <1>1 DEF ClockInv
<1> QED BY <1>2, <1>3, <1>4 DEF ClockInv

\* A line is written, and shown, on the grid.
LEMMA WorldClock ==
  ASSUME IInv, World
  PROVE  ClockInv'
<1>1. TypeOK /\ ClockInv /\ TypeOK' /\ Onward
  BY WorldStepTypes DEF IInv
<1>2. WorldNext /\ lookedBack' = lookedBack
  BY DEF World
<1>3. \A l \in Lines : at'[l] # None => OnGrid(at'[l])
  BY <1>1, <1>2, WorldFacts
<1>4. \A l \in Shown' : at'[l] # None
  BY <1>1 DEF Onward, ClockInv
<1>5. lookedBack' <= now' - Window'
  <2>1. now - Window <= now' - Window'
    BY <1>1, WindowSlides DEF Onward
  <2>2. lookedBack <= now - Window /\ lookedBack \in Nat /\ now - Window \in Nat
    BY <1>1, WindowFacts DEF TypeOK, ClockInv
  <2>3. PICK a \in Nat, b \in Nat : a = lookedBack /\ b = now - Window /\ a <= b
    BY <2>2
  <2>4. PICK d : d = now' - Window'
    OBVIOUS
  <2>5. b <= d
    BY <2>1, <2>3, <2>4
  <2>6. now' - Window' \in Int
    <3>1. now' \in Nat /\ cdcStart' = cdcStart /\ (cdcStart = None \/ cdcStart \in Nat)
      BY <1>1, MomentFacts, SinkLogAssumption DEF TypeOK, Onward
    <3>2. Window' \in Nat
      <4>1. CASE cdcStart = None
        BY <3>1, <4>1, SettingsAreNaturals DEF Window
      <4>2. CASE cdcStart # None
        <5>1. PICK m \in Nat, s \in Nat : m = now' /\ s = cdcStart
          BY <3>1, <4>2
        <5>2. Window' = Max({Lookback, Min({m - s + Slack, Furthest})})
          BY <3>1, <4>2, <5>1 DEF Window
        <5> DEFINE v == m - s + Slack
        <5>3. v \in Int
          BY SettingsAreNaturals
        <5>4. Window' = IF v <= Lookback THEN Lookback ELSE IF v <= Furthest THEN v ELSE Furthest
          BY <5>2, WindowIs
        <5>5. (IF v <= Lookback THEN Lookback ELSE IF v <= Furthest THEN v ELSE Furthest) \in Nat
          <6> HIDE DEF v
          <6> QED BY <5>3, SettingsAreNaturals
        <5> QED BY <5>4, <5>5
      <4> QED BY <4>1, <4>2
    <3> QED BY <3>1, <3>2
  <2>7. d \in Int
    BY <2>4, <2>6
  <2>8. a <= d
    BY <2>3, <2>5, <2>7
  <2> QED BY <2>3, <2>4, <2>8, <1>2
<1> QED BY <1>3, <1>4, <1>5 DEF ClockInv

\* A read begins no later than the look-back of the clock.
LEMMA ReadClock ==
  ASSUME IInv, NEW f \in Flights, Read(f)
  PROVE  ClockInv'
<1>1. TypeOK /\ ClockInv /\ SeenInv /\ PositionInv /\ ResumeInv
  BY DEF IInv
<1>2. lookedBack' <= now - Window
  BY <1>1, ReadIs, ReadReader
<1>3. UNCHANGED world
  BY DEF Read
<1> QED BY <1>1, <1>2, <1>3, StillClock

\* What the steps that read, land or restart leave of the seen lines.
LEMMA ReadSeen ==
  ASSUME IInv, NEW f \in Flights, Read(f)
  PROVE  SeenInv'
<1>1. TypeOK /\ ClockInv /\ SeenInv /\ PositionInv /\ ResumeInv
  BY DEF IInv
<1>2. PICK got \in SUBSET Shown :
        /\ flight' = [flight EXCEPT ![f] =
             [Idle EXCEPT !.stage = "read", !.lines = got \ reader.seen, !.began = now]]
        /\ Fails(got) \/ \E c \in Chains : \E r \in Resume \cup {None} : Answered(c, got, r)
  BY <1>1, ReadIs
<1>3. /\ flight[f].stage = "idle" /\ Shown' = Shown /\ seen' = seen
      /\ counted' = counted /\ dropped' = dropped /\ saved' = saved
  BY DEF Read, world, session, Shown
<1>4. /\ InAir' = InAir \cup (got \ reader.seen) /\ Taken' = Taken \cup (got \ reader.seen)
      /\ got \subseteq counted' \cup InAir' /\ flight'[f].seen = {}
      /\ \A g \in Flights \ {f} : flight'[g] = flight[g]
  BY <1>2, <1>3, ReadLines
<1>5. reader'.seen = reader.seen \cup got
  BY <1>2, ReadReader
<1>6. Taken' \subseteq Shown' /\ saved'.counted \cup saved'.air \subseteq Shown'
  BY <1>1, <1>3, <1>4 DEF SeenInv
<1>7. reader'.seen \cup seen' \subseteq counted' \cup InAir'
  BY <1>1, <1>3, <1>4, <1>5 DEF SeenInv
<1>8. \A g \in Flights : flight'[g].seen \subseteq counted' \cup InAir'
  BY <1>1, <1>3, <1>4 DEF SeenInv
<1> QED BY <1>6, <1>7, <1>8 DEF SeenInv

\* SeenInv: a report hands on what the controller has seen, which is counted or in the air.
LEMMA ReportSeen ==
  ASSUME IInv, NEW f \in Flights, Report(f)
  PROVE  SeenInv'
<1>1. SeenInv
  BY DEF IInv
<1>2. /\ InAir' = InAir /\ UNCHANGED <<world, reader, counted, saved, dropped>>
      /\ \A g \in Flights \ {f} : flight'[g] = flight[g]
  BY ReportIs
<1>3. seen' \in {seen, reader.seen} /\ flight'[f].seen \in {flight[f].seen, reader.seen}
  BY ReportIs
<1>4. Taken' = Taken /\ Shown' = Shown
  BY <1>2 DEF Taken, Shown, world
<1>5. Taken' \subseteq Shown' /\ saved'.counted \cup saved'.air \subseteq Shown'
  BY <1>1, <1>2, <1>4 DEF SeenInv
<1>6. reader'.seen \cup seen' \subseteq counted' \cup InAir'
  BY <1>1, <1>2, <1>3 DEF SeenInv
<1>7. \A g \in Flights : flight'[g].seen \subseteq counted' \cup InAir'
  BY <1>1, <1>2, <1>3 DEF SeenInv
<1> QED BY <1>5, <1>6, <1>7 DEF SeenInv

\* A landing counts the lines that leave the air.
LEMMA LandSeen ==
  ASSUME IInv, NEW f \in Flights, Lands(f)
  PROVE  SeenInv'
<1>1. SeenInv
  BY DEF IInv
<1>2. /\ flight'[f] = Idle /\ \A g \in Flights \ {f} : flight'[g] = flight[g]
      /\ counted' \cup InAir' = counted \cup InAir /\ Taken' = Taken
  BY LandLines
<1>3. /\ UNCHANGED <<world, reader, saved>> /\ Shown' = Shown
      /\ seen' \in {seen, flight[f].seen}
  BY DEF Lands, world, Shown
<1>4. Taken' \subseteq Shown' /\ saved'.counted \cup saved'.air \subseteq Shown'
  BY <1>1, <1>2, <1>3 DEF SeenInv
<1>5. reader'.seen \cup seen' \subseteq counted' \cup InAir'
  BY <1>1, <1>2, <1>3 DEF SeenInv
<1>6. flight'[f].seen = {}
  BY <1>2 DEF Idle
<1>7. \A g \in Flights : flight'[g].seen \subseteq counted' \cup InAir'
  BY <1>1, <1>2, <1>6 DEF SeenInv
<1> QED BY <1>4, <1>5, <1>7 DEF SeenInv

\* The log, a rebuild and a snapshot leave the lines where they are.
LEMMA OtherSeen ==
  ASSUME IInv, World \/ Rebuild \/ Save
  PROVE  SeenInv'
<1>1. TypeOK /\ SeenInv
  BY DEF IInv
<1>2. Taken' = Taken /\ Shown \subseteq Shown'
  BY WorldStepTypes, RebuildTypes, SaveTypes DEF Onward
<1>3. UNCHANGED <<flight, seen, counted>> /\ InAir' = InAir
  BY DEF World, Rebuild, Save, session, InAir
<1>4. reader' = reader \/ reader'.seen = seen
  BY DEF World, Rebuild, Save, Seeded
<1>5. saved' = saved \/ (saved'.counted = counted /\ saved'.air = InAir \ counted)
  BY DEF World, Rebuild, Save
<1>6. InAir \cup counted \subseteq Taken
  BY DEF Taken
<1>7. Taken' \subseteq Shown' /\ saved'.counted \cup saved'.air \subseteq Shown'
  BY <1>1, <1>2, <1>5, <1>6 DEF SeenInv
<1>8. reader'.seen \cup seen' \subseteq counted' \cup InAir'
  BY <1>1, <1>3, <1>4 DEF SeenInv
<1>9. \A g \in Flights : flight'[g].seen \subseteq counted' \cup InAir'
  BY <1>1, <1>3 DEF SeenInv
<1> QED BY <1>7, <1>8, <1>9 DEF SeenInv

\* A restart has seen nothing.
LEMMA RestartSeen ==
  ASSUME IInv, Restart
  PROVE  SeenInv'
<1>1. SeenInv
  BY DEF IInv
<1>2. Taken' = saved.counted \cup dropped \cup (saved.air \cap Behind(saved.cursor))
      /\ saved' = saved /\ Shown' = Shown /\ reader'.seen = {} /\ seen' = {}
      /\ \A f \in Flights : flight'[f] = Idle
  BY RestartIs DEF world, Shown
<1>3. Taken' \subseteq Shown' /\ saved'.counted \cup saved'.air \subseteq Shown'
  BY <1>1, <1>2 DEF SeenInv, Taken
<1>4. \A f \in Flights : flight'[f].seen = {}
  BY <1>2 DEF Idle
<1> QED BY <1>2, <1>3, <1>4 DEF SeenInv

\* A read moves the position past nothing but what it takes up, is past already or excuses.
LEMMA ReadPosition ==
  ASSUME IInv, NEW f \in Flights, Read(f)
  PROVE  PositionInv'
<1>1. TypeOK /\ ClockInv /\ SeenInv /\ PositionInv /\ ResumeInv
  BY DEF IInv
<1>2. TypeOK' /\ Onward
  BY ReadTypes
<1>3. PICK got \in SUBSET Shown :
        /\ flight' = [flight EXCEPT ![f] =
             [Idle EXCEPT !.stage = "read", !.lines = got \ reader.seen, !.began = now]]
        /\ Fails(got) \/ \E c \in Chains : \E r \in Resume \cup {None} : Answered(c, got, r)
  BY <1>1, ReadIs
<1>4. /\ flight[f].stage = "idle" /\ cursor' = cursor /\ UNCHANGED <<saved, dropped>> /\ counted' = counted
      /\ UNCHANGED world /\ reads' = reads + 1
  BY DEF Read, session
<1>5. /\ Taken' = Taken \cup (got \ reader.seen) /\ flight'[f].cursor = None
      /\ \A g \in Flights \ {f} : flight'[g] = flight[g]
      /\ got \subseteq counted' \cup InAir'
  BY <1>3, <1>4, ReadLines
<1>6. /\ StandsNext(reader.cursor, Taken') /\ StandsNext(cursor, Taken')
      /\ \A g \in Flights : StandsNext(flight[g].cursor, Taken')
      /\ StandsNext(saved'.cursor, SavedTaken')
      /\ saved'.cursor # None => \A k \in SavedTaken' : at'[k] < saved'.cursor => k \in Taken'
  BY <1>1, <1>2, <1>4, PositionsGoOn
<1>7. \A g \in Flights : StandsNext(flight'[g].cursor, Taken')
  <2>1. StandsNext(None, Taken')
    BY DEF StandsNext
  <2> QED BY <1>5, <1>6, <2>1
<1>8. CASE Fails(got)
  <2>1. reader'.cursor = reader.cursor
    BY <1>1, <1>8 DEF Fails, TypeOK
  <2> QED BY <1>4, <1>6, <1>7, <2>1, PositionInvIs
<1>9. ASSUME NEW c \in Chains, NEW r \in Resume \cup {None}, Answered(c, got, r)
      PROVE  StandsNext(reader'.cursor, Taken')
  <2> DEFINE fresh == got \ reader.seen
  <2>1. PICK p : p = reader'.cursor
    OBVIOUS
  <2>2. p = Position(c, fresh, r # None)
    BY <1>1, <1>9, <2>1, AnsweredFacts
  <2>3. c \in Resume /\ c.began \in Moments /\ c.began <= now
    <3> DEFINE lb == IF reader.cursor = None THEN c.from ELSE lookedBack
    <3>1. lb = IF reader.cursor = None THEN c.from ELSE lookedBack
      OBVIOUS
    <3> HIDE DEF lb
    <3> QED BY <1>1, <3>1, ChainFacts
  <2>4. fresh \in SUBSET Shown /\ fresh \subseteq Taken' /\ (r # None) \in BOOLEAN
    BY <1>5
  <2> HIDE DEF fresh
  <2>5. /\ p \in Time
        /\ \/ p = None /\ (r # None) /\ reader.cursor = None
           \/ p = reader.cursor
           \/ p = 0 /\ r = None
           \/ p + Grace = c.began /\ r = None
           \/ reader.cursor # None /\ reader.cursor # 0 /\ p = reader.cursor + 1 /\ r = None
           \/ \E k \in fresh : p = at[k] + 1
    <3>1. PICK capped \in BOOLEAN : capped = (r # None)
      BY <2>4
    <3>2. p = Position(c, fresh, capped)
      BY <2>2, <3>1
    <3>3. /\ p \in Time
          /\ \/ p = None /\ capped /\ reader.cursor = None
             \/ p = reader.cursor
             \/ p = 0 /\ ~capped
             \/ p + Grace = c.began /\ ~capped
             \/ reader.cursor # None /\ reader.cursor # 0 /\ p = reader.cursor + 1 /\ ~capped
             \/ \E k \in fresh : p = at[k] + 1
      BY <1>1, <2>3, <2>4, <3>2, PositionFacts
    <3> QED BY <3>1, <3>3
  <2>6. CASE p = None \/ p = reader.cursor
    BY <1>6, <2>1, <2>6 DEF StandsNext
  <2>7. CASE p # None /\ p # reader.cursor
    <3>1. p \in Nat
      BY <2>5, <2>7 DEF Time
    <3>2. PICK q \in Nat, n \in Nat, m \in Nat : q = reads /\ n = now /\ m = reads'
      BY <1>1, <1>4, WindowFacts DEF TypeOK
    <3>3. m = q + 1
      BY <1>4, <3>2
    <3>4. now' = n /\ at' = at /\ c.began <= n /\ Shown' = Shown
      BY <1>4, <2>3, <3>2 DEF world, Shown
    <3>5. \A k \in Shown : at[k] \in Nat
      BY <1>1, TakenFacts
    <3>6. BoundedNext(p, Taken')
      <4>1. CASE p = 0
        BY <4>1 DEF BoundedNext
      <4>2. CASE p + Grace = c.began
        <5>2. c.began \in Nat /\ c.began <= n
          BY <2>3, <3>2, MomentFacts
        <5>1. p + Grace <= n + m
          BY <3>3, <4>2, <5>2
        <5> QED BY <3>2, <3>4, <5>1 DEF BoundedNext
      <4>3. ASSUME NEW k \in fresh, p = at[k] + 1 PROVE BoundedNext(p, Taken')
        <5>1. PICK a \in Nat : a = at[k]
          BY <2>4, <3>5
        <5>2. a < p /\ p <= a + m
          BY <3>3, <4>3, <5>1
        <5>3. at'[k] = a /\ k \in Taken'
          BY <2>4, <3>4, <5>1
        <5> QED BY <3>2, <5>2, <5>3 DEF BoundedNext
      <4>4. CASE reader.cursor # None /\ reader.cursor # 0 /\ p = reader.cursor + 1
        <5>1. PICK o \in Nat : o = reader.cursor /\ o # 0 /\ p = o + 1
          BY <1>1, <4>4 DEF TypeOK, Time
        <5>2. Bounded(o, Taken)
          BY <1>1, <4>4, <5>1 DEF PositionInv, Stands
        <5>3. CASE o + Grace <= n + q
          <6>1. p + Grace <= n + m
            BY <3>3, <5>1, <5>3, SettingsAreNaturals
          <6> QED BY <3>2, <3>4, <6>1 DEF BoundedNext
        <5>4. ASSUME NEW k \in Taken, at[k] < o, o <= at[k] + q PROVE BoundedNext(p, Taken')
          <6>1. PICK a \in Nat : a = at[k]
            BY <1>1, TakenFacts
          <6>2. a < p /\ p <= a + m
            BY <3>3, <5>1, <5>4, <6>1
          <6>3. at'[k] = a /\ k \in Taken'
            BY <1>5, <3>4, <6>1
          <6> QED BY <3>2, <6>2, <6>3 DEF BoundedNext
        <5>5. o + Grace <= n + q \/ \E k \in Taken : at[k] < o /\ o <= at[k] + q
          BY <3>2, <5>1, <5>2 DEF Bounded
        <5> QED BY <5>3, <5>4, <5>5
      <4> QED BY <2>5, <2>7, <4>1, <4>2, <4>3, <4>4
    <3>7. SweptNext(p, Taken')
      <4> SUFFICES ASSUME NEW l \in Lines, shown'[l] # None, lookedBack' <= at'[l], at'[l] < p
                   PROVE  l \in Taken' \cup overtaken'
        BY DEF SweptNext
      <4>1. l \in Shown /\ lookedBack' <= at[l] /\ at[l] < p /\ at[l] \in Nat
        BY <3>4, <3>5 DEF Shown
      <4>2. r = None \/ \E k \in got : at[l] <= at[k]
        <5> SUFFICES ASSUME r # None PROVE \E k \in got : at[l] <= at[k]
          OBVIOUS
        <5>1. PICK k \in fresh : p = at[k] + 1
          BY <2>5, <2>7
        <5>2. k \in got /\ at[k] \in Nat
          BY <2>4, <3>5, <5>1 DEF fresh
        <5>3. at[l] <= at[k]
          BY <4>1, <5>1, <5>2
        <5> QED BY <5>2, <5>3
      <4>3. l \in Taken \cup overtaken' \cup got
        BY <1>1, <1>9, <4>1, <4>2, AnsweredSweeps
      <4>4. counted' \cup InAir' \subseteq Taken'
        BY DEF Taken
      <4> QED BY <1>5, <4>3, <4>4
    <3> QED BY <2>1, <3>6, <3>7 DEF StandsNext
  <2> QED BY <2>6, <2>7
<1>10. CASE \E c \in Chains : \E r \in Resume \cup {None} : Answered(c, got, r)
  <2>1. StandsNext(reader'.cursor, Taken')
    BY <1>9, <1>10
  <2> QED BY <1>4, <1>6, <1>7, <2>1, PositionInvIs
<1> QED BY <1>3, <1>8, <1>10

\* Where a step of the others only hands positions on.
Cursors == {None, reader.cursor, cursor} \cup {flight[f].cursor : f \in Flights}

\* PositionInv when positions are handed on and none is new.
LEMMA HandedPositions ==
  ASSUME IInv, TypeOK', Onward, UNCHANGED <<saved, dropped>>,
         reader'.cursor \in Cursors, cursor' \in Cursors, \A f \in Flights : flight'[f].cursor \in Cursors
  PROVE  PositionInv'
<1>1. TypeOK /\ ClockInv /\ SeenInv /\ PositionInv
  BY DEF IInv
<1>2. /\ StandsNext(reader.cursor, Taken') /\ StandsNext(cursor, Taken')
      /\ \A g \in Flights : StandsNext(flight[g].cursor, Taken')
      /\ StandsNext(saved'.cursor, SavedTaken')
      /\ saved'.cursor # None => \A k \in SavedTaken' : at'[k] < saved'.cursor => k \in Taken'
  BY <1>1, PositionsGoOn
<1>3. StandsNext(None, Taken')
  BY DEF StandsNext
<1>4. \A c \in Cursors : StandsNext(c, Taken')
  BY <1>2, <1>3 DEF Cursors
<1> QED BY <1>2, <1>4, PositionInvIs

\* A report hands on the controller's position.
LEMMA ReportPosition ==
  ASSUME IInv, NEW f \in Flights, Report(f)
  PROVE  PositionInv'
<1>1. TypeOK' /\ Onward
  BY ReportTypes
<1>2. UNCHANGED <<saved, dropped, reader>> /\ \A g \in Flights \ {f} : flight'[g] = flight[g]
  BY ReportIs
<1>3. cursor' \in {cursor, reader.cursor} /\ flight'[f].cursor \in {flight[f].cursor, reader.cursor}
  BY ReportIs
<1>4. cursor' \in Cursors /\ reader'.cursor \in Cursors
  BY <1>2, <1>3 DEF Cursors
<1>5. \A g \in Flights : flight'[g].cursor \in Cursors
  BY <1>2, <1>3 DEF Cursors
<1> QED BY <1>1, <1>2, <1>4, <1>5, HandedPositions

\* A landing hands on the position of its flight.
LEMMA LandPosition ==
  ASSUME IInv, NEW f \in Flights, Lands(f)
  PROVE  PositionInv'
<1>1. TypeOK' /\ Onward
  BY LandTypes
<1>2. UNCHANGED <<saved, dropped, reader>> /\ cursor' \in {cursor, flight[f].cursor}
  BY DEF Lands
<1>3. flight'[f] = Idle /\ \A g \in Flights \ {f} : flight'[g] = flight[g]
  BY LandLines
<1>4. flight'[f].cursor = None
  BY <1>3 DEF Idle
<1>5. cursor' \in Cursors /\ reader'.cursor \in Cursors
  BY <1>2 DEF Cursors
<1>6. \A g \in Flights : flight'[g].cursor \in Cursors
  BY <1>3, <1>4 DEF Cursors
<1> QED BY <1>1, <1>2, <1>5, <1>6, HandedPositions

\* The log goes on under the positions, and a rebuild takes the session's.
LEMMA OtherPosition ==
  ASSUME IInv, World \/ Rebuild
  PROVE  PositionInv'
<1>1. TypeOK' /\ Onward
  BY WorldStepTypes, RebuildTypes
<1>2. UNCHANGED <<saved, dropped, cursor, flight>>
  BY DEF World, Rebuild, session
<1>3. reader' = reader \/ reader'.cursor = cursor
  BY DEF World, Rebuild, Seeded
<1>4. cursor' \in Cursors /\ reader'.cursor \in Cursors /\ \A f \in Flights : flight'[f].cursor \in Cursors
  BY <1>2, <1>3 DEF Cursors
<1> QED BY <1>1, <1>2, <1>4, HandedPositions

\* A snapshot keeps the session's position, and what that has passed.
LEMMA SavePosition ==
  ASSUME IInv, Save
  PROVE  PositionInv'
<1>1. PositionInv
  BY DEF IInv
<1>2. /\ saved' = [cursor |-> cursor, ledger |-> ledger, readFrom |-> readFrom,
                   counted |-> counted, air |-> InAir \ counted]
      /\ UNCHANGED <<world, reader, reads, flight, cursor, counted, dropped, overtaken, lookedBack>>
  BY DEF Save, session
<1>3. at' = at /\ now' = now /\ shown' = shown
  BY <1>2 DEF world
<1>4. Taken' = Taken /\ Shown' = Shown
  BY <1>2, <1>3 DEF Taken, InAir, Shown
<1>5. saved'.cursor = cursor /\ SavedTaken' = Taken
  BY <1>2 DEF SavedTaken, Taken
<1>6. (Stands(reader.cursor, Taken) /\ Stands(cursor, Taken)
       /\ \A f \in Flights : Stands(flight[f].cursor, Taken))'
  BY <1>1, <1>2, <1>3, <1>4 DEF PositionInv, Stands, Bounded, Swept
<1>7. Stands(saved.cursor, SavedTaken)'
  BY <1>1, <1>2, <1>3, <1>4, <1>5 DEF PositionInv, Stands, Bounded, Swept
<1>8. (saved.cursor # None => \A k \in SavedTaken : at[k] < saved.cursor => k \in Taken)'
  BY <1>4, <1>5
<1> QED BY <1>6, <1>7, <1>8 DEF PositionInv

\* A restart: what the snapshot's position had passed is counted there, or dropped.
LEMMA RestartPosition ==
  ASSUME IInv, Restart
  PROVE  PositionInv'
<1>1. TypeOK /\ ClockInv /\ SeenInv /\ PositionInv
  BY DEF IInv
<1>2. /\ cursor' = saved.cursor /\ reader'.cursor = saved.cursor /\ saved' = saved
      /\ \A f \in Flights : flight'[f] = Idle
      /\ dropped' = dropped \cup (saved.air \cap Behind(saved.cursor))
      /\ Taken' = saved.counted \cup dropped \cup (saved.air \cap Behind(saved.cursor))
  BY RestartIs
<1>3. at' = at /\ now' = now /\ shown' = shown /\ reads' = reads /\ overtaken' = overtaken /\ lookedBack' = lookedBack
  BY RestartIs DEF world
<1>4. \A f \in Flights : flight'[f].cursor = None
  BY <1>2 DEF Idle
<1>5. SavedTaken' = SavedTaken
  BY <1>2 DEF SavedTaken
<1>6. PICK c : c = saved.cursor
  OBVIOUS
<1>7. ASSUME c # None, NEW k \in SavedTaken, at[k] < c PROVE k \in Taken'
  <2>1. k \in Shown
    BY <1>1, TakenFacts
  <2>2. k \in saved.air => k \in Behind(saved.cursor)
    BY <1>6, <1>7, <2>1 DEF Behind
  <2> QED BY <1>2, <2>2 DEF SavedTaken
<1>8. Stands(c, SavedTaken)
  BY <1>1, <1>6 DEF PositionInv
<1>9. StandsNext(c, Taken')
  <2> SUFFICES ASSUME c # None PROVE BoundedNext(c, Taken') /\ SweptNext(c, Taken')
    BY DEF StandsNext
  <2>1. Bounded(c, SavedTaken) /\ Swept(c, SavedTaken)
    BY <1>8 DEF Stands
  <2>2. BoundedNext(c, Taken')
    <3>1. c = 0 \/ c + Grace <= now + reads \/ \E k \in SavedTaken : at[k] < c /\ c <= at[k] + reads
      BY <2>1 DEF Bounded
    <3>2. c = 0 \/ c + Grace <= now + reads \/ \E k \in Taken' : at[k] < c /\ c <= at[k] + reads
      BY <1>7, <3>1
    <3> QED BY <1>3, <3>2 DEF BoundedNext
  <2>3. SweptNext(c, Taken')
    <3> SUFFICES ASSUME NEW l \in Lines, shown'[l] # None, lookedBack' <= at'[l], at'[l] < c
                 PROVE  l \in Taken' \cup overtaken'
      BY DEF SweptNext
    <3>1. l \in Shown /\ lookedBack <= at[l] /\ at[l] < c
      BY <1>3 DEF Shown
    <3>2. l \in SavedTaken \cup overtaken
      BY <2>1, <3>1 DEF Swept
    <3> QED BY <1>3, <1>7, <3>1, <3>2
  <2> QED BY <2>2, <2>3
<1>10. StandsNext(c, SavedTaken')
  <2>1. Taken' \subseteq SavedTaken'
    BY <1>2, <1>5 DEF SavedTaken
  <2> QED BY <1>9, <2>1 DEF StandsNext, BoundedNext, SweptNext
<1>11. StandsNext(None, Taken')
  BY DEF StandsNext
<1>12. saved'.cursor # None => \A k \in SavedTaken' : at'[k] < saved'.cursor => k \in Taken'
  BY <1>2, <1>3, <1>5, <1>6, <1>7
<1>13. StandsNext(reader'.cursor, Taken') /\ StandsNext(cursor', Taken') /\ StandsNext(saved'.cursor, SavedTaken')
  BY <1>2, <1>6, <1>9, <1>10
<1>14. \A f \in Flights : StandsNext(flight'[f].cursor, Taken')
  BY <1>4, <1>11
<1> QED BY <1>12, <1>13, <1>14, PositionInvIs

-----------------------------------------------------------------------------
(* The continuation.                                                       *)

\* What a continuation r leaves behind it after the step.
ResumeNext(r) ==
  /\ r.began \in Moments /\ r.began <= now'
  /\ reader'.cursor = None => r.from = lookedBack'
  /\ \A l \in Lines :
       shown'[l] # None /\ lookedBack' <= at'[l] /\ at'[l] < r.next /\ (reader'.cursor = None \/ reader'.cursor <= at'[l])
         => l \in Taken' \cup overtaken'

\* The invariant of the continuation, from what it is after a step.
LEMMA ResumeInvIs ==
  ASSUME reader'.resume = None \/ ResumeNext(reader'.resume)
  PROVE  ResumeInv'
  BY DEF ResumeInv, ResumeNext, Shown

\* It goes on standing while the controller's position and look-back stay.
LEMMA ResumeStays ==
  ASSUME IInv, TypeOK', Onward, reader'.cursor = reader.cursor, lookedBack' = lookedBack, reader.resume # None
  PROVE  ResumeNext(reader.resume)
<1>1. TypeOK /\ ClockInv /\ SeenInv /\ ResumeInv
  BY DEF IInv
<1> DEFINE r == reader.resume
<1>2. r \in Resume /\ r.next \in Nat
  BY <1>1 DEF TypeOK, Resume
<1>3. r.began \in Moments /\ r.began <= now /\ (reader.cursor = None => r.from = lookedBack)
  BY <1>1 DEF ResumeInv
<1>4. r.began <= now'
  <2>1. now \in Nat /\ now' \in Nat /\ now <= now' /\ r.began \in Nat
    BY <1>1, <1>3, MomentFacts DEF TypeOK, Onward
  <2>2. PICK b \in Nat, n \in Nat, m \in Nat : b = r.began /\ n = now /\ m = now'
    BY <2>1
  <2>3. b <= n /\ n <= m
    BY <1>3, <2>1, <2>2
  <2>4. b <= m
    BY <2>3
  <2> QED BY <2>2, <2>4
<1> HIDE DEF r
<1>5. ASSUME NEW l \in Lines, shown'[l] # None, lookedBack' <= at'[l], at'[l] < r.next,
             reader'.cursor = None \/ reader'.cursor <= at'[l]
      PROVE  l \in Taken' \cup overtaken'
  <2>1. CASE l \in Shown
    <3>1. at'[l] = at[l]
      BY <2>1 DEF Onward
    <3>2. l \in Taken \cup overtaken
      BY <1>1, <1>5, <2>1, <3>1 DEF ResumeInv, r
    <3> QED BY <3>2 DEF Onward
  <2>2. CASE l \notin Shown
    <3>1. l \in Shown' \ Shown
      BY <1>5, <2>2 DEF Shown
    <3>2. at'[l] = at[l] /\ (Past(at[l]) => l \in overtaken')
      BY <3>1 DEF Onward
    <3>3. Past(at[l])
      BY <1>5, <3>2 DEF Past, r
    <3> QED BY <3>2, <3>3
  <2> QED BY <2>1, <2>2
<1>6. reader'.cursor = None => r.from = lookedBack'
  BY <1>3
<1> QED BY <1>3, <1>4, <1>5, <1>6 DEF ResumeNext, r

\* ResumeInv after a read: a new continuation left nothing behind, an old one stays or is gone.
LEMMA ReadResume ==
  ASSUME IInv, NEW f \in Flights, Read(f)
  PROVE  ResumeInv'
<1>1. TypeOK /\ ClockInv /\ SeenInv /\ PositionInv /\ ResumeInv
  BY DEF IInv
<1>2. TypeOK' /\ Onward
  BY ReadTypes
<1>3. PICK got \in SUBSET Shown :
        /\ flight' = [flight EXCEPT ![f] =
             [Idle EXCEPT !.stage = "read", !.lines = got \ reader.seen, !.began = now]]
        /\ Fails(got) \/ \E c \in Chains : \E r \in Resume \cup {None} : Answered(c, got, r)
  BY <1>1, ReadIs
<1>4. /\ flight[f].stage = "idle" /\ counted' = counted /\ dropped' = dropped /\ UNCHANGED world
  BY DEF Read, session
<1>5. Taken' = Taken \cup (got \ reader.seen) /\ got \subseteq counted' \cup InAir'
  BY <1>3, <1>4, ReadLines
<1>6. CASE Fails(got)
  <2>1. PICK r \in {Continuation, None} : reader' = [reader EXCEPT !.ok = FALSE, !.resume = r]
    BY <1>6 DEF Fails
  <2>2. reader \in ReaderType
    BY <1>1, TypesAre
  <2>3. reader'.cursor = reader.cursor /\ reader'.resume = r /\ lookedBack' = lookedBack
    BY <1>6, <2>1, <2>2 DEF Fails, ReaderType
  <2>4. r = None \/ r = reader.resume
    BY <2>1 DEF Continuation
  <2>5. CASE r = None
    BY <2>3, <2>5, ResumeInvIs
  <2>6. CASE r # None
    <3>1. ResumeNext(reader.resume)
      BY <1>2, <2>3, <2>4, <2>6, ResumeStays
    <3> QED BY <2>3, <2>4, <2>6, <3>1, ResumeInvIs
  <2> QED BY <2>5, <2>6
<1>7. ASSUME NEW c \in Chains, NEW r \in Resume \cup {None}, Answered(c, got, r)
      PROVE  reader'.resume = None \/ ResumeNext(reader'.resume)
  <2>1. /\ reader'.resume = r /\ reader'.cursor = Position(c, got \ reader.seen, r # None)
        /\ lookedBack' = (IF reader.cursor = None THEN c.from ELSE lookedBack)
    BY <1>1, <1>7, AnsweredFacts
  <2> SUFFICES ASSUME r # None PROVE ResumeNext(r)
    BY <2>1
  <2>2. r.from = c.from /\ r.began = c.began
    BY <1>7 DEF Answered
  <2>3. c.began \in Moments /\ c.began <= now
    <3> DEFINE lb == IF reader.cursor = None THEN c.from ELSE lookedBack
    <3>1. lb = IF reader.cursor = None THEN c.from ELSE lookedBack
      OBVIOUS
    <3> HIDE DEF lb
    <3> QED BY <1>1, <3>1, ChainFacts
  <2>4. now' = now /\ at' = at /\ shown' = shown
    BY <1>4 DEF world
  <2>5. reader'.cursor = None => reader.cursor = None
    BY <1>1, <1>7, AnsweredFacts
  <2>6. ASSUME NEW l \in Lines, shown'[l] # None, lookedBack' <= at'[l], at'[l] < r.next
        PROVE  l \in Taken' \cup overtaken'
    <3>1. l \in Shown /\ lookedBack' <= at[l] /\ at[l] < r.next
      BY <2>4, <2>6 DEF Shown
    <3>2. l \in Taken \cup overtaken' \cup got
      BY <1>1, <1>7, <3>1, AnsweredSweeps
    <3>3. counted' \cup InAir' \subseteq Taken'
      BY DEF Taken
    <3> QED BY <1>5, <3>2, <3>3
  <2> QED BY <2>1, <2>2, <2>3, <2>4, <2>5, <2>6 DEF ResumeNext
<1>8. CASE \E c \in Chains : \E r \in Resume \cup {None} : Answered(c, got, r)
  BY <1>7, <1>8, ResumeInvIs
<1> QED BY <1>3, <1>6, <1>8

\* A continuation stands while the controller rests.
LEMMA OtherResume ==
  ASSUME IInv, TypeOK', Onward, reader' = reader, lookedBack' = lookedBack
  PROVE  ResumeInv'
<1>1. CASE reader.resume = None
  BY <1>1, ResumeInvIs
<1>2. CASE reader.resume # None
  BY <1>2, ResumeStays, ResumeInvIs
<1> QED BY <1>1, <1>2

\* A controller built anew has none.
LEMMA AnewResume ==
  ASSUME IInv, Rebuild \/ Restart
  PROVE  ResumeInv'
<1>1. reader'.resume = None
  BY RestartIs DEF Rebuild, Seeded
<1> QED BY <1>1, ResumeInvIs

-----------------------------------------------------------------------------
(* The ledger.                                                             *)

\* The lines of two sets that share none are those of each together.
LEMMA LinesOfApart ==
  ASSUME NEW C \in SUBSET Lines, NEW S \in SUBSET Lines, NEW tb, C \cap S = {}
  PROVE  Cardinality(LinesOf(tb, C \cup S)) = Cardinality(LinesOf(tb, C)) + Cardinality(LinesOf(tb, S))
<1> DEFINE A == LinesOf(tb, C)  B == LinesOf(tb, S)
<1>1. LinesOf(tb, C \cup S) = A \cup B /\ A \cap B = {}
  BY DEF LinesOf
<1>2. IsFiniteSet(A) /\ IsFiniteSet(B) /\ Cardinality(A) \in Nat /\ Cardinality(B) \in Nat
  BY LinesAreFinite
<1> HIDE DEF A, B
<1>3. Cardinality(A \cap B) = 0
  BY <1>1, FS_EmptySet
<1>4. Cardinality(A \cup B) = Cardinality(A) + Cardinality(B) - Cardinality(A \cap B)
  BY <1>2, FS_Union
<1>5. Cardinality(A \cup B) = Cardinality(A) + Cardinality(B)
  BY <1>2, <1>3, <1>4
<1> QED BY <1>1, <1>5 DEF A, B

LatestOf(tb, C) == Latest({at[l] : l \in LinesOf(tb, C)})
KeepsLatest(e, tb, C) == e[tb].last = LatestOf(tb, C)

\* Counting lines in, the time of a table's latest stays right.
LEMMA FoldedIs ==
  ASSUME NEW e \in [Tables -> Entries], NEW C \in SUBSET Lines, NEW S \in SUBSET Lines,
         \A l \in C \cup S : at[l] \in Nat, NEW tb \in Tables,
         KeepsLatest(e, tb, C)
  PROVE  KeepsLatest(Folded(e, S), tb, C \cup S)
<1> DEFINE A == {at[l] : l \in LinesOf(tb, C)}
           B == {at[l] : l \in LinesOf(tb, S)}
<1>1. A \subseteq Time /\ B \subseteq Time
  BY DEF LinesOf, Time
<1>2. IsFiniteSet(A) /\ IsFiniteSet(B)
  BY LinesAreFinite, TimesAreFinite
<1>3. {at[l] : l \in LinesOf(tb, C \cup S)} = A \cup B
  BY DEF LinesOf
<1>4. Folded(e, S)[tb] = [count |-> e[tb].count + Cardinality(LinesOf(tb, S)), last |-> Latest({e[tb].last} \cup B)]
  BY DEF Folded
<1>5. e[tb].last = Latest(A)
  BY DEF KeepsLatest, LatestOf
<1> HIDE DEF A, B
<1>6. Latest({Latest(A)} \cup B) = Latest(A \cup B)
  BY <1>1, <1>2, LatestOfBoth
<1>7. Folded(e, S)[tb].last = Latest({e[tb].last} \cup B)
  BY <1>4
<1>8. Folded(e, S)[tb].last = Latest(A \cup B)
  BY <1>5, <1>6, <1>7
<1> QED BY <1>3, <1>8 DEF KeepsLatest, LatestOf

\* What the ledger holds, in the state after a step.
ExactNext(e, C) ==
  \A tb \in Tables : /\ e[tb].count >= Cardinality(LinesOf(tb, C))
                     /\ e[tb].last = Latest({at'[l] : l \in LinesOf(tb, C)})

\* A ledger stays exact while its lines keep their times.
LEMMA ExactStays ==
  ASSUME NEW e, NEW C, Exact(e, C), \A l \in C : at'[l] = at[l]
  PROVE  ExactNext(e, C)
<1> SUFFICES ASSUME NEW tb \in Tables
             PROVE  /\ e[tb].count >= Cardinality(LinesOf(tb, C))
                    /\ e[tb].last = Latest({at'[l] : l \in LinesOf(tb, C)})
  BY DEF ExactNext
<1>1. {at'[l] : l \in LinesOf(tb, C)} = {at[l] : l \in LinesOf(tb, C)}
  BY DEF LinesOf
<1> QED BY <1>1 DEF Exact

\* The session's ledger and the snapshot's are exact.
LEMMA LedgerExact ==
  ASSUME LedgerInv
  PROVE  Exact(ledger, counted) /\ Exact(saved.ledger, saved.counted)
  BY DEF LedgerInv, LedgerIsExact, Exact

\* The invariant of the ledger, from what it is after a step.
LEMMA LedgerInvIs ==
  ASSUME ExactNext(ledger', counted'), ExactNext(saved'.ledger, saved'.counted),
         ~restarted' => \A tb \in Tables : ledger'[tb].count = Cardinality(LinesOf(tb, counted')),
         ~restarted' => audited' = counted',
         saved'.counted \subseteq counted', saved'.readFrom \in {None, readFrom'},
         \A tb \in Tables : saved'.ledger[tb].count <= ledger'[tb].count
  PROVE  LedgerInv'
<1>1. LedgerIsExact'
  BY DEF LedgerIsExact, ExactNext, LinesOf
<1>2. Exact(saved.ledger, saved.counted)'
  BY DEF Exact, ExactNext, LinesOf
<1> QED BY <1>1, <1>2 DEF LedgerInv

\* A step that leaves the ledger alone.
LEMMA LedgerStays ==
  ASSUME IInv, UNCHANGED <<ledger, counted, audited, readFrom, restarted, saved>>, \A l \in Shown : at'[l] = at[l]
  PROVE  LedgerInv'
<1>1. SeenInv /\ LedgerInv
  BY DEF IInv
<1>2. counted \subseteq Shown /\ saved.counted \subseteq Shown
  BY <1>1 DEF SeenInv, Taken
<1>3. ExactNext(ledger, counted) /\ ExactNext(saved.ledger, saved.counted)
  BY <1>1, <1>2, LedgerExact, ExactStays
<1>4. /\ ~restarted => \A tb \in Tables : ledger[tb].count = Cardinality(LinesOf(tb, counted))
      /\ ~restarted => audited = counted
      /\ saved.counted \subseteq counted /\ saved.readFrom \in {None, readFrom}
      /\ \A tb \in Tables : saved.ledger[tb].count <= ledger[tb].count
  BY <1>1 DEF LedgerInv, LedgerIsExact
<1> QED BY <1>3, <1>4, LedgerInvIs

\* The snapshot takes the session's ledger.
LEMMA SaveLedger ==
  ASSUME IInv, Save
  PROVE  LedgerInv'
<1>1. TypeOK /\ SeenInv /\ LedgerInv
  BY DEF IInv
<1>2. /\ saved' = [cursor |-> cursor, ledger |-> ledger, readFrom |-> readFrom,
                   counted |-> counted, air |-> InAir \ counted]
      /\ at' = at /\ ledger' = ledger /\ counted' = counted /\ audited' = audited
      /\ readFrom' = readFrom /\ restarted' = restarted
  BY DEF Save, session, world
<1>3. ExactNext(ledger, counted)
  BY <1>1, <1>2, LedgerExact, ExactStays
<1>4. /\ ~restarted => \A tb \in Tables : ledger[tb].count = Cardinality(LinesOf(tb, counted))
      /\ ~restarted => audited = counted
  BY <1>1 DEF LedgerInv, LedgerIsExact
<1>5. saved'.ledger = ledger /\ saved'.counted = counted /\ saved'.readFrom = readFrom
  BY <1>2
<1>6. \A tb \in Tables : ledger[tb].count <= ledger[tb].count
  BY <1>1 DEF TypeOK, Entries
<1> QED BY <1>2, <1>3, <1>4, <1>5, <1>6, LedgerInvIs

\* A restart takes the snapshot's.
LEMMA RestartLedger ==
  ASSUME IInv, Restart
  PROVE  LedgerInv'
<1>1. TypeOK /\ LedgerInv
  BY DEF IInv
<1>2. /\ ledger' = saved.ledger /\ counted' = saved.counted /\ readFrom' = saved.readFrom
      /\ restarted' /\ saved' = saved /\ at' = at
  BY RestartIs DEF world
<1>3. ExactNext(saved.ledger, saved.counted)
  BY <1>1, <1>2, LedgerExact, ExactStays
<1>4. \A tb \in Tables : saved.ledger[tb].count <= saved.ledger[tb].count
  <2>1. saved.ledger \in [Tables -> Entries]
    BY <1>1 DEF TypeOK
  <2> QED BY <2>1 DEF Entries
<1> QED BY <1>2, <1>3, <1>4, LedgerInvIs

\* A landing counts each line of its flight that no landing counted before, and no other.
LEMMA LandLedger ==
  ASSUME IInv, NEW f \in Flights, Lands(f)
  PROVE  LedgerInv'
<1>1. TypeOK /\ ClockInv /\ SeenInv /\ LedgerInv
  BY DEF IInv
<1> DEFINE L == flight[f].lines
           S == L \ audited
<1>2. /\ counted' = counted \cup L /\ audited' = audited \cup L /\ ledger' = Folded(ledger, S)
      /\ L \subseteq Shown
  BY LandLines
<1>3. saved' = saved /\ at' = at /\ restarted' = restarted
  BY DEF Lands, world
<1>4. /\ L \subseteq Lines /\ counted \subseteq Lines /\ counted \subseteq Shown /\ audited \subseteq counted
      /\ saved.counted \subseteq counted
  BY <1>1, <1>2 DEF TypeOK, SeenInv, Taken, Shown, LedgerInv
<1>5. \A l \in counted \cup S : at[l] \in Nat
  BY <1>1, <1>2, <1>4, TakenFacts
<1>6. S \in SUBSET Lines /\ counted' = counted \cup S
  BY <1>2, <1>4
<1>7. ledger \in [Tables -> Entries] /\ Exact(ledger, counted) /\ Exact(saved.ledger, saved.counted)
  BY <1>1, LedgerExact DEF TypeOK
<1> HIDE DEF S
<1>8. ASSUME NEW tb \in Tables
      PROVE  /\ ledger'[tb].count = ledger[tb].count + Cardinality(LinesOf(tb, S))
             /\ ledger'[tb].last = LatestOf(tb, counted \cup S)
  <2>1. ledger[tb].last = LatestOf(tb, counted)
    BY <1>7 DEF Exact, LatestOf
  <2>2. counted \in SUBSET Lines
    BY <1>4
  <2>3. /\ Folded(ledger, S)[tb].count = ledger[tb].count + Cardinality(LinesOf(tb, S))
        /\ Folded(ledger, S)[tb].last = LatestOf(tb, counted \cup S)
    <3>1. Folded(ledger, S)[tb].last = LatestOf(tb, counted \cup S)
      <4>1. S \in SUBSET Lines /\ ledger \in [Tables -> Entries] /\ KeepsLatest(ledger, tb, counted)
        BY <1>6, <1>7, <2>1 DEF KeepsLatest
      <4>2. KeepsLatest(Folded(ledger, S), tb, counted \cup S)
        BY <1>5, <4>1, <2>2, FoldedIs
      <4> QED BY <4>2 DEF KeepsLatest
    <3>2. Folded(ledger, S)[tb].count = ledger[tb].count + Cardinality(LinesOf(tb, S))
      BY DEF Folded
    <3> QED BY <3>1, <3>2
  <2> QED BY <1>2, <2>3
<1>9. ASSUME NEW tb \in Tables
      PROVE  /\ ledger[tb].count \in Nat /\ Cardinality(LinesOf(tb, S)) \in Nat
             /\ Cardinality(LinesOf(tb, counted)) \in Nat /\ Cardinality(LinesOf(tb, counted \cup S)) \in Nat
  <2>1. counted \in SUBSET Lines /\ S \in SUBSET Lines /\ counted \cup S \in SUBSET Lines
    BY <1>4, <1>6
  <2> QED BY <1>7, <2>1, LinesAreFinite DEF Entries
<1>10. ExactNext(ledger', counted')
  <2> SUFFICES ASSUME NEW tb \in Tables
               PROVE  /\ ledger'[tb].count >= Cardinality(LinesOf(tb, counted'))
                      /\ ledger'[tb].last = Latest({at'[l] : l \in LinesOf(tb, counted')})
    BY DEF ExactNext
  <2>1. ledger[tb].count >= Cardinality(LinesOf(tb, counted))
    BY <1>7 DEF Exact
  <2>2. Cardinality(LinesOf(tb, counted \cup S)) <= Cardinality(LinesOf(tb, counted)) + Cardinality(LinesOf(tb, S))
    BY <1>4, <1>6, LinesOfBoth
  <2>4. PICK e \in Nat, s \in Nat, c \in Nat, b \in Nat :
          /\ e = ledger[tb].count /\ s = Cardinality(LinesOf(tb, S))
          /\ c = Cardinality(LinesOf(tb, counted)) /\ b = Cardinality(LinesOf(tb, counted \cup S))
    BY <1>9
  <2>5. e >= c /\ b <= c + s
    BY <2>1, <2>2, <2>4
  <2>6. e + s >= b
    BY <2>5
  <2>3. ledger[tb].count + Cardinality(LinesOf(tb, S)) >= Cardinality(LinesOf(tb, counted \cup S))
    BY <2>4, <2>6
  <2>7. Latest({at'[l] : l \in LinesOf(tb, counted')}) = LatestOf(tb, counted \cup S)
    BY <1>3, <1>6 DEF LatestOf
  <2> QED BY <1>6, <1>8, <2>3, <2>7
<1>11. ASSUME ~restarted', NEW tb \in Tables PROVE ledger'[tb].count = Cardinality(LinesOf(tb, counted'))
  <2>1. ledger[tb].count = Cardinality(LinesOf(tb, counted)) /\ audited = counted
    BY <1>1, <1>3, <1>11 DEF LedgerInv, LedgerIsExact
  <2>2. counted \cap S = {}
    BY <2>1 DEF S
  <2>3. Cardinality(LinesOf(tb, counted \cup S)) = Cardinality(LinesOf(tb, counted)) + Cardinality(LinesOf(tb, S))
    BY <1>4, <1>6, <2>2, LinesOfApart
  <2> QED BY <1>6, <1>8, <2>1, <2>3
<1>12. ~restarted' => audited' = counted'
  BY <1>1, <1>2, <1>3 DEF LedgerInv
<1>13. saved'.counted \subseteq counted'
  BY <1>2, <1>3, <1>4
<1>14. saved'.readFrom \in {None, readFrom'}
  <2>1. readFrom' = readFrom \/ readFrom = None
    BY DEF Lands, Promote
  <2> QED BY <1>1, <1>3, <2>1 DEF LedgerInv
<1>15. ASSUME NEW tb \in Tables PROVE saved'.ledger[tb].count <= ledger'[tb].count
  <2>1. saved.ledger[tb].count <= ledger[tb].count
    BY <1>1 DEF LedgerInv
  <2>2. saved.ledger[tb].count \in Nat
    BY <1>1 DEF TypeOK, Entries
  <2>3. saved.ledger[tb].count <= ledger[tb].count + Cardinality(LinesOf(tb, S))
    BY <1>9, <2>1, <2>2
  <2> QED BY <1>3, <1>8, <2>3
<1>16. ExactNext(saved'.ledger, saved'.counted)
  BY <1>3, <1>7, ExactStays
<1> QED BY <1>10, <1>11, <1>12, <1>13, <1>14, <1>15, <1>16, LedgerInvIs

-----------------------------------------------------------------------------
(* What the reads proved.                                                  *)

\* An outcome that is right, in the state after a step.
HonestNext(r) == r.began <= now' /\ (r.complete => r.ok /\ KnownNext(r.began))
HonestReportNext(r) == HonestNext(r.read) /\ (r.read.complete => r.from # None)
ReaderNext(o) ==
  /\ o.ok => o.began \in Moments /\ o.began <= now'
  /\ o.ok /\ ~o.capped => o.history # None /\ KnownNext(o.began)
FlightNext(f, x) ==
  /\ x.stage = "idle" => x = Idle
  /\ x.stage # "idle" => x.began \in Moments /\ x.began <= now'
  /\ f \in Checks /\ x.stage = "landing" => x.report # None
  /\ x.report # None => HonestReportNext(x.report)

\* The invariant of the outcomes, from what they are after a step.
LEMMA ReportsInvIs ==
  ASSUME ReaderNext(reader'), \A f \in Flights : FlightNext(f, flight'[f]),
         pending' # None => HonestReportNext(pending'),
         lastRead' # None => HonestNext(lastRead') /\ (lastRead'.complete => readFrom' # None)
  PROVE  ReportsInv'
<1>1. ASSUME NEW b, KnownNext(b)
      PROVE  \A l \in Shown' : shown'[l] < b => l \in counted' \cup Excused'
  BY <1>1 DEF KnownNext, Excused, Taken, Shown
<1>2. ASSUME NEW r, HonestNext(r)
      PROVE  /\ r.began <= now'
             /\ r.complete => r.ok /\ \A l \in Shown' : shown'[l] < r.began => l \in counted' \cup Excused'
  BY <1>1, <1>2 DEF HonestNext
<1>3. ASSUME NEW r, HonestReportNext(r)
      PROVE  /\ r.read.began <= now'
             /\ r.read.complete => r.read.ok /\ \A l \in Shown' : shown'[l] < r.read.began => l \in counted' \cup Excused'
             /\ r.read.complete => r.from # None
  BY <1>2, <1>3 DEF HonestReportNext
<1>4. (/\ reader.ok => reader.began \in Moments /\ reader.began <= now
       /\ reader.ok /\ ~reader.capped => reader.history # None /\ KnownBefore(reader.began))'
  BY <1>1 DEF ReaderNext, KnownBefore
<1>5. ASSUME NEW f \in Flights
      PROVE  (/\ flight[f].stage = "idle" => flight[f] = Idle
              /\ flight[f].stage # "idle" => flight[f].began \in Moments /\ flight[f].began <= now
              /\ f \in Checks /\ flight[f].stage = "landing" => flight[f].report # None
              /\ flight[f].report # None => HonestReport(flight[f].report))'
  BY <1>3 DEF FlightNext, HonestReport, Honest, KnownBefore
<1>6. (pending # None => HonestReport(pending))'
  BY <1>3 DEF HonestReport, Honest, KnownBefore
<1>7. (lastRead # None => Honest(lastRead) /\ (lastRead.complete => readFrom # None))'
  BY <1>2 DEF Honest, KnownBefore
<1> QED BY <1>4, <1>5, <1>6, <1>7 DEF ReportsInv

\* What began before now began before later.
LEMMA LaterStill ==
  ASSUME TypeOK, TypeOK', now <= now', NEW b \in Moments, b <= now
  PROVE  b <= now'
<1>1. now \in Nat /\ now' \in Nat /\ b \in Nat
  BY MomentFacts DEF TypeOK
<1>2. PICK n \in Nat, m \in Nat : n = now /\ m = now'
  BY <1>1
<1>3. b <= n /\ n <= m
  BY <1>2
<1>4. b <= m
  BY <1>1, <1>3
<1> QED BY <1>2, <1>4

\* An outcome that was right stays right.
LEMMA HonestStays ==
  ASSUME IInv, TypeOK', Onward
  PROVE  /\ \A b \in Moments : b <= now /\ KnownBefore(b) => KnownNext(b)
         /\ \A r \in Record : Honest(r) => HonestNext(r)
         /\ \A r \in Reports : HonestReport(r) => HonestReportNext(r)
<1>1. TypeOK /\ ClockInv /\ SeenInv /\ now <= now'
  BY DEF IInv, Onward
<1>2. ASSUME NEW b \in Moments, b <= now, KnownBefore(b) PROVE KnownNext(b)
  <2>1. b \in Nat
    BY MomentFacts
  <2> QED BY <1>1, <1>2, <2>1, KnowledgeStays
<1>3. ASSUME NEW r \in Record, Honest(r) PROVE HonestNext(r)
  <2>1. r.began \in Moments /\ r.began <= now
    BY <1>3 DEF Record, Honest
  <2>2. r.began <= now'
    BY <1>1, <2>1, LaterStill
  <2>3. r.complete => r.ok /\ KnownBefore(r.began)
    BY <1>3 DEF Honest
  <2> QED BY <1>2, <2>1, <2>2, <2>3 DEF HonestNext
<1>4. ASSUME NEW r \in Reports, HonestReport(r) PROVE HonestReportNext(r)
  <2>1. r.read \in Record
    BY DEF Reports
  <2> QED BY <1>3, <1>4, <2>1 DEF HonestReport, HonestReportNext
<1> QED BY <1>2, <1>3, <1>4

\* What the others hold goes on being right.
LEMMA ReportsStay ==
  ASSUME IInv, TypeOK', Onward
  PROVE  /\ ReaderNext(reader) /\ \A f \in Flights : FlightNext(f, flight[f])
         /\ pending # None => HonestReportNext(pending)
         /\ lastRead # None => HonestNext(lastRead) /\ (lastRead.complete => readFrom # None)
<1>1. TypeOK /\ ReportsInv /\ now <= now'
  BY DEF IInv, Onward
<1>2. ReaderNext(reader)
  <2>1. reader.ok => reader.began \in Moments /\ reader.began <= now
    BY <1>1 DEF ReportsInv
  <2>2. reader.ok => reader.began <= now'
    BY <1>1, <2>1, LaterStill
  <2>3. reader.ok /\ ~reader.capped => reader.history # None /\ KnownBefore(reader.began)
    BY <1>1 DEF ReportsInv
  <2> QED BY <2>1, <2>2, <2>3, HonestStays DEF ReaderNext
<1>3. ASSUME NEW f \in Flights PROVE FlightNext(f, flight[f])
  <2>1. /\ flight[f].stage = "idle" => flight[f] = Idle
        /\ flight[f].stage # "idle" => flight[f].began \in Moments /\ flight[f].began <= now
        /\ f \in Checks /\ flight[f].stage = "landing" => flight[f].report # None
        /\ flight[f].report # None => HonestReport(flight[f].report)
    BY <1>1 DEF ReportsInv
  <2>2. flight[f].stage # "idle" => flight[f].began <= now'
    BY <1>1, <2>1, LaterStill
  <2>3. flight[f].report \in Reports \cup {None}
    BY <1>1, TypesAre
  <2>4. flight[f].report # None => HonestReportNext(flight[f].report)
    BY <2>1, <2>3, HonestStays
  <2> QED BY <2>1, <2>2, <2>4 DEF FlightNext
<1>4. pending # None => HonestReportNext(pending)
  BY <1>1, HonestStays DEF TypeOK, ReportsInv
<1>5. lastRead # None => HonestNext(lastRead) /\ (lastRead.complete => readFrom # None)
  BY <1>1, HonestStays DEF TypeOK, ReportsInv
<1> QED BY <1>2, <1>3, <1>4, <1>5

\* A read that reaches the end knows each line shown before it began.
LEMMA ReadReports ==
  ASSUME IInv, NEW f \in Flights, Read(f)
  PROVE  ReportsInv'
<1>1. TypeOK /\ ClockInv /\ SeenInv /\ PositionInv /\ ResumeInv
  BY DEF IInv
<1>2. TypeOK' /\ Onward
  BY ReadTypes
<1>3. PICK got \in SUBSET Shown :
        /\ flight' = [flight EXCEPT ![f] =
             [Idle EXCEPT !.stage = "read", !.lines = got \ reader.seen, !.began = now]]
        /\ Fails(got) \/ \E c \in Chains : \E r \in Resume \cup {None} : Answered(c, got, r)
  BY <1>1, ReadIs
<1>4. /\ flight[f].stage = "idle" /\ counted' = counted /\ dropped' = dropped /\ UNCHANGED world
      /\ pending' = pending /\ lastRead' = lastRead /\ readFrom' = readFrom
  BY DEF Read, session
<1>5. /\ flight'[f].stage = "read" /\ flight'[f].began = now /\ flight'[f].report = None
      /\ \A g \in Flights \ {f} : flight'[g] = flight[g]
      /\ Taken' = Taken \cup (got \ reader.seen) /\ got \subseteq counted' \cup InAir'
  BY <1>3, <1>4, ReadLines
<1>6. now' = now /\ at' = at /\ shown' = shown /\ now \in Moments /\ now <= now
  <2>1. now \in Moments /\ now \in Nat
    BY <1>1, WindowFacts DEF TypeOK
  <2> QED BY <2>1, <1>4 DEF world
<1>7. FlightNext(f, flight'[f])
  BY <1>5, <1>6 DEF FlightNext
<1>8. \A g \in Flights : FlightNext(g, flight'[g])
  BY <1>2, <1>5, <1>7, ReportsStay
<1>9. ReaderNext(reader')
  <2>1. CASE Fails(got)
    <3>1. ~reader'.ok
      <4>1. reader \in ReaderType
        BY <1>1, TypesAre
      <4> QED BY <2>1, <4>1 DEF Fails, ReaderType
    <3> QED BY <3>1 DEF ReaderNext
  <2>2. ASSUME NEW c \in Chains, NEW r \in Resume \cup {None}, Answered(c, got, r)
        PROVE  ReaderNext(reader')
    <3>1. /\ reader'.ok /\ reader'.capped = (r # None) /\ reader'.began = c.began
          /\ r = None => reader'.history # None
      BY <1>1, <2>2, AnsweredFacts
    <3>2. c.began \in Moments /\ c.began <= now
      <4> DEFINE lb == IF reader.cursor = None THEN c.from ELSE lookedBack
      <4>1. lb = IF reader.cursor = None THEN c.from ELSE lookedBack
        OBVIOUS
      <4> HIDE DEF lb
      <4> QED BY <1>1, <4>1, ChainFacts
    <3>3. ASSUME r = None PROVE KnownNext(c.began)
      <4> SUFFICES ASSUME NEW l \in Lines, shown'[l] # None, shown'[l] < c.began
                   PROVE  l \in Taken' \cup overtaken' \/ at'[l] < lookedBack'
        BY DEF KnownNext
      <4>1. l \in Shown /\ at'[l] = at[l] /\ at[l] \in Nat /\ lookedBack' \in Nat
        <5>1. l \in Shown /\ at'[l] = at[l]
          BY <1>6 DEF Shown
        <5> QED BY <5>1, <1>1, <1>2, TakenFacts DEF TypeOK
      <4>2. CASE lookedBack' <= at[l]
        <5>1. l \in Taken \cup overtaken' \cup got
          BY <1>1, <2>2, <3>3, <4>1, <4>2, AnsweredSweeps
        <5>2. counted' \cup InAir' \subseteq Taken'
          BY DEF Taken
        <5> QED BY <1>5, <5>1, <5>2
      <4>3. CASE ~(lookedBack' <= at[l])
        <5>1. PICK b \in Nat : b = lookedBack'
          BY <4>1
        <5>2. ~(b <= at[l])
          BY <4>3, <5>1
        <5>3. at[l] < b
          BY <4>1, <5>2
        <5> QED BY <4>1, <5>1, <5>3
      <4> QED BY <4>2, <4>3
    <3> QED BY <1>6, <3>1, <3>2, <3>3 DEF ReaderNext
  <2> QED BY <1>3, <2>1, <2>2
<1>10. /\ pending' # None => HonestReportNext(pending')
       /\ lastRead' # None => HonestNext(lastRead') /\ (lastRead'.complete => readFrom' # None)
  BY <1>2, <1>4, ReportsStay
<1> QED BY <1>8, <1>9, <1>10, ReportsInvIs

\* A report says what the controller knows.
LEMMA ReportReports ==
  ASSUME IInv, NEW f \in Flights, Report(f)
  PROVE  ReportsInv'
<1>1. TypeOK' /\ Onward
  BY ReportTypes
<1>2. /\ flight[f].began \in Moments /\ flight[f].began <= now
      /\ flight' \in FlightType /\ \A g \in Flights \ {f} : flight'[g] = flight[g]
      /\ flight'[f].stage = "landing" /\ flight'[f].began = flight[f].began
      /\ UNCHANGED <<world, reader, readFrom, lastRead>>
  BY ReportIs
<1>3. /\ f \in Polls => pending' = Outcome(flight[f].began) /\ flight'[f].report = flight[f].report
      /\ f \notin Polls => pending' = pending /\ flight'[f].report = Outcome(flight[f].began)
  BY ReportIs
<1>4. Outcome(flight[f].began) # None /\ HonestReportNext(Outcome(flight[f].began))
  <2>1. TypeOK /\ ReportsInv
    BY DEF IInv
  <2>2. Outcome(flight[f].began) \in Reports /\ Outcome(flight[f].began) # None
        /\ HonestReport(Outcome(flight[f].began))
    BY <1>2, <2>1, OutcomeFacts
  <2> QED BY <1>1, <2>2, HonestStays
<1>5. FlightNext(f, flight[f])
  BY <1>1, ReportsStay
<1>6. FlightNext(f, flight'[f])
  <2>1. now' = now
    BY <1>2 DEF world
  <2>2. flight'[f].stage # "idle" /\ flight'[f].began \in Moments /\ flight'[f].began <= now'
    BY <1>2, <2>1
  <2>3. CASE f \in Polls
    <3>1. f \notin Checks
      BY <2>3, LogAssumption
    <3>2. flight'[f].report # None => HonestReportNext(flight'[f].report)
      BY <1>3, <1>5, <2>3 DEF FlightNext
    <3> QED BY <2>2, <3>1, <3>2 DEF FlightNext
  <2>4. CASE f \notin Polls
    BY <1>3, <1>4, <2>2, <2>4 DEF FlightNext
  <2> QED BY <2>3, <2>4
<1>7. \A g \in Flights : FlightNext(g, flight'[g])
  BY <1>1, <1>2, <1>6, ReportsStay
<1>8. pending' # None => HonestReportNext(pending')
  BY <1>1, <1>3, <1>4, ReportsStay
<1>9. ReaderNext(reader') /\ (lastRead' # None => HonestNext(lastRead') /\ (lastRead'.complete => readFrom' # None))
  BY <1>1, <1>2, ReportsStay
<1> QED BY <1>7, <1>8, <1>9, ReportsInvIs

\* A landing publishes a right outcome.
LEMMA LandReports ==
  ASSUME IInv, NEW f \in Flights, Lands(f)
  PROVE  ReportsInv'
<1>1. TypeOK' /\ Onward
  BY LandTypes
<1>2. flight'[f] = Idle /\ \A g \in Flights \ {f} : flight'[g] = flight[g]
  BY LandLines
<1>3. reader' = reader /\ pending' \in {pending, None}
  BY DEF Lands
<1>4. FlightNext(f, flight'[f])
  <2>1. Idle.stage = "idle" /\ Idle.report = None
    BY DEF Idle
  <2> QED BY <1>2, <2>1 DEF FlightNext
<1>5. \A g \in Flights : FlightNext(g, flight'[g])
  BY <1>1, <1>2, <1>4, ReportsStay
<1>6. ReaderNext(reader') /\ (pending' # None => HonestReportNext(pending'))
  BY <1>1, <1>3, ReportsStay
<1>7. lastRead' # None => HonestNext(lastRead') /\ (lastRead'.complete => readFrom' # None)
  <2>1. CASE UNCHANGED <<lastRead, readFrom>>
    BY <1>1, <2>1, ReportsStay
  <2>2. ASSUME NEW r \in Reports, r # None, HonestReport(r), Promote(r)
        PROVE  HonestNext(lastRead') /\ (lastRead'.complete => readFrom' # None)
    <3>1. lastRead' = r.read
      BY <2>2 DEF Promote
    <3>2. HonestReportNext(r)
      BY <1>1, <2>2, HonestStays
    <3>3. r.read.complete => r.read.ok /\ r.from # None
      BY <2>2 DEF HonestReport, Honest
    <3>4. r.read.complete => readFrom' # None
      BY <2>2, <3>3 DEF Promote
    <3> QED BY <3>1, <3>2, <3>4 DEF HonestReportNext
  <2> QED BY <2>1, <2>2, LandPublishes
<1> QED BY <1>5, <1>6, <1>7, ReportsInvIs

\* The log, a rebuild and a snapshot leave the outcomes as they are.
LEMMA OtherReports ==
  ASSUME IInv, World \/ Rebuild \/ Save
  PROVE  ReportsInv'
<1>1. TypeOK' /\ Onward
  BY WorldStepTypes, RebuildTypes, SaveTypes
<1>2. UNCHANGED <<flight, pending, lastRead, readFrom>>
  BY DEF World, Rebuild, Save, session
<1>3. reader' = reader \/ ~reader'.ok
  BY DEF World, Rebuild, Save, Seeded
<1>4. ReaderNext(reader')
  BY <1>1, <1>3, ReportsStay DEF ReaderNext
<1> QED BY <1>1, <1>2, <1>4, ReportsStay, ReportsInvIs

\* A restart forgets the outcomes.
LEMMA RestartReports ==
  ASSUME IInv, Restart
  PROVE  ReportsInv'
<1>1. (\A f \in Flights : flight'[f] = Idle) /\ ~reader'.ok /\ lastRead' = None /\ pending' = None
  BY RestartIs
<1>2. Idle.stage = "idle" /\ Idle.report = None
  BY DEF Idle
<1>3. \A f \in Flights : FlightNext(f, flight'[f])
  BY <1>1, <1>2 DEF FlightNext
<1>4. ReaderNext(reader')
  BY <1>1 DEF ReaderNext
<1> QED BY <1>1, <1>3, <1>4, ReportsInvIs

-----------------------------------------------------------------------------
(* The invariant, and what the session keeps of the lines.                 *)

\* Nothing has been read yet: the invariant holds.
LEMMA InitIInv == Init => IInv
<1> SUFFICES ASSUME Init PROVE IInv
  OBVIOUS
<1>0. PICK S \in SUBSET Lines : \E t \in [S -> Earlier] :
        /\ at = [l \in Lines |-> IF l \in S THEN t[l] ELSE None]
        /\ shown = [l \in Lines |-> IF l \in S THEN t[l] ELSE None]
  BY DEF Init, WorldInit
<1>1. PICK t \in [S -> Earlier] :
        /\ at = [l \in Lines |-> IF l \in S THEN t[l] ELSE None]
        /\ shown = [l \in Lines |-> IF l \in S THEN t[l] ELSE None]
  BY <1>0
<1>2. Earlier \subseteq Nat /\ None \notin Nat /\ Starts \subseteq Nat \cup {None} /\ 0 \in 0..MaxReads /\ 0 \in 0..MaxFaults
  BY SinkLogAssumption, LogAssumption
<1>3. at \in [Lines -> Time] /\ shown \in [Lines -> Time] /\ Shown = S /\ \A l \in S : at[l] \in Earlier
  BY <1>1, <1>2 DEF Time, Shown
<1>4. None \in Time /\ NoEntry \in Entries /\ Nothing \in [Tables -> Entries]
  BY DEF Time, Entries, NoEntry, Nothing
<1>5. Idle \in Flight /\ flight \in [Flights -> Flight]
  BY <1>4 DEF Flight, Idle, Init
<1>6. InAir = {} /\ Taken = {} /\ SavedTaken = {}
  <2>1. \A f \in Flights : flight[f].lines = {}
    BY DEF Init, Idle
  <2> QED BY <2>1 DEF InAir, Taken, SavedTaken, Init
<1>7. TypeOK
  <2>1. reader \in ReaderType
    BY <1>4, SeededFacts DEF Init
  <2>2. saved \in SavedType
    BY <1>4 DEF Init, SavedType
  <2>3. now \in Moments /\ cdcStart \in Starts /\ reads \in 0..MaxReads /\ faults \in 0..MaxFaults
    BY <1>2, FirstIsMoment DEF Init, WorldInit
  <2>4. lookedBack \in Nat /\ restarted \in BOOLEAN
    BY DEF Init
  <2> QED BY <2>1, <2>2, <2>3, <2>4, <1>3, <1>4, <1>5 DEF TypeOK, Init, ReaderType, SavedType
<1>8. ClockInv
  <2>1. \A l \in Lines : at[l] # None => OnGrid(at[l])
    BY <1>1, <1>2, LogAssumption DEF OnGrid
  <2>2. \A l \in Shown : at[l] # None
    BY <1>2, <1>3
  <2>3. lookedBack <= now - Window
    BY <1>7, WindowFacts DEF Init
  <2> QED BY <2>1, <2>2, <2>3 DEF ClockInv
<1>9. SeenInv
  BY <1>6, SeededFacts, <1>4 DEF SeenInv, Init, Idle
<1>10. PositionInv /\ ResumeInv
  BY <1>4, SeededFacts DEF PositionInv, ResumeInv, Stands, Init, Idle
<1>11. LedgerInv
  <2>1. \A tb : LinesOf(tb, {}) = {}
    BY DEF LinesOf
  <2>2. Cardinality({}) = 0
    BY FS_EmptySet
  <2>3. Latest({at[l] : l \in {}}) = None
    BY LatestOfNothing
  <2>4. Exact(Nothing, {}) /\ \A tb \in Tables : Nothing[tb].count = 0
    <3>1. \A tb \in Tables : Nothing[tb].count = 0 /\ Nothing[tb].last = None
      BY DEF Nothing, NoEntry
    <3> QED BY <3>1, <2>1, <2>2, <2>3 DEF Exact
  <2>5. ledger = Nothing /\ counted = {} /\ saved.ledger = Nothing /\ saved.counted = {}
    BY DEF Init
  <2>6. LedgerIsExact
    BY <2>4, <2>5, <2>1, <2>2, Zenon DEF LedgerIsExact, Exact
  <2>7. audited = counted /\ saved.counted \subseteq counted /\ saved.readFrom \in {None, readFrom}
    BY DEF Init
  <2> QED BY <2>4, <2>5, <2>6, <2>7 DEF LedgerInv
<1>12. ReportsInv
  BY SeededFacts, <1>4 DEF ReportsInv, Init, Idle
<1> QED BY <1>7, <1>8, <1>9, <1>10, <1>11, <1>12 DEF IInv

\* No step of the reading, of the session or of the log breaks it.
LEMMA StepIInv == IInv /\ [Next]_vars => IInv'
<1> SUFFICES ASSUME IInv, [Next]_vars PROVE IInv'
  OBVIOUS
<1>0. TypeOK /\ ClockInv
  BY DEF IInv
<1>1. ASSUME NEW f \in Flights, Read(f) PROVE IInv'
  <2>1. TypeOK' /\ Onward
    BY <1>1, ReadTypes
  <2>2. UNCHANGED <<ledger, counted, audited, readFrom, restarted, saved>> /\ \A l \in Shown : at'[l] = at[l]
    BY <1>1 DEF Read, session, world
  <2> QED BY <1>1, <2>1, <2>2, ReadClock, ReadSeen, ReadPosition, ReadResume, LedgerStays, ReadReports DEF IInv
<1>2. ASSUME NEW f \in Flights, Report(f) PROVE IInv'
  <2>1. TypeOK' /\ Onward
    BY <1>2, ReportTypes
  <2>2. UNCHANGED <<ledger, counted, audited, readFrom, restarted, saved>> /\ \A l \in Shown : at'[l] = at[l]
    BY <1>2 DEF Report, world
  <2>3. UNCHANGED world /\ reader' = reader /\ lookedBack' = lookedBack
    BY <1>2 DEF Report
  <2>4. ClockInv' /\ ResumeInv'
    BY <1>0, <2>1, <2>3, StillClock, OtherResume
  <2> QED BY <1>2, <2>1, <2>2, <2>4, ReportSeen, ReportPosition, LedgerStays, ReportReports DEF IInv
<1>3. ASSUME NEW f \in Flights, LandPoll(f) \/ LandCheck(f) PROVE IInv'
  <2>0. Lands(f)
    BY <1>3, LandingsLand
  <2>1. TypeOK' /\ Onward
    BY <2>0, LandTypes
  <2>3. UNCHANGED world /\ reader' = reader /\ lookedBack' = lookedBack
    BY <2>0 DEF Lands
  <2>4. ClockInv' /\ ResumeInv'
    BY <1>0, <2>1, <2>3, StillClock, OtherResume
  <2> QED BY <2>0, <2>1, <2>4, LandSeen, LandPosition, LandLedger, LandReports DEF IInv
<1>4. ASSUME World PROVE IInv'
  <2>1. TypeOK' /\ Onward
    BY <1>4, WorldStepTypes
  <2>2. UNCHANGED <<ledger, counted, audited, readFrom, restarted, saved>> /\ \A l \in Shown : at'[l] = at[l]
    BY <1>4, <2>1 DEF World, session, Onward
  <2>3. reader' = reader /\ lookedBack' = lookedBack
    BY <1>4 DEF World
  <2>4. ResumeInv'
    BY <2>1, <2>3, OtherResume
  <2> QED BY <1>4, <2>1, <2>2, <2>4, WorldClock, OtherSeen, OtherPosition, LedgerStays, OtherReports DEF IInv
<1>5. ASSUME Rebuild PROVE IInv'
  <2>1. TypeOK' /\ Onward
    BY <1>5, RebuildTypes
  <2>2. UNCHANGED <<ledger, counted, audited, readFrom, restarted, saved>> /\ \A l \in Shown : at'[l] = at[l]
    BY <1>5 DEF Rebuild, session, world
  <2>3. UNCHANGED world /\ lookedBack' = lookedBack
    BY <1>5 DEF Rebuild
  <2>4. ClockInv'
    BY <1>0, <2>3, StillClock
  <2> QED BY <1>5, <2>1, <2>2, <2>4, OtherSeen, OtherPosition, AnewResume, LedgerStays, OtherReports DEF IInv
<1>6. ASSUME Save PROVE IInv'
  <2>1. TypeOK' /\ Onward
    BY <1>6, SaveTypes
  <2>3. UNCHANGED world /\ reader' = reader /\ lookedBack' = lookedBack
    BY <1>6 DEF Save
  <2>4. ClockInv' /\ ResumeInv'
    BY <1>0, <2>1, <2>3, StillClock, OtherResume
  <2> QED BY <1>6, <2>1, <2>4, OtherSeen, SavePosition, SaveLedger, OtherReports DEF IInv
<1>7. ASSUME Restart PROVE IInv'
  <2>1. TypeOK'
    BY <1>7, RestartTypes
  <2>3. UNCHANGED world /\ lookedBack' = lookedBack
    BY <1>7 DEF Restart
  <2>4. ClockInv'
    BY <1>0, <2>3, StillClock
  <2> QED BY <1>7, <2>1, <2>4, RestartSeen, RestartPosition, AnewResume, RestartLedger, RestartReports DEF IInv
<1>8. CASE UNCHANGED vars
  BY <1>8, IdleTypes
<1> QED BY <1>1, <1>2, <1>3, <1>4, <1>5, <1>6, <1>7, <1>8 DEF Next

\* The inductive invariant: the clock's grid, what was seen is taken up, no position and no
\* continuation has a line behind it that is not, the ledger and the snapshot's are exact, and
\* what the reads report is what they proved.
THEOREM LogInvariant == Spec => []IInv
<1> QED BY InitIInv, StepIInv, PTL DEF Spec

\* No line falls behind the position unread, but those a younger line overtook and those a
\* restart dropped, and the ledger counts each line that has landed, once until a restart.
THEOREM LogInvHolds == Spec => []LogInv
<1>1. ASSUME IInv PROVE NothingSkipped
  <2> SUFFICES ASSUME NEW l \in Covered, reader.cursor # None, ~(at[l] >= reader.cursor)
               PROVE  l \in Taken \cup overtaken
    BY DEF NothingSkipped
  <2>1. l \in Shown /\ at[l] >= lookedBack
    BY DEF Covered
  <2>2. TypeOK /\ ClockInv /\ SeenInv /\ Swept(reader.cursor, Taken)
    BY <1>1 DEF IInv, PositionInv, Stands
  <2>3. at[l] \in Nat /\ lookedBack \in Nat /\ reader.cursor \in Nat
    BY <2>1, <2>2, TakenFacts DEF TypeOK, Time
  <2>4. lookedBack <= at[l] /\ at[l] < reader.cursor
    BY <2>1, <2>3
  <2> QED BY <2>1, <2>2, <2>4 DEF Swept
<1>2. IInv => LogInv
  BY <1>1 DEF LogInv, IInv, LedgerInv
<1> QED BY <1>2, LogInvariant, PTL

-----------------------------------------------------------------------------
(* The reading implements DeadLetterLedger, what the cut-over gate relies  *)
(* on: lines come to be counted with Fold, a landing publishes what a read *)
(* proved, and a restart goes back to the snapshot's ledger.               *)

PromiseVars == <<world, <<ledger, counted, readFrom, lastRead>>, Excused>>

\* In each state the published read speaks for the ledger.
LEMMA PromiseExcuses ==
  ASSUME IInv'
  PROVE  Promise!Excusing
<1>1. TypeOK' /\ ReportsInv'
  BY DEF IInv
<1>2. Excused' \in SUBSET Lines
  <2>1. flight' \in [Flights -> Flight] /\ (dropped \cup overtaken)' \subseteq Lines
    BY <1>1 DEF TypeOK
  <2>2. \A f \in Flights : flight'[f].lines \subseteq Lines
    BY <2>1 DEF Flight
  <2>3. InAir' \subseteq Lines
    BY <2>2 DEF InAir
  <2> QED BY <2>1, <2>3 DEF Excused, Shown
<1>3. ASSUME lastRead' # None, lastRead'.complete
      PROVE  readFrom' # None /\ \A l \in Shown' : shown'[l] < lastRead'.began => l \in counted' \cup Excused'
  BY <1>1, <1>3 DEF ReportsInv, Honest, KnownBefore
<1>4. Promise!Speaks'
  BY <1>3 DEF Promise!Speaks, Promise!Shown, Shown
<1> QED BY <1>2, <1>4 DEF Promise!Excusing

\* The ledger of the promise is folded as the session's.
LEMMA PromiseFolds == \A e, S : Promise!Folded(e, S) = Folded(e, S)
  BY Zenon DEF Promise!Folded, Folded, Promise!LinesOf, LinesOf, Promise!Latest, Latest,
       Promise!Cardinality, Cardinality, Promise!Max, Max

\* A landing counts the lines it lands that are not counted yet, and publishes a read or not.
LEMMA LandKeepsPromise ==
  ASSUME IInv, IInv', NEW f \in Flights, Lands(f)
  PROVE  Promise!Next
<1> DEFINE S == flight[f].lines \ audited
<1>1. TypeOK /\ S \in SUBSET Shown
  BY LandLines DEF IInv
<1>2. counted' = counted \cup S /\ ledger' = Folded(ledger, S) /\ UNCHANGED world
  <2>1. audited \subseteq counted
    BY <1>1 DEF TypeOK
  <2> QED BY <2>1, LandLines DEF Lands
<1>3. S \in SUBSET Promise!Shown
  BY <1>1 DEF Promise!Shown, Shown
<1>4. Promise!Count(S) /\ UNCHANGED Promise!world
  BY <1>2, PromiseFolds DEF Promise!Count, Promise!world, world
<1> HIDE DEF S
<1>5. CASE UNCHANGED <<lastRead, readFrom>>
  <2>1. Promise!LandUnpublished(S)
    BY <1>4, <1>5, PromiseExcuses DEF Promise!LandUnpublished
  <2> QED BY <2>1, <1>3 DEF Promise!Next
<1>6. ASSUME NEW r \in Reports, HonestReport(r), Promote(r) PROVE Promise!Next
  <2>1. r.read \in Record /\ r.from \in Time /\ lastRead' = r.read
    BY <1>6 DEF Reports, Promote
  <2>2. lastRead' \in {q \in Promise!Record : q.began <= now /\ (q.complete => q.ok)}
    BY <2>1, <1>6 DEF HonestReport, Honest, Record, Promise!Record, Moments, Promise!Moments
  <2>3. readFrom' \in IF readFrom = None /\ lastRead'.ok THEN Nat \cup {None} ELSE {readFrom}
    BY <2>1, <1>6 DEF Promote, Time
  <2>4. Promise!Land(S)
    BY <1>4, <2>2, <2>3, PromiseExcuses DEF Promise!Land
  <2> QED BY <2>4, <1>3 DEF Promise!Next
<1> QED BY <1>5, <1>6, LandPublishes

\* A restart goes back to a ledger that counted no more, of lines that are still counted.
LEMMA RestartKeepsPromise ==
  ASSUME IInv, IInv', Restart
  PROVE  Promise!Next
<1>1. TypeOK /\ LedgerInv
  BY DEF IInv
<1>2. /\ counted' = saved.counted /\ ledger' = saved.ledger /\ readFrom' = saved.readFrom
      /\ lastRead' = None /\ UNCHANGED world
  BY RestartIs
<1>3. counted' \in SUBSET counted /\ readFrom' \in {readFrom, None}
  BY <1>1, <1>2 DEF LedgerInv
<1>4. counted \subseteq Lines /\ ledger \in [Tables -> Entries] /\ saved.ledger \in [Tables -> Entries]
  BY <1>1 DEF TypeOK
<1> DEFINE C == saved.counted
           n == [tb \in Tables |-> saved.ledger[tb].count]
           T == {ledger[tb].count : tb \in Tables}
<1>5. ASSUME NEW tb \in Tables
      PROVE  /\ n[tb] \in Nat /\ Cardinality(LinesOf(tb, C)) \in Nat /\ ledger[tb].count \in T /\ ledger[tb].count \in Nat
             /\ Cardinality(LinesOf(tb, C)) <= n[tb] /\ n[tb] <= ledger[tb].count
             /\ saved.ledger[tb] = [count |-> n[tb], last |-> Latest({at[l] : l \in LinesOf(tb, C)})]
  <2>1. C \in SUBSET Lines
    BY <1>2, <1>3, <1>4
  <2>2. saved.ledger[tb] \in Entries /\ ledger[tb] \in Entries
    BY <1>4
  <2>3. n[tb] = saved.ledger[tb].count /\ n[tb] \in Nat /\ ledger[tb].count \in T /\ ledger[tb].count \in Nat
    BY <2>2 DEF Entries
  <2>4. /\ saved.ledger[tb].count >= Cardinality(LinesOf(tb, C)) /\ saved.ledger[tb].count <= ledger[tb].count
        /\ saved.ledger[tb].last = Latest({at[l] : l \in LinesOf(tb, C)})
    BY <1>1, LedgerExact DEF LedgerInv, Exact
  <2>5. Cardinality(LinesOf(tb, C)) \in Nat
    BY <2>1, LinesAreFinite
  <2>6. saved.ledger[tb] = [count |-> saved.ledger[tb].count, last |-> saved.ledger[tb].last]
    BY <2>2 DEF Entries
  <2> HIDE DEF n, C
  <2>7. Cardinality(LinesOf(tb, C)) <= n[tb] /\ n[tb] <= ledger[tb].count
    BY <2>3, <2>4, <2>5
  <2> QED BY <2>3, <2>4, <2>5, <2>6, <2>7
<1>6. n \in [Tables -> 0..Max(T)]
  <2>1. T \subseteq Nat /\ IsFiniteSet(T)
    <3>1. T \subseteq Nat
      BY <1>5
    <3>2. IsFiniteSet(T)
      <4> DEFINE g == [tb \in Tables |-> ledger[tb].count]
      <4>1. g \in [Tables -> T] /\ \A y \in T : \E tb \in Tables : g[tb] = y
        OBVIOUS
      <4>2. g \in Surjection(Tables, T)
        BY <4>1 DEF Surjection
      <4> QED BY <4>2, SinkLogAssumption, FS_Surjection
    <3> QED BY <3>1, <3>2
  <2>2. ASSUME NEW tb \in Tables PROVE n[tb] \in 0..Max(T)
    <3>0. ledger[tb].count \in T /\ n[tb] \in Nat /\ n[tb] <= ledger[tb].count /\ ledger[tb].count \in Nat
      BY <1>5
    <3> HIDE DEF n, T
    <3>1. Max(T) \in Nat /\ ledger[tb].count <= Max(T)
      BY <2>1, <3>0, MaxFacts
    <3>2. PICK c \in Nat, m \in Nat : c = ledger[tb].count /\ m = Max(T)
      BY <3>0, <3>1
    <3>3. n[tb] <= m
      BY <3>0, <3>1, <3>2
    <3> QED BY <3>0, <3>2, <3>3
  <2>3. n = [tb \in Tables |-> n[tb]]
    OBVIOUS
  <2> HIDE DEF n, T
  <2> QED BY <2>2, <2>3
<1>7. \A tb \in Tables : n[tb] \in Cardinality(LinesOf(tb, counted'))..ledger[tb].count
  <2> HIDE DEF n, T
  <2>1. C = counted'
    BY <1>2
  <2> HIDE DEF C
  <2>2. ASSUME NEW tb \in Tables PROVE n[tb] \in Cardinality(LinesOf(tb, C))..ledger[tb].count
    <3>1. PICK x, y, z : x = Cardinality(LinesOf(tb, C)) /\ y = n[tb] /\ z = ledger[tb].count
      OBVIOUS
    <3>2. x \in Nat /\ y \in Nat /\ z \in Nat /\ x <= y /\ y <= z
      BY <1>5, <3>1
    <3>3. y \in x..z
      BY <3>2
    <3> QED BY <3>1, <3>3
  <2> QED BY <2>1, <2>2
<1>8. ledger' = [tb \in Tables |-> [count |-> n[tb], last |-> Latest({at[l] : l \in LinesOf(tb, counted')})]]
  <2> HIDE DEF n, T
  <2>1. saved.ledger = [tb \in Tables |-> saved.ledger[tb]]
    BY <1>4
  <2> QED BY <2>1, <1>5, <1>2
<1>9. \A X : Promise!Max(X) = Max(X)
  BY Zenon DEF Promise!Max, Max
<1>10. \A X : Promise!Latest(X) = Latest(X)
  BY <1>9, Zenon DEF Promise!Latest, Latest
<1>11. \A tb, X : Promise!LinesOf(tb, X) = LinesOf(tb, X)
  BY Zenon DEF Promise!LinesOf, LinesOf
<1>12. \A X : Promise!Cardinality(X) = Cardinality(X)
  BY Zenon DEF Promise!Cardinality, Cardinality
<1> HIDE DEF n
<1>13. n \in [Tables -> 0..Promise!Max(T)]
  <2> HIDE DEF T
  <2> QED BY <1>6, <1>9
<1>14. \A tb \in Tables : n[tb] \in Promise!Cardinality(Promise!LinesOf(tb, counted'))..ledger[tb].count
  BY <1>7, <1>11, <1>12
<1>15. ledger' = [tb \in Tables |->
          [count |-> n[tb], last |-> Promise!Latest({at[l] : l \in Promise!LinesOf(tb, counted')})]]
  BY <1>8, <1>10, <1>11
<1>16. UNCHANGED Promise!world
  BY <1>2 DEF Promise!world, world
<1>17. Promise!Restart
  BY <1>2, <1>3, <1>13, <1>14, <1>15, <1>16, PromiseExcuses DEF Promise!Restart
<1> QED BY <1>17 DEF Promise!Next

\* Every step of the reading is one of the promise, or none.
LEMMA StepKeepsPromise ==
  ASSUME IInv, IInv', [Next]_vars
  PROVE  [Promise!Next]_PromiseVars
<1>1. ASSUME UNCHANGED <<world, ledger, counted, readFrom, lastRead>> PROVE Promise!Next
  <2>1. Promise!Reading
    BY <1>1, PromiseExcuses DEF Promise!Reading, Promise!world, Promise!tool, world
  <2> QED BY <2>1 DEF Promise!Next
<1>2. ASSUME NEW f \in Flights, Read(f) PROVE Promise!Next
  BY <1>1, <1>2 DEF Read, session
<1>3. ASSUME NEW f \in Flights, Report(f) PROVE Promise!Next
  BY <1>1, <1>3 DEF Report
<1>4. ASSUME NEW f \in Flights, LandPoll(f) \/ LandCheck(f) PROVE Promise!Next
  BY <1>4, LandingsLand, LandKeepsPromise
<1>5. CASE Rebuild
  BY <1>1, <1>5 DEF Rebuild, session
<1>6. CASE Save
  BY <1>1, <1>6 DEF Save, session
<1>7. CASE World
  <2>1. Promise!WorldNext
    BY <1>7 DEF World, WorldNext, Tick, DeadLetter, Show, Promise!WorldNext, Promise!Tick, Promise!DeadLetter, Promise!Show
  <2>2. UNCHANGED Promise!tool
    BY <1>7 DEF World, session, Promise!tool
  <2>3. Promise!World
    BY <2>1, <2>2, PromiseExcuses DEF Promise!World
  <2> QED BY <2>3 DEF Promise!Next
<1>8. CASE Restart
  BY <1>8, RestartKeepsPromise
<1>9. CASE UNCHANGED vars
  <2>1. UNCHANGED <<world, ledger, counted, readFrom, lastRead, flight, overtaken, dropped, lookedBack>>
    BY <1>9 DEF vars, session
  <2>2. InAir' = InAir
    BY <2>1 DEF InAir
  <2>3. Excused' = Excused
    BY <2>1, <2>2 DEF Excused, Shown, world
  <2> QED BY <2>1, <2>3 DEF PromiseVars
<1> QED BY <1>2, <1>3, <1>4, <1>5, <1>6, <1>7, <1>8, <1>9 DEF Next

\* The reading of the log implements what the cut-over gate relies on: a published read that
\* succeeded and reached the end speaks for the ledger, whatever was read, refused, landed out of
\* order, rebuilt or restarted before.
THEOREM ReadSpeaksForLedgerHolds == Spec => ReadSpeaksForLedger
<1>1. Init => Promise!Init
  <2> SUFFICES ASSUME Init PROVE Promise!Init
    OBVIOUS
  <2>1. Promise!WorldInit
    BY DEF Init, WorldInit, Promise!WorldInit
  <2>2. Excused \in SUBSET Lines
    <3>1. TypeOK
      BY InitIInv DEF IInv
    <3> QED BY <3>1, TypesAre DEF Excused, Shown, TypeOK
  <2>3. ledger = [tb \in Tables |-> Promise!NoEntry] /\ counted = {} /\ readFrom = None /\ lastRead = None
    BY DEF Init, Nothing, NoEntry, Promise!NoEntry
  <2> QED BY <2>1, <2>2, <2>3 DEF Promise!Init
<1>2. IInv /\ IInv' /\ [Next]_vars => [Promise!Next]_PromiseVars
  BY StepKeepsPromise
<1>4. IInv /\ IInv' /\ [Next]_vars => [Promise!Next]_<<Promise!world, Promise!tool, Excused>>
  BY <1>2 DEF PromiseVars, Promise!world, Promise!tool, world
<1> QED BY <1>1, <1>4, LogInvariant, PTL DEF Spec, ReadSpeaksForLedger, Promise!Spec
=============================================================================
