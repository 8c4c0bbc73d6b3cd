------------------------- MODULE CutoverGateProofs -------------------------
(***************************************************************************)
(* Proofs about CutoverGate, for any tables and dead letters, any skew no  *)
(* larger than the margin and any number of validations, reads, waivers    *)
(* and restarts: cut over is offered only if no dead letter is still stale *)
(* but the known ones.  The inductive invariant IInv says what the times   *)
(* and counts that the gate compares stand for.                            *)
(***************************************************************************)
EXTENDS CutoverGate, FiniteSetTheorems, TLAPS

-----------------------------------------------------------------------------
(* The latest of a set of times.                                           *)

\* A non-empty set of naturals has a least element.
LEMMA LeastNatural ==
  ASSUME NEW T, T \subseteq Nat, T # {}
  PROVE  \E x \in T : \A y \in T : x <= y
<1> DEFINE R == OpToRel(<, Nat)
<1>1. IsWellFoundedOn(R, Nat)
  BY NatLessThanWellFounded
<1>2. PICK x \in T : \A y \in T : ~(<<y, x>> \in R)
  <2> HIDE DEF R
  <2> QED BY <1>1, WFMin
<1>3. \A y \in T : ~(y < x)
  BY <1>2 DEF OpToRel
<1> QED BY <1>3

\* A finite set of naturals is bounded: by as many steps as it has elements.
LEMMA FiniteIsBounded ==
  ASSUME NEW S, S \subseteq Nat, IsFiniteSet(S)
  PROVE  \E b \in Nat : \A x \in S : x <= b
<1>1. PICK n \in Nat : ExistsSurjection(1..n, S)
  BY FS_NatSurjection
<1>2. PICK f \in [1..n -> S] : \A x \in S : \E i \in 1..n : f[i] = x
  BY <1>1 DEF ExistsSurjection, Surjection
<1> DEFINE bad == {m \in 0..n : \A b \in Nat : \E i \in 1..m : f[i] > b}
<1>3. ASSUME NEW i \in 1..n PROVE f[i] \in Nat
  BY <1>2
<1>4. bad = {}
  <2> SUFFICES ASSUME bad # {} PROVE FALSE
    OBVIOUS
  <2>1. bad \subseteq Nat
    OBVIOUS
  <2>2. PICK m \in bad : \A k \in bad : m <= k
    <3> HIDE DEF bad
    <3> QED BY <2>1, LeastNatural
  <2>3. m \in 0..n /\ \A b \in Nat : \E i \in 1..m : f[i] > b
    BY <2>2
  <2>4. m # 0
    BY <2>3
  <2>5. m - 1 \notin bad
    <3> HIDE DEF bad
    <3> QED BY <2>1, <2>2
  <2>6. m - 1 \in 0..n
    BY <2>3, <2>4
  <2>7. PICK b \in Nat : \A i \in 1..(m - 1) : ~(f[i] > b)
    BY <2>5, <2>6
  <2> HIDE DEF bad
  <2>8. m \in 1..n
    BY <2>3, <2>4
  <2>13. f[m] \in Nat
    BY <2>8, <1>3
  <2>14. b + f[m] \in Nat
    BY <2>13
  <2>9. PICK i \in 1..m : f[i] > b + f[m]
    BY <2>3, <2>14
  <2>10. i \in 1..n
    BY <2>3, <2>9
  <2>15. f[i] \in Nat
    BY <2>10, <1>3
  <2>11. CASE i = m
    BY <2>11, <2>9, <2>13
  <2>12. CASE i # m
    <3>1. ~(f[i] > b)
      BY <2>12, <2>7, <2>3, <2>9
    <3> QED BY <3>1, <2>13, <2>9, <2>15
  <2> QED BY <2>11, <2>12
<1>5. n \notin bad
  BY <1>4
<1>6. PICK b \in Nat : \A i \in 1..n : ~(f[i] > b)
  BY <1>5
<1> QED BY <1>2, <1>3, <1>6

\* Latest is at least each time of a finite set, and one of them.
LEMMA LatestFacts ==
  ASSUME NEW S, S \subseteq Time, IsFiniteSet(S)
  PROVE  /\ Latest(S) \in Time
         /\ \A t \in S \ {None} : Latest(S) \in Nat /\ t <= Latest(S)
         /\ Latest(S) # None => Latest(S) \in S
<1> USE SinkLogAssumption
<1>1. CASE S \subseteq {None}
  BY <1>1 DEF Latest, Time
<1>2. CASE ~(S \subseteq {None})
  <2> DEFINE T == S \ {None}
  <2>1. T \subseteq Nat /\ T # {}
    BY <1>2 DEF Time
  <2>2. IsFiniteSet(T)
    BY FS_Subset
  <2> HIDE SinkLogAssumption
  <2>3. PICK b \in Nat : \A x \in T : x <= b
    <3> HIDE DEF T
    <3> QED BY <2>1, <2>2, FiniteIsBounded
  <2> DEFINE U == {b - x : x \in T}
  <2>4. U \subseteq Nat /\ U # {}
    <3>1. \A x \in T : b - x \in Nat
      BY <2>1, <2>3
    <3> QED BY <3>1, <2>1
  <2>5. PICK u \in U : \A y \in U : u <= y
    <3> HIDE DEF U
    <3> QED BY <2>4, LeastNatural
  <2>6. PICK x \in T : u = b - x
    BY <2>5
  <2>7. \A y \in T : x >= y
    <3> SUFFICES ASSUME NEW y \in T PROVE x >= y
      OBVIOUS
    <3>1. b - x <= b - y
      BY <2>5, <2>6
    <3> QED BY <3>1, <2>1
  <2>8. Max(T) \in T /\ \A y \in T : Max(T) >= y
    <3> HIDE DEF T
    <3> QED BY <2>6, <2>7 DEF Max
  <2>9. Latest(S) = Max(T)
    BY <1>2 DEF Latest
  <2> HIDE DEF T
  <2>10. Latest(S) \in Nat /\ Latest(S) \in T /\ \A y \in T : y <= Latest(S)
    BY <2>1, <2>8, <2>9
  <2> QED BY <2>10 DEF T, Time
<1> QED BY <1>1, <1>2

\* The times of some dead letters are finitely many.
LEMMA TimesAreFinite ==
  ASSUME NEW S \in SUBSET Lines, NEW f
  PROVE  IsFiniteSet({f[l] : l \in S})
<1> DEFINE T == {f[l] : l \in S}
           g == [l \in S |-> f[l]]
<1>1. IsFiniteSet(S)
  BY FS_Subset, SinkLogAssumption
<1>2. g \in Surjection(S, T)
  BY DEF Surjection
<1> QED BY <1>1, <1>2, FS_Surjection

-----------------------------------------------------------------------------
(* The ledger.                                                             *)

LEMMA LinesAreFinite ==
  ASSUME NEW C \in SUBSET Lines, NEW tb
  PROVE  /\ LinesOf(tb, C) \in SUBSET Lines /\ IsFiniteSet(LinesOf(tb, C))
         /\ Cardinality(LinesOf(tb, C)) \in Nat
         /\ Cardinality(LinesOf(tb, C)) = 0 <=> LinesOf(tb, C) = {}
<1>1. LinesOf(tb, C) \in SUBSET Lines
  BY DEF LinesOf
<1>2. IsFiniteSet(LinesOf(tb, C))
  BY <1>1, FS_Subset, SinkLogAssumption
<1> QED BY <1>1, <1>2, FS_CardinalityType, FS_EmptySet

\* Folding lines in counts each of them, and the time is the latest of the old and the new.
LEMMA FoldedEntry ==
  ASSUME NEW e \in [Tables -> Entries], NEW S \in SUBSET Lines, \A l \in S : at[l] \in Nat,
         NEW tb \in Tables
  PROVE  \E c \in Nat, t \in Time :
           /\ c = Cardinality(LinesOf(tb, S))
           /\ Folded(e, S)[tb] = [count |-> e[tb].count + c, last |-> t]
           /\ e[tb].last # None => t # None /\ e[tb].last <= t
           /\ \A l \in LinesOf(tb, S) : t # None /\ at[l] <= t
<1> DEFINE new == LinesOf(tb, S)
           old == {e[tb].last}
           ats == {at[l] : l \in new}
           times == old \cup ats
<1>1. Folded(e, S)[tb] = [count |-> e[tb].count + Cardinality(new), last |-> Latest(times)]
  BY DEF Folded
<1>2. times \subseteq Time
  <2>1. e[tb].last \in Time
    BY DEF Entries
  <2>2. \A l \in new : at[l] \in Time
    BY DEF LinesOf, Time
  <2> QED BY <2>1, <2>2
<1>3. IsFiniteSet(times)
  <2>1. IsFiniteSet(ats)
    BY LinesAreFinite, TimesAreFinite
  <2>2. IsFiniteSet(old)
    BY FS_Singleton
  <2> HIDE DEF old, ats
  <2> QED BY <2>1, <2>2, FS_Union
<1>4. /\ Latest(times) \in Time
      /\ \A t \in times \ {None} : Latest(times) \in Nat /\ t <= Latest(times)
  <2> HIDE DEF times
  <2> QED BY <1>2, <1>3, LatestFacts
<1>5. Cardinality(new) \in Nat
  BY LinesAreFinite
<1>6. e[tb].last # None => Latest(times) # None /\ e[tb].last <= Latest(times)
  <2>1. e[tb].last \in times
    OBVIOUS
  <2> HIDE DEF times
  <2> QED BY <2>1, <1>4, SinkLogAssumption
<1>7. \A l \in new : Latest(times) # None /\ at[l] <= Latest(times)
  <2> SUFFICES ASSUME NEW l \in new PROVE Latest(times) # None /\ at[l] <= Latest(times)
    OBVIOUS
  <2>1. at[l] \in times
    OBVIOUS
  <2>2. at[l] \in Nat
    BY DEF LinesOf
  <2> HIDE DEF times
  <2> QED BY <2>1, <2>2, <1>4, SinkLogAssumption
<1> HIDE DEF times
<1> QED BY <1>1, <1>4, <1>5, <1>6, <1>7

\* The lines of two sets are no more than those of each together.
LEMMA LinesOfBoth ==
  ASSUME NEW C \in SUBSET Lines, NEW S \in SUBSET Lines, NEW tb
  PROVE  Cardinality(LinesOf(tb, C \cup S)) <= Cardinality(LinesOf(tb, C)) + Cardinality(LinesOf(tb, S))
<1> DEFINE A == LinesOf(tb, C)  B == LinesOf(tb, S)
<1>1. LinesOf(tb, C \cup S) = A \cup B
  BY DEF LinesOf
<1>2. IsFiniteSet(A) /\ IsFiniteSet(B) /\ Cardinality(A) \in Nat /\ Cardinality(B) \in Nat
  BY LinesAreFinite
<1> HIDE DEF A, B
<1>3. IsFiniteSet(A \cap B)
  BY <1>2, FS_Intersection
<1>4. Cardinality(A \cap B) \in Nat
  BY <1>3, FS_CardinalityType
<1>5. Cardinality(A \cup B) = Cardinality(A) + Cardinality(B) - Cardinality(A \cap B)
  BY <1>2, FS_Union
<1>6. Cardinality(A \cup B) <= Cardinality(A) + Cardinality(B)
  BY <1>2, <1>4, <1>5
<1> QED BY <1>1, <1>6 DEF A, B

\* Folding in keeps the types and Holds.
LEMMA FoldedHolds ==
  ASSUME NEW e \in [Tables -> Entries], NEW C \in SUBSET Lines, NEW S \in SUBSET Lines,
         \A l \in C \cup S : at[l] \in Nat, Holds(e, C)
  PROVE  /\ Folded(e, S) \in [Tables -> Entries]
         /\ Holds(Folded(e, S), C \cup S)
         /\ \A tb \in Tables : Folded(e, S)[tb].count = e[tb].count + Cardinality(LinesOf(tb, S))
<1> DEFINE n == Folded(e, S)
<1>1. n = [tb \in Tables |-> n[tb]]
  BY DEF Folded
<1> HIDE DEF n
<1>2. \A tb \in Tables : \E c \in Nat, t \in Time :
           /\ c = Cardinality(LinesOf(tb, S))
           /\ n[tb] = [count |-> e[tb].count + c, last |-> t]
           /\ e[tb].last # None => t # None /\ e[tb].last <= t
           /\ \A l \in LinesOf(tb, S) : t # None /\ at[l] <= t
  BY FoldedEntry DEF n
<1>3. \A tb \in Tables : e[tb].count \in Nat /\ e[tb].last \in Time
  BY DEF Entries
<1>4. \A tb \in Tables : /\ n[tb] \in Entries
                         /\ n[tb].count = e[tb].count + Cardinality(LinesOf(tb, S))
                         /\ e[tb].last # None => n[tb].last # None /\ e[tb].last <= n[tb].last
                         /\ \A l \in LinesOf(tb, S) : n[tb].last # None /\ at[l] <= n[tb].last
  <2> SUFFICES ASSUME NEW tb \in Tables
               PROVE  /\ n[tb] \in Entries
                      /\ n[tb].count = e[tb].count + Cardinality(LinesOf(tb, S))
                      /\ e[tb].last # None => n[tb].last # None /\ e[tb].last <= n[tb].last
                      /\ \A l \in LinesOf(tb, S) : n[tb].last # None /\ at[l] <= n[tb].last
    OBVIOUS
  <2>1. PICK c \in Nat, t \in Time :
           /\ c = Cardinality(LinesOf(tb, S))
           /\ n[tb] = [count |-> e[tb].count + c, last |-> t]
           /\ e[tb].last # None => t # None /\ e[tb].last <= t
           /\ \A l \in LinesOf(tb, S) : t # None /\ at[l] <= t
    BY <1>2
  <2>2. e[tb].count + c \in Nat
    BY <1>3
  <2> QED BY <2>1, <2>2 DEF Entries
<1>5. n \in [Tables -> Entries]
  BY <1>1, <1>4
<1>6. ASSUME NEW tb \in Tables
      PROVE  Cardinality(LinesOf(tb, C \cup S)) <= n[tb].count
  <2>1. Cardinality(LinesOf(tb, C \cup S)) <= Cardinality(LinesOf(tb, C)) + Cardinality(LinesOf(tb, S))
    BY LinesOfBoth
  <2>2. /\ Cardinality(LinesOf(tb, C \cup S)) \in Nat /\ Cardinality(LinesOf(tb, C)) \in Nat
        /\ Cardinality(LinesOf(tb, S)) \in Nat
    BY LinesAreFinite
  <2>3. Cardinality(LinesOf(tb, C)) <= e[tb].count
    BY DEF Holds
  <2> QED BY <2>1, <2>2, <2>3, <1>3, <1>4
<1>7. ASSUME NEW l \in C \cup S
      PROVE  n[Of[l]].last # None /\ at[l] <= n[Of[l]].last
  <2>1. Of[l] \in Tables
    BY SinkLogAssumption
  <2>2. CASE l \in S
    <3>1. l \in LinesOf(Of[l], S)
      BY <2>2 DEF LinesOf
    <3> QED BY <3>1, <2>1, <1>4
  <2>3. CASE l \in C
    <3>1. e[Of[l]].last # None /\ at[l] <= e[Of[l]].last
      BY <2>3 DEF Holds
    <3>2. n[Of[l]].last # None /\ e[Of[l]].last <= n[Of[l]].last
      BY <3>1, <2>1, <1>4
    <3>3. n[Of[l]].last \in Nat /\ e[Of[l]].last \in Nat /\ at[l] \in Nat
      BY <3>1, <3>2, <2>1, <1>3, <1>4 DEF Entries, Time
    <3> QED BY <3>1, <3>2, <3>3
  <2> QED BY <2>2, <2>3
<1>8. Holds(n, C \cup S)
  BY <1>6, <1>7 DEF Holds
<1> QED BY <1>4, <1>5, <1>8 DEF n

-----------------------------------------------------------------------------
(* The clocks.                                                             *)

\* What the stream and the clock do: time goes on, a line keeps its time, and a new one carries
\* a time at most Skew before the application's clock.
LEMMA WorldFacts ==
  ASSUME ClocksInv, WorldNext
  PROVE  /\ now' \in Nat /\ now <= now' /\ cdcStart' = cdcStart
         /\ at' \in [Lines -> Time] /\ shown' \in [Lines -> Time]
         /\ \A l \in Lines :
              /\ at[l] # None => at'[l] = at[l]
              /\ at[l] = None /\ at'[l] # None =>
                   now <= at'[l] + Skew /\ (cdcStart # None => cdcStart <= at'[l])
              /\ shown[l] # None => shown'[l] = shown[l]
              /\ shown'[l] # None => at'[l] # None
<1>1. CASE Tick
  BY <1>1, SinkLogAssumption DEF Tick, ClocksInv, Shown, Time
<1>2. ASSUME NEW k \in Lines, DeadLetter(k) PROVE
         /\ now' \in Nat /\ now <= now' /\ cdcStart' = cdcStart
         /\ at' \in [Lines -> Time] /\ shown' \in [Lines -> Time]
         /\ \A l \in Lines :
              /\ at[l] # None => at'[l] = at[l]
              /\ at[l] = None /\ at'[l] # None =>
                   now <= at'[l] + Skew /\ (cdcStart # None => cdcStart <= at'[l])
              /\ shown[l] # None => shown'[l] = shown[l]
              /\ shown'[l] # None => at'[l] # None
  <2>1. PICK t \in {now - Skew, now, now + Skew} : at' = [at EXCEPT ![k] = t]
    BY <1>2 DEF DeadLetter
  <2>2. now' = now /\ cdcStart' = cdcStart /\ shown' = shown /\ at[k] = None
    BY <1>2 DEF DeadLetter
  <2>3. now \in Nat /\ First <= now /\ Skew \in Nat /\ First \in Nat /\ Skew <= First
    BY SinkLogAssumption DEF ClocksInv
  <2>4. t \in Nat /\ now <= t + Skew
    BY <2>1, <2>3
  <2>5. cdcStart # None => cdcStart <= t
    <3> SUFFICES ASSUME cdcStart # None PROVE cdcStart <= t
      OBVIOUS
    <3>1. cdcStart \in Nat /\ cdcStart + Skew <= First
      BY SinkLogAssumption, GateAssumption DEF ClocksInv
    <3> QED BY <3>1, <2>3, <2>4
  <2> QED BY <2>1, <2>2, <2>3, <2>4, <2>5, SinkLogAssumption DEF ClocksInv, Time, Shown
<1>3. ASSUME NEW k \in Lines, Show(k) PROVE
         /\ now' \in Nat /\ now <= now' /\ cdcStart' = cdcStart
         /\ at' \in [Lines -> Time] /\ shown' \in [Lines -> Time]
         /\ \A l \in Lines :
              /\ at[l] # None => at'[l] = at[l]
              /\ at[l] = None /\ at'[l] # None =>
                   now <= at'[l] + Skew /\ (cdcStart # None => cdcStart <= at'[l])
              /\ shown[l] # None => shown'[l] = shown[l]
              /\ shown'[l] # None => at'[l] # None
  BY <1>3, SinkLogAssumption DEF Show, ClocksInv, Shown, Time
<1> QED BY <1>1, <1>2, <1>3 DEF WorldNext

\* The steps of the validation, the operator and the application leave the world alone.
LEMMA OnlyTheStreamIsWorld ==
  ASSUME GateNext
  PROVE  \/ WorldNext /\ UNCHANGED <<tool, gate>> /\ Excusing
         \/ UNCHANGED world
<1>1. ASSUME NEW S \in SUBSET Tables, StartRecheck(S) \/ \E c \in BOOLEAN : StartRun(S, c)
      PROVE  UNCHANGED world
  BY <1>1 DEF StartRecheck, StartRun
<1>2. ASSUME NEW tb \in Tables, Compare(tb) PROVE UNCHANGED world
  BY <1>2 DEF Compare
<1>3. CASE ChecksumPass \/ FinishRun \/ StopRun \/ FinishRecheck \/ SaveInMerge \/ StopRecheck
  BY <1>3 DEF ChecksumPass, FinishRun, StopRun, FinishRecheck, SaveInMerge, StopRecheck, Merge
<1>4. CASE Accept \/ Waive \/ LandRead \/ Save \/ RestartApp
  BY <1>4 DEF Accept, Waive, LandRead, Land, LandUnpublished, Save, RestartApp
<1>5. CASE Stream
  BY <1>5 DEF Stream, World
<1>6. ASSUME NEW l \in Lines, Heal(l) PROVE UNCHANGED world
  BY <1>6 DEF Heal
<1> QED BY <1>1, <1>2, <1>3, <1>4, <1>5, <1>6 DEF GateNext, GateStep

LEMMA StepClocks ==
  ASSUME IInv, [GateNext]_gvars
  PROVE  ClocksInv'
<1> USE SinkLogAssumption
<1>1. CASE UNCHANGED gvars
  BY <1>1 DEF IInv, ClocksInv, Past, Shown, gvars, world, gate, verdict
<1>2. CASE WorldNext /\ UNCHANGED <<tool, gate>>
  <2>1. /\ runStart' = runStart /\ overrides' = overrides /\ saved' = saved /\ run' = run
    BY <1>2 DEF gate, verdict
  <2>2. ClocksInv /\ TypeOK /\ RunInv /\ SavedInv
    BY DEF IInv
  <2>3. now \in Nat /\ now' \in Nat /\ now <= now'
    BY <1>2, <2>2, WorldFacts DEF ClocksInv
  <2>4. \A t \in Time : Past(t) => (t = None \/ t <= now')
    BY <2>3 DEF Past, Time
  <2>5. /\ runStart \in Time /\ overrides \in [Tables -> Time] /\ saved.runStart \in Time
        /\ saved.overrides \in [Tables -> Time] /\ run.began \in Time /\ run.passBegan \in Time
    BY <2>2 DEF TypeOK, RunInv, Runs, SavedInv, Snapshots
  <2>6. /\ Past(runStart)' /\ (\A tb \in Tables : Past(overrides[tb]))'
        /\ Past(saved.runStart)' /\ (\A tb \in Tables : Past(saved.overrides[tb]))'
        /\ Past(run.began)' /\ Past(run.passBegan)'
    BY <2>1, <2>2, <2>4, <2>5 DEF ClocksInv, Past
  <2>7. /\ cdcStart' = cdcStart
        /\ at' \in [Lines -> Time] /\ shown' \in [Lines -> Time]
        /\ \A l \in Lines : at'[l] # None /\ cdcStart # None => cdcStart <= at'[l]
        /\ \A l \in Lines : shown'[l] # None => at'[l] # None
    BY <1>2, <2>2, WorldFacts DEF ClocksInv
  <2>8. First \in Nat /\ First <= now
    BY <2>2 DEF ClocksInv
  <2> QED BY <2>2, <2>3, <2>6, <2>7, <2>8 DEF ClocksInv, Shown
<1>3. CASE UNCHANGED world /\ GateNext
  <2>1. /\ now' = now /\ cdcStart' = cdcStart /\ at' = at /\ shown' = shown
    BY <1>3 DEF world
  <2>2. ClocksInv
    BY DEF IInv
  <2> DEFINE Times(x, y, z, r) ==
        /\ Past(x) /\ \A tb \in Tables : Past(y[tb])
        /\ Past(z.runStart) /\ \A tb \in Tables : Past(z.overrides[tb])
        /\ Past(r.began) /\ Past(r.passBegan)
  <2>3. Times(runStart, overrides, saved, run) /\ Past(None) /\ Past(now)
    BY <2>2 DEF ClocksInv, Past
  <2> SUFFICES Times(runStart', overrides', saved', run')
    BY <2>1, <2>2 DEF ClocksInv, Past, Shown
  <2> USE DEF Snapshot
  <2>4. ASSUME NEW S \in SUBSET Tables, StartRecheck(S)
        PROVE  Times(runStart', overrides', saved', run')
    BY <2>4, <2>3 DEF StartRecheck, NoRun, verdict
  <2>5. ASSUME NEW S \in SUBSET Tables, NEW c \in BOOLEAN, StartRun(S, c)
        PROVE  Times(runStart', overrides', saved', run')
    BY <2>5, <2>3 DEF StartRun, NoRun, NoTimes
  <2>6. ASSUME NEW tb \in Tables, Compare(tb)
        PROVE  Times(runStart', overrides', saved', run')
    <3>1. run'.began = run.began /\ run'.passBegan = run.passBegan
      BY <2>6 DEF Compare, IInv, RunInv, Runs
    <3> QED BY <3>1, <2>6, <2>3 DEF Compare, verdict
  <2>7. CASE ChecksumPass
    <3>1. run'.began = run.began /\ run'.passBegan = now
      BY <2>7 DEF ChecksumPass, IInv, RunInv, Runs
    <3> QED BY <3>1, <2>7, <2>3 DEF ChecksumPass, verdict
  <2>8. CASE FinishRun
    BY <2>8, <2>3 DEF FinishRun, NoRun
  <2>9. CASE StopRun \/ StopRecheck
    BY <2>9, <2>3 DEF StopRun, StopRecheck, NoRun, verdict
  <2>10. CASE FinishRecheck
    BY <2>10, <2>3 DEF FinishRecheck, Merge, NoRun
  <2>11. CASE SaveInMerge
    <3>1. /\ runStart' = runStart /\ saved'.runStart = runStart /\ saved'.overrides = overrides'
          /\ \A tb \in Tables : overrides'[tb] \in {run.began, overrides[tb]}
          /\ run' = NoRun
      BY <2>11 DEF SaveInMerge, Merge
    <3> QED BY <3>1, <2>3 DEF NoRun
  <2>12. CASE Accept \/ Waive \/ LandRead
    BY <2>12, <2>3 DEF Accept, Waive, LandRead, verdict
  <2>13. CASE Save
    BY <2>13, <2>3 DEF Save, verdict
  <2>14. CASE RestartApp
    BY <2>14, <2>3 DEF RestartApp, NoRun
  <2>15. ASSUME NEW l \in Lines, Heal(l)
         PROVE  Times(runStart', overrides', saved', run')
    BY <2>15, <2>3 DEF Heal, verdict
  <2>16. CASE Stream
    BY <2>16, <2>3 DEF Stream, gate, verdict
  <2> HIDE DEF Times
  <2> QED BY <1>3, <2>4, <2>5, <2>6, <2>7, <2>8, <2>9, <2>10, <2>11, <2>12, <2>13, <2>14, <2>15, <2>16
          DEF GateNext, GateStep
<1> QED BY <1>1, <1>2, <1>3, OnlyTheStreamIsWorld

-----------------------------------------------------------------------------
(* The types.                                                              *)

\* A merge keeps the report a report, with the tables it had and the re-checked ones, which it had.
LEMMA MergeFacts ==
  ASSUME TypeOK, RunInv, ClocksInv, Merge
  PROVE  /\ report \in [items : Items, checksum : BOOLEAN] /\ report # None
         /\ report' \in [items : Items, checksum : BOOLEAN] /\ report' # None
         /\ Rechecked \subseteq Present /\ Present' = Present
         /\ \A tb \in Tables : report'.items[tb] = IF tb \in Rechecked THEN run.items[tb] ELSE report.items[tb]
<1>1. run \in Runs /\ run.kind = "recheck"
  BY DEF RunInv, Merge
<1>2. /\ report \in [items : Items, checksum : BOOLEAN] /\ report # None
      /\ Rechecked \subseteq Present
  BY <1>1 DEF TypeOK
<1>3. report' = [report EXCEPT !.items = [tb \in Tables |-> IF tb \in Rechecked THEN run.items[tb] ELSE @[tb]]]
  BY DEF Merge
<1> DEFINE items == [tb \in Tables |-> IF tb \in Rechecked THEN run.items[tb] ELSE report.items[tb]]
<1>4. items \in Items
  BY <1>1, <1>2 DEF Items, Runs
<1>5. report' = [items |-> items, checksum |-> report.checksum]
  BY <1>2, <1>3
<1>6. \A tb \in Tables : items[tb] = IF tb \in Rechecked THEN run.items[tb] ELSE report.items[tb]
  OBVIOUS
<1> HIDE DEF items
<1>7. report' \in [items : Items, checksum : BOOLEAN] /\ report' # None
  BY <1>2, <1>4, <1>5, NoneAssumption
<1>8. \A tb \in Tables : report'.items[tb] = IF tb \in Rechecked THEN run.items[tb] ELSE report.items[tb]
  BY <1>5, <1>6
<1>9. Present' = Present
  <2>1. \A tb \in Rechecked : tb \in Tables /\ report.items[tb] # "absent" /\ run.items[tb] # "absent"
    BY <1>2 DEF Rechecked, Present
  <2> QED BY <1>2, <1>7, <1>8, <2>1 DEF Present
<1> QED BY <1>2, <1>7, <1>8, <1>9

LEMMA StepTypes ==
  ASSUME IInv, [GateNext]_gvars
  PROVE  TypeOK' /\ RunInv' /\ SavedInv'
<1> USE SinkLogAssumption, GateAssumption
<1>0. TypeOK /\ RunInv /\ SavedInv /\ ClocksInv /\ LedgerInv
  BY DEF IInv
<1> USE DEF Shown, Present, Waivers, Problems
<1>1. CASE UNCHANGED gvars
  BY <1>0, <1>1 DEF gvars, world, tool, gate, verdict, TypeOK, RunInv, SavedInv, Rechecked
<1>2. CASE WorldNext /\ UNCHANGED <<tool, gate>> /\ UNCHANGED explained
  <2>1. \A l \in Lines : /\ at[l] # None => at'[l] # None
                         /\ shown[l] # None => shown'[l] # None
    BY <1>0, <1>2, WorldFacts
  <2> QED BY <1>0, <1>2, <2>1 DEF tool, gate, verdict, TypeOK, RunInv, SavedInv, Rechecked
<1>3. ASSUME NEW S \in SUBSET Tables, StartRecheck(S), UNCHANGED explained
      PROVE  TypeOK' /\ RunInv' /\ SavedInv'
  <2>1. run' = [kind |-> "recheck", todo |-> S, deep |-> IF report.checksum THEN S ELSE S \cap Listed,
                checksum |-> FALSE, items |-> NoItems, began |-> now, pass |-> {}, passBegan |-> None]
    BY <1>3 DEF StartRecheck, NoRun
  <2>2. run' \in Runs
    <3>1. NoItems \in Items /\ now \in Time /\ None \in Time
      BY <1>0 DEF NoItems, Items, ClocksInv, Time
    <3> QED BY <2>1, <3>1 DEF Runs
  <2>3. Rechecked' = {}
    BY <2>1 DEF Rechecked, NoItems
  <2>4. UNCHANGED <<world, tool, excused, verdict, healed, saved>> /\ S \subseteq Present /\ report # None
    BY <1>3 DEF StartRecheck, Present
  <2>5. now # None
    BY <1>0 DEF ClocksInv
  <2>6. TypeOK'
    BY <1>0, <2>1, <2>3, <2>4 DEF TypeOK, world, tool, verdict
  <2>7. RunInv'
    BY <1>0, <1>3, <2>1, <2>2, <2>4, <2>5 DEF RunInv, verdict
  <2>8. SavedInv'
    BY <1>0, <2>4 DEF SavedInv, world
  <2> QED BY <2>6, <2>7, <2>8
<1>4. ASSUME NEW S \in SUBSET Tables, NEW c \in BOOLEAN, StartRun(S, c), UNCHANGED explained
      PROVE  TypeOK' /\ RunInv' /\ SavedInv'
  <2>1. run' = [kind |-> "run", todo |-> S, deep |-> IF c THEN S ELSE {}, checksum |-> c,
                items |-> NoItems, began |-> now, pass |-> {}, passBegan |-> None]
    BY <1>4 DEF StartRun, NoRun
  <2>2. run' \in Runs
    <3>1. NoItems \in Items /\ now \in Time /\ None \in Time
      BY <1>0 DEF NoItems, Items, ClocksInv, Time
    <3> QED BY <2>1, <3>1 DEF Runs
  <2>3. /\ UNCHANGED <<world, tool, excused, healed, saved, completedAt>>
        /\ report' = None /\ runStart' = None /\ overrides' = NoTimes /\ recheckedAt' = None
        /\ waiver' = None /\ acknowledged' = {} /\ mixed' = {}
    BY <1>4 DEF StartRun
  <2>4. now # None /\ NoTimes \in [Tables -> Time] /\ None \in Time
    BY <1>0 DEF ClocksInv, NoTimes, Time
  <2>5. TypeOK'
    BY <1>0, <2>1, <2>3, <2>4 DEF TypeOK, world, tool
  <2>6. RunInv'
    BY <1>0, <1>4, <2>1, <2>2, <2>3, <2>4 DEF RunInv
  <2>7. SavedInv'
    BY <1>0, <2>3 DEF SavedInv, world
  <2> QED BY <2>5, <2>6, <2>7
<1>5. ASSUME NEW tb \in Tables, Compare(tb), UNCHANGED explained
      PROVE  TypeOK' /\ RunInv' /\ SavedInv'
  <2>1. PICK v \in Outcomes(tb, tb \in run.deep) : run' = [run EXCEPT !.todo = @ \ {tb}, !.items[tb] = v]
    BY <1>5 DEF Compare
  <2>2. v \in Verdicts
    BY DEF Outcomes, Verdicts
  <2>3. run \in Runs /\ tb \in run.todo
    BY <1>0, <1>5 DEF RunInv, Compare
  <2>4. /\ run'.kind = run.kind /\ run'.began = run.began /\ run'.pass = run.pass
        /\ run'.passBegan = run.passBegan /\ run'.todo = run.todo \ {tb}
        /\ run'.items = [run.items EXCEPT ![tb] = v] /\ run'.deep = run.deep /\ run'.checksum = run.checksum
    BY <2>1, <2>3 DEF Runs
  <2>5. run' \in Runs
    BY <2>1, <2>2, <2>3 DEF Runs, Items
  <2>6. Rechecked' \subseteq Rechecked \cup {tb}
    BY <2>3, <2>4 DEF Rechecked, Runs, Items
  <2>7. run.kind # "none"
    BY <1>0, <2>3 DEF RunInv, NoRun
  <2>8. UNCHANGED <<world, tool, excused, verdict, healed, saved>>
    BY <1>5 DEF Compare
  <2>9. TypeOK'
    BY <1>0, <2>3, <2>4, <2>6, <2>8 DEF TypeOK, world, tool, verdict
  <2>10. RunInv'
    BY <1>0, <1>5, <2>4, <2>5, <2>7, <2>8 DEF RunInv, verdict
  <2>11. SavedInv'
    BY <1>0, <2>8 DEF SavedInv, world
  <2> QED BY <2>9, <2>10, <2>11
<1>6. ASSUME ChecksumPass, UNCHANGED explained
      PROVE  TypeOK' /\ RunInv' /\ SavedInv'
  <2>1. run \in Runs /\ run.kind = "run"
    BY <1>0, <1>6 DEF RunInv, ChecksumPass
  <2>2. /\ run'.kind = "run" /\ run'.began = run.began /\ run'.pass = ForcedPass
        /\ run'.passBegan = now /\ run'.items = run.items
    BY <1>6, <2>1 DEF ChecksumPass, Runs
  <2>3. ForcedPass \subseteq Tables /\ now \in Time /\ now # None
    BY <1>0 DEF ForcedPass, Listed, ClocksInv, Time
  <2>4. run' \in Runs
    BY <1>6, <2>1, <2>3 DEF ChecksumPass, Runs
  <2>5. UNCHANGED <<world, tool, excused, verdict, healed, saved>>
    BY <1>6 DEF ChecksumPass
  <2>6. TypeOK'
    BY <1>0, <2>1, <2>2, <2>5 DEF TypeOK, world, tool, verdict
  <2>7. RunInv'
    BY <1>0, <1>6, <2>1, <2>2, <2>3, <2>4, <2>5 DEF RunInv, verdict
  <2>8. SavedInv'
    BY <1>0, <2>5 DEF SavedInv, world
  <2> QED BY <2>6, <2>7, <2>8
<1>7. ASSUME FinishRun, UNCHANGED explained
      PROVE  TypeOK' /\ RunInv' /\ SavedInv'
  BY <1>0, <1>7 DEF FinishRun, ForcedPass, TypeOK, RunInv, SavedInv, Rechecked, world, tool, verdict, NoRun, Runs, NoItems, Items, Verdicts, ClocksInv, Time
<1>8. ASSUME StopRun \/ StopRecheck, UNCHANGED explained
      PROVE  TypeOK' /\ RunInv' /\ SavedInv'
  <2>1. NoRun \in Runs /\ run' = NoRun
    <3>1. NoItems \in Items /\ None \in Time
      BY DEF NoItems, Items, Time
    <3> QED BY <3>1, <1>8 DEF NoRun, Runs, StopRun, StopRecheck
  <2>2. Rechecked' = {} /\ run'.kind = "none"
    BY <2>1 DEF Rechecked, NoRun, NoItems

  <2>3. /\ UNCHANGED <<world, tool, report, runStart, overrides, recheckedAt, waiver, acknowledged, mixed, healed, saved>>
        /\ completedAt' \in {now, completedAt}
    BY <1>8 DEF StopRun, StopRecheck, verdict
  <2>4. now \in Time /\ now # None
    BY <1>0 DEF ClocksInv, Time
  <2>5. TypeOK'
    BY <1>0, <2>2, <2>3, <2>4 DEF TypeOK, world, tool
  <2>6. RunInv'
    BY <1>0, <1>8, <2>1, <2>2, <2>3, <2>4 DEF RunInv, NoRun
  <2>7. SavedInv'
    BY <1>0, <2>3 DEF SavedInv, world
  <2> QED BY <2>5, <2>6, <2>7
<1>9. ASSUME Merge, UNCHANGED explained
      PROVE  TypeOK' /\ RunInv' /\ (saved' = saved => SavedInv')
  <2>1. NoRun \in Runs /\ run' = NoRun
    <3>1. NoItems \in Items /\ None \in Time
      BY DEF NoItems, Items, Time
    <3> QED BY <3>1, <1>9 DEF NoRun, Runs, Merge
  <2>2. Rechecked' = {} /\ run'.kind = "none"
    BY <2>1 DEF Rechecked, NoRun, NoItems

  <2>3. /\ UNCHANGED <<world, tool, runStart, completedAt, waiver, acknowledged, healed>>
        /\ recheckedAt' = now /\ mixed' = mixed \ Rechecked
        /\ overrides' = [tb \in Tables |-> IF tb \in Rechecked THEN run.began ELSE overrides[tb]]
    BY <1>9 DEF Merge
  <2>4. now \in Time /\ now # None /\ run.began \in Time
    BY <1>0 DEF ClocksInv, Time, RunInv, Runs
  <2>5. /\ report' \in [items : Items, checksum : BOOLEAN] /\ report' # None
        /\ Present' = Present /\ report # None
    BY <1>0, <1>9, MergeFacts
  <2>6. TypeOK'
    <3>1. overrides' \in [Tables -> Time]
      BY <1>0, <2>3, <2>4 DEF TypeOK
    <3>2. mixed' \subseteq Present'
      BY <1>0, <2>3, <2>5 DEF TypeOK
    <3> HIDE DEF Present
    <3> QED BY <1>0, <2>2, <2>3, <2>4, <2>5, <3>1, <3>2 DEF TypeOK, world, tool
  <2>7. RunInv'
    BY <1>0, <1>9, <2>1, <2>2, <2>3, <2>4, <2>5 DEF RunInv, NoRun
  <2>8. saved' = saved => SavedInv'
    BY <1>0, <2>3 DEF SavedInv, world
  <2> QED BY <2>6, <2>7, <2>8
<1>10. ASSUME SaveInMerge, UNCHANGED explained
      PROVE  TypeOK' /\ RunInv' /\ SavedInv'
  <2>1. PICK r \in {recheckedAt, recheckedAt'} :
          saved' = [Snapshot EXCEPT !.recheckedAt = r, !.overrides = overrides', !.mixed = @ \cup Rechecked]
    BY <1>10 DEF SaveInMerge
  <2>2. Merge
    BY <1>10 DEF SaveInMerge
  <2>3. saved' = [ledger |-> ledger, counted |-> counted, readFrom |-> readFrom, report |-> report,
                  runStart |-> runStart, overrides |-> overrides',
                  completedAt |-> IF report = None THEN None ELSE completedAt, recheckedAt |-> r,
                  waiver |-> waiver, acknowledged |-> acknowledged, mixed |-> mixed \cup Rechecked]
    BY <2>1 DEF Snapshot
  <2>4. /\ report # None /\ Rechecked \subseteq Present /\ Rechecked \subseteq Tables
        /\ \A tb \in mixed \cup Rechecked : report.items[tb] # "absent"
    BY <1>0, <2>2, MergeFacts DEF TypeOK, Rechecked
  <2>5. now \in Time /\ run.began \in Time /\ completedAt # None
    BY <1>0, <2>4 DEF ClocksInv, Time, RunInv, Runs
  <2>6. r \in Time /\ overrides' \in [Tables -> Time]
    BY <1>0, <2>2, <2>5 DEF Merge, TypeOK
  <2>7. saved' \in Snapshots
    BY <1>0, <2>3, <2>4, <2>5, <2>6 DEF Snapshots, TypeOK
  <2>8. SavedInv'
    BY <1>0, <2>2, <2>3, <2>4, <2>5, <2>7 DEF SavedInv, TypeOK, Merge, world
  <2>9. TypeOK' /\ RunInv'
    BY <1>9, <1>10, <2>2
  <2> QED BY <2>8, <2>9
<1>11. ASSUME Accept, UNCHANGED explained
      PROVE  TypeOK' /\ RunInv' /\ SavedInv'
  BY <1>0, <1>11 DEF Accept, TypeOK, RunInv, SavedInv, Rechecked, world, tool, verdict
<1>12. ASSUME Waive, UNCHANGED explained
      PROVE  TypeOK' /\ RunInv' /\ SavedInv'
  BY <1>0, <1>12 DEF Waive, ReadProblem, ReadState, Entries, TypeOK, RunInv, SavedInv, Rechecked, world, tool, verdict
<1>13. ASSUME NEW l \in Lines, Heal(l), UNCHANGED explained
      PROVE  TypeOK' /\ RunInv' /\ SavedInv'
  BY <1>0, <1>13 DEF Heal, TypeOK, RunInv, SavedInv, Rechecked, world, tool, verdict
<1>14. ASSUME LandRead, UNCHANGED explained
      PROVE  TypeOK' /\ RunInv' /\ SavedInv'
  <2>1. PICK S \in SUBSET Shown : Land(S) \/ LandUnpublished(S)
    BY <1>14 DEF LandRead
  <2>2. /\ counted' = counted \cup S /\ ledger' = Folded(ledger, S)
        /\ lastRead' \in Record \cup {None} /\ readFrom' \in Time
        /\ UNCHANGED <<world, verdict, healed, run, saved>>
    BY <1>0, <1>14, <2>1 DEF LandRead, Land, LandUnpublished, Count, TypeOK, Time
  <2>3. S \in SUBSET Lines /\ counted \in SUBSET Lines /\ \A l \in counted \cup S : at[l] \in Nat
    BY <1>0 DEF TypeOK, ClocksInv, Time
  <2>4. ledger' \in [Tables -> Entries]
    BY <1>0, <2>2, <2>3, FoldedHolds DEF LedgerInv, TypeOK
  <2> QED BY <1>0, <1>14, <2>1, <2>2, <2>4 DEF TypeOK, RunInv, SavedInv, Rechecked, world, verdict
<1>15. ASSUME Save, UNCHANGED explained
      PROVE  TypeOK' /\ RunInv' /\ SavedInv'
  <2>1. saved' = [ledger |-> ledger, counted |-> counted, readFrom |-> readFrom, report |-> report,
                  runStart |-> runStart, overrides |-> overrides,
                  completedAt |-> IF report = None THEN None ELSE completedAt, recheckedAt |-> recheckedAt,
                  waiver |-> waiver, acknowledged |-> acknowledged, mixed |-> mixed]
    BY <1>15 DEF Save, Snapshot
  <2>2. UNCHANGED <<world, tool, verdict, healed, run>>
    BY <1>15 DEF Save
  <2>3. saved' \in Snapshots
    BY <1>0, <2>1 DEF Snapshots, TypeOK, Time
  <2>4. SavedInv'
    BY <1>0, <2>1, <2>2, <2>3 DEF SavedInv, TypeOK, RunInv, world
  <2>5. TypeOK' /\ RunInv'
    BY <1>0, <1>15, <2>2 DEF TypeOK, RunInv, Rechecked, world, tool, verdict
  <2> QED BY <2>4, <2>5
<1>16. ASSUME RestartApp, UNCHANGED explained
      PROVE  TypeOK' /\ RunInv' /\ SavedInv'
  <2>1. NoRun \in Runs /\ run' = NoRun
    <3>1. NoItems \in Items /\ None \in Time
      BY DEF NoItems, Items, Time
    <3> QED BY <3>1, <1>16 DEF NoRun, Runs, RestartApp
  <2>2. Rechecked' = {} /\ run'.kind = "none"
    BY <2>1 DEF Rechecked, NoRun, NoItems

  <2>3. /\ ledger' = saved.ledger /\ counted' = saved.counted /\ readFrom' = saved.readFrom /\ lastRead' = None
        /\ report' = saved.report /\ runStart' = saved.runStart /\ overrides' = saved.overrides
        /\ completedAt' = saved.completedAt /\ recheckedAt' = saved.recheckedAt
        /\ waiver' = saved.waiver /\ acknowledged' = saved.acknowledged /\ mixed' = saved.mixed
        /\ UNCHANGED <<world, healed, saved>>
    BY <1>16 DEF RestartApp
  <2>4. /\ saved.ledger \in [Tables -> Entries] /\ saved.counted \subseteq Shown /\ saved.readFrom \in Time
        /\ saved.report \in [items : Items, checksum : BOOLEAN] \cup {None}
        /\ saved.runStart \in Time /\ saved.overrides \in [Tables -> Time]
        /\ saved.completedAt \in Time /\ saved.recheckedAt \in Time
        /\ saved.waiver \in Waivers \cup {None} /\ saved.acknowledged \subseteq Lines /\ saved.mixed \subseteq Tables
    BY <1>0 DEF SavedInv, Snapshots
  <2>5. mixed' \subseteq Present'
    BY <1>0, <2>3, <2>4 DEF SavedInv
  <2>6. TypeOK'
    <3> HIDE DEF Present
    <3> QED BY <1>0, <2>2, <2>3, <2>4, <2>5 DEF TypeOK, world
  <2>7. RunInv'
    BY <1>0, <1>16, <2>1, <2>2, <2>3 DEF RunInv, SavedInv, NoRun
  <2>8. SavedInv'
    BY <1>0, <2>3 DEF SavedInv, world
  <2> QED BY <2>6, <2>7, <2>8
<1> QED BY <1>1, <1>2, <1>3, <1>4, <1>5, <1>6, <1>7, <1>8, <1>9, <1>10, <1>11, <1>12, <1>13, <1>14, <1>15, <1>16
        DEF GateNext, GateStep, FinishRecheck, Stream, World

-----------------------------------------------------------------------------
(* The ledger and the waiver.                                              *)

\* What a step does to the ledger and the snapshot: lines are folded in, a snapshot is taken, or
\* the session goes back to it.
LEMMA LedgerSteps ==
  ASSUME GateNext
  PROVE  \/ UNCHANGED <<ledger, counted, saved>>
         \/ /\ \E S \in SUBSET Shown : Count(S)
            /\ UNCHANGED <<world, saved, waiver, acknowledged>>
         \/ /\ saved'.ledger = ledger /\ saved'.counted = counted
            /\ saved'.waiver = waiver /\ saved'.acknowledged = acknowledged
            /\ UNCHANGED <<world, ledger, counted, waiver, acknowledged>>
         \/ /\ ledger' = saved.ledger /\ counted' = saved.counted
            /\ waiver' = saved.waiver /\ acknowledged' = saved.acknowledged
            /\ UNCHANGED <<world, saved>>
<1>1. ASSUME NEW S \in SUBSET Tables, StartRecheck(S) \/ \E c \in BOOLEAN : StartRun(S, c)
      PROVE  UNCHANGED <<ledger, counted, saved>>
  BY <1>1 DEF StartRecheck, StartRun, tool
<1>2. ASSUME NEW tb \in Tables, Compare(tb) PROVE UNCHANGED <<ledger, counted, saved>>
  BY <1>2 DEF Compare, tool
<1>3. CASE ChecksumPass \/ FinishRun \/ StopRun \/ FinishRecheck \/ StopRecheck
  BY <1>3 DEF ChecksumPass, FinishRun, StopRun, FinishRecheck, StopRecheck, Merge, tool
<1>4. CASE SaveInMerge
  <2>1. PICK r \in {recheckedAt, recheckedAt'} :
          saved' = [Snapshot EXCEPT !.recheckedAt = r, !.overrides = overrides', !.mixed = @ \cup Rechecked]
    BY <1>4 DEF SaveInMerge
  <2>2. UNCHANGED <<world, tool, waiver, acknowledged>>
    BY <1>4 DEF SaveInMerge, Merge
  <2> QED BY <2>1, <2>2 DEF Snapshot, tool
<1>5. CASE Save
  BY <1>5 DEF Save, Snapshot, tool, verdict
<1>6. CASE RestartApp
  BY <1>6 DEF RestartApp
<1>7. CASE Accept \/ Waive
  BY <1>7 DEF Accept, Waive, tool
<1>8. CASE LandRead
  BY <1>8 DEF LandRead, Land, LandUnpublished, verdict
<1>9. CASE Stream
  BY <1>9 DEF Stream, World, tool, gate
<1>10. ASSUME NEW l \in Lines, Heal(l) PROVE UNCHANGED <<ledger, counted, saved>>
  BY <1>10 DEF Heal, tool
<1> QED BY <1>1, <1>2, <1>3, <1>4, <1>5, <1>6, <1>7, <1>8, <1>9, <1>10 DEF GateNext, GateStep

LEMMA StepLedger ==
  ASSUME IInv, [GateNext]_gvars
  PROVE  LedgerInv'
<1>0. TypeOK /\ ClocksInv /\ SavedInv /\ LedgerInv
  BY DEF IInv
<1>1. \A l \in Shown : at[l] # None /\ at[l] \in Nat /\ at'[l] = at[l]
  <2>1. \A l \in Shown : at[l] # None /\ at[l] \in Nat
    BY <1>0 DEF ClocksInv, Shown, Time
  <2>2. CASE UNCHANGED world
    BY <2>1, <2>2 DEF world
  <2>3. CASE WorldNext
    BY <2>1, <2>3, <1>0, WorldFacts DEF Shown
  <2>4. CASE UNCHANGED gvars
    BY <2>2, <2>4 DEF gvars
  <2> QED BY <2>2, <2>3, <2>4, OnlyTheStreamIsWorld
<1>2. counted \subseteq Shown /\ saved.counted \subseteq Shown /\ Shown \subseteq Lines
  BY <1>0 DEF TypeOK, SavedInv, Shown
<1>3. Holds(ledger, counted) /\ Holds(saved.ledger, saved.counted)
  BY <1>0 DEF LedgerInv
<1>4. CASE UNCHANGED <<ledger, counted, saved>>
  BY <1>1, <1>2, <1>3, <1>4 DEF Holds, LedgerInv
<1>5. ASSUME NEW S \in SUBSET Shown, Count(S), UNCHANGED <<world, saved>>
      PROVE  LedgerInv'
  <2>1. ledger \in [Tables -> Entries] /\ counted \in SUBSET Lines /\ S \in SUBSET Lines
    BY <1>0, <1>2 DEF TypeOK
  <2>2. \A l \in counted \cup S : at[l] \in Nat
    BY <1>1, <1>2
  <2>3. Holds(Folded(ledger, S), counted \cup S)
    BY <2>1, <2>2, <1>3, FoldedHolds
  <2>4. ledger' = Folded(ledger, S) /\ counted' = counted \cup S /\ at' = at /\ saved' = saved
    BY <1>5 DEF Count, world
  <2> QED BY <1>3, <2>3, <2>4 DEF LedgerInv, Holds
<1>6. CASE saved'.ledger = ledger /\ saved'.counted = counted /\ UNCHANGED <<world, ledger, counted>>
  BY <1>3, <1>6 DEF LedgerInv, Holds, world
<1>7. CASE ledger' = saved.ledger /\ counted' = saved.counted /\ UNCHANGED <<world, saved>>
  BY <1>3, <1>7 DEF LedgerInv, Holds, world
<1>8. CASE UNCHANGED gvars
  BY <1>4, <1>8 DEF gvars, tool, gate
<1> QED BY <1>4, <1>5, <1>6, <1>7, <1>8, LedgerSteps

\* The waiver of a session is given for what the ledger lists, or is dropped.
LEMMA WaiverSteps ==
  ASSUME IInv, GateNext, UNCHANGED <<ledger, counted, saved>>
  PROVE  \/ UNCHANGED <<waiver, acknowledged>>
         \/ waiver' = None
         \/ RestartApp
         \/ /\ waiver' = [tables |-> [tb \in Tables |-> IF tb \in Waivable THEN ledger[tb].count ELSE 0],
                          problem |-> ReadProblem]
            /\ acknowledged' = {l \in counted : Of[l] \in Waivable}
<1>1. ASSUME NEW S \in SUBSET Tables, StartRecheck(S) \/ \E c \in BOOLEAN : StartRun(S, c)
      PROVE  UNCHANGED <<waiver, acknowledged>> \/ waiver' = None
  BY <1>1 DEF StartRecheck, StartRun, verdict
<1>2. ASSUME NEW tb \in Tables, Compare(tb) PROVE UNCHANGED <<waiver, acknowledged>>
  BY <1>2 DEF Compare, verdict
<1>3. CASE ChecksumPass \/ StopRun \/ FinishRecheck \/ SaveInMerge \/ StopRecheck \/ Accept \/ Save
  BY <1>3 DEF ChecksumPass, StopRun, FinishRecheck, SaveInMerge, StopRecheck, Merge, Accept, Save, verdict
<1>4. CASE FinishRun
  BY <1>4 DEF FinishRun
<1>5. CASE Waive
  BY <1>5 DEF Waive
<1>6. CASE LandRead
  BY <1>6 DEF LandRead, verdict
<1>7. CASE Stream
  BY <1>7 DEF Stream, gate, verdict
<1>8. ASSUME NEW l \in Lines, Heal(l) PROVE UNCHANGED <<waiver, acknowledged>>
  BY <1>8 DEF Heal, verdict
<1> QED BY <1>1, <1>2, <1>3, <1>4, <1>5, <1>6, <1>7, <1>8 DEF GateNext, GateStep

LEMMA StepWaiver ==
  ASSUME IInv, [GateNext]_gvars
  PROVE  WaiverInv'
<1>0. TypeOK /\ ClocksInv /\ SavedInv /\ LedgerInv /\ WaiverInv
  BY DEF IInv
<1>1. /\ Covered(waiver, ledger, counted, acknowledged)
      /\ Covered(saved.waiver, saved.ledger, saved.counted, saved.acknowledged)
  BY <1>0 DEF WaiverInv
<1>2. ledger \in [Tables -> Entries] /\ counted \in SUBSET Lines
  BY <1>0 DEF TypeOK, Shown
<1>3. CASE UNCHANGED <<ledger, counted, saved, waiver, acknowledged>>
  BY <1>1, <1>3 DEF WaiverInv
<1>4. CASE UNCHANGED <<ledger, counted, saved>> /\ waiver' = None
  BY <1>1, <1>4 DEF WaiverInv, Covered
<1>5. ASSUME UNCHANGED <<ledger, counted, saved>>,
             waiver' = [tables |-> [tb \in Tables |-> IF tb \in Waivable THEN ledger[tb].count ELSE 0],
                        problem |-> ReadProblem],
             acknowledged' = {l \in counted : Of[l] \in Waivable}
      PROVE  WaiverInv'
  <2>1. ASSUME NEW tb \in Tables
        PROVE  /\ waiver'.tables[tb] <= ledger[tb].count
               /\ waiver'.tables[tb] < ledger[tb].count \/ LinesOf(tb, counted) \subseteq acknowledged'
    <3>1. ledger[tb].count \in Nat
      BY <1>2 DEF Entries
    <3>2. CASE tb \in Waivable
      BY <3>1, <3>2, <1>5 DEF LinesOf
    <3>3. CASE tb \notin Waivable
      <4>1. waiver'.tables[tb] = 0
        BY <1>5, <3>3
      <4>2. CASE ledger[tb].count = 0
        <5>1. Cardinality(LinesOf(tb, counted)) <= 0
          BY <1>0, <4>2 DEF LedgerInv, Holds
        <5>2. LinesOf(tb, counted) = {}
          BY <1>2, <5>1, LinesAreFinite
        <5> QED BY <4>1, <4>2, <5>2
      <4> QED BY <3>1, <4>1, <4>2
    <3> QED BY <3>2, <3>3
  <2>2. Covered(waiver, ledger, counted, acknowledged)'
    <3> HIDE <1>5
    <3>1. ledger' = ledger /\ counted' = counted
      BY <1>5
    <3> QED BY <2>1, <3>1 DEF Covered
  <2>3. Covered(saved.waiver, saved.ledger, saved.counted, saved.acknowledged)'
    BY <1>1, <1>5 DEF Covered
  <2> QED BY <2>2, <2>3 DEF WaiverInv
<1>6. ASSUME NEW S \in SUBSET Shown, Count(S), UNCHANGED <<world, saved, waiver, acknowledged>>
      PROVE  WaiverInv'
  <2>1. S \in SUBSET Lines /\ \A l \in counted \cup S : at[l] \in Nat
    BY <1>0 DEF TypeOK, ClocksInv, Shown, Time
  <2>2. ledger' = Folded(ledger, S) /\ counted' = counted \cup S
    BY <1>6 DEF Count
  <2>3. \A tb \in Tables : ledger'[tb].count = ledger[tb].count + Cardinality(LinesOf(tb, S))
    BY <1>0, <1>2, <2>1, <2>2, FoldedHolds DEF LedgerInv
  <2>4. ASSUME waiver # None, NEW tb \in Tables
        PROVE  /\ waiver.tables[tb] <= ledger'[tb].count
               /\ waiver.tables[tb] < ledger'[tb].count \/ LinesOf(tb, counted') \subseteq acknowledged
    <3>1. /\ waiver.tables[tb] <= ledger[tb].count
          /\ waiver.tables[tb] < ledger[tb].count \/ LinesOf(tb, counted) \subseteq acknowledged
      BY <1>1, <2>4 DEF Covered
    <3>2. ledger[tb].count \in Nat /\ waiver.tables[tb] \in Nat
      BY <1>0, <1>2, <2>4 DEF Entries, TypeOK, Waivers
    <3>3. CASE LinesOf(tb, S) = {}
      <4>1. LinesOf(tb, counted') = LinesOf(tb, counted)
        BY <2>2, <3>3 DEF LinesOf
      <4>2. ledger'[tb].count = ledger[tb].count
        BY <2>1, <2>3, <3>2, <3>3, LinesAreFinite
      <4> QED BY <3>1, <4>1, <4>2
    <3>4. CASE LinesOf(tb, S) # {}
      <4>1. Cardinality(LinesOf(tb, S)) \in Nat /\ Cardinality(LinesOf(tb, S)) # 0
        BY <2>1, <3>4, LinesAreFinite
      <4> QED BY <2>3, <3>1, <3>2, <4>1
    <3> QED BY <3>3, <3>4
  <2>5. Covered(waiver, ledger, counted, acknowledged)'
    BY <1>6, <2>4 DEF Covered
  <2>6. Covered(saved.waiver, saved.ledger, saved.counted, saved.acknowledged)'
    BY <1>1, <1>6 DEF Covered
  <2> QED BY <2>5, <2>6 DEF WaiverInv
<1>7. CASE /\ saved'.ledger = ledger /\ saved'.counted = counted
           /\ saved'.waiver = waiver /\ saved'.acknowledged = acknowledged
           /\ UNCHANGED <<world, ledger, counted, waiver, acknowledged>>
  BY <1>1, <1>7 DEF WaiverInv, Covered
<1>8. CASE /\ ledger' = saved.ledger /\ counted' = saved.counted
           /\ waiver' = saved.waiver /\ acknowledged' = saved.acknowledged
           /\ UNCHANGED <<world, saved>>
  BY <1>1, <1>8 DEF WaiverInv, Covered
<1>9. CASE RestartApp
  BY <1>8, <1>9 DEF RestartApp
<1>10. CASE UNCHANGED gvars
  BY <1>3, <1>10 DEF gvars, tool, gate, verdict
<1> QED BY <1>3, <1>4, <1>5, <1>6, <1>7, <1>8, <1>9, <1>10, LedgerSteps, WaiverSteps

-----------------------------------------------------------------------------
(* The verdicts.                                                           *)

\* A step of the world keeps what a verdict says: a new dead letter carries no time before it.
LEMMA FreshLater ==
  ASSUME ClocksInv, WorldNext, NEW hl, hl = healed, healed' = hl,
         NEW tb, NEW v, NEW t \in Time, t = None \/ t <= now, FreshSince(tb, v, t)
  PROVE  FreshSince(tb, v, t)'
<1> USE SinkLogAssumption
<1> SUFFICES ASSUME v = "verified", t # None,
                    NEW l \in Lines \ healed, Of[l] = tb, at'[l] # None
             PROVE  t <= at'[l] + Skew
  BY DEF FreshSince
<1>1. t \in Nat /\ t <= now /\ now \in Nat
  BY DEF Time, ClocksInv
<1>2. CASE at[l] = None
  <2>1. now <= at'[l] + Skew /\ at'[l] \in Nat
    BY <1>2, WorldFacts DEF Time
  <2> QED BY <1>1, <2>1
<1>3. CASE at[l] # None
  BY <1>3, WorldFacts DEF FreshSince
<1> QED BY <1>2, <1>3

LEMMA StepVerdict ==
  ASSUME IInv, [GateNext]_gvars
  PROVE  VerdictInv'
<1>0. TypeOK /\ ClocksInv /\ RunInv /\ SavedInv /\ VerdictInv
  BY DEF IInv
<1> DEFINE From(y, x, tb) == IF y[tb] # None THEN y[tb] ELSE x
           OfReport == report # None => \A tb \in Tables \ mixed : FreshSince(tb, report.items[tb], From(overrides, runStart, tb))
           OfSaved == saved.report # None =>
             \A tb \in Tables \ saved.mixed : FreshSince(tb, saved.report.items[tb], From(saved.overrides, saved.runStart, tb))
           RunFrom(tb) == IF tb \in run.pass THEN run.passBegan ELSE run.began
           OfRun == \A tb \in Tables : FreshSince(tb, run.items[tb], RunFrom(tb))
<1>1. OfReport /\ OfSaved /\ OfRun
  BY <1>0 DEF VerdictInv, ComparedFrom
<1>2. OfReport' /\ OfSaved' /\ OfRun' => VerdictInv'
  BY DEF VerdictInv, ComparedFrom
<1>3. CASE UNCHANGED gvars
  BY <1>1, <1>2, <1>3 DEF FreshSince, gvars, world, gate, verdict
<1>4. CASE WorldNext /\ UNCHANGED <<tool, gate>>
  <2>1. UNCHANGED <<report, mixed, overrides, runStart, saved, run, healed>>
    BY <1>4 DEF gate, verdict
  <2>2. ASSUME NEW tb, NEW v, NEW t \in Time, t = None \/ t <= now, FreshSince(tb, v, t)
        PROVE  FreshSince(tb, v, t)'
    BY <1>0, <1>4, <2>1, <2>2, FreshLater
  <2>3. OfReport'
    <3> SUFFICES ASSUME report # None, NEW tb \in Tables \ mixed
                 PROVE  FreshSince(tb, report.items[tb], From(overrides, runStart, tb))'
      BY <2>1
    <3>1. PICK v, t : v = report.items[tb] /\ t = From(overrides, runStart, tb)
      OBVIOUS
    <3>2. t \in Time /\ (t = None \/ t <= now) /\ FreshSince(tb, v, t)
      BY <1>0, <1>1, <3>1 DEF TypeOK, ClocksInv, Past
    <3>3. FreshSince(tb, v, t)'
      BY <2>2, <3>2
    <3> QED BY <2>1, <3>1, <3>3 DEF FreshSince
  <2>4. OfSaved'
    <3> SUFFICES ASSUME saved.report # None, NEW tb \in Tables \ saved.mixed
                 PROVE  FreshSince(tb, saved.report.items[tb], From(saved.overrides, saved.runStart, tb))'
      BY <2>1
    <3>1. PICK v, t : v = saved.report.items[tb] /\ t = From(saved.overrides, saved.runStart, tb)
      OBVIOUS
    <3>2. t \in Time /\ (t = None \/ t <= now) /\ FreshSince(tb, v, t)
      BY <1>0, <1>1, <3>1 DEF SavedInv, Snapshots, ClocksInv, Past
    <3>3. FreshSince(tb, v, t)'
      BY <2>2, <3>2
    <3> QED BY <2>1, <3>1, <3>3 DEF FreshSince
  <2>5. OfRun'
    <3> SUFFICES ASSUME NEW tb \in Tables
                 PROVE  FreshSince(tb, run.items[tb], RunFrom(tb))'
      OBVIOUS
    <3>1. PICK v, t : v = run.items[tb] /\ t = RunFrom(tb)
      OBVIOUS
    <3>2. t \in Time /\ (t = None \/ t <= now) /\ FreshSince(tb, v, t)
      BY <1>0, <1>1, <3>1 DEF RunInv, Runs, ClocksInv, Past
    <3>3. FreshSince(tb, v, t)'
      BY <2>2, <3>2
    <3> QED BY <2>1, <3>1, <3>3 DEF FreshSince
  <2> QED BY <1>2, <2>3, <2>4, <2>5
<1> DEFINE OfNextReport == report' # None =>
             \A tb \in Tables \ mixed' : FreshSince(tb, report'.items[tb], From(overrides', runStart', tb))
           OfNextSaved == saved'.report # None =>
             \A tb \in Tables \ saved'.mixed :
               FreshSince(tb, saved'.report.items[tb], From(saved'.overrides, saved'.runStart, tb))
           NextRunFrom(tb) == IF tb \in run'.pass THEN run'.passBegan ELSE run'.began
           OfNextRun == \A tb \in Tables : FreshSince(tb, run'.items[tb], NextRunFrom(tb))
<1>5. ASSUME UNCHANGED world, healed \subseteq healed', OfNextReport, OfNextSaved, OfNextRun
      PROVE  VerdictInv'
  <2>1. at' = at
    BY <1>5 DEF world
  <2>2. OfReport' /\ OfSaved' /\ OfRun'
    BY <1>5, <2>1 DEF FreshSince
  <2> QED BY <1>2, <2>2
<1>6. \A tb, t : FreshSince(tb, "absent", t)
  BY DEF FreshSince
<1>7. run' = NoRun => OfNextRun
  BY <1>6 DEF NoRun, NoItems
<1>8. UNCHANGED <<report, mixed, overrides, runStart>> => OfNextReport
  BY <1>1
<1>9. saved' = saved => OfNextSaved
  BY <1>1
<1>10. run' = run => OfNextRun
  BY <1>1
<1> HIDE DEF OfReport, OfSaved, OfRun
<1>11. ASSUME NEW S \in SUBSET Tables, StartRecheck(S) PROVE VerdictInv'
  <2>1. OfNextRun
    BY <1>11, <1>6 DEF StartRecheck, NoRun, NoItems
  <2> HIDE DEF OfNextReport, OfNextSaved, OfNextRun
  <2> QED BY <1>11, <1>5, <1>8, <1>9, <2>1 DEF StartRecheck, verdict
<1>12. ASSUME NEW S \in SUBSET Tables, NEW c \in BOOLEAN, StartRun(S, c) PROVE VerdictInv'
  <2>1. OfNextRun
    BY <1>12, <1>6 DEF StartRun, NoRun, NoItems
  <2>2. OfNextReport
    BY <1>12 DEF StartRun
  <2> HIDE DEF OfNextReport, OfNextSaved, OfNextRun
  <2> QED BY <1>12, <1>5, <1>9, <2>1, <2>2 DEF StartRun
<1>13. ASSUME NEW k \in Tables, Compare(k) PROVE VerdictInv'
  <2>1. PICK v \in Outcomes(k, k \in run.deep) : run' = [run EXCEPT !.todo = @ \ {k}, !.items[k] = v]
    BY <1>13 DEF Compare
  <2>2. /\ run'.pass = run.pass /\ run'.began = run.began /\ run'.passBegan = run.passBegan
        /\ \A tb \in Tables : run'.items[tb] = IF tb = k THEN v ELSE run.items[tb]
    BY <1>0, <2>1 DEF RunInv, Runs, Items
  <2>3. \A t : FreshSince(k, v, t)
    BY <2>1 DEF Outcomes, FreshSince, Stale
  <2>4. OfNextRun
    <3> USE DEF OfRun
    <3> QED BY <1>1, <2>2, <2>3
  <2> HIDE DEF OfNextReport, OfNextSaved, OfNextRun
  <2> QED BY <1>13, <1>5, <1>8, <1>9, <2>4 DEF Compare, verdict
<1>14. CASE ChecksumPass
  <2>1. run' = [run EXCEPT !.todo = ForcedPass, !.deep = @ \cup ForcedPass, !.pass = ForcedPass,
                           !.passBegan = now]
    BY <1>14 DEF ChecksumPass
  <2>2. /\ run'.pass = ForcedPass /\ run'.began = run.began /\ run'.items = run.items
        /\ run.passBegan = None
    BY <1>0, <1>14, <2>1 DEF RunInv, Runs, ChecksumPass
  <2>3. \A tb \in ForcedPass : run.items[tb] = "matched"
    BY DEF ForcedPass
  <2>4. run.pass = {}
    BY <1>0, <2>2 DEF RunInv
  <2>5. OfNextRun
    <3> SUFFICES ASSUME NEW tb \in Tables PROVE FreshSince(tb, run'.items[tb], NextRunFrom(tb))
      OBVIOUS
    <3>1. CASE tb \in ForcedPass
      BY <2>2, <2>3, <3>1 DEF FreshSince
    <3>2. CASE tb \notin ForcedPass
      <4>1. NextRunFrom(tb) = RunFrom(tb)
        BY <2>2, <2>4, <3>2
      <4>2. FreshSince(tb, run.items[tb], RunFrom(tb))
        BY <1>1 DEF OfRun
      <4> HIDE DEF NextRunFrom, RunFrom
      <4> QED BY <4>1, <4>2, <2>2
    <3> QED BY <3>1, <3>2
  <2> HIDE DEF OfNextReport, OfNextSaved, OfNextRun
  <2> QED BY <1>14, <1>5, <1>8, <1>9, <2>5 DEF ChecksumPass, verdict
<1>15. CASE FinishRun
  <2>1. /\ report' = [items |-> run.items, checksum |-> run.checksum] /\ runStart' = run.began
        /\ overrides' = [tb \in Tables |-> IF tb \in run.pass THEN run.passBegan ELSE None]
        /\ run.kind = "run" /\ run' = NoRun /\ saved' = saved /\ healed' = healed /\ UNCHANGED world
    BY <1>15 DEF FinishRun
  <2>2. \A tb \in Tables : From(overrides', runStart', tb) = RunFrom(tb)
    BY <1>0, <2>1 DEF RunInv
  <2>3. OfNextReport
    <3> SUFFICES ASSUME NEW tb \in Tables
                 PROVE  FreshSince(tb, report'.items[tb], From(overrides', runStart', tb))
      OBVIOUS
    <3>1. FreshSince(tb, run.items[tb], RunFrom(tb))
      BY <1>1 DEF OfRun
    <3>2. report'.items[tb] = run.items[tb]
      BY <2>1
    <3> HIDE DEF From, RunFrom
    <3> QED BY <2>2, <3>1, <3>2
  <2> HIDE DEF OfNextReport, OfNextSaved, OfNextRun
  <2> QED BY <1>5, <1>7, <1>9, <2>1, <2>3
<1>16. CASE StopRun \/ StopRecheck
  <2> HIDE DEF OfNextReport, OfNextSaved, OfNextRun
  <2> QED BY <1>16, <1>5, <1>7, <1>8, <1>9 DEF StopRun, StopRecheck, verdict
<1>17. CASE Accept \/ Waive
  <2> HIDE DEF OfNextReport, OfNextSaved, OfNextRun
  <2> QED BY <1>17, <1>5, <1>8, <1>9, <1>10 DEF Accept, Waive
<1>18. CASE LandRead
  <2> HIDE DEF OfNextReport, OfNextSaved, OfNextRun
  <2> QED BY <1>18, <1>5, <1>8, <1>9, <1>10 DEF LandRead, Land, LandUnpublished, verdict
<1>19. ASSUME NEW l \in Lines, Heal(l) PROVE VerdictInv'
  <2> HIDE DEF OfNextReport, OfNextSaved, OfNextRun
  <2> QED BY <1>19, <1>5, <1>8, <1>9, <1>10 DEF Heal, verdict
<1>20. CASE Save
  <2>1. /\ saved'.report = report /\ saved'.mixed = mixed /\ saved'.overrides = overrides
        /\ saved'.runStart = runStart
    BY <1>20 DEF Save, Snapshot
  <2>2. OfNextSaved
    BY <1>1, <2>1 DEF OfReport
  <2> HIDE DEF OfNextReport, OfNextSaved, OfNextRun
  <2> QED BY <1>20, <1>5, <1>8, <1>10, <2>2 DEF Save, verdict
<1>21. CASE RestartApp
  <2>1. OfNextReport
    BY <1>1, <1>21 DEF OfSaved, RestartApp
  <2> HIDE DEF OfNextReport, OfNextSaved, OfNextRun
  <2> QED BY <1>21, <1>5, <1>7, <1>9, <2>1 DEF RestartApp
<1>22. ASSUME Merge PROVE OfNextReport
  <2>1. /\ report # None
        /\ \A tb \in Tables : report'.items[tb] = IF tb \in Rechecked THEN run.items[tb] ELSE report.items[tb]
    BY <1>0, <1>22, MergeFacts
  <2>2. /\ overrides' = [tb \in Tables |-> IF tb \in Rechecked THEN run.began ELSE overrides[tb]]
        /\ mixed' = mixed \ Rechecked /\ runStart' = runStart /\ run.kind = "recheck"
    BY <1>22 DEF Merge
  <2>3. run.pass = {} /\ run.began # None
    BY <1>0, <2>2 DEF RunInv
  <2> SUFFICES ASSUME NEW tb \in Tables \ mixed'
               PROVE  FreshSince(tb, report'.items[tb], From(overrides', runStart', tb))
    OBVIOUS
  <2>4. CASE tb \in Rechecked
    <3>1. FreshSince(tb, run.items[tb], RunFrom(tb))
      BY <1>1 DEF OfRun
    <3>2. From(overrides', runStart', tb) = RunFrom(tb)
      BY <2>2, <2>3, <2>4
    <3>3. report'.items[tb] = run.items[tb]
      BY <2>1, <2>4
    <3> HIDE DEF From, RunFrom
    <3> QED BY <3>1, <3>2, <3>3
  <2>5. CASE tb \notin Rechecked
    <3>1. FreshSince(tb, report.items[tb], From(overrides, runStart, tb))
      BY <1>1, <2>1, <2>2, <2>5 DEF OfReport
    <3>2. From(overrides', runStart', tb) = From(overrides, runStart, tb)
      BY <2>2, <2>5
    <3>3. report'.items[tb] = report.items[tb]
      BY <2>1, <2>5
    <3> HIDE DEF From
    <3> QED BY <3>1, <3>2, <3>3
  <2> QED BY <2>4, <2>5
<1>23. CASE FinishRecheck
  <2>1. Merge /\ saved' = saved /\ run' = NoRun /\ healed' = healed /\ UNCHANGED world
    BY <1>23 DEF FinishRecheck, Merge
  <2>2. OfNextReport
    BY <1>22, <2>1
  <2> HIDE DEF OfNextReport, OfNextSaved, OfNextRun
  <2> QED BY <1>5, <1>7, <1>9, <2>1, <2>2
<1>24. CASE SaveInMerge
  <2>1. Merge /\ run' = NoRun /\ healed' = healed /\ UNCHANGED world
    BY <1>24 DEF SaveInMerge, Merge
  <2>2. PICK r \in {recheckedAt, recheckedAt'} :
          saved' = [Snapshot EXCEPT !.recheckedAt = r, !.overrides = overrides', !.mixed = @ \cup Rechecked]
    BY <1>24 DEF SaveInMerge
  <2>3. /\ saved'.report = report /\ saved'.mixed = mixed \cup Rechecked
        /\ saved'.overrides = overrides' /\ saved'.runStart = runStart
    BY <2>2 DEF Snapshot
  <2>4. overrides' = [tb \in Tables |-> IF tb \in Rechecked THEN run.began ELSE overrides[tb]]
    BY <2>1 DEF Merge
  <2>5. OfNextSaved
    BY <1>1, <2>3, <2>4 DEF OfReport
  <2>6. OfNextReport
    BY <1>22, <2>1
  <2> HIDE DEF OfNextReport, OfNextSaved, OfNextRun
  <2> QED BY <1>5, <1>7, <2>1, <2>5, <2>6
<1>25. CASE Stream
  BY <1>4, <1>25 DEF Stream, World
<1> HIDE DEF OfNextReport, OfNextSaved, OfNextRun
<1> QED BY <1>3, <1>11, <1>12, <1>13, <1>14, <1>15, <1>16, <1>17, <1>18, <1>19, <1>20, <1>21, <1>23, <1>24,
           <1>25 DEF GateNext, GateStep

-----------------------------------------------------------------------------
(* The read.                                                               *)

LEMMA StepSpeaks ==
  ASSUME IInv, [GateNext]_gvars
  PROVE  Speaks'
<1>0. Speaks
  BY DEF IInv
<1>1. CASE UNCHANGED <<world, tool, excused>>
  BY <1>0, <1>1 DEF Speaks, Shown, world, tool
<1>2. ASSUME NEW S \in SUBSET Tables, StartRecheck(S) \/ \E c \in BOOLEAN : StartRun(S, c)
      PROVE  UNCHANGED <<world, tool, excused>>
  BY <1>2 DEF StartRecheck, StartRun
<1>3. ASSUME NEW tb \in Tables, Compare(tb) PROVE UNCHANGED <<world, tool, excused>>
  BY <1>3 DEF Compare
<1>4. ChecksumPass \/ FinishRun \/ StopRun \/ FinishRecheck \/ SaveInMerge \/ StopRecheck
      => UNCHANGED <<world, tool, excused>>
  BY DEF ChecksumPass, FinishRun, StopRun, FinishRecheck, SaveInMerge, StopRecheck, Merge
<1>5. Accept \/ Waive \/ Save => UNCHANGED <<world, tool, excused>>
  BY DEF Accept, Waive, Save
<1>6. ASSUME NEW l \in Lines, Heal(l) PROVE UNCHANGED <<world, tool, excused>>
  BY <1>6 DEF Heal
<1>7. CASE Stream
  BY <1>7 DEF Stream, World, Excusing
<1>8. CASE LandRead
  BY <1>8 DEF LandRead, Land, LandUnpublished, Excusing
<1>9. CASE RestartApp
  BY <1>9 DEF RestartApp, Speaks
<1>10. CASE UNCHANGED gvars
  BY <1>1, <1>10 DEF gvars
<1> QED BY <1>1, <1>2, <1>3, <1>4, <1>5, <1>6, <1>7, <1>8, <1>9, <1>10 DEF GateNext, GateStep

-----------------------------------------------------------------------------
(* The theorems.                                                           *)

\* The moments of the clock are naturals.
LEMMA MomentsAreTimes == Moments \subseteq Nat
<1> SUFFICES ASSUME NEW k \in 0..((Last - First) \div Unit)
             PROVE  First + Unit * k \in Nat
  BY DEF Moments
<1>1. First \in Nat /\ Unit \in Nat /\ k \in Nat
  BY SinkLogAssumption
<1>2. Unit * k \in Nat
  BY <1>1
<1> QED BY <1>1, <1>2

LEMMA InitIInv == GateInit => IInv
<1> SUFFICES ASSUME GateInit PROVE IInv
  OBVIOUS
<1> USE SinkLogAssumption, GateAssumption
<1>1. /\ now = First /\ cdcStart \in Starts /\ at \in [Lines -> Time] /\ shown \in [Lines -> Time]
      /\ \A l \in Lines : at[l] # None /\ cdcStart # None => cdcStart <= at[l]
      /\ \A l \in Lines : shown[l] # None => at[l] # None
  <2>0. PICK S \in SUBSET Lines : \E t \in [S -> Earlier] :
          /\ \A l \in S : cdcStart # None => cdcStart <= t[l]
          /\ at = [l \in Lines |-> IF l \in S THEN t[l] ELSE None]
          /\ shown = [l \in Lines |-> IF l \in S THEN t[l] ELSE None]
    BY DEF GateInit, Init, WorldInit
  <2>1. PICK t \in [S -> Earlier] :
          /\ \A l \in S : cdcStart # None => cdcStart <= t[l]
          /\ at = [l \in Lines |-> IF l \in S THEN t[l] ELSE None]
          /\ shown = [l \in Lines |-> IF l \in S THEN t[l] ELSE None]
    BY <2>0
  <2>2. \A l \in S : t[l] \in Nat
    OBVIOUS
  <2>3. now = First /\ cdcStart \in Starts
    BY DEF GateInit, Init, WorldInit
  <2> QED BY <2>1, <2>2, <2>3 DEF Time
<1>2. /\ ledger = [tb \in Tables |-> NoEntry] /\ counted = {} /\ readFrom = None /\ lastRead = None
      /\ explained \in Gaps /\ healed = {} /\ report = None /\ runStart = None /\ overrides = NoTimes
      /\ completedAt = None /\ recheckedAt = None /\ waiver = None
      /\ run = NoRun /\ acknowledged = {} /\ mixed = {} /\ saved = Snapshot
  BY DEF GateInit, Init
<1>3. saved = [ledger |-> ledger, counted |-> {}, readFrom |-> None, report |-> None, runStart |-> None,
               overrides |-> NoTimes, completedAt |-> None, recheckedAt |-> None, waiver |-> None,
               acknowledged |-> {}, mixed |-> {}]
  BY <1>2 DEF Snapshot
<1>4. NoRun \in Runs /\ NoRun.kind = "none" /\ NoRun.began = None /\ NoRun.passBegan = None
      /\ NoRun.pass = {} /\ \A tb \in Tables : NoRun.items[tb] = "absent"
  BY DEF NoRun, Runs, NoItems, Items, Time
<1>5. ledger \in [Tables -> Entries] /\ NoTimes \in [Tables -> Time] /\ None \in Time
  BY <1>2 DEF NoEntry, Entries, Time, NoTimes
<1>6. TypeOK
  BY <1>2, <1>4, <1>5 DEF TypeOK, Present
<1>7. ClocksInv
  BY <1>1, <1>2, <1>3, <1>4 DEF ClocksInv, Shown, Past, NoTimes
<1>8. RunInv
  BY <1>2, <1>4 DEF RunInv
<1>9. SavedInv
  <2>1. saved \in Snapshots
    BY <1>3, <1>5 DEF Snapshots
  <2> QED BY <2>1, <1>3 DEF SavedInv
<1>10. Holds(ledger, {})
  <2>1. \A tb \in Tables : LinesOf(tb, {}) = {}
    BY DEF LinesOf
  <2>2. \A tb \in Tables : Cardinality(LinesOf(tb, {})) = 0
    BY <2>1, FS_EmptySet
  <2> QED BY <2>2, <1>2 DEF Holds, NoEntry
<1>11. LedgerInv
  BY <1>2, <1>3, <1>10 DEF LedgerInv
<1>12. WaiverInv
  BY <1>2, <1>3 DEF WaiverInv, Covered
<1>13. VerdictInv
  BY <1>2, <1>3, <1>4 DEF VerdictInv, FreshSince
<1>14. Speaks
  BY <1>2 DEF Speaks
<1> QED BY <1>6, <1>7, <1>8, <1>9, <1>11, <1>12, <1>13, <1>14 DEF IInv

\* The inductive invariant of the gate: what its times and counts stand for, in the session and
\* in the snapshot it may go back to.
THEOREM GateInvariant == GateSpec => []IInv
<1>1. IInv /\ [GateNext]_gvars => IInv'
  BY StepClocks, StepTypes, StepLedger, StepWaiver, StepVerdict, StepSpeaks DEF IInv
<1> QED BY InitIInv, <1>1, PTL DEF GateSpec

\* A table whose verdict proves it since t has no stale dead letter from before t.
LEMMA ProvenIsFresh ==
  ASSUME IInv, NEW tb \in Present \ mixed, NEW t \in Nat, ProvenSince(tb, t),
         NEW l \in Lines \ healed, Of[l] = tb, at[l] # None
  PROVE  t < at[l]
<1> USE SinkLogAssumption, GateAssumption
<1>0. TypeOK /\ ClocksInv /\ VerdictInv
  BY DEF IInv
<1>1. report # None /\ tb \in Tables
  BY DEF Present
<1>2. /\ report.items[tb] = "verified" /\ ComparedFrom(tb) # None
      /\ ComparedFrom(tb) > t + Margin
  BY DEF ProvenSince, Late
<1>3. ComparedFrom(tb) \in Nat
  BY <1>0, <1>1, <1>2 DEF TypeOK, ComparedFrom, Time
<1>4. at[l] \in Nat
  BY <1>0 DEF ClocksInv, Time
<1>5. FreshSince(tb, report.items[tb], ComparedFrom(tb))
  BY <1>0, <1>1 DEF VerdictInv
<1>6. ComparedFrom(tb) <= at[l] + Skew
  BY <1>2, <1>5 DEF FreshSince
<1> QED BY <1>2, <1>3, <1>4, <1>6

\* Evidence is the later of the two times, and there is one if there is a report.
LEMMA EvidenceFacts ==
  ASSUME IInv, report # None
  PROVE  Evidence \in Nat
<1>1. completedAt \in Nat /\ recheckedAt \in Time
  BY SinkLogAssumption DEF IInv, TypeOK, RunInv, Time
<1>2. {completedAt, recheckedAt} \subseteq Time /\ IsFiniteSet({completedAt, recheckedAt})
  <2>1. IsFiniteSet({completedAt}) /\ IsFiniteSet({recheckedAt})
    BY FS_Singleton
  <2>2. {completedAt, recheckedAt} = {completedAt} \cup {recheckedAt}
    OBVIOUS
  <2>3. IsFiniteSet({completedAt} \cup {recheckedAt})
    BY <2>1, FS_Union
  <2> QED BY <1>1, <2>2, <2>3 DEF Time
<1>3. completedAt \in {completedAt, recheckedAt} \ {None}
  BY <1>1, SinkLogAssumption
<1> QED BY <1>2, <1>3, LatestFacts DEF Evidence

\* Cut over is offered only if every dead letter whose row is still stale is known: acknowledged
\* by the waiver, shown after the last read began and so after the latest validation, excused, or
\* part of a problem of the reading that the operator waived.
THEOREM OpenIsRightHolds == GateSpec => []OpenIsRight
<1>1. IInv => OpenIsRight
  <2> USE SinkLogAssumption
  <2> SUFFICES ASSUME IInv, Open, NEW l \in Lines \ healed, at[l] # None,
                      ReadProblem = None, l \notin excused, Of[l] \notin mixed
               PROVE  Known(l) \/ Unread(l)
    BY DEF OpenIsRight, Known
  <2>0. TypeOK /\ ClocksInv /\ LedgerInv /\ WaiverInv /\ Speaks
    BY DEF IInv
  <2> DEFINE tb == Of[l]
  <2>1. tb \in Tables /\ at[l] \in Nat
    BY <2>0 DEF ClocksInv, Time
  <2>2. report # None
    BY DEF Open, Released, Release
  <2>3. ReadState = "ok" /\ ~Blocks
    <3>1. ~Blocks /\ ReadState # "pending"
      BY DEF Open, Held
    <3>2. ReadState \in Problems \cup {"pending", "ok"}
      BY DEF ReadState, Problems
    <3> QED BY <3>1, <3>2, NoneAssumption DEF ReadProblem
  <2>4. /\ lastRead # None /\ lastRead.ok /\ lastRead.complete
        /\ Evidence = None \/ ~(lastRead.began <= Evidence)
        /\ HistoryReaches \/ HistoryCleared
    BY <2>3 DEF ReadState
  <2>5. CASE l \in counted
    <3>1. ledger[tb].count \in Nat /\ ledger[tb].last \in Nat /\ at[l] <= ledger[tb].last
      BY <2>0, <2>1, <2>5 DEF LedgerInv, Holds, TypeOK, Entries, Time
    <3>2. tb \in Listed
      <4>1. counted \in SUBSET Lines /\ l \in LinesOf(tb, counted)
        BY <2>0, <2>5 DEF TypeOK, Shown, LinesOf
      <4>2. Cardinality(LinesOf(tb, counted)) \in Nat /\ Cardinality(LinesOf(tb, counted)) # 0
        BY <4>1, LinesAreFinite
      <4>3. Cardinality(LinesOf(tb, counted)) <= ledger[tb].count
        BY <2>0, <2>1 DEF LedgerInv, Holds
      <4> QED BY <2>1, <3>1, <4>2, <4>3 DEF Listed
    <3>3. CASE tb \in Waivable
      <4>1. Covers(waiver)
        BY <2>3, <3>3 DEF Blocks, NeedsWaiver
      <4>2. waiver # None /\ ledger[tb].count <= waiver.tables[tb] /\ waiver.tables[tb] \in Nat
        BY <2>0, <2>1, <3>3, <4>1 DEF Covers, TypeOK, Waivers
      <4>3. LinesOf(tb, counted) \subseteq acknowledged
        BY <2>0, <2>1, <3>1, <4>2 DEF WaiverInv, Covered
      <4> QED BY <2>5, <4>3 DEF LinesOf, Known
    <3>4. CASE tb \notin Waivable
      <4>1. tb \in Present \ mixed
        BY <3>2, <3>4 DEF Waivable
      <4>2. ProvenSince(tb, ledger[tb].last)
        BY <2>3, <3>2, <3>4 DEF Blocks, MustRecheck
      <4>3. ledger[tb].last < at[l]
        BY <3>1, <4>1, <4>2, ProvenIsFresh
      <4> QED BY <2>1, <3>1, <4>3
    <3> QED BY <3>3, <3>4
  <2>6. CASE l \notin counted
    <3>1. CASE l \notin Shown
      BY <2>6, <3>1 DEF Known
    <3>2. CASE l \in Shown
      <4>1. readFrom \in Nat /\ shown[l] \in Nat /\ lastRead.began \in Nat
        <5>1. readFrom \in Nat /\ shown[l] \in Nat
          BY <2>0, <2>4, <3>2 DEF Speaks, TypeOK, ClocksInv, Shown, Time
        <5>2. lastRead.began \in Moments
          BY <2>0, <2>4 DEF TypeOK, Record
        <5> QED BY <5>1, <5>2, MomentsAreTimes
      <4>2. CASE at[l] >= readFrom
        <5>1. ~(shown[l] < lastRead.began)
          BY <2>0, <2>4, <2>6, <3>2, <4>2 DEF Speaks
        <5>2. Evidence \in Nat
          BY <2>2, EvidenceFacts
        <5>3. shown[l] >= lastRead.began /\ shown[l] > Evidence
          BY <2>4, <4>1, <5>1, <5>2
        <5> QED BY <2>6, <5>3 DEF Known
      <4>3. CASE ~(at[l] >= readFrom)
        <5>1. at[l] < readFrom
          BY <2>1, <4>1, <4>3
        <5>2. ~HistoryReaches
          <6> SUFFICES ASSUME HistoryReaches PROVE FALSE
            OBVIOUS
          <6>1. cdcStart # None /\ readFrom <= cdcStart /\ cdcStart \in Nat
            BY <2>0 DEF HistoryReaches, ClocksInv
          <6>2. cdcStart <= at[l]
            BY <2>0, <6>1 DEF ClocksInv
          <6> QED BY <2>1, <4>1, <5>1, <6>1, <6>2
        <5>3. tb \notin Present
          <6> SUFFICES ASSUME tb \in Present PROVE FALSE
            OBVIOUS
          <6>1. ProvenSince(tb, readFrom)
            BY <2>4, <5>2 DEF HistoryCleared
          <6>2. readFrom < at[l]
            BY <4>1, <6>1, ProvenIsFresh
          <6> QED BY <2>1, <4>1, <5>1, <6>2
        <5> QED BY <2>6, <5>1, <5>3 DEF Unread
      <4> QED BY <4>2, <4>3
    <3> QED BY <3>1, <3>2
  <2> QED BY <2>5, <2>6
<1> QED BY <1>1, GateInvariant, PTL

\* GateInv, which adds that a re-check runs over tables of the report, and all types.
THEOREM GateInvHolds == GateSpec => []GateInv
<1>1. IInv => TypeOK
  BY DEF IInv
<1> QED BY <1>1, GateInvariant, OpenIsRightHolds, PTL DEF GateInv
=============================================================================
