------------------------ MODULE BatchedImportProofs ------------------------
(***************************************************************************)
(* The load of a table keeps its resume point and its promise, for every   *)
(* set of plans, snapshots, ranges, batches, failures and stops.           *)
(***************************************************************************)
EXTENDS BatchedImport, TLAPS, SequenceTheorems

Grows == target \subseteq target' /\ quarantined \subseteq quarantined'

\* What is settled stays so while the target and the report only grow.
LEMMA SettledStays ==
  ASSUME Grows, cut' = cut, NEW w, Settled(w)
  PROVE  Settled(w)'
BY DEF Grows, Settled, DoneRows, RowsOf

LEMMA TrackerKeeps ==
  ASSUME TrackerInv, Grows, UNCHANGED <<cut, skip, frontier, ahead>>
  PROVE  TrackerInv'
BY SettledStays DEF TrackerInv

LEMMA AccountKeeps ==
  ASSUME AccountInv, Grows, UNCHANGED <<cut, skip, next, queue, failed, stoppedEarly>>,
         DOMAIN batches' = DOMAIN batches
  PROVE  AccountInv'
<1>1. Queued' = Queued /\ \A w : InCut(w)' = InCut(w)
  BY DEF Queued, InCut
<1>2. \A w \in (Queued \cup DOMAIN batches)' : InCut(w)'
  BY <1>1 DEF AccountInv
<1>3. ASSUME NEW r \in Ranges, NEW i \in DOMAIN cut[r], i <= next[r]
      PROVE  LET w == [range |-> r, index |-> i] IN
             \/ i <= skip[r] \/ w \in Queued \/ w \in DOMAIN batches
             \/ Settled(w)' \/ failed \/ stoppedEarly
  BY <1>3, SettledStays DEF AccountInv
<1> QED
  BY <1>1, <1>2, <1>3 DEF AccountInv

LEMMA BatchesKeep ==
  ASSUME BatchInv, Grows, UNCHANGED <<cut, batches>>
  PROVE  BatchInv'
<1>1. DoneRows \subseteq DoneRows'
  BY DEF Grows, DoneRows
<1>2. ASSUME NEW w \in DOMAIN batches
      PROVE  BatchOk(w, batches[w], DoneRows')
  BY <1>1 DEF BatchInv, BatchOk
<1>3. ASSUME NEW w \in DOMAIN batches
      PROVE  BatchOk(w, batches[w], DoneRows)'
  BY <1>2 DEF BatchOk, RowsOf
<1> QED
  BY <1>3 DEF BatchInv

LEMMA MainKeeps ==
  ASSUME MainInv, Grows,
         UNCHANGED <<cut, next, reader, queue, main, stoppedEarly, outcome>>,
         DOMAIN batches' = DOMAIN batches
  PROVE  MainInv'
BY DEF MainInv, Grows, DoneRows, Snapshot

-----------------------------------------------------------------------------
(* The reader. *)

LEMMA ReadKeeps ==
  ASSUME LoadInv, NEW r \in Ranges, Read(r)
  PROVE  LoadInv'
<1> DEFINE n == next[r] + 1
           new == [range |-> r, index |-> n]
<1>1. Grows /\ UNCHANGED <<cut, skip, frontier, ahead, batches>>
  BY DEF Read, Grows, run, tracker
<1>2. cut[r] \in Seq(Seq(Rows) \ {<<>>}) /\ next[r] \in Nat /\ n \in Nat \ {0} /\ n <= Len(cut[r])
  BY DEF LoadInv, TypeOK, Cuts, Read
<1>3. new \in Works /\ queue \in Seq(Works)
  BY <1>2 DEF Works, LoadInv, TypeOK
<1>4. next' = [next EXCEPT ![r] = n] /\ next \in [Ranges -> Nat]
  BY DEF Read, LoadInv, TypeOK
<1>5. (queue' = queue /\ n <= skip[r]) \/ queue' = Append(queue, new)
  BY DEF Read, Skips
<1>6. (Queued' = Queued /\ n <= skip[r]) \/ Queued' = Queued \cup {new}
  <2>1. CASE queue' = queue /\ n <= skip[r]
    BY <2>1 DEF Queued
  <2>2. CASE queue' = Append(queue, new)
    BY <2>2, <1>3 DEF Queued, ToSet
  <2> QED  BY <1>5, <2>1, <2>2
<1>7. TypeOK'
  <2>1. queue' \in Seq(Works)
    <3> HIDE DEF new
    <3> QED  BY <1>3, <1>5
  <2>3. next' \in [Ranges -> Nat]
    BY <1>2, <1>4
  <2>2. UNCHANGED <<run, target, quarantined, tracker, reader, batches, loading, cancelled, faults, drops>>
    BY DEF Read
  <2> QED
    BY <2>1, <2>2, <2>3 DEF LoadInv, TypeOK, run, tracker, loading
<1>8. TrackerInv'
  BY <1>1, TrackerKeeps DEF LoadInv
<1>9. AccountInv'
  <2>1. \A w \in (Queued \cup DOMAIN batches)' : InCut(w)'
    <3> SUFFICES ASSUME NEW w \in (Queued \cup DOMAIN batches)' PROVE InCut(w)'
      OBVIOUS
    <3>1. CASE w = new
      BY <3>1, <1>1, <1>2, <1>4 DEF InCut
    <3>2. CASE w # new
      <4>1. w \in Queued \cup DOMAIN batches
        BY <3>2, <1>1, <1>6
      <4>2. w \in Works
        BY <4>1, <1>3 DEF LoadInv, TypeOK, Queued, ToSet
      <4>3. InCut(w)
        BY <4>1 DEF LoadInv, AccountInv
      <4> QED  BY <4>2, <4>3, <1>1, <1>2, <1>4 DEF InCut, Works
    <3> QED  BY <3>1, <3>2
  <2>2. ASSUME NEW x \in Ranges, NEW i \in DOMAIN cut'[x], i <= next'[x]
        PROVE  LET w == [range |-> x, index |-> i] IN
               \/ i <= skip'[x] \/ w \in Queued' \/ w \in DOMAIN batches'
               \/ Settled(w)' \/ failed' \/ stoppedEarly'
    <3>0. i \in Nat /\ failed' = failed /\ stoppedEarly' = stoppedEarly
      <4>1. cut' \in Cuts
        BY <1>1 DEF LoadInv, TypeOK
      <4>2. i \in Nat
        BY <4>1 DEF Cuts
      <4> QED  BY <4>2 DEF Read, loading
    <3>1. CASE x = r /\ i = n
      BY <3>1, <1>1, <1>6
    <3>2. CASE ~(x = r /\ i = n)
      <4>1. i <= next[x]
        BY <3>2, <3>0, <2>2, <1>4
      <4> QED  BY <4>1, <3>0, <1>1, <1>6, SettledStays DEF LoadInv, AccountInv
    <3> QED  BY <3>1, <3>2
  <2> QED  BY <2>1, <2>2 DEF AccountInv
<1>10. BatchInv'
  BY <1>1, BatchesKeep DEF LoadInv
<1>11. MainInv'
  BY <1>1 DEF Read, LoadInv, MainInv, run, loading, Snapshot, DoneRows
<1> QED
  BY <1>7, <1>8, <1>9, <1>10, <1>11 DEF LoadInv

\* The reader's last step, whichever it is, changes its state only.
LEMMA ReaderEndKeeps ==
  ASSUME LoadInv, ReadAll \/ SourceFails \/ ReaderStops
  PROVE  LoadInv'
<1>1. /\ Grows /\ UNCHANGED <<run, target, quarantined, tracker, next, queue, batches, loading, cancelled, faults>>
      /\ reader = "reading"
      /\ \/ reader' = "done" /\ \A r \in Ranges : next[r] = Len(cut[r])
         \/ reader' \in {"lost", "broken", "cancelled"}
      /\ drops' \in Nat
  BY DEF ReadAll, SourceFails, ReaderStops, Grows, LoadInv, TypeOK
<1>2. TypeOK'
  BY <1>1 DEF LoadInv, TypeOK, run, tracker, loading
<1>3. TrackerInv' /\ AccountInv' /\ BatchInv'
  BY <1>1, TrackerKeeps, AccountKeeps, BatchesKeep DEF LoadInv, run, tracker, loading
<1>4. MainInv'
  BY <1>1 DEF LoadInv, MainInv, run, loading, Snapshot, DoneRows
<1> QED
  BY <1>2, <1>3, <1>4 DEF LoadInv

-----------------------------------------------------------------------------
(* The loading thread. *)

LEMMA PullKeeps ==
  ASSUME LoadInv, Pull
  PROVE  LoadInv'
<1> DEFINE h == Head(queue)
<1>1. /\ Grows /\ UNCHANGED <<run, target, quarantined, tracker, next, failed, cancelled, faults, drops>>
      /\ queue \in Seq(Works) /\ queue # <<>> /\ main = "pulling" /\ outcome = "loading"
  BY DEF Pull, Grows, LoadInv, TypeOK
<1>2. TrackerInv'
  BY <1>1, TrackerKeeps DEF LoadInv, run, tracker
<1>3. CASE cancelled
  <2>1. /\ stoppedEarly' = TRUE /\ main' = "tail" /\ queue' = <<>> /\ reader' = "closed"
        /\ batches' = batches
    BY <1>3 DEF Pull
  <2>2. TypeOK'
    BY <2>1, <1>1 DEF LoadInv, TypeOK, run, tracker
  <2>3. BatchInv'
    BY <2>1, <1>1, BatchesKeep DEF LoadInv, run
  <2>4. AccountInv'
    BY <2>1, <1>1 DEF LoadInv, AccountInv, Queued, InCut, ToSet, run
  <2>5. MainInv'
    BY <2>1, <1>1 DEF LoadInv, MainInv, run
  <2> QED
    BY <2>2, <2>3, <2>4, <2>5, <1>2 DEF LoadInv
<1>4. CASE ~cancelled
  <2>1. /\ batches' = [w \in DOMAIN batches \cup {h} |-> IF w = h THEN Submitted(h) ELSE batches[w]]
        /\ queue' = Tail(queue) /\ main' \in {"full", "pulling"}
        /\ UNCHANGED <<stoppedEarly, reader>>
    BY <1>4 DEF Pull
  <2>2. h \in Works /\ h \in Queued /\ Tail(queue) \in Seq(Works)
        /\ Queued = {h} \cup ToSet(Tail(queue))
    <3>1. 1 \in DOMAIN queue /\ h = queue[1] /\ \A i \in DOMAIN queue : queue[i] \in Works
      BY <1>1
    <3>2. Queued = {h} \cup ToSet(Tail(queue))
      <4>1. ASSUME NEW i \in DOMAIN queue PROVE queue[i] \in {h} \cup ToSet(Tail(queue))
        <5>1. CASE i = 1
          BY <5>1, <3>1
        <5>2. CASE i # 1
          <6>1. i - 1 \in DOMAIN Tail(queue) /\ Tail(queue)[i - 1] = queue[i]
            BY <5>2, <1>1
          <6> QED  BY <6>1 DEF ToSet
        <5> QED  BY <5>1, <5>2
      <4>2. ASSUME NEW i \in DOMAIN Tail(queue) PROVE Tail(queue)[i] \in Queued
        <5>1. i + 1 \in DOMAIN queue /\ Tail(queue)[i] = queue[i + 1]
          BY <1>1
        <5> QED  BY <5>1 DEF Queued, ToSet
      <4> QED  BY <3>1, <4>1, <4>2 DEF Queued, ToSet
    <3> QED  BY <3>1, <3>2, <1>1 DEF Queued, ToSet
  <2>3. /\ h.range \in Ranges /\ h.index \in DOMAIN cut[h.range]
        /\ cut[h.range][h.index] \in Seq(Rows) \ {<<>>}
        /\ h = [range |-> h.range, index |-> h.index]
    <3>1. InCut(h) /\ h.range \in Ranges /\ h.index \in Nat \ {0}
          /\ h = [range |-> h.range, index |-> h.index]
      BY <2>2 DEF LoadInv, AccountInv, Works
    <3>2. cut[h.range] \in Seq(Seq(Rows) \ {<<>>}) /\ next[h.range] \in Nat
      BY <3>1 DEF LoadInv, TypeOK, Cuts
    <3> QED  BY <3>1, <3>2 DEF InCut
  <2>4. Submitted(h) \in Batches
    <3>1. <<cut[h.range][h.index]>> \in Parts
      BY <2>3 DEF Parts
    <3> QED  BY <3>1 DEF Submitted, Batches, Steps
  <2>5. TypeOK'
    <3>1. DOMAIN batches' = DOMAIN batches \cup {h}
          /\ batches' \in [DOMAIN batches \cup {h} -> Batches]
      BY <2>1, <2>4 DEF LoadInv, TypeOK
    <3>2. DOMAIN batches' \subseteq Works
      BY <3>1, <2>2 DEF LoadInv, TypeOK
    <3>3. queue' \in Seq(Works)
      BY <2>1, <2>2
    <3> QED  BY <3>1, <3>2, <3>3, <2>1, <1>1 DEF LoadInv, TypeOK, run, tracker
  <2>6. BatchInv'
    <3>1. ASSUME NEW w \in DOMAIN batches \cup {h} PROVE BatchOk(w, batches[w], DoneRows)'
      <4>1. CASE w = h
        <5>1. batches'[w] = Submitted(w) /\ cut' = cut
          BY <4>1, <2>1, <1>1 DEF run
        <5>2. RowsOf(w)' = ToSet(Submitted(w).left[1]) /\ 1 \in DOMAIN Submitted(w).left
          BY <5>1 DEF RowsOf, Submitted
        <5> QED  BY <5>1, <5>2 DEF BatchOk, Submitted
      <4>2. CASE w # h
        <5>1. batches'[w] = batches[w] /\ BatchOk(w, batches[w], DoneRows) /\ cut' = cut
              /\ DoneRows' = DoneRows
          BY <4>2, <2>1, <1>1 DEF LoadInv, BatchInv, run, DoneRows
        <5> QED  BY <5>1 DEF BatchOk, RowsOf
      <4> QED  BY <4>1, <4>2
    <3> QED  BY <3>1, <2>1 DEF BatchInv
  <2>7. AccountInv'
    <3>1. Queued' \cup DOMAIN batches' = Queued \cup DOMAIN batches
      BY <2>1, <2>2 DEF Queued
    <3>2. \A w : InCut(w)' = InCut(w) /\ Settled(w)' = Settled(w)
      BY <1>1 DEF InCut, Settled, DoneRows, RowsOf, run
    <3>3. UNCHANGED <<cut, skip, next, failed, stoppedEarly>>
      BY <1>1, <2>1 DEF run
    <3> QED  BY <3>1, <3>2, <3>3 DEF LoadInv, AccountInv
  <2>8. MainInv'
    BY <2>1, <1>1 DEF LoadInv, MainInv, run
  <2> QED
    BY <2>5, <2>6, <2>7, <2>8, <1>2 DEF LoadInv
<1> QED
  BY <1>3, <1>4

LEMMA StreamEndsKeeps ==
  ASSUME LoadInv, StreamEnds
  PROVE  LoadInv'
<1>1. /\ Grows /\ queue = <<>> /\ outcome = "loading"
      /\ UNCHANGED <<run, target, quarantined, tracker, reading, batches, stoppedEarly, failed,
                     cancelled, faults, drops>>
      /\ (main' = "tail" /\ reader = "done") \/ main' = "unwinding"
  BY DEF StreamEnds, Ended, Grows
<1>2. TypeOK'
  BY <1>1 DEF LoadInv, TypeOK, run, tracker, reading
<1>3. TrackerInv' /\ AccountInv' /\ BatchInv'
  BY <1>1, TrackerKeeps, AccountKeeps, BatchesKeep DEF LoadInv, run, tracker, reading
<1>4. MainInv'
  BY <1>1 DEF LoadInv, MainInv, run, reading
<1> QED
  BY <1>2, <1>3, <1>4 DEF LoadInv

\* What recording a finished batch does to the tracker.
LEMMA RecordKeeps ==
  ASSUME TypeOK, TrackerInv, Grows, UNCHANGED <<cut, skip>>, NEW w \in Works,
         \/ /\ Settled(w) /\ RecordDone(w.range, w.index) /\ UNCHANGED sealed
         \/ RecordFailed(w.range)
  PROVE  /\ TrackerInv'
         /\ frontier' \in [Ranges -> Int] /\ ahead' \in [Ranges -> SUBSET (Nat \ {0})]
         /\ sealed' \in SUBSET Ranges
<1> DEFINE r == w.range
<1>1. /\ r \in Ranges /\ w.index \in Nat \ {0} /\ w = [range |-> r, index |-> w.index]
      /\ frontier \in [Ranges -> Int] /\ ahead \in [Ranges -> SUBSET (Nat \ {0})]
      /\ sealed \in SUBSET Ranges /\ skip \in [Ranges -> Int]
  BY DEF TypeOK, Works
<1>2. CASE RecordFailed(r)
  <2>1. /\ frontier' = frontier /\ ahead' = [ahead EXCEPT ![r] = {}]
        /\ sealed' = sealed \cup {r}
    BY <1>2 DEF RecordFailed
  <2>2. \A x \in Ranges : ahead'[x] \subseteq ahead[x]
    BY <2>1, <1>1
  <2>3. TrackerInv'
    BY <2>1, <2>2, SettledStays DEF TrackerInv
  <2> QED  BY <2>1, <2>3, <1>1
<1>3. CASE Settled(w) /\ RecordDone(r, w.index) /\ UNCHANGED sealed
  <2>1. CASE UNCHANGED <<frontier, ahead>>
    BY <2>1, <1>1, <1>3, TrackerKeeps
  <2>2. CASE ~UNCHANGED <<frontier, ahead>>
    <3> DEFINE from == IF frontier[r] < 0 THEN 0 ELSE frontier[r]
               done == ahead[r] \cup {w.index}
    <3>1. PICK to \in {from} \cup done :
            /\ to >= from /\ (from + 1)..to \subseteq done
            /\ frontier' = [frontier EXCEPT ![r] = to]
            /\ ahead' = [ahead EXCEPT ![r] = done \ ((from + 1)..to)]
      BY <2>2, <1>3 DEF RecordDone
    <3>2. from \in Nat /\ frontier[r] \in Int /\ done \subseteq Nat \ {0} /\ to \in Nat /\ from >= frontier[r]
      BY <1>1
    <3>3. /\ frontier'[r] = to /\ ahead'[r] \subseteq done
          /\ \A x \in Ranges : x # r => frontier'[x] = frontier[x] /\ ahead'[x] = ahead[x]
      BY <3>1, <1>1
    <3>4. frontier' \in [Ranges -> Int] /\ ahead' \in [Ranges -> SUBSET (Nat \ {0})]
      BY <3>1, <3>2, <1>1
    <3>5. ASSUME NEW x \in Ranges PROVE skip'[x] <= frontier'[x]
      <4>1. CASE x = r
        BY <4>1, <3>1, <3>2, <3>3, <1>1 DEF TrackerInv
      <4>2. CASE x # r
        BY <4>2, <3>3 DEF TrackerInv
      <4> QED  BY <4>1, <4>2
    <3>6. ASSUME NEW x \in Ranges, NEW i \in DOMAIN cut'[x], i <= frontier'[x] \/ i \in ahead'[x]
          PROVE  Settled([range |-> x, index |-> i])'
      <4>0. i \in Nat \ {0} /\ i \in DOMAIN cut[x]
        <5>1. cut' = cut /\ cut \in Cuts
          BY DEF TypeOK
        <5>2. i \in DOMAIN cut[x] /\ cut[x] \in Seq(Seq(Rows) \ {<<>>})
          BY <5>1 DEF Cuts
        <5> QED  BY <5>2
      <4>1. CASE x = r
        <5>1. i <= frontier[r] \/ i \in ahead[r] \/ i = w.index
          BY <4>0, <4>1, <3>1, <3>2, <3>3, <3>6
        <5>2. Settled([range |-> r, index |-> i])
          BY <5>1, <4>0, <4>1, <1>1, <1>3 DEF TrackerInv
        <5> QED  BY <5>2, <4>1, SettledStays
      <4>2. CASE x # r
        BY <4>0, <4>2, <3>3, <3>6, SettledStays DEF TrackerInv
      <4> QED  BY <4>1, <4>2
    <3>7. TrackerInv'
      BY <3>5, <3>6 DEF TrackerInv
    <3> QED  BY <3>4, <3>7, <1>1, <1>3
  <2> QED  BY <2>1, <2>2
<1> QED
  BY <1>2, <1>3

LEMMA DrainKeeps ==
  ASSUME LoadInv, NEW w \in DOMAIN batches, Drain(w)
  PROVE  LoadInv'
<1>1. /\ Grows /\ main \in {"full", "tail", "unwinding"} /\ outcome = "loading"
      /\ batches' = [x \in DOMAIN batches \ {w} |-> batches[x]]
      /\ main' = IF main = "full" THEN "pulling" ELSE main
      /\ UNCHANGED <<run, target, quarantined, reading, stoppedEarly, cancelled, faults, drops>>
  BY DEF Drain, Grows
<1>2. w \in Works /\ w.range \in Ranges /\ batches \in [DOMAIN batches -> Batches]
      /\ DOMAIN batches \subseteq Works
  BY DEF LoadInv, TypeOK, Works
<1>3. \/ /\ Settled(w) /\ RecordDone(w.range, w.index) /\ UNCHANGED <<sealed, failed>>
      \/ RecordFailed(w.range) /\ failed' = TRUE
  <2>1. ASSUME batches[w].status = "done" PROVE Settled(w)
    BY <2>1 DEF LoadInv, BatchInv, BatchOk, Settled
  <2> QED  BY <2>1 DEF Drain
<1>4. /\ TrackerInv'
      /\ frontier' \in [Ranges -> Int] /\ ahead' \in [Ranges -> SUBSET (Nat \ {0})]
      /\ sealed' \in SUBSET Ranges
  BY <1>1, <1>2, <1>3, RecordKeeps DEF LoadInv, run
<1>5. TypeOK'
  <2>1. DOMAIN batches' \subseteq Works /\ batches' \in [DOMAIN batches' -> Batches]
    BY <1>1, <1>2
  <2>2. failed' \in BOOLEAN /\ main' \in {"pulling", "full", "tail", "unwinding", "waiting"}
    BY <1>1, <1>3 DEF LoadInv, TypeOK
  <2> QED  BY <2>1, <2>2, <1>1, <1>4 DEF LoadInv, TypeOK, run, reading
<1>6. AccountInv'
  <2>1. /\ \A x : InCut(x)' = InCut(x) /\ Settled(x)' = Settled(x)
        /\ Queued' = Queued /\ DOMAIN batches' = DOMAIN batches \ {w}
        /\ UNCHANGED <<cut, skip, next, stoppedEarly>>
    BY <1>1 DEF InCut, Settled, DoneRows, RowsOf, Queued, run, reading
  <2>2. (Settled(w) /\ failed' = failed) \/ failed'
    BY <1>3
  <2> QED  BY <2>1, <2>2 DEF LoadInv, AccountInv
<1>7. BatchInv'
  <2>1. ASSUME NEW x \in DOMAIN batches' PROVE BatchOk(x, batches[x], DoneRows)'
    <3>1. batches'[x] = batches[x] /\ BatchOk(x, batches[x], DoneRows) /\ cut' = cut
          /\ DoneRows' = DoneRows
      BY <1>1 DEF LoadInv, BatchInv, run, DoneRows
    <3> QED  BY <3>1 DEF BatchOk, RowsOf
  <2> QED  BY <2>1 DEF BatchInv
<1>8. MainInv'
  BY <1>1 DEF LoadInv, MainInv, run, reading, Snapshot, DoneRows
<1> QED
  BY <1>4, <1>5, <1>6, <1>7, <1>8 DEF LoadInv

\* A load returns "loaded" only with every row of its snapshot settled.
LEMMA LoadedIsComplete ==
  ASSUME LoadInv, Return, outcome' = "loaded"
  PROVE  Snapshot \subseteq DoneRows
<1>1. main = "tail" /\ DOMAIN batches = {} /\ ~stoppedEarly /\ ~failed
  BY DEF Return, Verdict, LoadInv, TypeOK
<1>2. Queued = {} /\ \A r \in Ranges : next[r] = Len(cut[r])
  BY <1>1 DEF LoadInv, MainInv, Queued, ToSet
<1>3. ASSUME NEW r \in Ranges, NEW i \in DOMAIN cut[r]
      PROVE  ToSet(cut[r][i]) \subseteq DoneRows
  <2>1. i <= next[r] /\ i \in Nat /\ skip[r] \in Int /\ frontier[r] \in Int
    BY <1>2 DEF LoadInv, TypeOK, Cuts
  <2>2. i <= skip[r] \/ Settled([range |-> r, index |-> i])
    BY <2>1, <1>1, <1>2 DEF LoadInv, AccountInv
  <2>3. i <= skip[r] => i <= frontier[r]
    BY <2>1 DEF LoadInv, TrackerInv
  <2>4. Settled([range |-> r, index |-> i])
    BY <2>2, <2>3 DEF LoadInv, TrackerInv
  <2> QED  BY <2>4 DEF Settled, RowsOf
<1> QED
  BY <1>3 DEF Snapshot

LEMMA EndKeeps ==
  ASSUME LoadInv, Return \/ Raise \/ StopWaiting
  PROVE  LoadInv'
<1>1. /\ Grows
      /\ UNCHANGED <<plan, cut, skip, attempt, target, quarantined, tracker, reading, batches,
                     stoppedEarly, failed, cancelled, faults, drops>>
      /\ \/ main' = main /\ outcome' \in {"loaded", "failed", "stopped"}
         \/ main' = "waiting" /\ outcome' = outcome /\ DOMAIN batches = {}
      /\ outcome = "loading"
  BY DEF Return, Raise, StopWaiting, Verdict, Grows, loading
<1>2. outcome' = "loaded" => Snapshot \subseteq DoneRows
  <2>1. outcome' = "loaded" => Return
    BY DEF Raise, StopWaiting
  <2> QED  BY <2>1, LoadedIsComplete
<1>3. TypeOK'
  BY <1>1 DEF LoadInv, TypeOK, tracker, reading
<1>4. TrackerInv' /\ AccountInv' /\ BatchInv'
  BY <1>1, TrackerKeeps, AccountKeeps, BatchesKeep DEF LoadInv, tracker, reading
<1>5. MainInv'
  BY <1>1, <1>2 DEF LoadInv, MainInv, reading, Snapshot, DoneRows
<1> QED
  BY <1>3, <1>4, <1>5 DEF LoadInv

LEMMA RereadKeeps ==
  ASSUME LoadInv, Reread
  PROVE  LoadInv'
<1>1. /\ plan \in Plans /\ plan' = plan /\ plan.cuts \subseteq Cuts /\ plan.shared \in BOOLEAN
      /\ plan.shared => ~plan.recreates
      /\ frontier \in [Ranges -> Int] /\ cut \in Cuts
      /\ DOMAIN batches = {} /\ batches' = batches
  BY PlansAssumption DEF LoadInv, TypeOK, MainInv, Reread
<1>2. /\ skip' = IF plan.shared THEN frontier ELSE NoResume
      /\ frontier' = skip' /\ ahead' = [r \in Ranges |-> {}] /\ sealed' = {}
      /\ quarantined' = IF skip' = NoResume THEN {} ELSE quarantined
      /\ cut' \in IF plan.shared THEN {cut} ELSE plan.cuts
      /\ target' = IF plan.recreates THEN {} ELSE target
      /\ next' = Zero /\ reader' = "reading" /\ queue' = <<>>
      /\ main' = "pulling" /\ stoppedEarly' = FALSE /\ failed' = FALSE
      /\ attempt' = attempt + 1 /\ outcome = "loading"
      /\ UNCHANGED <<plan, batches, cancelled, outcome, faults, drops>>
  BY DEF Reread, Resume, Carried
<1>3. cut' \in Cuts /\ skip' \in [Ranges -> Int] /\ next' \in [Ranges -> Nat]
      /\ ahead' \in [Ranges -> SUBSET (Nat \ {0})]
  BY <1>1, <1>2 DEF NoResume, Zero
<1>4. TypeOK'
  <2>1. target' \in SUBSET Rows /\ quarantined' \in SUBSET Poison /\ attempt' \in Nat
    BY <1>2 DEF LoadInv, TypeOK
  <2>2. queue' \in Seq(Works)
    BY <1>2
  <2>3. /\ plan' \in Plans /\ DOMAIN batches' \subseteq Works
        /\ batches' \in [DOMAIN batches' -> Batches]
    BY <1>1, <1>2 DEF LoadInv, TypeOK
  <2>4. frontier' \in [Ranges -> Int] /\ sealed' \in SUBSET Ranges
    BY <1>2, <1>3
  <2>5. cancelled' \in BOOLEAN /\ faults' \in Nat /\ drops' \in Nat
    BY <1>2 DEF LoadInv, TypeOK
  <2> QED
    BY <1>2, <1>3, <2>1, <2>2, <2>3, <2>4, <2>5 DEF TypeOK
<1>5. TrackerInv'
  <2>1. ASSUME NEW r \in Ranges, NEW i \in DOMAIN cut'[r], i <= frontier'[r] \/ i \in ahead'[r]
        PROVE  Settled([range |-> r, index |-> i])'
    <3>1. i \in Nat \ {0} /\ i <= frontier'[r]
      BY <2>1, <1>2, <1>3 DEF Cuts
    <3>2. skip' # NoResume
      BY <3>1, <1>2 DEF NoResume
    <3>3. plan.shared /\ cut' = cut /\ target' = target /\ quarantined' = quarantined
          /\ i <= frontier[r]
      BY <3>1, <3>2, <1>1, <1>2
    <3> QED  BY <3>3, SettledStays DEF LoadInv, TrackerInv, Grows
  <2>2. \A r \in Ranges : skip'[r] <= frontier'[r]
    BY <1>2, <1>3
  <2> QED  BY <2>1, <2>2 DEF TrackerInv
<1>6. AccountInv'
  <2>1. Queued' = {} /\ DOMAIN batches' = {}
    BY <1>1, <1>2 DEF Queued, ToSet
  <2>2. ASSUME NEW r \in Ranges, NEW i \in DOMAIN cut'[r] PROVE ~(i <= next'[r])
    BY <1>2, <1>3 DEF Zero, Cuts
  <2> QED  BY <2>1, <2>2 DEF AccountInv
<1>7. BatchInv'
  BY <1>1 DEF BatchInv
<1>8. MainInv'
  BY <1>2 DEF MainInv
<1> QED
  BY <1>4, <1>5, <1>6, <1>7, <1>8 DEF LoadInv

-----------------------------------------------------------------------------
(* The batches on the pool. *)

\* A step of one batch keeps the invariant when the batch it leaves is sound.
LEMMA WorkerKeeps ==
  ASSUME LoadInv, Grows, NEW w \in DOMAIN batches,
         UNCHANGED <<run, tracker, reading, loading, cancelled, drops>>,
         target' \in SUBSET Rows, quarantined' \in SUBSET Poison, faults' \in Nat,
         NEW b \in Batches, batches' = [batches EXCEPT ![w] = b], outcome = "loading",
         BatchOk(w, b, DoneRows')
  PROVE  LoadInv'
<1>1. /\ DOMAIN batches' = DOMAIN batches /\ batches' \in [DOMAIN batches -> Batches]
      /\ DOMAIN batches \subseteq Works
  BY DEF LoadInv, TypeOK
<1>2. TypeOK'
  BY <1>1 DEF LoadInv, TypeOK, run, tracker, reading, loading
<1>3. TrackerInv' /\ AccountInv'
  BY <1>1, TrackerKeeps, AccountKeeps DEF LoadInv, run, tracker, reading, loading
<1>4. BatchInv'
  <2>1. DoneRows \subseteq DoneRows' /\ cut' = cut
    BY DEF Grows, DoneRows, run
  <2>2. ASSUME NEW x \in DOMAIN batches' PROVE BatchOk(x, batches[x], DoneRows)'
    <3>1. CASE x = w
      <4>1. batches'[x] = b
        BY <3>1, <1>1
      <4> QED  BY <4>1, <3>1, <2>1 DEF BatchOk, RowsOf
    <3>2. CASE x # w
      <4>1. batches'[x] = batches[x] /\ BatchOk(x, batches[x], DoneRows)
        BY <3>2, <1>1, <2>2 DEF LoadInv, BatchInv
      <4> QED  BY <4>1, <2>1 DEF BatchOk, RowsOf
    <3> QED  BY <3>1, <3>2
  <2> QED  BY <2>2 DEF BatchInv
<1>5. MainInv'
  BY <1>1, MainKeeps DEF LoadInv, run, reading, loading
<1> QED
  BY <1>2, <1>3, <1>4, <1>5 DEF LoadInv

\* The part a running batch is at.
LEMMA RunningPart ==
  ASSUME LoadInv, NEW w \in DOMAIN batches, batches[w].status = "running"
  PROVE  /\ batches[w] \in Batches /\ batches[w].left \in Parts /\ batches[w].left # <<>>
         /\ Part(w) \in Seq(Rows) \ {<<>>} /\ Tail(batches[w].left) \in Parts
         /\ ToSet(Part(w)) \subseteq Rows
         /\ BatchOk(w, batches[w], DoneRows)
<1>1. batches[w] \in Batches /\ BatchOk(w, batches[w], DoneRows)
  BY DEF LoadInv, TypeOK, BatchInv
<1>2. batches[w].left \in Parts /\ batches[w].left # <<>>
  BY <1>1 DEF Batches, BatchOk
<1>3. Part(w) \in Seq(Rows) \ {<<>>} /\ Tail(batches[w].left) \in Parts
  BY <1>2 DEF Parts, Part
<1> QED
  BY <1>1, <1>2, <1>3 DEF ToSet

\* A step of the part only, which changes no row.
LEMMA StepKeeps ==
  ASSUME LoadInv, NEW w \in DOMAIN batches, Running(w), Grows,
         UNCHANGED <<others>>, target' \in SUBSET Rows, quarantined' \in SUBSET Poison,
         faults' \in Nat, NEW b \in Batches, Now(w, b), b.left = batches[w].left,
         b.step = "fill" => /\ b.missing \subseteq ToSet(Part(w))
                            /\ ToSet(Part(w)) \subseteq DoneRows' \cup b.missing,
         b.step = "rejected" => Poisoned(ToSet(Part(w))),
         b.status # "done"
  PROVE  LoadInv'
<1>1. BatchOk(w, batches[w], DoneRows) /\ batches[w].left # <<>> /\ DoneRows \subseteq DoneRows'
  BY RunningPart DEF Running, Grows, DoneRows
<1>2. BatchOk(w, b, DoneRows')
  BY <1>1 DEF BatchOk, Part, Running
<1> QED
  BY <1>2, WorkerKeeps DEF others, Now, Running

\* Loading or reporting a whole part keeps the invariant.
LEMMA PartDoneKeeps ==
  ASSUME LoadInv, NEW w \in DOMAIN batches, Running(w), Grows,
         UNCHANGED <<others>>, target' \in SUBSET Rows, quarantined' \in SUBSET Poison,
         faults' \in Nat, PartDone(w), ToSet(Part(w)) \subseteq DoneRows'
  PROVE  LoadInv'
<1> DEFINE rest == Tail(batches[w].left)
           b == [left |-> rest, step |-> "insert", missing |-> {}, tries |-> 0, redo |-> 0,
                 status |-> IF rest = <<>> THEN "done" ELSE "running"]
<1>1. /\ batches[w].left \in Seq(Seq(Rows) \ {<<>>}) /\ batches[w].left # <<>> /\ rest \in Parts
      /\ BatchOk(w, batches[w], DoneRows) /\ DoneRows \subseteq DoneRows'
  BY RunningPart DEF Running, Grows, DoneRows, Parts
<1>2. b \in Batches
  BY <1>1 DEF Batches, Steps
<1>3. ASSUME NEW x \in RowsOf(w), x \notin DoneRows'
      PROVE  \E i \in DOMAIN rest : x \in ToSet(rest[i])
  <2>1. PICK i \in DOMAIN batches[w].left : x \in ToSet(batches[w].left[i])
    BY <1>1, <1>3 DEF BatchOk, Running
  <2>2. i # 1
    BY <2>1, <1>1, <1>3 DEF Part
  <2>3. i - 1 \in DOMAIN rest /\ rest[i - 1] = batches[w].left[i]
    BY <2>1, <2>2, <1>1
  <2> QED  BY <2>1, <2>3
<1>4. BatchOk(w, b, DoneRows')
  <2>1. /\ b.left = rest /\ b.step = "insert" /\ b.status = IF rest = <<>> THEN "done" ELSE "running"
    OBVIOUS
  <2> HIDE DEF b
  <2> QED  BY <2>1, <1>3 DEF BatchOk
<1>5. batches' = [batches EXCEPT ![w] = b]
  BY DEF PartDone, Now
<1> HIDE DEF b
<1> QED
  BY <1>2, <1>4, <1>5, WorkerKeeps DEF others, Running

\* The two halves of a part: neither is empty, and between them they have all its rows.
LEMMA HalvesCover ==
  ASSUME NEW p \in Seq(Rows), NEW mid \in Nat, mid >= 1, mid < Len(p)
  PROVE  /\ SubSeq(p, 1, mid) \in Seq(Rows) \ {<<>>}
         /\ SubSeq(p, mid + 1, Len(p)) \in Seq(Rows) \ {<<>>}
         /\ ToSet(p) \subseteq ToSet(SubSeq(p, 1, mid)) \cup ToSet(SubSeq(p, mid + 1, Len(p)))
<1> DEFINE p1 == SubSeq(p, 1, mid)
           p2 == SubSeq(p, mid + 1, Len(p))
<1>1. Len(p) \in Nat
  OBVIOUS
<1>2. p1 \in Seq(Rows) /\ Len(p1) = mid /\ \A i \in 1..mid : p1[i] = p[i]
  BY <1>1
<1>3. /\ p2 \in Seq(Rows) /\ Len(p2) = Len(p) - mid
      /\ \A i \in 1..(Len(p) - mid) : p2[i] = p[i + mid]
  BY <1>1
<1>4. ASSUME NEW i \in 1..Len(p) PROVE p[i] \in ToSet(p1) \cup ToSet(p2)
  <2> HIDE DEF p1, p2
  <2>1. CASE i <= mid
    <3>1. i \in DOMAIN p1 /\ p1[i] = p[i]
      BY <2>1, <1>2
    <3> QED  BY <3>1 DEF ToSet
  <2>2. CASE ~(i <= mid)
    <3>1. i - mid \in 1..(Len(p) - mid) /\ (i - mid) + mid = i
      BY <2>2, <1>1
    <3>2. i - mid \in DOMAIN p2 /\ p2[i - mid] = p[i]
      BY <3>1, <1>3
    <3> QED  BY <3>2 DEF ToSet
  <2> QED  BY <2>1, <2>2
<1>5. p1 # <<>> /\ p2 # <<>>
  <2> HIDE DEF p1, p2
  <2>1. Len(p1) # 0 /\ Len(p2) # 0
    BY <1>1, <1>2, <1>3
  <2> QED  BY <2>1, EmptySeq
<1>6. ToSet(p) \subseteq ToSet(p1) \cup ToSet(p2)
  <2> HIDE DEF p1, p2
  <2> QED  BY <1>4 DEF ToSet
<1> QED
  BY <1>2, <1>3, <1>5, <1>6

LEMMA OneRow ==
  ASSUME NEW p \in Seq(Rows), p # <<>>, Len(p) <= 1, Poisoned(ToSet(p))
  PROVE  ToSet(p) \subseteq Poison
<1>1. Len(p) = 1
  <2>1. Len(p) \in Nat \ {0}
    BY EmptySeq
  <2>2. \A n \in Nat \ {0} : n <= 1 => n = 1
    OBVIOUS
  <2> QED  BY <2>1, <2>2, Zenon
<1>2. DOMAIN p = {1}
  BY <1>1, LenProperties
<1>3. ToSet(p) = {p[1]}
  BY <1>2 DEF ToSet
<1> QED
  BY <1>3 DEF Poisoned

LEMMA Prepended ==
  \A x1, x2 \in Seq(Rows) \ {<<>>} : \A t \in Parts :
         LET new == <<x1, x2>> \o t IN
         /\ new \in Parts /\ 1 \in DOMAIN new /\ 2 \in DOMAIN new
         /\ new[1] = x1 /\ new[2] = x2
         /\ \A i \in DOMAIN t : i + 2 \in DOMAIN new /\ new[i + 2] = t[i]
<1> TAKE x1, x2 \in Seq(Rows) \ {<<>>}
<1> TAKE t \in Parts
<1> DEFINE S == Seq(Rows) \ {<<>>}
           a == <<x1, x2>>
<1>0. x1 \in S /\ x2 \in S /\ t \in Seq(S)
  BY DEF Parts
<1> HIDE DEF S
<1>1. a \in Seq(S) /\ Len(a) = 2 /\ a[1] = x1 /\ a[2] = x2
  BY <1>0
<1> HIDE DEF a
<1>2. /\ a \o t \in Seq(S) /\ Len(a \o t) = 2 + Len(t) /\ Len(t) \in Nat
      /\ \A i \in 1..2 : (a \o t)[i] = a[i]
      /\ \A i \in 1..Len(t) : (a \o t)[i + 2] = t[i]
  <2>1. /\ a \o t \in Seq(S) /\ Len(a \o t) = 2 + Len(t) /\ Len(t) \in Nat
        /\ \A i \in 1..(2 + Len(t)) : (a \o t)[i] = IF i <= 2 THEN a[i] ELSE t[i - 2]
    <3>1. /\ a \o t \in Seq(S) /\ Len(a \o t) = Len(a) + Len(t) /\ Len(t) \in Nat
          /\ \A i \in 1..(Len(a) + Len(t)) : (a \o t)[i] = IF i <= Len(a) THEN a[i] ELSE t[i - Len(a)]
      BY <1>0, <1>1, ConcatProperties, LenProperties
    <3> QED  BY <3>1, <1>1
  <2>2. ASSUME NEW i \in 1..2 PROVE (a \o t)[i] = a[i]
    BY <2>1
  <2>3. ASSUME NEW i \in 1..Len(t) PROVE (a \o t)[i + 2] = t[i]
    BY <2>1
  <2> QED  BY <2>1, <2>2, <2>3
<1>3. /\ a \o t \in Seq(S) /\ 1 \in DOMAIN (a \o t) /\ 2 \in DOMAIN (a \o t)
      /\ (a \o t)[1] = x1 /\ (a \o t)[2] = x2
      /\ \A i \in DOMAIN t : i + 2 \in DOMAIN (a \o t) /\ (a \o t)[i + 2] = t[i]
  BY <1>1, <1>2
<1> QED
  BY <1>3 DEF a, S, Parts

\* Halving a rejected part drops none of its rows, and one row is reported only if it is one
\* that the target rejects.
LEMMA IsolateKeeps ==
  ASSUME LoadInv, NEW w \in DOMAIN batches, Isolate(w)
  PROVE  LoadInv'
<1> DEFINE p == Part(w)
           mid == Len(p) \div 2
           left == batches[w].left
<1>0. Running(w) /\ batches[w].step = "rejected" /\ UNCHANGED <<others, target, faults>>
  BY DEF Isolate, At
<1>1. /\ left \in Seq(Seq(Rows) \ {<<>>}) /\ left # <<>> /\ p = left[1]
      /\ Tail(left) \in Seq(Seq(Rows) \ {<<>>})
      /\ p \in Seq(Rows) /\ p # <<>> /\ ToSet(p) \subseteq Rows
      /\ BatchOk(w, batches[w], DoneRows) /\ Poisoned(ToSet(p))
      /\ batches[w].status = "running"
      /\ target \in SUBSET Rows /\ quarantined \in SUBSET Poison /\ faults \in Nat
  <2>1. w \in DOMAIN batches /\ batches[w].status = "running" /\ p = Part(w)
    BY <1>0 DEF Running, Part
  <2>2. /\ left \in Parts /\ left # <<>> /\ Tail(left) \in Parts
        /\ p \in Seq(Rows) \ {<<>>} /\ ToSet(p) \subseteq Rows
        /\ BatchOk(w, batches[w], DoneRows)
    BY <2>1, RunningPart
  <2>3. p = left[1]
    BY <2>1, <2>2 DEF Part, Parts
  <2>4. Poisoned(ToSet(p))
    BY <1>0, <2>1, <2>2 DEF BatchOk, Part
  <2>5. target \in SUBSET Rows /\ quarantined \in SUBSET Poison /\ faults \in Nat
    BY DEF LoadInv, TypeOK
  <2> HIDE DEF p
  <2> QED  BY <2>1, <2>2, <2>3, <2>4, <2>5 DEF Parts
<1>2. CASE Len(p) <= 1
  <2>1. quarantined' = quarantined \cup ToSet(p) /\ PartDone(w)
    BY <1>2 DEF Isolate
  <2>3. ToSet(p) \subseteq Poison
    BY <1>1, <1>2, OneRow
  <2>4. Grows /\ ToSet(p) \subseteq DoneRows' /\ quarantined' \in SUBSET Poison
    BY <2>1, <2>3, <1>0, <1>1 DEF Grows, DoneRows
  <2> HIDE DEF p
  <2>5. ToSet(Part(w)) \subseteq DoneRows'
    BY <2>4 DEF p
  <2> QED  BY <1>0, <1>1, <2>1, <2>4, <2>5, PartDoneKeeps
<1>3. CASE ~(Len(p) <= 1)
  <2> DEFINE p1 == SubSeq(p, 1, mid)
             p2 == SubSeq(p, mid + 1, Len(p))
             new == <<p1, p2>> \o Tail(left)
             b == [left |-> new, step |-> "insert", missing |-> {}, tries |-> 0, redo |-> 0,
                   status |-> "running"]
  <2>1. Now(w, b) /\ quarantined' = quarantined
    BY <1>3 DEF Isolate
  <2> HIDE DEF p
  <2>2. mid \in Nat /\ mid >= 1 /\ mid < Len(p)
    <3>1. Len(p) \in Nat
      BY <1>1
    <3> QED  BY <3>1, <1>3
  <2> HIDE DEF mid
  <2>3. p1 \in Seq(Rows) \ {<<>>} /\ p2 \in Seq(Rows) \ {<<>>}
        /\ \A x \in ToSet(p) : x \in ToSet(p1) \/ x \in ToSet(p2)
    BY <1>1, <2>2, HalvesCover
  <2> HIDE DEF p1, p2
  <2>5. /\ new \in Seq(Seq(Rows) \ {<<>>}) /\ 1 \in DOMAIN new /\ 2 \in DOMAIN new
        /\ new[1] = p1 /\ new[2] = p2 /\ new # <<>>
        /\ \A i \in DOMAIN Tail(left) : i + 2 \in DOMAIN new /\ new[i + 2] = Tail(left)[i]
    <3>1. Tail(left) \in Seq(Seq(Rows) \ {<<>>}) /\ p1 \in Seq(Rows) \ {<<>>}
          /\ p2 \in Seq(Rows) \ {<<>>} /\ Tail(left) \in Parts
      BY <1>1, <2>3 DEF Parts
    <3>2. /\ new \in Parts /\ 1 \in DOMAIN new /\ 2 \in DOMAIN new
          /\ new[1] = p1 /\ new[2] = p2
          /\ \A i \in DOMAIN Tail(left) : i + 2 \in DOMAIN new /\ new[i + 2] = Tail(left)[i]
      <4>1. PICK q1 \in Seq(Rows) \ {<<>>}, q2 \in Seq(Rows) \ {<<>>}, t \in Parts :
              q1 = p1 /\ q2 = p2 /\ t = Tail(left)
        BY <3>1
      <4>2. LET n == <<q1, q2>> \o t IN
            /\ n \in Parts /\ 1 \in DOMAIN n /\ 2 \in DOMAIN n
            /\ n[1] = q1 /\ n[2] = q2
            /\ \A i \in DOMAIN t : i + 2 \in DOMAIN n /\ n[i + 2] = t[i]
        BY Prepended
      <4>3. new = <<q1, q2>> \o t
        BY <4>1
      <4> QED  BY <4>1, <4>2, <4>3
    <3>3. new # <<>>
      BY <3>2
    <3> QED  BY <3>2, <3>3 DEF Parts
  <2>6. ASSUME NEW x \in RowsOf(w), x \notin DoneRows
        PROVE  \E i \in DOMAIN new : x \in ToSet(new[i])
    <3>1. PICK i \in DOMAIN left : x \in ToSet(left[i])
      BY <1>1, <2>6 DEF BatchOk
    <3>2. CASE i = 1
      BY <3>1, <3>2, <1>1, <2>3, <2>5
    <3>3. CASE i # 1
      <4>0. left \in Seq(Seq(Rows) \ {<<>>}) /\ left # <<>> /\ i \in DOMAIN left /\ i # 1
        BY <3>1, <3>3, <1>1
      <4> HIDE DEF left
      <4>1. i - 1 \in DOMAIN Tail(left) /\ Tail(left)[i - 1] = left[i]
        BY <4>0
      <4>2. (i - 1) + 2 \in DOMAIN new /\ new[(i - 1) + 2] = left[i]
        BY <4>1, <2>5
      <4> QED  BY <4>2, <3>1
    <3> QED  BY <3>2, <3>3
  <2>7. DoneRows' = DoneRows /\ Grows
    BY <1>0, <2>1 DEF DoneRows, Grows
  <2> HIDE DEF new
  <2>8. b \in Batches
    BY <2>5 DEF Batches, Steps, Parts
  <2>9. BatchOk(w, b, DoneRows')
    <3>1. b.left = new /\ b.step = "insert" /\ b.status = "running"
      OBVIOUS
    <3> HIDE DEF b
    <3> QED  BY <3>1, <2>5, <2>6, <2>7 DEF BatchOk
  <2> HIDE DEF b
  <2> QED  BY <1>0, <1>1, <2>1, <2>7, <2>8, <2>9, WorkerKeeps DEF others, Now, Running
<1> QED
  BY <1>2, <1>3

LEMMA WorkKeeps ==
  ASSUME LoadInv, NEW w \in DOMAIN batches, Work(w)
  PROVE  LoadInv'
<1>0. Running(w)
  BY DEF Work, GiveUp, Insert, Collide, CollideAgain, SelectExisting, Reject, Isolate, At
<1>1. /\ batches[w] \in Batches /\ BatchOk(w, batches[w], DoneRows)
      /\ Part(w) \in Seq(Rows) \ {<<>>} /\ ToSet(Part(w)) \subseteq Rows
      /\ target \in SUBSET Rows /\ quarantined \in SUBSET Poison /\ faults \in Nat
      /\ batches[w].status = "running" /\ batches[w].redo \in Nat /\ batches[w].tries \in Nat
  BY <1>0, RunningPart DEF Running, LoadInv, TypeOK, Batches
<1>2. /\ batches[w].step = "fill" => /\ batches[w].missing \subseteq ToSet(Part(w))
                                     /\ ToSet(Part(w)) \subseteq DoneRows \cup batches[w].missing
      /\ batches[w].step = "rejected" => Poisoned(ToSet(Part(w)))
  BY <1>1 DEF BatchOk, Part
<1>3. CASE GiveUp(w)
  <2> DEFINE b == [batches[w] EXCEPT !.status = "failed"]
  <2>1. Now(w, b) /\ Grows /\ UNCHANGED <<others, target, quarantined, faults>> /\ batches[w].step = "insert"
    BY <1>3 DEF GiveUp, Fails, Grows, At
  <2>2. b \in Batches /\ b.left = batches[w].left /\ b.step = batches[w].step /\ b.status = "failed"
    BY <1>1 DEF Batches
  <2> HIDE DEF b
  <2> QED  BY <1>0, <1>1, <2>1, <2>2, StepKeeps
<1>4. CASE Insert(w)
  <2>1. /\ PartDone(w) /\ Grows /\ UNCHANGED <<others, quarantined, faults>>
        /\ target' = target \cup Sends(w)
        /\ batches[w].step \in {"insert", "fill"}
    BY <1>4 DEF Insert, Grows, Inserts
  <2>2. Sends(w) \subseteq Rows /\ ToSet(Part(w)) \subseteq DoneRows'
    BY <2>1, <1>1, <1>2 DEF Sends, DoneRows
  <2>3. target' \in SUBSET Rows
    BY <2>1, <2>2, <1>1
  <2> QED  BY <1>0, <1>1, <2>1, <2>2, <2>3, PartDoneKeeps
<1>5. CASE Collide(w)
  <2> DEFINE b == [batches[w] EXCEPT !.step = "select"]
  <2>1. Now(w, b) /\ Grows /\ UNCHANGED <<others, target, quarantined, faults>>
    BY <1>5 DEF Collide, Duplicate, Goto, Grows
  <2>2. b \in Batches /\ b.left = batches[w].left /\ b.step = "select" /\ b.status = "running"
    BY <1>1 DEF Batches, Steps
  <2> HIDE DEF b
  <2> QED  BY <1>0, <1>1, <2>1, <2>2, StepKeeps
<1>6. CASE CollideAgain(w)
  <2>1. Grows /\ UNCHANGED <<others, target, quarantined, faults>>
    BY <1>6 DEF CollideAgain, Grows
  <2>2. CASE batches[w].redo + 1 < MaxRetries
    <3> DEFINE n == batches[w].redo + 1
               b == [batches[w] EXCEPT !.step = "select", !.redo = n]
    <3>1. Now(w, b)
      BY <2>2, <1>6 DEF CollideAgain
    <3>2. n \in Nat
      BY <1>1
    <3> HIDE DEF n
    <3>3. b \in Batches /\ b.left = batches[w].left /\ b.step = "select" /\ b.status = "running"
      BY <1>1, <3>2 DEF Batches, Steps
    <3> HIDE DEF b
    <3> QED  BY <1>0, <1>1, <2>1, <3>1, <3>3, StepKeeps
  <2>3. CASE ~(batches[w].redo + 1 < MaxRetries)
    <3> DEFINE b == [batches[w] EXCEPT !.status = "failed"]
    <3>1. Now(w, b)
      BY <2>3, <1>6 DEF CollideAgain, Fails
    <3>2. /\ b \in Batches /\ b.left = batches[w].left /\ b.step = batches[w].step
          /\ b.missing = batches[w].missing /\ b.status = "failed"
      BY <1>1 DEF Batches
    <3>3. DoneRows' = DoneRows
      BY <2>1 DEF DoneRows
    <3> HIDE DEF b
    <3> QED  BY <1>0, <1>1, <1>2, <2>1, <3>1, <3>2, <3>3, StepKeeps
  <2> QED  BY <2>2, <2>3
<1>7. CASE SelectExisting(w)
  <2> DEFINE missing == ToSet(Part(w)) \ target
  <2>1. Grows /\ UNCHANGED <<others, target, quarantined, faults>>
    BY <1>7 DEF SelectExisting, Grows
  <2>2. CASE missing = {}
    <3>1. PartDone(w) /\ ToSet(Part(w)) \subseteq DoneRows'
      BY <2>1, <2>2, <1>7 DEF SelectExisting, DoneRows
    <3> QED  BY <1>0, <1>1, <2>1, <3>1, PartDoneKeeps
  <2>3. CASE missing # {}
    <3> DEFINE b == [batches[w] EXCEPT !.step = "fill", !.missing = missing]
    <3>1. Now(w, b)
      BY <2>3, <1>7 DEF SelectExisting
    <3>2. /\ b \in Batches /\ b.left = batches[w].left /\ b.step = "fill"
          /\ b.missing = missing /\ b.status = "running"
      BY <1>1 DEF Batches, Steps
    <3>3. missing \subseteq ToSet(Part(w)) /\ ToSet(Part(w)) \subseteq DoneRows' \cup missing
      BY <2>1 DEF DoneRows
    <3> HIDE DEF b, missing
    <3> QED  BY <1>0, <1>1, <2>1, <3>1, <3>2, <3>3, StepKeeps
  <2> QED  BY <2>2, <2>3
<1>8. CASE Reject(w)
  <2> DEFINE b == [batches[w] EXCEPT !.step = "rejected"]
  <2>1. /\ Now(w, b) /\ Grows /\ UNCHANGED <<others, target, quarantined, faults>>
        /\ Poisoned(Sends(w)) /\ batches[w].step \in {"insert", "fill"}
    BY <1>8 DEF Reject, Goto, Grows
  <2>2. Poisoned(ToSet(Part(w)))
    BY <2>1, <1>2 DEF Poisoned, Sends
  <2>3. b \in Batches /\ b.left = batches[w].left /\ b.step = "rejected" /\ b.status = "running"
    BY <1>1 DEF Batches, Steps
  <2> HIDE DEF b
  <2> QED  BY <1>0, <1>1, <2>1, <2>2, <2>3, StepKeeps
<1>9. CASE Isolate(w)
  BY <1>9, IsolateKeeps
<1> QED
  BY <1>3, <1>4, <1>5, <1>6, <1>7, <1>8, <1>9 DEF Work

LEMMA FaultKeeps ==
  ASSUME LoadInv, NEW w \in DOMAIN batches, Fault(w)
  PROVE  LoadInv'
<1>0. Running(w) /\ UNCHANGED <<others, quarantined>> /\ faults' = faults + 1
      /\ target' \in {target, target \cup Sends(w)}
  BY DEF Fault
<1>1. /\ batches[w] \in Batches /\ BatchOk(w, batches[w], DoneRows)
      /\ Part(w) \in Seq(Rows) \ {<<>>} /\ ToSet(Part(w)) \subseteq Rows
      /\ target \in SUBSET Rows /\ quarantined \in SUBSET Poison /\ faults \in Nat
      /\ batches[w].status = "running" /\ batches[w].tries \in Nat
      /\ batches[w].missing \subseteq Rows /\ batches[w].step \in Steps
  BY <1>0, RunningPart DEF Running, LoadInv, TypeOK, Batches
<1>2. Grows /\ target' \in SUBSET Rows /\ quarantined' \in SUBSET Poison /\ faults' \in Nat
  BY <1>0, <1>1 DEF Sends, Grows
<1>3. CASE batches[w].tries + 1 < MaxRetries
  <2> DEFINE n == batches[w].tries + 1
             b == [batches[w] EXCEPT !.step = "insert", !.missing = {}, !.redo = 0, !.tries = n]
  <2>1. Now(w, b)
    BY <1>3 DEF Fault
  <2>2. n \in Nat
    BY <1>1
  <2> HIDE DEF n
  <2>3. b \in Batches /\ b.left = batches[w].left /\ b.step = "insert" /\ b.status = "running"
    BY <1>1, <2>2 DEF Batches, Steps
  <2> HIDE DEF b
  <2> QED  BY <1>0, <1>2, <2>1, <2>3, StepKeeps
<1>4. CASE ~(batches[w].tries + 1 < MaxRetries)
  <2> DEFINE b == [batches[w] EXCEPT !.status = "failed"]
  <2>1. Now(w, b)
    BY <1>4 DEF Fault, Fails
  <2>2. /\ b \in Batches /\ b.left = batches[w].left /\ b.step = batches[w].step
        /\ b.missing = batches[w].missing /\ b.status = "failed"
    BY <1>1 DEF Batches
  <2>3. BatchOk(w, b, DoneRows')
    BY <2>2 DEF BatchOk
  <2> HIDE DEF b
  <2> QED  BY <1>0, <1>2, <2>1, <2>2, <2>3, WorkerKeeps DEF others, Running, Now
<1> QED
  BY <1>3, <1>4

-----------------------------------------------------------------------------
(* The environment, and the whole. *)

LEMMA EnvironmentKeeps ==
  ASSUME LoadInv, Cancel \/ \E r \in Rows : SinkInserts(r)
  PROVE  LoadInv'
<1>1. /\ Grows /\ target' \in SUBSET Rows /\ cancelled' \in BOOLEAN
      /\ UNCHANGED <<run, quarantined, tracker, reading, batches, loading, faults, drops>>
  BY DEF Cancel, SinkInserts, others, Grows, LoadInv, TypeOK
<1>2. TypeOK'
  BY <1>1 DEF LoadInv, TypeOK, run, tracker, reading, loading
<1>3. TrackerInv' /\ AccountInv' /\ BatchInv' /\ MainInv'
  BY <1>1, TrackerKeeps, AccountKeeps, BatchesKeep, MainKeeps
     DEF LoadInv, run, tracker, reading, loading
<1> QED
  BY <1>2, <1>3 DEF LoadInv

LEMMA InitHasLoadInv == Init => LoadInv
<1> SUFFICES ASSUME Init PROVE LoadInv
  OBVIOUS
<1>1. /\ plan \in Plans /\ cut \in plan.cuts /\ cut \in Cuts /\ plan.present \subseteq Rows
  BY PlansAssumption DEF Init
<1>2. TypeOK
  <2>1. DOMAIN batches = {} /\ batches \in [{} -> Batches]
    BY DEF Init
  <2>2. queue \in Seq(Works) /\ next \in [Ranges -> Nat] /\ skip \in [Ranges -> Int]
        /\ frontier \in [Ranges -> Int] /\ ahead \in [Ranges -> SUBSET (Nat \ {0})]
    BY DEF Init, Zero, NoResume
  <2> QED  BY <1>1, <2>1, <2>2 DEF Init, TypeOK
<1>3. TrackerInv
  <2>1. ASSUME NEW r \in Ranges, NEW i \in DOMAIN cut[r]
        PROVE  ~(i <= frontier[r]) /\ i \notin ahead[r] /\ skip[r] <= frontier[r]
    BY <1>1 DEF Init, NoResume, Cuts
  <2>2. \A r \in Ranges : skip[r] <= frontier[r]
    BY DEF Init, NoResume
  <2> QED  BY <2>1, <2>2 DEF TrackerInv
<1>4. AccountInv
  <2>1. Queued = {} /\ DOMAIN batches = {}
    BY DEF Init, Queued, ToSet
  <2>2. ASSUME NEW r \in Ranges, NEW i \in DOMAIN cut[r] PROVE ~(i <= next[r])
    BY <1>1 DEF Init, Zero, Cuts
  <2> QED  BY <2>1, <2>2 DEF AccountInv
<1>5. BatchInv /\ MainInv
  BY DEF Init, BatchInv, MainInv
<1> QED
  BY <1>2, <1>3, <1>4, <1>5 DEF LoadInv

LEMMA LoadInvInductive == LoadInv /\ [Next]_vars => LoadInv'
<1> SUFFICES ASSUME LoadInv, [Next]_vars PROVE LoadInv'
  OBVIOUS
<1>1. CASE Loader
  BY <1>1, PullKeeps, StreamEndsKeeps, DrainKeeps, EndKeeps, RereadKeeps DEF Loader
<1>2. CASE Reader
  BY <1>2, ReadKeeps, ReaderEndKeeps DEF Reader
<1>3. ASSUME NEW w \in DOMAIN batches, Work(w) \/ Fault(w) PROVE LoadInv'
  BY <1>3, WorkKeeps, FaultKeeps
<1>4. CASE SourceFails \/ ReaderStops
  BY <1>4, ReaderEndKeeps
<1>5. CASE Cancel \/ \E r \in Rows : SinkInserts(r)
  BY <1>5, EnvironmentKeeps
<1>6. CASE UNCHANGED vars
  <2>1. Grows /\ UNCHANGED <<run, target, quarantined, tracker, reading, batches, loading,
                             cancelled, faults, drops>>
    BY <1>6 DEF vars, run, tracker, reading, loading, Grows
  <2>2. TypeOK'
    BY <2>1 DEF LoadInv, TypeOK, run, tracker, reading, loading
  <2>3. TrackerInv' /\ AccountInv' /\ BatchInv' /\ MainInv'
    BY <2>1, TrackerKeeps, AccountKeeps, BatchesKeep, MainKeeps
       DEF LoadInv, run, tracker, reading, loading
  <2> QED  BY <2>2, <2>3 DEF LoadInv
<1> QED
  BY <1>1, <1>2, <1>3, <1>4, <1>5, <1>6 DEF Next

\* In every run of a load the tracker, the account of its batches, every batch on the pool
\* and the state of the loading thread fit together (import_rows).
THEOREM LoadInvariant == Spec => []LoadInv
BY InitHasLoadInv, LoadInvInductive, PTL DEF Spec

\* A batch at or before the resume point is in the target or in the report, however many
\* ranges, batches, failures and attempts there are (_BatchResumeTracker).
THEOREM ResumePointIsSettled == Spec => []ResumeIsSettled
<1>1. LoadInv => ResumeIsSettled
  <2> SUFFICES ASSUME LoadInv, NEW r \in Ranges, NEW i \in 1..Len(cut[r]), i <= frontier[r]
               PROVE  Settled([range |-> r, index |-> i])
    BY DEF ResumeIsSettled
  <2>1. i \in DOMAIN cut[r]
    BY DEF LoadInv, TypeOK, Cuts
  <2> QED  BY <2>1 DEF LoadInv, TrackerInv
<1> QED
  BY <1>1, LoadInvariant, PTL

-----------------------------------------------------------------------------
(* The refinement. *)

LEMMA SnapshotInRows == TypeOK => Snapshot \subseteq Rows
<1> SUFFICES ASSUME TypeOK, NEW r \in Ranges, NEW i \in DOMAIN cut[r] PROVE ToSet(cut[r][i]) \subseteq Rows
  BY DEF Snapshot
<1>1. cut[r][i] \in Seq(Rows)
  BY DEF TypeOK, Cuts
<1> QED
  BY <1>1 DEF ToSet

\* A step that leaves the snapshot alone settles rows, or does nothing to them.
LEMMA SettleStep ==
  ASSUME LoadInv, LoadInv', Grows, UNCHANGED <<cut, outcome>>, outcome = "loading"
  PROVE  [Load!Next]_Load!vars
<1>1. Snapshot' = Snapshot /\ target' \in SUBSET Rows /\ quarantined' \in SUBSET Poison
  BY DEF Snapshot, LoadInv, TypeOK
<1>2. Load!Settle
  BY <1>1 DEF Load!Settle, Grows
<1> QED
  BY <1>2 DEF Load!Next

\* The load implements TableLoad: it reports "loaded" with every row of the snapshot it read
\* last settled, only the engine's next attempt changes the snapshot, and only that empties the
\* target or forgets a report (_run_data_batches, _retry_source_drops_in_process).
THEOREM LoadIsTableLoad == Spec => IsTableLoad
<1>1. Init => Load!Init
  <2> SUFFICES ASSUME Init PROVE Load!Init
    OBVIOUS
  <2>1. TypeOK
    BY InitHasLoadInv DEF LoadInv
  <2> QED  BY <2>1, SnapshotInRows DEF Init, TypeOK, Load!Init
<1>2. ASSUME LoadInv, LoadInv', [Next]_vars PROVE [Load!Next]_Load!vars
  <2>1. CASE UNCHANGED vars
    BY <2>1 DEF vars, Load!vars, Snapshot
  <2>2. CASE Reread
    <3>1. Snapshot' \in SUBSET Rows
      <4>1. TypeOK'
        BY <1>2 DEF LoadInv
      <4>2. ASSUME NEW r \in Ranges, NEW i \in DOMAIN cut'[r] PROVE ToSet(cut'[r][i]) \subseteq Rows
        <5>1. cut'[r][i] \in Seq(Rows)
          BY <4>1, <4>2 DEF TypeOK, Cuts
        <5> QED  BY <5>1 DEF ToSet
      <4> QED  BY <4>2 DEF Snapshot
    <3>2. Load!Reread
      BY <2>2, <3>1 DEF Reread, Carried, Load!Reread
    <3> QED  BY <3>2 DEF Load!Next
  <2>3. CASE Return \/ Raise \/ StopWaiting
    <3>1. /\ outcome = "loading" /\ UNCHANGED <<cut, target, quarantined>>
          /\ outcome' \in {"loading", "loaded", "failed", "stopped"}
          /\ outcome' = "loaded" => Return
      BY <2>3 DEF Return, Raise, StopWaiting, Verdict
    <3>2. CASE outcome' = "loading"
      BY <3>1, <3>2, SettleStep, <1>2 DEF Grows
    <3>3. CASE outcome' # "loading"
      <4>1. outcome' = "loaded" => Snapshot \subseteq DoneRows
        BY <1>2, <3>1, LoadedIsComplete
      <4>2. Snapshot' = Snapshot
        BY <3>1 DEF Snapshot
      <4> QED  BY <3>1, <3>3, <4>1, <4>2 DEF DoneRows, Load!Next, Load!Finish
    <3> QED  BY <3>2, <3>3
  <2>4. CASE Pull \/ StreamEnds \/ (\E w \in DOMAIN batches : Drain(w)) \/ Reader
             \/ SourceFails \/ ReaderStops \/ Cancel \/ \E r \in Rows : SinkInserts(r)
    <3>1. outcome = "loading" /\ Grows /\ UNCHANGED <<cut, outcome>>
      BY <2>4 DEF Pull, StreamEnds, Drain, Reader, Read, ReadAll, SourceFails, ReaderStops, Cancel,
         SinkInserts, Grows, run, others
    <3> QED  BY <1>2, <3>1, SettleStep
  <2>5. ASSUME NEW w \in DOMAIN batches, Work(w) \/ Fault(w) PROVE [Load!Next]_Load!vars
    <3>1. outcome = "loading" /\ Grows /\ UNCHANGED <<cut, outcome>>
      BY <2>5 DEF Work, GiveUp, Insert, Collide, CollideAgain, SelectExisting, Reject, Isolate, Fault,
         At, Running, Grows, run, others
    <3> QED  BY <1>2, <3>1, SettleStep
  <2> QED  BY <1>2, <2>1, <2>2, <2>3, <2>4, <2>5 DEF Next, Loader
<1> QED
  BY <1>1, <1>2, LoadInvariant, PTL DEF Spec, IsTableLoad, Load!Spec
=============================================================================
