---------------------------- MODULE BatchedImport ----------------------------
(***************************************************************************)
(* One table, or one reader shard of it, loaded by BatchedImporter under   *)
(* the engine's source retry: a reader thread runs ahead into a bounded    *)
(* queue, the loading thread submits its batches to a pool and drains      *)
(* them as they finish, out of order, and the resume point of every key    *)
(* range decides what the next attempt skips.                              *)
(***************************************************************************)
EXTENDS Integers, Sequences, FiniteSets, SequencesExt

CONSTANTS
  Rows,
  Poison,        \* the rows that Aurora DSQL rejects for good
  Ranges,        \* the key ranges (readers, or the pages of one reader)
  Plans,         \* the loads to consider
  Parallelism,   \* batches in flight
  Depth,         \* batches read ahead
  MaxRetries,    \* occ_max_attempts
  MaxAttempts,   \* full_load_source_retry_attempts
  MaxQuarantine, \* rows reported before the load gives up
  MaxFaults,     \* bound: failures of the target
  MaxDrops       \* bound: failures of the source

\* A snapshot cut into batches: of every range, in key order.
Cuts == [Ranges -> Seq(Seq(Rows) \ {<<>>})]
\* cuts: the snapshots an attempt can find.  shared: a later attempt reopens the first one.
\* recreates: it drops and recreates the table first.  rereads: there is a later attempt.
\* present: rows there at the start; live: those that CDC may write meanwhile.
ASSUME PlansAssumption ==
  \A p \in Plans :
    /\ p.cuts \subseteq Cuts
    /\ p.shared \in BOOLEAN /\ p.recreates \in BOOLEAN /\ p.rereads \in BOOLEAN
    /\ p.shared => ~p.recreates
    /\ p.present \subseteq Rows /\ p.live \subseteq Rows
ASSUME BoundsAssumption ==
  /\ IsFiniteSet(Rows) /\ Poison \subseteq Rows
  /\ Parallelism \in Nat \ {0} /\ Depth \in Nat \ {0} /\ MaxRetries \in Nat \ {0}
  /\ MaxAttempts \in Nat \ {0} /\ MaxQuarantine \in Nat \ {0}

VARIABLES
  plan, cut,
  target, quarantined,          \* rows there; rows in the report (_quarantine_seen)
  skip,                         \* the watermark this attempt began with (-1: no entry)
  frontier, ahead, sealed,      \* _BatchResumeTracker, by range
  next, reader, queue,          \* the read-ahead: batches read, its state, its queue
  batches,                      \* in_flight: the submitted batches and where each stands
  main, stoppedEarly, failed,   \* the loading thread
  attempt, cancelled, outcome, faults, drops

tracker == <<frontier, ahead, sealed>>
reading == <<next, reader, queue>>
loading == <<main, stoppedEarly, failed>>
run == <<plan, cut, skip, attempt, outcome>>
vars == <<plan, cut, target, quarantined, skip, frontier, ahead, sealed, next, reader, queue,
          batches, main, stoppedEarly, failed, attempt, cancelled, outcome, faults, drops>>

Works == [range : Ranges, index : Nat \ {0}]
RowsOf(w) == ToSet(cut[w.range][w.index])
DoneRows == target \cup quarantined
Settled(w) == RowsOf(w) \subseteq DoneRows

Zero == [r \in Ranges |-> 0]
NoResume == [r \in Ranges |-> -1]

Init ==
  /\ plan \in Plans /\ cut \in plan.cuts
  /\ target = plan.present /\ quarantined = {}
  /\ skip = NoResume /\ frontier = NoResume /\ ahead = [r \in Ranges |-> {}] /\ sealed = {}
  /\ next = Zero /\ reader = "reading" /\ queue = <<>>
  /\ batches = [w \in {} |-> {}]
  /\ main = "pulling" /\ stoppedEarly = FALSE /\ failed = FALSE
  /\ attempt = 1 /\ cancelled = FALSE /\ outcome = "loading" /\ faults = 0 /\ drops = 0

-----------------------------------------------------------------------------
(* The reader thread.  The end of its stream is queued behind what it read. *)

\* _iter_work: a batch at or below the resume point is skipped.
Skips(r, n) == n <= skip[r]

Read(r) ==
  /\ outcome = "loading" /\ reader = "reading" /\ next[r] < Len(cut[r])
  /\ LET n == next[r] + 1 IN
     /\ next' = [next EXCEPT ![r] = n]
     /\ IF Skips(r, n) THEN UNCHANGED queue
        ELSE /\ Len(queue) < Depth
             /\ queue' = Append(queue, [range |-> r, index |-> n])
  /\ UNCHANGED <<run, target, quarantined, tracker, reader, batches, loading, cancelled, faults, drops>>

ReadAll ==
  /\ outcome = "loading" /\ reader = "reading"
  /\ \A r \in Ranges : next[r] = Len(cut[r])
  /\ reader' = "done"
  /\ UNCHANGED <<run, target, quarantined, tracker, next, queue, batches, loading, cancelled, faults, drops>>

\* A connection that drops ("lost") or an error that no new connection helps ("broken").
SourceFails ==
  /\ outcome = "loading" /\ reader = "reading" /\ drops < MaxDrops
  /\ reader' \in {"lost", "broken"} /\ drops' = drops + 1
  /\ UNCHANGED <<run, target, quarantined, tracker, next, queue, batches, loading, cancelled, faults>>

\* The reader sees the stop between two pages (ExportCancelled).
ReaderStops ==
  /\ outcome = "loading" /\ reader = "reading" /\ cancelled
  /\ reader' = "cancelled"
  /\ UNCHANGED <<run, target, quarantined, tracker, next, queue, batches, loading, cancelled, faults, drops>>

-----------------------------------------------------------------------------
(* The loading thread: _run_data_batches. *)

Submitted(w) == [left |-> <<cut[w.range][w.index]>>, step |-> "insert", missing |-> {},
                 tries |-> 0, redo |-> 0, status |-> "running"]

Pull ==
  /\ outcome = "loading" /\ main = "pulling" /\ queue # <<>>
  /\ IF cancelled
     THEN /\ stoppedEarly' = TRUE /\ main' = "tail"
          /\ queue' = <<>> /\ reader' = "closed"
          /\ UNCHANGED batches
     ELSE /\ batches' = [w \in DOMAIN batches \cup {Head(queue)} |->
                           IF w = Head(queue) THEN Submitted(w) ELSE batches[w]]
          /\ queue' = Tail(queue)
          /\ main' = IF Cardinality(DOMAIN batches') >= Parallelism THEN "full" ELSE "pulling"
          /\ UNCHANGED <<stoppedEarly, reader>>
  /\ UNCHANGED <<run, target, quarantined, tracker, next, failed, cancelled, faults, drops>>

\* The reader posts the end of its stream however it ends.  Mutant: only when it read all.
EndedWell == reader = "done"
Ended == reader \in {"done", "lost", "broken", "cancelled"}

\* The end of the stream, or the reader's error once the queue is empty.
StreamEnds ==
  /\ outcome = "loading" /\ main = "pulling" /\ queue = <<>> /\ Ended
  /\ main' = IF reader = "done" THEN "tail" ELSE "unwinding"
  /\ UNCHANGED <<run, target, quarantined, tracker, reading, batches, stoppedEarly, failed,
                 cancelled, faults, drops>>

\* record_done: the resume point moves over the batches that follow it without a gap.
\* Mutant: it jumps to the batch.
RecordDoneAnyhow(r, i) ==
  IF r \in sealed \/ i <= frontier[r] THEN UNCHANGED <<frontier, ahead>>
  ELSE frontier' = [frontier EXCEPT ![r] = i] /\ UNCHANGED ahead
RecordDone(r, i) ==
  IF r \in sealed \/ i <= frontier[r] THEN UNCHANGED <<frontier, ahead>>
  ELSE LET from == IF frontier[r] < 0 THEN 0 ELSE frontier[r]
           done == ahead[r] \cup {i}
       IN \E to \in {from} \cup done :
            /\ to >= from /\ (from + 1)..to \subseteq done /\ to + 1 \notin done
            /\ frontier' = [frontier EXCEPT ![r] = to]
            /\ ahead' = [ahead EXCEPT ![r] = done \ ((from + 1)..to)]

\* record_failed: nothing behind a failed batch of the range counts any more.
RecordFailed(r) ==
  /\ sealed' = sealed \cup {r}
  /\ ahead' = [ahead EXCEPT ![r] = {}]
  /\ UNCHANGED frontier

Drain(w) ==
  /\ outcome = "loading" /\ main \in {"full", "tail", "unwinding"}
  /\ w \in DOMAIN batches
  /\ \/ /\ batches[w].status = "done"
        /\ RecordDone(w.range, w.index) /\ UNCHANGED <<sealed, failed>>
     \/ /\ batches[w].status = "failed"
        /\ RecordFailed(w.range) /\ failed' = TRUE
  /\ batches' = [x \in DOMAIN batches \ {w} |-> batches[x]]
  /\ main' = IF main = "full" THEN "pulling" ELSE main
  /\ UNCHANGED <<run, target, quarantined, reading, stoppedEarly, cancelled, faults, drops>>

Verdict == IF stoppedEarly THEN "stopped" ELSE IF failed THEN "failed" ELSE "loaded"

Return ==
  /\ outcome = "loading" /\ main = "tail" /\ DOMAIN batches = {}
  /\ outcome' = Verdict
  /\ UNCHANGED <<plan, cut, skip, attempt, target, quarantined, tracker, reading, batches,
                 loading, cancelled, faults, drops>>

-----------------------------------------------------------------------------
(* _retry_source_drops_in_process. *)

MayReread == reader = "lost" /\ plan.rereads /\ attempt < MaxAttempts /\ ~cancelled

Raise ==
  /\ outcome = "loading" /\ main = "unwinding" /\ DOMAIN batches = {}
  /\ IF MayReread THEN main' = "waiting" /\ UNCHANGED outcome
     ELSE /\ outcome' = IF reader = "cancelled" THEN "stopped" ELSE "failed"
          /\ UNCHANGED main
  /\ UNCHANGED <<plan, cut, skip, attempt, target, quarantined, tracker, reading, batches,
                 stoppedEarly, failed, cancelled, faults, drops>>

StopWaiting ==
  /\ outcome = "loading" /\ main = "waiting" /\ cancelled
  /\ outcome' = "stopped"
  /\ UNCHANGED <<plan, cut, skip, attempt, target, quarantined, tracker, reading, batches,
                 loading, cancelled, faults, drops>>

\* The resume point counts batches: it is kept only for the snapshot it counted.
\* Mutant: it is kept for any.
ResumeAnyhow == frontier
Resume == IF plan.shared THEN frontier ELSE NoResume

\* import_rows: the report of the last attempt is kept when this one can skip rows of it.
\* Mutant: it is cleared.
CarriedNever(from) == {}
Carried(from) == IF from = NoResume THEN {} ELSE quarantined

Reread ==
  /\ outcome = "loading" /\ main = "waiting" /\ ~cancelled
  /\ attempt' = attempt + 1
  /\ skip' = Resume /\ frontier' = skip'
  /\ ahead' = [r \in Ranges |-> {}] /\ sealed' = {}
  /\ quarantined' = Carried(skip')
  /\ cut' \in IF plan.shared THEN {cut} ELSE plan.cuts
  /\ target' = IF plan.recreates THEN {} ELSE target
  /\ next' = Zero /\ reader' = "reading" /\ queue' = <<>>
  /\ main' = "pulling" /\ stoppedEarly' = FALSE /\ failed' = FALSE
  /\ UNCHANGED <<plan, batches, cancelled, outcome, faults, drops>>

-----------------------------------------------------------------------------
(* A batch on the pool: _load_batch on the parts still to load, one statement at a time. *)

Running(w) == outcome = "loading" /\ w \in DOMAIN batches /\ batches[w].status = "running"
Part(w) == Head(batches[w].left)
At(w, step) == Running(w) /\ batches[w].step = step
Now(w, b) == batches' = [batches EXCEPT ![w] = b]
Poisoned(s) == s \cap Poison # {}

\* The part is loaded or reported: on to the next.
PartDone(w) ==
  LET rest == Tail(batches[w].left) IN
  Now(w, [left |-> rest, step |-> "insert", missing |-> {}, tries |-> 0, redo |-> 0,
          status |-> IF rest = <<>> THEN "done" ELSE "running"])
Goto(w, step) == Now(w, [batches[w] EXCEPT !.step = step])
Fails(w) == Now(w, [batches[w] EXCEPT !.status = "failed"])

others == <<run, tracker, reading, loading, cancelled, drops>>

\* Too many rows were reported: the batch fails before it is tried.
Capped(w) == batches[w].tries = 0 /\ Cardinality(quarantined) >= MaxQuarantine

GiveUp(w) ==
  /\ At(w, "insert") /\ Capped(w)
  /\ Fails(w)
  /\ UNCHANGED <<others, target, quarantined, faults>>

\* The rows the statement of this step inserts, all or none.
Sends(w) == IF batches[w].step = "insert" THEN ToSet(Part(w)) ELSE batches[w].missing
Inserts(w) ==
  /\ batches[w].step \in {"insert", "fill"}
  /\ Sends(w) \cap target = {} /\ ~Poisoned(Sends(w))

\* The plain INSERT, or the one of the rows found missing.
Insert(w) ==
  /\ Running(w) /\ Inserts(w) /\ ~(batches[w].step = "insert" /\ Capped(w))
  /\ target' = target \cup Sends(w)
  /\ PartDone(w)
  /\ UNCHANGED <<others, quarantined, faults>>

\* 23505 on a key, in either mode: some rows are there already, which are found out next.
\* Mutant: it counts as an error of the data.
DuplicateRejected(w) == Goto(w, "rejected")
Duplicate(w) == Goto(w, "select")

Collide(w) ==
  /\ At(w, "insert") /\ ~Capped(w) /\ ToSet(Part(w)) \cap target # {}
  /\ Duplicate(w)
  /\ UNCHANGED <<others, target, quarantined, faults>>

\* _select_filter_insert: a row that another writer inserted since is found by the next look.
CollideAgain(w) ==
  /\ At(w, "fill") /\ batches[w].missing \cap target # {}
  /\ IF batches[w].redo + 1 < MaxRetries
     THEN Now(w, [batches[w] EXCEPT !.step = "select", !.redo = @ + 1])
     ELSE Fails(w)
  /\ UNCHANGED <<others, target, quarantined, faults>>

SelectExisting(w) ==
  /\ At(w, "select")
  /\ LET missing == ToSet(Part(w)) \ target IN
     IF missing = {} THEN PartDone(w)
     ELSE Now(w, [batches[w] EXCEPT !.step = "fill", !.missing = missing])
  /\ UNCHANGED <<others, target, quarantined, faults>>

\* A data error, of the INSERT or of a UNIQUE index that is not the primary key.
Reject(w) ==
  /\ Running(w) /\ batches[w].step \in {"insert", "fill"} /\ Poisoned(Sends(w))
  /\ ~(batches[w].step = "insert" /\ Capped(w))
  /\ Goto(w, "rejected")
  /\ UNCHANGED <<others, target, quarantined, faults>>

\* A rejected part is halved, down to the one row that is reported.
Isolate(w) ==
  /\ At(w, "rejected")
  /\ LET p == Part(w)
         mid == Len(p) \div 2 IN
     IF Len(p) <= 1
     THEN quarantined' = quarantined \cup ToSet(p) /\ PartDone(w)
     ELSE /\ Now(w, [left |-> <<SubSeq(p, 1, mid), SubSeq(p, mid + 1, Len(p))>>
                                \o Tail(batches[w].left),
                     step |-> "insert", missing |-> {}, tries |-> 0, redo |-> 0,
                     status |-> "running"])
          /\ UNCHANGED quarantined
  /\ UNCHANGED <<others, target, faults>>

\* OCC, XX000 or a lost connection, before or after the statement took effect: the whole
\* statement is run again from the plain INSERT, and a batch out of retries fails.
Fault(w) ==
  /\ Running(w) /\ batches[w].step # "rejected" /\ faults < MaxFaults
  /\ ~(batches[w].step = "insert" /\ Capped(w))
  /\ faults' = faults + 1
  /\ target' \in {target} \cup (IF Inserts(w) THEN {target \cup Sends(w)} ELSE {})
  /\ IF batches[w].tries + 1 < MaxRetries
     THEN Now(w, [batches[w] EXCEPT !.step = "insert", !.missing = {}, !.redo = 0, !.tries = @ + 1])
     ELSE Fails(w)
  /\ UNCHANGED <<others, quarantined>>

Work(w) ==
  \/ GiveUp(w) \/ Insert(w) \/ Collide(w) \/ CollideAgain(w) \/ SelectExisting(w)
  \/ Reject(w) \/ Isolate(w)

-----------------------------------------------------------------------------
(* The environment. *)

\* The sink of a CDC stream that runs beside the load inserts the row, newer or the same.
SinkInserts(r) ==
  /\ outcome = "loading" /\ r \in plan.live \ target
  /\ target' = target \cup {r}
  /\ UNCHANGED <<others, quarantined, batches, faults>>

Cancel ==
  /\ outcome = "loading" /\ ~cancelled
  /\ cancelled' = TRUE
  /\ UNCHANGED <<run, target, quarantined, tracker, reading, batches, loading, faults, drops>>

Loader == Pull \/ StreamEnds \/ (\E w \in DOMAIN batches : Drain(w)) \/ Return
          \/ Raise \/ StopWaiting \/ Reread
Reader == (\E r \in Ranges : Read(r)) \/ ReadAll
Next ==
  \/ Loader \/ Reader
  \/ \E w \in DOMAIN batches : Work(w) \/ Fault(w)
  \/ SourceFails \/ ReaderStops \/ Cancel
  \/ \E r \in Rows : SinkInserts(r)

Spec == Init /\ [][Next]_vars

\* The reader, the loading thread and the pool's threads run on: every statement and every
\* page read ends, by its socket timeout if need be.  Failures, stops and CDC need not come.
FairSpec ==
  /\ Spec /\ WF_vars(Reader) /\ WF_vars(Loader)
  /\ WF_vars(\E w \in DOMAIN batches : Work(w))

-----------------------------------------------------------------------------
(* Properties. *)

Snapshot == UNION {UNION {ToSet(cut[r][i]) : i \in DOMAIN cut[r]} : r \in Ranges}
Load == INSTANCE TableLoad WITH snapshot <- Snapshot, reported <- quarantined

Parts == Seq(Seq(Rows) \ {<<>>})
Steps == {"insert", "select", "fill", "rejected"}
Batches == [left : Parts, step : Steps, missing : SUBSET Rows, tries : Nat, redo : Nat,
            status : {"running", "done", "failed"}]

TypeOK ==
  /\ plan \in Plans /\ cut \in Cuts /\ target \in SUBSET Rows /\ quarantined \in SUBSET Poison
  /\ skip \in [Ranges -> Int] /\ frontier \in [Ranges -> Int]
  /\ ahead \in [Ranges -> SUBSET (Nat \ {0})] /\ sealed \in SUBSET Ranges
  /\ next \in [Ranges -> Nat]
  /\ reader \in {"reading", "done", "lost", "broken", "cancelled", "closed"}
  /\ queue \in Seq(Works)
  /\ DOMAIN batches \subseteq Works /\ batches \in [DOMAIN batches -> Batches]
  /\ main \in {"pulling", "full", "tail", "unwinding", "waiting"}
  /\ stoppedEarly \in BOOLEAN /\ failed \in BOOLEAN /\ attempt \in Nat /\ cancelled \in BOOLEAN
  /\ outcome \in {"loading", "loaded", "failed", "stopped"} /\ faults \in Nat /\ drops \in Nat

Queued == ToSet(queue)
InCut(w) == w.index <= next[w.range] /\ next[w.range] <= Len(cut[w.range])

\* What the resume point, and the batches ahead of it, stand for.
TrackerInv ==
  \A r \in Ranges :
    /\ skip[r] <= frontier[r]
    /\ \A i \in DOMAIN cut[r] :
         i <= frontier[r] \/ i \in ahead[r] => Settled([range |-> r, index |-> i])

\* A batch read is skipped, queued, submitted, settled, or known to be missing.
AccountInv ==
  /\ \A w \in Queued \cup DOMAIN batches : InCut(w)
  /\ \A r \in Ranges : \A i \in DOMAIN cut[r] :
       LET w == [range |-> r, index |-> i] IN
       i <= next[r] => \/ i <= skip[r] \/ w \in Queued \/ w \in DOMAIN batches
                       \/ Settled(w) \/ failed \/ stoppedEarly

\* A submitted batch: the parts left to load, and what the other rows became.
BatchOk(w, b, done) ==
  /\ b.status = "running" => b.left # <<>>
  /\ b.status = "done" => b.left = <<>>
  /\ b.status # "failed" =>
       \A x \in RowsOf(w) : x \in done \/ \E i \in DOMAIN b.left : x \in ToSet(b.left[i])
  /\ b.status = "running" /\ b.step = "fill" =>
       /\ b.missing \subseteq ToSet(Head(b.left))
       /\ ToSet(Head(b.left)) \subseteq done \cup b.missing
  /\ b.status = "running" /\ b.step = "rejected" => Poisoned(ToSet(Head(b.left)))
BatchInv == \A w \in DOMAIN batches : BatchOk(w, batches[w], DoneRows)

MainInv ==
  /\ reader = "done" => \A r \in Ranges : next[r] = Len(cut[r])
  /\ main = "tail" /\ ~stoppedEarly => queue = <<>> /\ reader = "done"
  /\ main = "waiting" => DOMAIN batches = {}
  /\ outcome = "loaded" => Snapshot \subseteq DoneRows

\* The inductive invariant of the load.
LoadInv == TypeOK /\ TrackerInv /\ AccountInv /\ BatchInv /\ MainInv

\* A batch at or before the resume point of its range is in the target or in the report,
\* whatever order the batches finished in and whichever failed (_BatchResumeTracker).
ResumeIsSettled ==
  \A r \in Ranges : \A i \in 1..Len(cut[r]) :
    i <= frontier[r] => Settled([range |-> r, index |-> i])

\* The load does what TableLoad promises: DONE means that every row of the snapshot read
\* last is in the target or reported, and only rows the target rejects are reported.
IsTableLoad == Load!Spec

\* Every load returns: the read-ahead, the pool and the retries never wait for each other.
LoadReturns == <>(outcome # "loading")
=============================================================================
