---------------------------- MODULE DsqlSinkTask ----------------------------
(***************************************************************************)
(* The Aurora DSQL sink task (connectors/dsql-sink, DsqlSinkTask) running  *)
(* inside a Kafka Connect worker: how one put is parsed, chunked, applied, *)
(* quarantined and redelivered, and how a change that a unique index       *)
(* rejects is held on its own partition until the change that frees its    *)
(* value has been applied.                                                 *)
(*                                                                         *)
(* A change is named by its Kafka coordinates [p, o].  Offsets count from  *)
(* 1; 0 stands for "no offset" where the code has an absent map entry.     *)
(* A put is not atomic: the task applies one chunk or one row per step,    *)
(* and between two steps the database may fail or the worker may die.      *)
(***************************************************************************)
EXTENDS SinkBatching

CONSTANTS
  Partitions,     \* the partitions of the topics this task consumes
  Histories,      \* the source histories, each with or without a dead-letter queue
  BatchSize,      \* batch.size: the row weight of one chunk
  Budget,         \* clock ticks a hold may wait (UNIQUE_HOLD_BUDGET_NANOS)
  DeleteEnabled,  \* delete.enabled
  NoHold,         \* a partition that is not held
  \* Bounds of the model, not of the code:
  MaxPoll,        \* records one poll brings from one partition
  MaxTransient,   \* transient failures of Aurora DSQL
  MaxRestarts     \* crashes and rebalances

ASSUME PartitionsAssumption == IsFiniteSet(Partitions)
ASSUME BudgetAssumption == Budget \in Nat \ {0}
ASSUME BatchSizeAssumption == BatchSize \in Nat \ {0}
ASSUME BoundsAssumption == MaxPoll \in Nat /\ MaxTransient \in Nat /\ MaxRestarts \in Nat
ASSUME FlagsAssumption == DeleteEnabled \in BOOLEAN
SourceHistories == [base: Tables, log: [Partitions -> Seq(Changes)], dlq: BOOLEAN]
ASSUME HistoriesAssumption == Histories \subseteq SourceHistories

VARIABLES
  source,        \* the history being replicated; never changes
  target,        \* the target table
  (* The Connect worker. *)
  position,      \* the consumer's next offset, per partition
  current,       \* currentOffsets: what the worker would commit without a cap
  committed,     \* the offset committed to Kafka
  rewind,        \* context.offset(tp, o) not yet applied by a poll; 0 = none
  paused,        \* partitions paused through the context
  batch,         \* messageBatch: records delivered to put and not accepted yet
  (* The task, between puts. *)
  hold,          \* the UniqueHold of a partition, or NoHold
  releasedCaps,  \* commit caps of released holds; 0 = none
  pausedByHold,  \* partitions this task paused for a hold
  refusedAhead,  \* offsets after a hold already dead-lettered
  redelivering,  \* a put has not returned normally
  (* The put in progress. *)
  pc,            \* "idle", "read", "apply", "resolve" or "failed"
  putBatch,      \* the prepared records of this put
  putRefused,    \* the records this put refused before any write
  todo,          \* chunks still to apply
  rows,          \* rows of the current chunk still to apply one by one
  untried,       \* partitions whose due hold this put still tries
  (* History variables. *)
  fate,          \* the last outcome of every change
  reports,       \* how often a change went to the dead-letter queue
  transients, restarts   \* failures so far

connect == <<position, current, committed, rewind, paused, batch>>
task == <<hold, releasedCaps, pausedByHold, refusedAhead, redelivering>>
put == <<pc, putBatch, putRefused, todo, rows, untried>>
seen == <<fate, reports, transients, restarts>>
vars == <<source, target, connect, task, put, seen>>

log == source.log
\* Whether Connect gave the task an errant record reporter.
DlqWired == source.dlq
EndOf(p) == Len(log[p]) + 1
Records == UNION {[p: {p}, o: 1..Len(log[p])] : p \in Partitions}
ChangeAt(r) == log[r.p][r.o]
Delivered(p) == {r \in ToSet(batch) : r.p = p}
LastOffset(p) == Max({r.o : r \in Delivered(p)})
Lower(a, b) == IF a <= b THEN a ELSE b

Waits(p) == hold[p] # NoHold /\ hold[p].ended = "no"
HeadOf(p) == [p |-> p, o |-> hold[p].offset]
Ended(p) == hold[p] # NoHold /\ hold[p].ended # "no"
HeldTail(r) == hold[r.p] # NoHold /\ r.o >= hold[r.p].offset

Init ==
  /\ source \in Histories
  /\ target = source.base
  /\ position = [p \in Partitions |-> 1]
  /\ current = [p \in Partitions |-> 1]
  /\ committed = [p \in Partitions |-> 1]
  /\ rewind = [p \in Partitions |-> 0]
  /\ paused = {}
  /\ batch = <<>>
  /\ hold = [p \in Partitions |-> NoHold]
  /\ releasedCaps = [p \in Partitions |-> 0]
  /\ pausedByHold = {}
  /\ refusedAhead = [p \in Partitions |-> {}]
  /\ redelivering = FALSE
  /\ pc = "idle"
  /\ putBatch = <<>> /\ putRefused = {} /\ todo = <<>> /\ rows = <<>> /\ untried = {}
  /\ fate = [r \in Records |-> "new"]
  /\ reports = [r \in Records |-> 0]
  /\ transients = 0
  /\ restarts = 0

-----------------------------------------------------------------------------
(* Which change replaces which, and what a held change looks like. *)

\* Mutant of Superseding: a partial image replaces a full one.
SupersedingByAnyImage(failing, later) ==
  /\ later.p = failing.p /\ later.o > failing.o
  /\ ChangeAt(later).op \notin {"move", "poison"} /\ ~HasSourceKey(ChangeAt(later))
  /\ ChangeAt(later).key = ChangeAt(failing).key

Superseding(failing, later) ==   \* replaces()
  LET fe == ChangeAt(failing)
      le == ChangeAt(later)
  IN /\ later.p = failing.p /\ later.o > failing.o
     /\ le.op \notin {"move", "poison"} /\ ~HasSourceKey(le)
     /\ le.key = fe.key
     /\ IsDelete(le) \/ RenderSql(le) = RenderSql(fe)

\* A re-keyed table has no look-ahead and no replacement.
PausesAtOnce(c) == HasSourceKey(c) \/ IsMove(c)

SupersededInPut(r) ==
  \/ \E l \in ToSet(putBatch) : Superseding(r, l)
  \/ hold[r.p] # NoHold /\ \E l \in ToSet(batch) : HeldTail(l) /\ Superseding(r, l)

Holdable(c) ==
  c.op # "reject" /\ DeleteEnabled /\ ~(HasSourceKey(c) /\ c.blind /\ ~IsMove(c))

\* Mutant of RefusedBehind: the hold forgets them.
NoneRefusedBehind(r) == {}

\* The records already dead-lettered on r's partition behind a hold at r.
RefusedBehind(r) == {x.o : x \in {y \in putRefused : y.p = r.p /\ y.o > r.o}}

NewHold(r) ==
  LET atOnce == PausesAtOnce(ChangeAt(r))
  IN [offset |-> r.o, frontier |-> IF atOnce THEN r.o ELSE LastOffset(r.p),
      lookahead |-> ~atOnce, ended |-> "no", due |-> TRUE, age |-> 0]

\* The records of S went to the dead-letter queue.
Reported(S) ==
  /\ fate' = [r \in Records |-> IF r \in S THEN "dead" ELSE fate[r]]
  /\ reports' = [r \in Records |-> IF r \in S THEN reports[r] + 1 ELSE reports[r]]

\* The ConnectException of a quarantine without a reporter kills the task.
TaskFails ==
  /\ pc' = "failed"
  /\ UNCHANGED <<source, target, connect, task, putBatch, putRefused, todo, rows, untried, seen>>

-----------------------------------------------------------------------------
(* Poll: the worker applies the rewinds, fetches (or keeps the batch it    *)
(* has to redeliver) and calls put, which reads the records, refuses some  *)
(* before any write and ends the look-aheads.                              *)

Rewound(f) == [p \in Partitions |-> IF rewind[p] = 0 THEN f[p] ELSE rewind[p]]

Fetchable(p) == IF p \in paused THEN 0 ELSE Lower(MaxPoll, EndOf(p) - Rewound(position)[p])

\* The next n[p] records of each partition.
Fetched(n) ==
  UNION {[p: {p}, o: Rewound(position)[p]..(Rewound(position)[p] + n[p] - 1)] : p \in Partitions}

\* A batch comes partition by partition, each in offset order.
InOrder(s) ==
  \A i, j \in DOMAIN s : (i < j /\ s[i].p = s[j].p) =>
    s[i].o < s[j].o /\ \A k \in i..j : s[k].p = s[i].p

Poll(n) ==
  /\ pc = "idle"
  /\ batch # <<>> => n = [p \in Partitions |-> 0]
  /\ batch' \in IF batch # <<>> THEN {batch} ELSE {s \in SetToSeqs(Fetched(n)) : InOrder(s)}
  /\ position' = [p \in Partitions |-> Rewound(position)[p] + n[p]]
  /\ current' = Rewound(current)
  /\ rewind' = [p \in Partitions |-> 0]
  /\ pc' = "read"
  /\ UNCHANGED <<source, target, committed, paused, task,
                 putBatch, putRefused, todo, rows, untried, seen>>

PollBrings(S) ==
  \E n \in [Partitions -> 0..MaxPoll] :
    /\ \A p \in Partitions : n[p] <= Fetchable(p)
    /\ \A p \in S : n[p] > 0
    /\ Poll(n)

\* Mutant of CapsOfPut: the caps are never cleared.
CapsKept == releasedCaps

\* put clears the caps of released holds, unless the put before it threw.
CapsOfPut == IF redelivering THEN releasedCaps ELSE [p \in Partitions |-> 0]

SkipHeldOrRefused(r) ==
  \/ HeldTail(r)
  \/ CapsOfPut[r.p] # 0 /\ r.o >= CapsOfPut[r.p]
  \/ r.o \in refusedAhead[r.p]

\* Refused before any write: it does not parse, is too large, or does not fit its column.
Refuses(r) == ~SkipHeldOrRefused(r) /\ ChangeAt(r).op \in {"poison", "unfit"}
Prepares(r) ==
  /\ ~SkipHeldOrRefused(r) /\ ~Refuses(r)
  /\ IsDelete(ChangeAt(r)) => DeleteEnabled

\* The head of put and applyPut: what is skipped, refused, prepared; endLookaheads.
ReadBatch ==
  LET refused == {r \in ToSet(batch) : Refuses(r)}
      prepared == Kept(batch, {r \in ToSet(batch) : Prepares(r)})
      ahead(p) == {r \in Delivered(p) : r.o > hold[p].frontier}
      looked == {p \in Partitions : Waits(p) /\ hold[p].lookahead /\ ahead(p) # {}}
      replaced == {p \in looked : \E r \in ahead(p) : Superseding(HeadOf(p), r)}
      pauses == looked \ replaced
  IN /\ pc = "read"
     /\ refused = {} \/ DlqWired
     /\ releasedCaps' = CapsOfPut
     /\ redelivering' = TRUE
     /\ hold' = [p \in Partitions |->
                   IF p \in replaced THEN [hold[p] EXCEPT !.ended = "replaced"]
                   ELSE IF p \in pauses THEN [hold[p] EXCEPT !.lookahead = FALSE]
                   ELSE hold[p]]
     /\ rewind' = [p \in Partitions |-> IF p \in pauses THEN hold[p].offset ELSE CapsOfPut[p]]
     /\ paused' = paused \cup pauses
     /\ pausedByHold' = pausedByHold \cup pauses
     /\ putBatch' = prepared
     /\ putRefused' = refused
     /\ todo' = Partition(prepared, BatchSize, 1, [n \in DOMAIN prepared |-> 0],
                          [n \in DOMAIN prepared |-> Weight(ChangeAt(prepared[n]))])
     /\ fate' = [r \in Records |-> IF r \in refused THEN "dead"
                                   ELSE IF r \in {HeadOf(p) : p \in replaced} THEN "skipped"
                                   ELSE fate[r]]
     /\ reports' = [r \in Records |-> IF r \in refused THEN reports[r] + 1 ELSE reports[r]]
     /\ pc' = "apply"
     /\ UNCHANGED <<source, target, position, current, committed, batch, refusedAhead,
                    rows, untried, transients, restarts>>

\* Without a reporter the first refusal kills the task, before anything is written.
FailOnRefused ==
  /\ pc = "read" /\ ~DlqWired
  /\ \E r \in ToSet(batch) : Refuses(r)
  /\ releasedCaps' = CapsOfPut
  /\ rewind' = CapsOfPut
  /\ redelivering' = TRUE
  /\ pc' = "failed"
  /\ UNCHANGED <<source, target, position, current, committed, paused, batch, hold, pausedByHold,
                 refusedAhead, putBatch, putRefused, todo, rows, untried, seen>>

-----------------------------------------------------------------------------
(* applyPrepared: one transaction per chunk; a chunk that is rejected is   *)
(* replayed one row per transaction.                                       *)

Busy == pc = "apply" /\ (rows # <<>> \/ todo # <<>>)

Upcoming == IF rows # <<>> THEN <<Head(rows)>> ELSE Head(todo)

\* Mutant of Unit: a held partition's tail is written with the rest.
UnitWithTails == Upcoming

\* The records of the next transaction: held tails are left out.
Unit == Kept(Upcoming, {r \in ToSet(Upcoming) : ~HeldTail(r)})
UnitResult == LET unit == Unit IN ExecChunk(target, [i \in DOMAIN unit |-> ChangeAt(unit[i])])

UnitDone ==
  IF rows # <<>> THEN rows' = Tail(rows) /\ UNCHANGED todo
                 ELSE todo' = Tail(todo) /\ UNCHANGED rows

\* Nothing of the unit may be written: its partitions are held.
SkipHeldTail ==
  /\ Busy /\ Unit = <<>>
  /\ UnitDone
  /\ UNCHANGED <<source, target, connect, task, pc, putBatch, putRefused, untried, seen>>

Wrote(S) == fate' = [r \in Records |-> IF r \in S THEN "written" ELSE fate[r]]

CommitUnit ==
  /\ Busy /\ Unit # <<>>
  /\ UnitResult \in Tables
  /\ target' = UnitResult
  /\ Wrote(ToSet(Unit))
  /\ UnitDone
  /\ UNCHANGED <<source, connect, task, pc, putBatch, putRefused, untried,
                 reports, transients, restarts>>

IsolateRows ==
  /\ Busy /\ Len(Unit) > 1
  /\ UnitResult = Rejected
  /\ rows' = Unit
  /\ todo' = Tail(todo)
  /\ UNCHANGED <<source, target, connect, task, pc, putBatch, putRefused, untried, seen>>

\* holdOrReport: the four fates of a row that is rejected on its own.
RejectedRow(r) == Unit = <<r>> /\ UnitResult = Rejected
Moot(r) == ~PausesAtOnce(ChangeAt(r)) /\ SupersededInPut(r)
ToQuarantine(r) == ~Holdable(ChangeAt(r)) \/ (~Moot(r) /\ hold[r.p] # NoHold)

SkipSuperseded(r) ==
  /\ RejectedRow(r)
  /\ Holdable(ChangeAt(r)) /\ Moot(r)
  /\ fate' = [fate EXCEPT ![r] = "skipped"]
  /\ UnitDone
  /\ UNCHANGED <<source, target, connect, task, pc, putBatch, putRefused, untried,
                 reports, transients, restarts>>

\* Mutant of QuarantineRow: "log and skip" when no reporter is wired.
LogAndSkipRow(r) ==
  /\ RejectedRow(r) /\ ToQuarantine(r)
  /\ UnitDone
  /\ UNCHANGED <<source, target, connect, task, pc, putBatch, putRefused, untried, seen>>

QuarantineRow(r) ==
  /\ RejectedRow(r)
  /\ ToQuarantine(r)
  /\ DlqWired
  /\ Reported({r})
  /\ UnitDone
  /\ UNCHANGED <<source, target, connect, task, pc, putBatch, putRefused, untried,
                 transients, restarts>>

StartHold(r) ==
  /\ RejectedRow(r)
  /\ Holdable(ChangeAt(r)) /\ ~Moot(r) /\ hold[r.p] = NoHold
  /\ hold' = [hold EXCEPT ![r.p] = NewHold(r)]
  /\ refusedAhead' = [refusedAhead EXCEPT ![r.p] = @ \cup RefusedBehind(r)]
  /\ IF PausesAtOnce(ChangeAt(r))
     THEN /\ rewind' = [rewind EXCEPT ![r.p] = r.o]
          /\ paused' = paused \cup {r.p}
          /\ pausedByHold' = pausedByHold \cup {r.p}
     ELSE UNCHANGED <<rewind, paused, pausedByHold>>
  /\ UnitDone
  /\ UNCHANGED <<source, target, position, current, committed, batch, releasedCaps,
                 redelivering, pc, putBatch, putRefused, untried, seen>>

FailOnRow(r) == RejectedRow(r) /\ ToQuarantine(r) /\ ~DlqWired /\ TaskFails

HoldOrReport ==
  /\ Busy
  /\ \E r \in ToSet(batch) :
       SkipSuperseded(r) \/ QuarantineRow(r) \/ StartHold(r) \/ FailOnRow(r)

\* The database cannot answer: the put throws a RetriableException and the worker keeps
\* the batch.  A commit whose answer was lost may have landed.
Throw ==
  /\ Busy /\ Unit # <<>>
  /\ transients < MaxTransient
  /\ transients' = transients + 1
  /\ \/ UNCHANGED <<target, fate>>
     \/ UnitResult \in Tables /\ target' = UnitResult /\ Wrote(ToSet(Unit))
  /\ hold' = [p \in Partitions |-> IF Waits(p) THEN [hold[p] EXCEPT !.age = 0] ELSE hold[p]]
  /\ pc' = "idle"
  /\ putBatch' = <<>> /\ putRefused' = {} /\ todo' = <<>> /\ rows' = <<>>
  /\ UNCHANGED <<source, connect, releasedCaps, pausedByHold, refusedAhead, redelivering,
                 untried, reports, restarts>>

\* A commit that landed without an answer (XX000) is run again in the same put: the re-run meets
\* the rows it wrote, and may be rejected by them.
RerunLanded ==
  /\ Busy /\ Len(Unit) > 1
  /\ transients < MaxTransient
  /\ transients' = transients + 1
  /\ UnitResult \in Tables
  /\ target' = UnitResult
  /\ Wrote(ToSet(Unit))
  /\ UNCHANGED <<source, connect, task, put, reports, restarts>>

-----------------------------------------------------------------------------
(* resolveDueHolds, then the normal return of the put. *)

StartResolve ==
  /\ pc = "apply" /\ rows = <<>> /\ todo = <<>>
  /\ pc' = "resolve"
  /\ untried' = {p \in Partitions : Waits(p) /\ hold[p].due}
  /\ putBatch' = <<>> /\ putRefused' = {}
  /\ UNCHANGED <<source, target, connect, task, todo, rows, seen>>

HeadResult(p) == ExecOne(target, ChangeAt(HeadOf(p)))
Expired(p) == hold[p].age >= Budget

Trying(p) == pc = "resolve" /\ p \in untried

ApplyHeld(p) ==
  /\ Trying(p)
  /\ HeadResult(p) \in Tables
  /\ target' = HeadResult(p)
  /\ Wrote({HeadOf(p)})
  /\ hold' = [hold EXCEPT ![p].ended = "applied"]
  /\ untried' = untried \ {p}
  /\ UNCHANGED <<source, connect, releasedCaps, pausedByHold, refusedAhead, redelivering,
                 pc, putBatch, putRefused, todo, rows, reports, transients, restarts>>

KeepHeld(p) ==
  /\ Trying(p)
  /\ HeadResult(p) = Rejected /\ ~Expired(p)
  /\ hold' = [hold EXCEPT ![p].due = FALSE]
  /\ untried' = untried \ {p}
  /\ UNCHANGED <<source, target, connect, releasedCaps, pausedByHold, refusedAhead,
                 redelivering, pc, putBatch, putRefused, todo, rows, seen>>

ExpireHeld(p) ==
  /\ Trying(p)
  /\ HeadResult(p) = Rejected /\ Expired(p)
  /\ IF DlqWired
     THEN /\ Reported({HeadOf(p)})
          /\ hold' = [hold EXCEPT ![p].ended = "dead"]
          /\ untried' = untried \ {p}
          /\ UNCHANGED <<source, target, connect, releasedCaps, pausedByHold, refusedAhead,
                 redelivering, pc, putBatch, putRefused, todo, rows, transients, restarts>>
     ELSE TaskFails

\* A try the database does not answer: every hold backs off and its budget starts again.
Unanswered(p) ==
  /\ Trying(p)
  /\ transients < MaxTransient
  /\ transients' = transients + 1
  /\ \/ UNCHANGED <<target, fate>>
     \/ HeadResult(p) \in Tables /\ target' = HeadResult(p) /\ Wrote({HeadOf(p)})
  /\ hold' = [q \in Partitions |->
                IF Waits(q) THEN [hold[q] EXCEPT !.due = FALSE, !.age = 0] ELSE hold[q]]
  /\ untried' = {}
  /\ UNCHANGED <<source, connect, releasedCaps, pausedByHold, refusedAhead, redelivering,
                 pc, putBatch, putRefused, todo, rows, reports, restarts>>

\* Mutant of Resumed: a release leaves its partition paused.
ResumedNone(S) == {}
\* release() resumes what the task paused for a hold that is gone.
Resumed(S) == S \cap pausedByHold

\* Nothing can fail any more: the rewinds of the waiting holds are issued again, every
\* hold that ended is released (releaseEndedHolds) and the worker accepts the batch.
PutReturns ==
  LET released == {p \in Partitions : Ended(p)}
      resumed == Resumed(released)
  IN /\ pc = "resolve" /\ untried = {}
     /\ pc' = "idle"
     /\ hold' = [p \in Partitions |-> IF p \in released THEN NoHold ELSE hold[p]]
     /\ releasedCaps' = [p \in Partitions |-> IF p \in released THEN hold[p].offset + 1
                                              ELSE releasedCaps[p]]
     /\ rewind' = [p \in Partitions |->
                     IF p \in released THEN hold[p].offset + 1
                     ELSE IF Waits(p) /\ ~hold[p].lookahead THEN hold[p].offset
                     ELSE rewind[p]]
     /\ pausedByHold' = pausedByHold \ resumed
     /\ paused' = paused \ resumed
     /\ redelivering' = FALSE
     /\ current' = [p \in Partitions |-> IF Delivered(p) = {} THEN current[p]
                                         ELSE LastOffset(p) + 1]
     /\ batch' = <<>>
     /\ UNCHANGED <<source, target, position, committed, refusedAhead,
                    putBatch, putRefused, todo, rows, untried, seen>>

-----------------------------------------------------------------------------
(* Time, the offset commit, a rebalance and a crash. *)

TimeMatters == \E p \in Partitions : Waits(p) /\ (hold[p].age < Budget \/ ~hold[p].due)

Tick ==
  /\ pc \in {"idle", "apply"}
  /\ TimeMatters
  /\ hold' = [p \in Partitions |->
                IF Waits(p) THEN [hold[p] EXCEPT !.due = TRUE, !.age = Lower(@ + 1, Budget)]
                ELSE hold[p]]
  /\ UNCHANGED <<source, target, connect, releasedCaps, pausedByHold, refusedAhead,
                 redelivering, put, seen>>

\* Mutants of PreCommit: it forgets the holds, forgets the released ones, is off by one.
PreCommitPastHolds(p, o) == IF releasedCaps[p] = 0 THEN o ELSE Lower(o, releasedCaps[p])
PreCommitPastReleases(p, o) == IF hold[p] = NoHold THEN o ELSE Lower(o, hold[p].offset)
PreCommitBeforeHold(p, o) == IF hold[p] = NoHold THEN o ELSE Lower(o, hold[p].offset - 1)

\* preCommit: of offset o, what may be committed on partition p.  A held partition is capped
\* at its hold, a just released one after it.
PreCommit(p, o) ==
  LET held == IF hold[p] = NoHold THEN o ELSE Lower(o, hold[p].offset)
  IN IF releasedCaps[p] = 0 THEN held ELSE Lower(held, releasedCaps[p])

Capped(p) == PreCommit(p, current[p])

Commit ==
  /\ pc \in {"idle", "failed"}   \* a task that failed commits once more while it closes
  /\ committed' \in {committed, [p \in Partitions |-> Capped(p)]}
  /\ refusedAhead' = [p \in Partitions |-> {o \in refusedAhead[p] : o >= Capped(p)}]
  /\ UNCHANGED <<source, target, position, current, rewind, paused, batch, hold, releasedCaps,
                 pausedByHold, redelivering, put, seen>>

\* The batch without the records of S.
Without(S) ==
  LET at(r) == CHOOSE i \in DOMAIN batch : batch[i] = r
  IN {s \in SetToSeqs({r \in ToSet(batch) : r.p \notin S}) :
        \A i, j \in DOMAIN s : i < j => at(s[i]) < at(s[j])}

\* The partitions of S are revoked (their commit is tried first, then close drops their
\* holds) and come back (open resumes those no longer held).  It happens inside a poll,
\* after its rewinds.
Rebalance(S) ==
  /\ pc = "idle" /\ restarts < MaxRestarts
  /\ restarts' = restarts + 1
  /\ LET capped == [p \in Partitions |-> PreCommit(p, Rewound(current)[p])]
         resumed == Resumed({p \in Partitions : p \in S \/ hold[p] = NoHold})
     IN /\ committed' \in {committed, [p \in Partitions |-> IF p \in S THEN capped[p]
                                                            ELSE committed[p]]}
        /\ refusedAhead' = [p \in Partitions |-> IF p \in S THEN {}
                                ELSE {o \in refusedAhead[p] : o >= capped[p]}]
        /\ pausedByHold' = pausedByHold \ resumed
        /\ paused' = paused \ resumed
  /\ hold' = [p \in Partitions |-> IF p \in S THEN NoHold ELSE hold[p]]
  /\ releasedCaps' = [p \in Partitions |-> IF p \in S THEN 0 ELSE releasedCaps[p]]
  /\ position' = [p \in Partitions |-> IF p \in S THEN committed'[p] ELSE Rewound(position)[p]]
  /\ current' = [p \in Partitions |-> IF p \in S THEN committed'[p] ELSE Rewound(current)[p]]
  /\ rewind' = [p \in Partitions |-> 0]
  /\ batch' \in Without(S)
  /\ UNCHANGED <<source, target, redelivering, put, fate, reports, transients>>

\* The worker dies at any moment, or the failed task is restarted.
Restart ==
  /\ restarts < MaxRestarts
  /\ restarts' = restarts + 1
  /\ position' = committed
  /\ current' = committed
  /\ rewind' = [p \in Partitions |-> 0]
  /\ paused' = {} /\ batch' = <<>>
  /\ hold' = [p \in Partitions |-> NoHold]
  /\ releasedCaps' = [p \in Partitions |-> 0]
  /\ pausedByHold' = {}
  /\ refusedAhead' = [p \in Partitions |-> {}]
  /\ redelivering' = FALSE
  /\ pc' = "idle"
  /\ putBatch' = <<>> /\ putRefused' = {} /\ todo' = <<>> /\ rows' = <<>> /\ untried' = {}
  /\ UNCHANGED <<source, target, committed, fate, reports, transients>>

Apply == SkipHeldTail \/ CommitUnit \/ IsolateRows \/ HoldOrReport \/ StartResolve
Resolve == (\E p \in Partitions : ApplyHeld(p) \/ KeepHeld(p) \/ ExpireHeld(p)) \/ PutReturns

Next ==
  \/ PollBrings({}) \/ ReadBatch \/ FailOnRefused
  \/ Apply \/ Throw \/ RerunLanded
  \/ Resolve \/ \E p \in Partitions : Unanswered(p)
  \/ Tick \/ Commit
  \/ \E S \in SUBSET Partitions \ {{}} : Rebalance(S)
  \/ Restart

Spec == Init /\ [][Next]_vars

(***************************************************************************)
(* The worker's thread does not stop inside a put (the first conjunct is   *)
(* weak fairness of the put's own steps, which are enabled exactly while   *)
(* InPut holds).  An idle worker polls; the consumer in the end serves     *)
(* each partition that is not paused and has records; the commit interval  *)
(* elapses and a commit succeeds again; time passes.                       *)
(***************************************************************************)
InPut == pc \in {"read", "apply", "resolve"}
PutStep == InPut /\ put' # put /\ <<transients, restarts>>' = <<transients, restarts>>

Fairness ==
  /\ []<>~InPut \/ []<><<PutStep>>_vars
  /\ SF_vars(PollBrings({}))
  /\ \A p \in Partitions : SF_vars(PollBrings({p}))
  /\ SF_vars(Commit /\ committed' = [p \in Partitions |-> Capped(p)])
  /\ SF_vars(Tick)

FairSpec == Spec /\ Fairness

-----------------------------------------------------------------------------
(* Properties *)

Offsets == [Partitions -> Nat]
Positions == [Partitions -> Nat \ {0}]
Holds == [offset: Nat, frontier: Nat, lookahead: BOOLEAN,
          ended: {"no", "applied", "dead", "replaced"}, due: BOOLEAN, age: 0..Budget]
ASSUME NoHoldAssumption == NoHold \notin Holds

\* The type of every variable.
TypeOK ==
  /\ source \in SourceHistories /\ target \in Tables
  /\ position \in Positions /\ current \in Positions /\ committed \in Positions
  /\ rewind \in Offsets
  /\ paused \subseteq Partitions /\ pausedByHold \subseteq Partitions
  /\ batch \in Seq(Records) /\ putBatch \in Seq(Records) /\ rows \in Seq(Records)
  /\ todo \in Seq(Seq(Records)) /\ putRefused \subseteq Records
  /\ hold \in [Partitions -> Holds \cup {NoHold}]
  /\ releasedCaps \in Offsets
  /\ refusedAhead \in [Partitions -> SUBSET Nat]
  /\ redelivering \in BOOLEAN
  /\ pc \in {"idle", "read", "apply", "resolve", "failed"}
  /\ untried \subseteq Partitions
  /\ fate \in [Records -> {"new", "written", "dead", "skipped"}]
  /\ reports \in [Records -> Nat]
  /\ transients \in 0..MaxTransient /\ restarts \in 0..MaxRestarts

\* "The committed offset stays at or below" a held change, and below a released partition's
\* diverted records until their rewind has run (preCommit): whatever happens next, the held
\* change and its tail are read again.
CommitBehindHold ==
  \A p \in Partitions :
    /\ hold[p] # NoHold => committed[p] <= hold[p].offset
    /\ releasedCaps[p] # 0 => committed[p] <= releasedCaps[p]

\* A commit never passes a change nobody has dealt with: everything below it was written,
\* dead-lettered, or replaced by a later change of its row.
CommittedIsSettled ==
  \A r \in Records : r.o < committed[r.p] =>
    \/ fate[r] # "new"
    \/ IsDelete(ChangeAt(r)) /\ ~DeleteEnabled

\* A later change of the row leaves nothing of this one: a delete, or an image of all the
\* columns this one writes.
Covers(later, r) ==
  /\ later.p = r.p /\ later.o > r.o /\ ChangeAt(later).key = ChangeAt(r).key
  /\ IsDelete(ChangeAt(later)) \/ ChangeAt(r).cols \subseteq ChangeAt(later).cols

\* Changes that may or may not show in their row: the dead-lettered ones (the queue has
\* them), and the skipped ones that a later change covers.
Optional ==
  {r \in Records : \/ fate[r] = "dead"
                   \/ fate[r] = "skipped" /\ \E l \in Records : Covers(l, r)}

\* The row of key k after the changes of its partition below offset n, without those of X,
\* whatever the unique index says.
Image(k, p, n, X) ==
  LET kept == [o \in 1..(n - 1) |-> IF [p |-> p, o |-> o] \in X THEN <<>>
                 ELSE LET ev == ChangeAt([p |-> p, o |-> o])
                      IN IF ev.op \in {"poison", "unfit", "reject"} THEN <<>>
                         ELSE IF IsMove(ev) THEN <<MoveDelete(ev), ev>>
                         ELSE IF IsDelete(ev) /\ ~DeleteEnabled THEN <<>> ELSE <<ev>>]
  IN FoldLeft(Put, source.base, FlattenSeq(kept))[k]

Column(row, col) == IF row = NoRow THEN Null ELSE row[col]

\* The partition whose records change key k, if any does.
Touches(k, r) == ChangeAt(r).key = k \/ (IsMove(ChangeAt(r)) /\ ChangeAt(r).old = k)

\* No change is lost and none comes back: every value of every row is the one its partition's
\* log gives it at some offset no earlier than the committed one, so replaying from the commit
\* always ends in the source's final row.  Once everything is committed the target IS the
\* source, up to what the dead-letter queue holds.
RowsCoverCommit ==
  \A k \in Keys : LET home == {r.p : r \in {x \in Records : Touches(k, x)}} IN
    \A p \in home, col \in Columns :
      \E n \in committed[p]..EndOf(p) :
        \E X \in SUBSET {r \in Optional : r.p = p /\ r.o < n /\ Touches(k, r)} :
          Column(target[k], col) = Column(Image(k, p, n, X), col)

\* Nothing after a waiting hold is written, skipped or quarantined on its partition.
TailWaits ==
  [][\A r \in Records : (Waits(r.p) /\ hold'[r.p] # NoHold /\ r.o > hold[r.p].offset)
                          => (fate'[r] = fate[r] /\ reports'[r] = reports[r])]_vars

\* The committed offset of a partition never goes back.
CommitAdvances == [][\A p \in Partitions : committed'[p] >= committed[p]]_vars

\* A change reaches the dead-letter queue once per time it is delivered again because a put
\* threw or a partition moved or the worker restarted: a hold and its release never repeat it.
ReportedOncePerDelivery ==
  \A r \in Records : reports[r] <= 1 + transients + restarts

\* A partition is paused only for a hold of this task, so a hold that is gone leaves none
\* paused for ever.
PausedIsHeld ==
  \A p \in paused : p \in pausedByHold /\ hold[p] # NoHold /\ ~hold[p].lookahead

\* Between two puts a redelivery and an unapplied release never meet: a release is only ever
\* issued by a put that returns normally.
NoCapAcrossRedelivery == redelivering /\ pc = "idle" => \A p \in Partitions : releasedCaps[p] = 0

\* Replication catches up: every hold ends (its change applies, is replaced, or is
\* dead-lettered) and every partition is committed to its end and stays there; or the task
\* has no dead-letter queue and stops for good on a change it cannot apply.
CaughtUp == \A p \in Partitions : committed[p] = EndOf(p) /\ hold[p] = NoHold
CatchesUp == <>[](CaughtUp \/ (~DlqWired /\ pc = "failed"))
-----------------------------------------------------------------------------
(* The inductive invariant behind CommitBehindHold and CommitAdvances: how *)
(* the offsets of one partition, its hold and its delivered records keep   *)
(* together.                                                               *)

\* The types the argument needs.
OffsetTypes ==
  /\ source \in SourceHistories
  /\ position \in Positions /\ current \in Positions /\ committed \in Positions
  /\ rewind \in Offsets /\ releasedCaps \in Offsets
  /\ hold \in [Partitions -> Holds \cup {NoHold}]
  /\ ToSet(batch) \subseteq Records
  /\ untried \subseteq Partitions

\* A put is marked as a redelivery until it returns, which is also when caps are set; the
\* poll before it applied every rewind; only holds are tried.
PutPhases ==
  /\ pc \in {"apply", "resolve"} => redelivering
  /\ redelivering => \A p \in Partitions : releasedCaps[p] = 0
  /\ pc = "read" => \A p \in Partitions : rewind[p] = 0
  /\ untried # {} => pc \in {"resolve", "failed"}
  /\ \A p \in untried : hold[p] # NoHold

\* Without a hold the delivered records lie between what may be committed and the position.
FreePartition(p) ==
  /\ Rewound(current)[p] <= Rewound(position)[p]
  /\ \A r \in Delivered(p) : rewind[p] = 0 /\ current[p] <= r.o /\ r.o < position[p]
  /\ rewind[p] # 0 => rewind[p] = releasedCaps[p]

\* With a hold everything is read again from the held change on.
HeldPartition(p) ==
  /\ committed[p] <= hold[p].offset
  /\ hold[p].offset <= Rewound(position)[p]
  /\ rewind[p] # 0 => rewind[p] = hold[p].offset
  /\ Delivered(p) # {} => \E r \in Delivered(p) : hold[p].offset <= r.o

PartitionOffsets(p) ==
  /\ committed[p] <= current[p]
  /\ releasedCaps[p] # 0 => committed[p] <= releasedCaps[p]
  /\ IF hold[p] = NoHold THEN FreePartition(p) ELSE HeldPartition(p)

\* The invariant itself, of every partition (holds, rewinds, commits and redelivery).
OffsetsInv == OffsetTypes /\ PutPhases /\ \A p \in Partitions : PartitionOffsets(p)

-----------------------------------------------------------------------------
(* The inductive invariant behind CommittedIsSettled: what this put has    *)
(* still to apply, in which order, and up to where a partition is settled. *)

\* A record somebody dealt with.
Settled(r) == fate[r] # "new" \/ (IsDelete(ChangeAt(r)) /\ ~DeleteEnabled)
SettledBelow(p, n) == \A r \in Records : r.p = p /\ r.o < n => Settled(r)

Ascending(s) == \A i, j \in DOMAIN s : i < j /\ s[i].p = s[j].p => s[i].o < s[j].o
Ahead(s, t) == \A x \in ToSet(s), y \in ToSet(t) : x.p = y.p => x.o < y.o

\* The records this put has still to apply.
Left == ToSet(rows) \cup UNION {ToSet(todo[i]) : i \in DOMAIN todo}

\* They come in the order of the log: the rows of the rejected chunk, then chunk after chunk.
PutOrder ==
  /\ Ascending(rows)
  /\ \A i \in DOMAIN todo : Ascending(todo[i]) /\ Ahead(rows, todo[i])
  /\ \A i, j \in DOMAIN todo : i < j => Ahead(todo[i], todo[j])

\* A delivered record is dealt with, behind a hold, or still to be applied.
PutCovers ==
  /\ pc \in {"idle", "read", "resolve"} => rows = <<>> /\ todo = <<>> /\ putRefused = {}
  /\ Left \subseteq ToSet(batch) /\ putRefused \subseteq ToSet(batch)
  /\ \A r \in putRefused : fate[r] # "new"
  /\ pc \in {"apply", "resolve"} =>
       \A r \in ToSet(batch) : Settled(r) \/ HeldTail(r) \/ r \in Left

\* Below a hold everything is settled; without one, everything below what the worker would
\* commit, and the batch holds all from there to the position.
PartitionSettled(p) ==
  /\ \A r \in Records : r.p = p /\ r.o \in refusedAhead[p] => fate[r] # "new"
  /\ IF hold[p] = NoHold
     THEN /\ SettledBelow(p, Rewound(current)[p])
          /\ \A o \in Rewound(current)[p]..(Rewound(position)[p] - 1) : [p |-> p, o |-> o] \in ToSet(batch)
     ELSE SettledBelow(p, IF Ended(p) THEN hold[p].offset + 1 ELSE hold[p].offset)

SettledInv == Ascending(batch) /\ PutOrder /\ PutCovers /\ \A p \in Partitions : PartitionSettled(p)

-----------------------------------------------------------------------------
(* The inductive invariant behind ReportedOncePerDelivery.                 *)

\* Another report of this record would be one too many.
Spent(r) == reports[r] > transients + restarts

\* Nothing but a failure delivers the record again, or a redelivery skips it.
Passed(r) ==
  \/ r.o \in refusedAhead[r.p]
  \/ hold[r.p] = NoHold /\ r.o < Rewound(current)[r.p]
  \/ hold[r.p] = NoHold /\ r \in ToSet(batch) /\ pc \in {"apply", "resolve", "failed"}
  \/ hold[r.p] # NoHold /\ r.o < hold[r.p].offset
  \/ Ended(r.p) /\ r.o = hold[r.p].offset

ReportsInv ==
  /\ \A r \in Records : reports[r] <= 1 + transients + restarts
  /\ \A r \in Records : Spent(r) => Passed(r)
  /\ pc = "idle" /\ batch # <<>> => \A r \in Records : ~Spent(r)
  /\ pc = "read" => \A r \in ToSet(batch) : Spent(r) => HeldTail(r) \/ r.o \in refusedAhead[r.p]
  /\ pc = "apply" => \A r \in Left : HeldTail(r) \/ (~Spent(r) /\ r.o \notin refusedAhead[r.p])
  /\ pc = "apply" => \A r \in ToSet(batch) \ putRefused :
       (Spent(r) /\ hold[r.p] = NoHold /\ r.o \notin refusedAhead[r.p]) =>
         \A y \in Left : y.p = r.p => r.o < y.o
  /\ pc = "resolve" => \A p \in untried : Waits(p)
  /\ \A p \in Partitions : Waits(p) => hold[p].offset \notin refusedAhead[p]
=============================================================================
