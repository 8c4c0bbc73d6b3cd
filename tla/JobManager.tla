----------------------------- MODULE JobManager -----------------------------
(***************************************************************************)
(* Background jobs of the application: the job manager (every change of a  *)
(* job under one lock, the stall watchdog, cooperative stop, recovery at   *)
(* start-up), the S3 job store under it (coalesced, best-effort writes)    *)
(* and the Full Load work that runs as a job: one chunk per table, loaded  *)
(* by worker processes.  A job loads a selection of tables afresh or       *)
(* retries what an earlier job left unfinished.                            *)
(***************************************************************************)
EXTENDS Integers, Sequences, FiniteSets

CONSTANTS
  Jobs, Tables,
  Durable,        \* the jobs submitted with durable=True
  KeyRank,        \* the order in which S3 lists the jobs' objects
  Keep,           \* how many DONE jobs start-up keeps (_KEEP_DONE_JOBS)
  MaxBeats,       \* bound: heartbeats of one job
  MaxMisses,      \* bound: calls to S3 that fail or are not answered
  MaxRestarts,    \* bound: restarts of the application
  MaxNow          \* bound: seconds of S3's LastModified

ASSUME FiniteAssumption == IsFiniteSet(Jobs) /\ IsFiniteSet(Tables)
ASSUME DurableAssumption == Durable \subseteq Jobs

VARIABLES
  record,      \* JobManager._records: the live job of each id
  quiet,       \* jobs without a status change or an update for the whole stall window
  cancel,      \* jobs whose cancel_event is set
  worker,      \* where the thread of each job is
  own,         \* the work's own account of its tables (what it seeds, submits, awaits)
  beats,       \* heartbeats left to each job
  loaded,      \* tables whose rows are all on the target
  stored,      \* the snapshot of each job in S3
  sig,         \* S3JobStore._last_sig
  stamp, now,  \* LastModified of each snapshot, and the current second
  finished,    \* history: the DONE jobs, in the order they became so
  misses, restarts

work == <<worker, own, beats, loaded>>
store == <<stored, sig, stamp, now, misses>>
vars == <<record, quiet, cancel, worker, own, beats, loaded,
          stored, sig, stamp, now, finished, misses, restarts>>

Active == {"PENDING", "RUNNING"}
Final == {"DONE", "FAILED", "CANCELLED"}
ChunkStates == {"NONE", "PENDING", "IN_PROGRESS", "DONE", "FAILED"}
Reasons == {"none", "interrupted", "stalled", "stopped", "raised"}
\* A job the manager does not know, or S3 has no object of, has status "NONE".
JobStates == [status: {"NONE"} \cup Active \cup Final, chunk: [Tables -> ChunkStates],
              error: Reasons]
Signatures == [status: {"NONE"} \cup Active \cup Final, chunk: [Tables -> ChunkStates]]
Places == {"none", "starting", "seeding", "loading", "verdict", "returned", "raised",
           "stopped", "completed", "gone"}

NoChunks == [t \in Tables |-> "NONE"]
NoJob == [status |-> "NONE", chunk |-> NoChunks, error |-> "none"]
NoSig == [status |-> "NONE", chunk |-> NoChunks]

Init ==
  /\ record = [j \in Jobs |-> NoJob]
  /\ quiet = {} /\ cancel = {} /\ loaded = {}
  /\ worker = [j \in Jobs |-> "none"]
  /\ own = [j \in Jobs |-> NoChunks]
  /\ beats = [j \in Jobs |-> MaxBeats]
  /\ stored = [j \in Jobs |-> NoJob]
  /\ sig = [j \in Jobs |-> NoSig]
  /\ stamp = [j \in Jobs |-> 0] /\ now = 0
  /\ finished = <<>> /\ misses = 0 /\ restarts = 0

-----------------------------------------------------------------------------
(* The store.                                                              *)

\* Mutant of Sig: chunks do not count.
SigOfStatus(r) == [status |-> r.status, chunk |-> NoChunks]

\* _status_signature: what must reach S3 at once.
Sig(r) == [status |-> r.status, chunk |-> r.chunk]

Stamped(landed) ==
  /\ IF landed = {} THEN now' = now ELSE now' \in {now, now + 1} \cap 0..MaxNow
  /\ stamp' = [j \in Jobs |-> IF j \in landed THEN now' ELSE stamp[j]]

\* S3JobStore.save of the jobs js, whose records are now r: a job whose signature S3 has is
\* written only when the throttle window is over; a write may fail, or land unanswered.
Persist(js, r) ==
  \E tried \in SUBSET (js \cap Durable) : \E landed \in SUBSET tried :
    \E answered \in SUBSET landed :
      /\ \A j \in (js \cap Durable) \ tried : sig[j] = Sig(r[j])
      /\ misses' = misses + Cardinality(tried \ answered) /\ misses' <= MaxMisses
      /\ stored' = [j \in Jobs |-> IF j \in landed THEN r[j] ELSE stored[j]]
      /\ sig' = [j \in Jobs |-> IF j \in answered THEN Sig(r[j]) ELSE sig[j]]
      /\ Stamped(landed)

-----------------------------------------------------------------------------
(* The manager's operations, each under its lock.                          *)

\* A change of the record of job j, persisted.
Change(j, r) ==
  /\ record' = [record EXCEPT ![j] = r]
  /\ Persist({j}, record')

\* apply_update: any update counts as progress.
Update(j, chunk) ==
  /\ Change(j, [record[j] EXCEPT !.chunk = chunk])
  /\ quiet' = quiet \ {j}

\* submit: a new id, recorded PENDING without chunks; the thread starts.
Submit(j, chunks) ==
  /\ worker[j] = "none"
  /\ Change(j, [NoJob EXCEPT !.status = "PENDING"])
  /\ worker' = [worker EXCEPT ![j] = "starting"]
  /\ own' = [own EXCEPT ![j] = chunks]
  /\ UNCHANGED <<quiet, cancel, beats, loaded, finished, restarts>>

\* run_full_load over a selection of tables.
FreshLoad(j) ==
  \E ts \in SUBSET Tables \ {{}} :
    Submit(j, [t \in Tables |-> IF t \in ts THEN "PENDING" ELSE "NONE"])

\* unsettled_table_names: what a retry of an ended job loads.
Unsettled(r) == {t \in Tables : r.chunk[t] \notin {"NONE", "DONE"}}

\* "Retry unfinished tables": the chunks of the earlier job are carried, those not DONE are
\* reset (_seed_retry_chunks).
RetryLoad(j) ==
  \E p \in Jobs :
    /\ record[p].status \in {"FAILED", "CANCELLED"}
    /\ Unsettled(record[p]) # {}
    /\ Submit(j, [t \in Tables |-> IF t \in Unsettled(record[p]) THEN "PENDING"
                                   ELSE record[p].chunk[t]])

\* request_cancel answers True.
RequestCancel(j) ==
  /\ record[j].status \in Active
  /\ cancel' = cancel \cup {j}
  /\ UNCHANGED <<record, quiet, work, store, finished, restarts>>

\* The stall window of job j passes without an update.
FallSilent(j) ==
  /\ record[j].status = "RUNNING"
  /\ quiet' = quiet \cup {j}
  /\ UNCHANGED <<record, cancel, work, store, finished, restarts>>

FailedChunks(chunk) ==
  [t \in Tables |-> IF chunk[t] = "IN_PROGRESS" THEN "FAILED" ELSE chunk[t]]
Because(r, why) == IF r.error = "none" THEN why ELSE r.error

\* Mutant of Reaped: only a job with a table under way is reaped.
ReapedLoading(r) ==
  r.status = "RUNNING" /\ \E t \in Tables : r.chunk[t] = "IN_PROGRESS"
Reaped(r) == r.status = "RUNNING"

\* reap_stalled_jobs: every silent job is FAILED; its thread is left alone.
Reap ==
  LET stalled == {j \in quiet : Reaped(record[j])}
  IN /\ stalled # {}
     /\ record' = [j \in Jobs |->
          IF j \in stalled
          THEN [status |-> "FAILED", chunk |-> FailedChunks(record[j].chunk),
                error |-> Because(record[j], "stalled")]
          ELSE record[j]]
     /\ Persist(stalled, record')
     /\ quiet' = quiet \ stalled
     /\ UNCHANGED <<cancel, work, finished, restarts>>

-----------------------------------------------------------------------------
(* The thread of a job: _run around the Full Load work.                    *)

Goes(j, place) == worker' = [worker EXCEPT ![j] = place]

\* _set_status(RUNNING), whatever the status was.
Run(j) ==
  /\ worker[j] = "starting" /\ Goes(j, "seeding")
  /\ Change(j, [record[j] EXCEPT !.status = "RUNNING"])
  /\ quiet' = quiet \ {j}
  /\ UNCHANGED <<cancel, own, beats, loaded, finished, restarts>>

\* _seed_chunks / _seed_retry_chunks.
Seed(j) ==
  /\ worker[j] = "seeding" /\ Goes(j, "loading")
  /\ Update(j, own[j])
  /\ UNCHANGED <<cancel, own, beats, loaded, finished, restarts>>

Own(j, t, state) == own' = [own EXCEPT ![j][t] = state]
Chunk(j, t, state) == Update(j, [record[j].chunk EXCEPT ![t] = state])

\* A worker process begins a table: _start_chunk_if_pending.
StartTable(j, t) ==
  /\ worker[j] = "loading" /\ own[j][t] = "PENDING"
  /\ Own(j, t, "IN_PROGRESS")
  /\ Chunk(j, t, IF record[j].chunk[t] = "PENDING" THEN "IN_PROGRESS" ELSE record[j].chunk[t])
  /\ UNCHANGED <<worker, cancel, beats, loaded, finished, restarts>>

\* The table is loaded: _complete_chunk.
CompleteTable(j, t) ==
  /\ worker[j] = "loading" /\ own[j][t] = "IN_PROGRESS"
  /\ loaded' = loaded \cup {t}
  /\ Own(j, t, "DONE") /\ Chunk(j, t, "DONE")
  /\ UNCHANGED <<worker, cancel, beats, finished, restarts>>

\* The table failed, or stopped on a cancel: _fail_chunk.
FailTable(j, t) ==
  /\ worker[j] = "loading" /\ own[j][t] \in {"PENDING", "IN_PROGRESS"}
  /\ Own(j, t, "FAILED") /\ Chunk(j, t, "FAILED")
  /\ UNCHANGED <<worker, cancel, beats, loaded, finished, restarts>>

\* heartbeat, or an update that changes no status.
Beat(j) ==
  /\ worker[j] \in {"seeding", "loading", "verdict"}
  /\ beats[j] > 0 /\ beats' = [beats EXCEPT ![j] = @ - 1]
  /\ Update(j, record[j].chunk)
  /\ UNCHANGED <<worker, cancel, own, loaded, finished, restarts>>

\* The work raises: no start point, or a pass before or after the tables failed.
Abort(j) ==
  /\ worker[j] \in {"seeding", "loading", "verdict"} /\ Goes(j, "raised")
  /\ UNCHANGED <<record, quiet, cancel, own, beats, loaded, store, finished, restarts>>

UnfinishedFailed(chunk) ==
  [t \in Tables |-> IF chunk[t] \in {"NONE", "DONE"} THEN chunk[t] ELSE "FAILED"]

\* Every worker process has returned, or a stop ended the wait: the chunks a stop left
\* unfinished are FAILED (_fail_unfinished_chunks).
Gather(j) ==
  /\ worker[j] = "loading" /\ Goes(j, "verdict")
  /\ j \in cancel \/ \A t \in Tables : own[j][t] \notin {"PENDING", "IN_PROGRESS"}
  /\ IF j \in cancel THEN Update(j, UnfinishedFailed(record[j].chunk))
     ELSE UNCHANGED <<record, quiet, store>>
  /\ UNCHANGED <<cancel, own, beats, loaded, finished, restarts>>

\* Mutant of Incomplete: a failed table does not make the run incomplete.
IncompleteNever(j) == FALSE
Incomplete(j) == \E t \in Tables : own[j][t] = "FAILED"

\* _finalize_run: an incomplete run raises, unless it was stopped.
Verdict(j) ==
  /\ worker[j] = "verdict"
  /\ Goes(j, IF Incomplete(j) /\ j \notin cancel THEN "raised" ELSE "returned")
  /\ UNCHANGED <<record, quiet, cancel, own, beats, loaded, store, finished, restarts>>

\* _run reads the cancel flag in one step and records the outcome in another.
ReadCancel(j) ==
  /\ worker[j] = "returned" /\ Goes(j, IF j \in cancel THEN "stopped" ELSE "completed")
  /\ UNCHANGED <<record, quiet, cancel, own, beats, loaded, store, finished, restarts>>

Ends(j) ==
  /\ Goes(j, "gone")
  /\ UNCHANGED <<quiet, cancel, own, beats, loaded, restarts>>

MarkFailed(j) ==
  /\ worker[j] = "raised" /\ Ends(j)
  /\ Change(j, [record[j] EXCEPT !.status = "FAILED", !.error = "raised"])
  /\ UNCHANGED finished

\* Mutant of KeepsFailure: a reaped job whose work returns is DONE.
KeepsNoFailure(r) == FALSE
KeepsFailure(r) == r.status = "FAILED"

MarkCancelled(j) ==
  /\ worker[j] = "stopped" /\ Ends(j)
  /\ IF KeepsFailure(record[j]) THEN UNCHANGED <<record, store>>
     ELSE Change(j, [record[j] EXCEPT !.status = "CANCELLED",
                                      !.error = Because(record[j], "stopped")])
  /\ UNCHANGED finished

MarkDone(j) ==
  /\ worker[j] = "completed" /\ Ends(j)
  /\ IF KeepsFailure(record[j]) THEN UNCHANGED <<record, store, finished>>
     ELSE /\ Change(j, [record[j] EXCEPT !.status = "DONE"])
          /\ finished' = Append(finished, j)

-----------------------------------------------------------------------------
(* Start-up of the application: attach_store, restore, prune_terminal.     *)

\* Mutant of Interrupted: a job that had not started is left PENDING.
InterruptedRunning(r) == r.status = "RUNNING"
Interrupted(r) == r.status \in Active

\* Mutant of Reconciled: no reason is recorded.
ReconciledSilently(r) ==
  IF Interrupted(r) THEN [r EXCEPT !.status = "FAILED", !.chunk = FailedChunks(@)] ELSE r

\* restore: a job whose worker died with the process is FAILED.
Reconciled(r) ==
  IF Interrupted(r)
  THEN [status |-> "FAILED", chunk |-> FailedChunks(r.chunk),
        error |-> Because(r, "interrupted")]
  ELSE r

\* load_all's order, and the reverse prune_terminal sorts by: jobs of one second keep the
\* order of their keys in both.
OlderIn(at, j, k) == at[j] < at[k] \/ (at[j] = at[k] /\ KeyRank[j] < KeyRank[k])
NewerIn(at, j, k) == at[j] > at[k] \/ (at[j] = at[k] /\ KeyRank[j] < KeyRank[k])

Excess(snapshots, at) ==
  LET done == {j \in Jobs : snapshots[j].status = "DONE"}
  IN {k \in done : Cardinality({j \in done : NewerIn(at, j, k)}) >= Keep}

\* restore writes every snapshot it read back, in the order it read them.
RestoreStamps(landed) ==
  {at \in [Jobs -> 0..MaxNow] :
     /\ \A j \in Jobs \ landed : at[j] = stamp[j]
     /\ \A j \in landed : at[j] >= now
     /\ \A j, k \in landed : OlderIn(stamp, j, k) => at[j] <= at[k]}

Listed == {j \in Jobs : stored[j].status # "NONE"}
Back(known) == [j \in Jobs |-> IF j \in known THEN Reconciled(stored[j]) ELSE NoJob]
Kept(known, landed) == [j \in Jobs |-> IF j \in landed THEN Back(known)[j] ELSE stored[j]]

\* S3 may not give back a snapshot or not take the reconciled one.  Pruning may miss snapshots
\* it could not look at, or stop half way: then it removes no record.
Recover(known, landed, answered, at, gone, lost) ==
  LET pruned == gone = Excess(Kept(known, landed), at)
  IN /\ misses' = misses + Cardinality(Listed \ answered) + (IF pruned THEN 0 ELSE 1)
     /\ misses' <= MaxMisses
     /\ pruned => lost = gone
     /\ stored' = [j \in Jobs |-> IF j \in gone THEN NoJob ELSE Kept(known, landed)[j]]
     /\ sig' = [j \in Jobs |-> IF j \in answered \ gone THEN Sig(Back(known)[j]) ELSE NoSig]
     /\ record' = [j \in Jobs |-> IF j \in lost THEN NoJob ELSE Back(known)[j]]
     /\ stamp' = at
     /\ now' \in {n \in now..MaxNow : \A j \in landed : at[j] <= n}

\* The process dies with its threads and comes up again.
Restart ==
  /\ restarts < MaxRestarts /\ restarts' = restarts + 1
  /\ \E known \in SUBSET Listed : \E landed \in SUBSET known : \E answered \in SUBSET landed :
       \E at \in RestoreStamps(landed) : \E gone \in SUBSET Excess(Kept(known, landed), at) :
         \E lost \in {gone, {}} : Recover(known, landed, answered, at, gone, lost)
  /\ worker' = [j \in Jobs |-> IF worker[j] = "none" THEN "none" ELSE "gone"]
  /\ quiet' = {} /\ cancel' = {}
  /\ UNCHANGED <<own, beats, loaded, finished>>

-----------------------------------------------------------------------------
TableStep(j) ==
  \E t \in Tables : StartTable(j, t) \/ CompleteTable(j, t) \/ FailTable(j, t)
JobStep(j) ==
  \/ FreshLoad(j) \/ RetryLoad(j) \/ RequestCancel(j) \/ FallSilent(j)
  \/ Run(j) \/ Seed(j) \/ TableStep(j) \/ Beat(j) \/ Abort(j) \/ Gather(j)
  \/ Verdict(j) \/ ReadCancel(j) \/ MarkFailed(j) \/ MarkCancelled(j) \/ MarkDone(j)
Next == Reap \/ Restart \/ \E j \in Jobs : JobStep(j)

Spec == Init /\ [][Next]_vars

\* A started thread runs, time passes, and the watchdog polls; no step of the work itself is
\* fair: a thread may be wedged in any call.
Fairness ==
  /\ \A j \in Jobs : WF_vars(Run(j)) /\ WF_vars(FallSilent(j))
  /\ WF_vars(Reap)
FairSpec == Spec /\ Fairness

-----------------------------------------------------------------------------
TypeOK ==
  /\ record \in [Jobs -> JobStates] /\ stored \in [Jobs -> JobStates]
  /\ sig \in [Jobs -> Signatures]
  /\ quiet \subseteq Jobs /\ cancel \subseteq Jobs /\ loaded \subseteq Tables
  /\ worker \in [Jobs -> Places] /\ own \in [Jobs -> [Tables -> ChunkStates]]

Working == {"seeding", "loading", "verdict", "returned", "raised", "stopped", "completed"}

\* Where the thread of a job is, by the status the job shows.
InPlace(j) ==
  /\ worker[j] = "starting" <=> record[j].status = "PENDING"
  /\ worker[j] \in Working => record[j].status \in {"RUNNING", "FAILED"}
  /\ worker[j] = "none" => record[j].status = "NONE" /\ stored[j].status = "NONE"
  /\ record[j].status = "RUNNING" => worker[j] \in Working

\* While nothing else has ended the job, its chunks are the work's own account.
ShowsOwn(j) ==
  record[j].status = "RUNNING" =>
    /\ worker[j] = "loading" => record[j].chunk = own[j]
    /\ worker[j] = "verdict" /\ j \notin cancel =>
         /\ record[j].chunk = own[j]
         /\ \A t \in Tables : own[j][t] \notin {"PENDING", "IN_PROGRESS"}
    /\ worker[j] = "completed" \/ (worker[j] = "returned" /\ j \notin cancel) =>
         \A t \in Tables : record[j].chunk[t] \in {"NONE", "DONE"}

\* A job shown as pending or running has a thread that can still end it, also after a restart
\* (restore): no job is left "in progress" by nobody.
NoOrphan == \A j \in Jobs : record[j].status \in Active => worker[j] \notin {"none", "gone"}

Sound(r) ==
  /\ \A t \in Tables : r.chunk[t] = "DONE" => t \in loaded
  /\ r.status = "DONE" => \A t \in Tables : r.chunk[t] \in {"NONE", "DONE"}

\* An incomplete load never looks successful: a DONE job, live or stored, a retry or not, has
\* nothing but loaded tables, and no chunk is DONE whose table is not on the target, so a
\* retry after a stall, a stop or a restart skips nothing.
DoneMeansLoaded == \A j \in Jobs : Sound(record[j]) /\ Sound(stored[j])

\* Every step preserves this: where the threads are, what the chunks stand for, and with them
\* NoOrphan and DoneMeansLoaded.
JobInv ==
  /\ TypeOK
  /\ \A j \in Jobs : InPlace(j) /\ ShowsOwn(j)
  /\ \A j \in Jobs, t \in Tables : own[j][t] = "DONE" => t \in loaded
  /\ DoneMeansLoaded

\* An ended job says why, also in S3, where the reason is no part of the signature that
\* decides whether a snapshot is written.
EndedSaysWhy ==
  \A j \in Jobs : \A r \in {record[j], stored[j]} :
    r.status \in {"FAILED", "CANCELLED"} => r.error # "none"

\* An outcome once recorded stays: a thread given up by the watchdog that comes back, or a
\* stop after the end, changes it no more.  (A restart may lose what S3 did not take.)
OutcomeStays ==
  [][restarts' = restarts =>
       \A j \in Jobs : record[j].status \in Final => record'[j].status = record[j].status]_vars

\* As long as S3 took every write, a restart loses no outcome, no reason and no loaded table of
\* a durable job: coalescing (S3JobStore.save) drops nothing that a retry needs.
RestartKeepsWork ==
  [][restarts' # restarts /\ misses' = 0 =>
       \A j \in Durable :
         LET r == record[j] IN
           \/ record'[j] = NoJob /\ r.status \in {"NONE", "DONE"}
           \/ /\ r.status \in Final => record'[j].status = r.status
              /\ \A t \in Tables : r.chunk[t] = "DONE" <=> record'[j].chunk[t] = "DONE"]_vars

\* prune_terminal: "Delete all but the keep_most_recent newest DONE jobs".
PruneKeepsNewest ==
  [][\A m, n \in DOMAIN finished :
       LET older == finished[m]  newer == finished[n]
           held(s, j) == s[j].status = "DONE"
       IN m < n /\ held(stored, older) /\ held(stored, newer) /\ held(stored', older)
            => held(stored', newer)]_vars

\* Every job ends, whatever its thread does: a wedged one is found by the watchdog.
EveryJobEnds ==
  \A j \in Jobs : record[j].status \in Active ~> record[j].status \notin Active
=============================================================================
