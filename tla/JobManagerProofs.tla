-------------------------- MODULE JobManagerProofs --------------------------
(***************************************************************************)
(* Proofs about JobManager, for any jobs, tables, failures of S3, stops,   *)
(* stalls and restarts: every step preserves JobInv, from which follow     *)
(* that no job is orphaned, that DONE means loaded, and that an outcome    *)
(* once recorded stays.                                                    *)
(***************************************************************************)
EXTENDS JobManager, FiniteSetTheorems, TLAPS

-----------------------------------------------------------------------------
(* Lemmas about the operators. *)

\* A write to the store leaves each snapshot as it was or makes it the job's new record.
LEMMA PersistFacts ==
  ASSUME TypeOK, NEW js, NEW r \in [Jobs -> JobStates], Persist(js, r)
  PROVE  /\ stored' \in [Jobs -> JobStates] /\ sig' \in [Jobs -> Signatures]
         /\ \A j \in Jobs : stored'[j] = stored[j] \/ stored'[j] = r[j]
<1>1. PICK landed, answered : 
        /\ stored' = [j \in Jobs |-> IF j \in landed THEN r[j] ELSE stored[j]]
        /\ sig' = [j \in Jobs |-> IF j \in answered THEN Sig(r[j]) ELSE sig[j]]
  BY DEF Persist
<1>2. \A j \in Jobs : Sig(r[j]) \in Signatures
  BY DEF Sig, Signatures, JobStates
<1> QED BY <1>1, <1>2 DEF TypeOK

\* The operators on chunks stay in their type and make no chunk DONE.
LEMMA ChunkFacts ==
  ASSUME NEW c \in [Tables -> ChunkStates]
  PROVE  /\ FailedChunks(c) \in [Tables -> ChunkStates]
         /\ UnfinishedFailed(c) \in [Tables -> ChunkStates]
         /\ \A t \in Tables : FailedChunks(c)[t] = "DONE" <=> c[t] = "DONE"
         /\ \A t \in Tables : UnfinishedFailed(c)[t] = "DONE" <=> c[t] = "DONE"
BY DEF FailedChunks, UnfinishedFailed, ChunkStates

\* A job ended for a reason of the manager's is a job state.
LEMMA BecauseType ==
  ASSUME NEW r \in JobStates, NEW why \in Reasons
  PROVE  Because(r, why) \in Reasons
BY DEF Because, JobStates

\* Reconciling a snapshot ends the job, keeps its outcome and its DONE chunks.
LEMMA ReconciledFacts ==
  ASSUME NEW r \in JobStates
  PROVE  /\ Reconciled(r) \in JobStates
         /\ Reconciled(r).status \notin Active
         /\ r.status = "NONE" => Reconciled(r).status = "NONE"
         /\ Sound(r) => Sound(Reconciled(r))
<1>1. CASE Interrupted(r)
  <2>1. /\ r.chunk \in [Tables -> ChunkStates]
        /\ Because(r, "interrupted") \in Reasons
    BY BecauseType DEF JobStates, Reasons
  <2>2. /\ Reconciled(r).status = "FAILED"
        /\ Reconciled(r).chunk = FailedChunks(r.chunk)
        /\ Reconciled(r) \in JobStates
    BY <1>1, <2>1, ChunkFacts DEF Reconciled, JobStates, Final
  <2> QED BY <1>1, <2>1, <2>2, ChunkFacts DEF Sound, Interrupted, Active
<1>2. CASE ~Interrupted(r)
  BY <1>2 DEF Reconciled, Interrupted, JobStates
<1> QED BY <1>1, <1>2

\* A changed record of one job, persisted.
LEMMA ChangeFacts ==
  ASSUME TypeOK, NEW j \in Jobs, NEW r \in JobStates, Change(j, r)
  PROVE  /\ record' \in [Jobs -> JobStates] /\ stored' \in [Jobs -> JobStates]
         /\ sig' \in [Jobs -> Signatures]
         /\ record'[j] = r
         /\ \A k \in Jobs \ {j} : record'[k] = record[k]
         /\ \A k \in Jobs : stored'[k] = stored[k] \/ stored'[k] = record'[k]
<1>1. record' = [record EXCEPT ![j] = r]
  BY DEF Change
<1>2. record' \in [Jobs -> JobStates]
  BY <1>1 DEF TypeOK
<1>3. Persist({j}, record')
  BY DEF Change
<1> QED BY <1>1, <1>2, <1>3, PersistFacts DEF TypeOK

-----------------------------------------------------------------------------
\* Any step that leaves the threads, the work and the flags of the other jobs alone, and job j
\* in place, preserves the invariant.
LEMMA StepOfOneJob ==
  ASSUME JobInv, NEW j \in Jobs,
         record' \in [Jobs -> JobStates], stored' \in [Jobs -> JobStates],
         sig' \in [Jobs -> Signatures],
         worker' \in [Jobs -> Places], own' \in [Jobs -> [Tables -> ChunkStates]],
         quiet' \subseteq Jobs, cancel' \subseteq Jobs,
         loaded \subseteq loaded', loaded' \subseteq Tables,
         \A k \in Jobs \ {j} : /\ record'[k] = record[k] /\ worker'[k] = worker[k]
                               /\ own'[k] = own[k]
                               /\ k \in cancel <=> k \in cancel',
         \A k \in Jobs : stored'[k] = stored[k] \/ stored'[k] = record'[k],
         InPlace(j)', ShowsOwn(j)', Sound(record[j])',
         \A t \in Tables : own'[j][t] = "DONE" => t \in loaded'
  PROVE  JobInv'
<1>1. TypeOK'
  BY DEF JobInv, TypeOK
<1>2. \A k \in Jobs : InPlace(k)' /\ ShowsOwn(k)'
  <2> SUFFICES ASSUME NEW k \in Jobs, k # j PROVE InPlace(k)' /\ ShowsOwn(k)'
    OBVIOUS
  <2>1. InPlace(k) /\ ShowsOwn(k)
    BY DEF JobInv
  <2>2. InPlace(k)'
    BY <2>1 DEF InPlace
  <2>3. ShowsOwn(k)'
    BY <2>1 DEF ShowsOwn
  <2> QED BY <2>2, <2>3
<1>3. \A k \in Jobs, t \in Tables : own'[k][t] = "DONE" => t \in loaded'
  BY DEF JobInv
<1>4. \A k \in Jobs : Sound(record[k])'
  <2> SUFFICES ASSUME NEW k \in Jobs, k # j PROVE Sound(record[k])'
    OBVIOUS
  <2>1. Sound(record[k])
    BY DEF JobInv, DoneMeansLoaded
  <2> QED BY <2>1 DEF Sound
<1>5. \A k \in Jobs : Sound(stored[k])'
  <2> SUFFICES ASSUME NEW k \in Jobs PROVE Sound(stored[k])'
    OBVIOUS
  <2>1. Sound(stored[k]) /\ Sound(record[k])'
    BY <1>4 DEF JobInv, DoneMeansLoaded
  <2>2. CASE stored'[k] = stored[k]
    BY <2>1, <2>2 DEF Sound
  <2>3. CASE stored'[k] = record'[k]
    BY <2>1, <2>3 DEF Sound
  <2> QED BY <2>2, <2>3
<1> QED BY <1>1, <1>2, <1>3, <1>4, <1>5 DEF JobInv, DoneMeansLoaded

-----------------------------------------------------------------------------
(* Every action preserves the invariant. *)

\* The parts of the invariant about one job, as the action lemmas use them.
LEMMA OneJob ==
  ASSUME JobInv, NEW j \in Jobs
  PROVE  /\ record[j] \in JobStates /\ record[j].chunk \in [Tables -> ChunkStates]
         /\ own[j] \in [Tables -> ChunkStates] /\ worker[j] \in Places
         /\ InPlace(j) /\ ShowsOwn(j) /\ Sound(record[j])
         /\ \A t \in Tables : own[j][t] = "DONE" => t \in loaded
BY DEF JobInv, TypeOK, JobStates, DoneMeansLoaded

\* A submitted job is PENDING with no chunk; what its work will seed is loaded where it is DONE.
LEMMA SubmitKeepsInv ==
  ASSUME JobInv, NEW j \in Jobs, NEW c \in [Tables -> ChunkStates],
         \A t \in Tables : c[t] = "DONE" => t \in loaded,
         Submit(j, c)
  PROVE  JobInv'
<1> DEFINE r == [NoJob EXCEPT !.status = "PENDING"]
<1>1. r \in JobStates /\ r.status = "PENDING" /\ r.chunk = NoChunks
  BY DEF NoJob, NoChunks, JobStates, ChunkStates, Reasons, Active
<1>2. Change(j, r) /\ TypeOK
  BY DEF Submit, JobInv
<1>3. /\ record'[j] = r
      /\ record' \in [Jobs -> JobStates] /\ stored' \in [Jobs -> JobStates]
      /\ sig' \in [Jobs -> Signatures]
      /\ \A k \in Jobs \ {j} : record'[k] = record[k]
      /\ \A k \in Jobs : stored'[k] = stored[k] \/ stored'[k] = record'[k]
  <2> HIDE DEF r
  <2> QED BY <1>1, <1>2, ChangeFacts
<1>4. /\ worker' = [worker EXCEPT ![j] = "starting"]
      /\ own' = [own EXCEPT ![j] = c]
      /\ UNCHANGED <<quiet, cancel, loaded>>
  BY DEF Submit
<1>5. /\ worker' \in [Jobs -> Places] /\ own' \in [Jobs -> [Tables -> ChunkStates]]
      /\ \A k \in Jobs \ {j} : worker'[k] = worker[k] /\ own'[k] = own[k]
      /\ worker'[j] = "starting" /\ own'[j] = c
  BY <1>2, <1>4 DEF TypeOK, Places
<1>6. InPlace(j)' /\ ShowsOwn(j)'
  BY <1>1, <1>3, <1>5 DEF InPlace, ShowsOwn, Working
<1>7. Sound(record[j])'
  BY <1>1, <1>3 DEF Sound, NoChunks
<1>8. quiet' \subseteq Jobs /\ cancel' \subseteq Jobs /\ loaded' \subseteq Tables
  BY <1>2, <1>4 DEF TypeOK
<1> QED BY <1>3, <1>4, <1>5, <1>6, <1>7, <1>8, StepOfOneJob

\* Both kinds of Full Load are submitted with loaded tables only where they carry DONE.
LEMMA LoadKeepsInv ==
  ASSUME JobInv, NEW j \in Jobs, FreshLoad(j) \/ RetryLoad(j)
  PROVE  JobInv'
<1>1. CASE FreshLoad(j)
  <2>1. PICK ts \in SUBSET Tables :
          Submit(j, [t \in Tables |-> IF t \in ts THEN "PENDING" ELSE "NONE"])
    BY <1>1 DEF FreshLoad
  <2> QED BY <2>1, SubmitKeepsInv DEF ChunkStates
<1>2. CASE RetryLoad(j)
  <2>1. PICK p \in Jobs :
          Submit(j, [t \in Tables |-> IF t \in Unsettled(record[p]) THEN "PENDING"
                                       ELSE record[p].chunk[t]])
    BY <1>2 DEF RetryLoad
  <2> DEFINE c == [t \in Tables |-> IF t \in Unsettled(record[p]) THEN "PENDING"
                                    ELSE record[p].chunk[t]]
  <2>2. record[p].chunk \in [Tables -> ChunkStates] /\ Sound(record[p])
    BY OneJob
  <2>3. c \in [Tables -> ChunkStates]
    BY <2>2 DEF ChunkStates
  <2>4. \A t \in Tables : c[t] = "DONE" => t \in loaded
    BY <2>2 DEF Sound
  <2>5. Submit(j, c)
    BY <2>1
  <2> HIDE DEF c
  <2> QED BY <2>3, <2>4, <2>5, SubmitKeepsInv
<1> QED BY <1>1, <1>2

\* A step that changes the chunks of job j and its work's account, nothing else.
LEMMA UpdateKeepsInv ==
  ASSUME JobInv, NEW j \in Jobs, NEW c \in [Tables -> ChunkStates], Update(j, c),
         worker' \in [Jobs -> Places], own' \in [Jobs -> [Tables -> ChunkStates]],
         \A k \in Jobs \ {j} : worker'[k] = worker[k] /\ own'[k] = own[k],
         worker[j] \in Working, worker'[j] \in Working,
         cancel' = cancel, loaded \subseteq loaded', loaded' \subseteq Tables,
         \A t \in Tables : c[t] = "DONE" => t \in loaded',
         \A t \in Tables : own'[j][t] = "DONE" => t \in loaded',
         record[j].status = "RUNNING" =>
           /\ worker'[j] = "loading" => c = own'[j]
           /\ worker'[j] = "verdict" /\ j \notin cancel =>
                c = own'[j] /\ \A t \in Tables : own'[j][t] \notin {"PENDING", "IN_PROGRESS"}
           /\ worker'[j] = "completed" \/ (worker'[j] = "returned" /\ j \notin cancel) =>
                \A t \in Tables : c[t] \in {"NONE", "DONE"}
  PROVE  JobInv'
<1> DEFINE r == [record[j] EXCEPT !.chunk = c]
<1>1. /\ record[j] \in JobStates /\ InPlace(j) /\ TypeOK
  BY OneJob DEF JobInv
<1>2. r \in JobStates /\ r.status = record[j].status /\ r.chunk = c
  BY <1>1 DEF JobStates
<1>3. Change(j, r) /\ quiet' = quiet \ {j}
  BY DEF Update
<1>4. /\ record'[j] = r
      /\ record' \in [Jobs -> JobStates] /\ stored' \in [Jobs -> JobStates]
      /\ sig' \in [Jobs -> Signatures]
      /\ \A k \in Jobs \ {j} : record'[k] = record[k]
      /\ \A k \in Jobs : stored'[k] = stored[k] \/ stored'[k] = record'[k]
  <2> HIDE DEF r
  <2> QED BY <1>1, <1>2, <1>3, ChangeFacts
<1>5. record[j].status \in {"RUNNING", "FAILED"}
  BY <1>1 DEF InPlace
<1>6. InPlace(j)' /\ ShowsOwn(j)' /\ Sound(record[j])'
  BY <1>2, <1>4, <1>5 DEF InPlace, ShowsOwn, Sound, Working
<1>7. quiet' \subseteq Jobs /\ cancel' \subseteq Jobs
  BY <1>1, <1>3 DEF TypeOK
<1> QED BY <1>4, <1>6, <1>7, StepOfOneJob

\* The steps of the work on its tables.
LEMMA WorkKeepsInv ==
  ASSUME JobInv, NEW j \in Jobs, Seed(j) \/ TableStep(j) \/ Beat(j)
  PROVE  JobInv'
<1> USE OneJob
<1>1. /\ worker \in [Jobs -> Places] /\ own \in [Jobs -> [Tables -> ChunkStates]]
      /\ loaded \subseteq Tables
  BY DEF JobInv, TypeOK
<1>2. CASE Seed(j)
  <2>1. /\ worker[j] = "seeding" /\ worker' = [worker EXCEPT ![j] = "loading"]
        /\ Update(j, own[j]) /\ UNCHANGED <<cancel, own, loaded>>
    BY <1>2 DEF Seed, Goes
  <2> QED BY <1>1, <2>1, UpdateKeepsInv DEF Working, Places
<1>3. CASE Beat(j)
  <2>1. /\ worker[j] \in {"seeding", "loading", "verdict"}
        /\ Update(j, record[j].chunk) /\ UNCHANGED <<worker, cancel, own, loaded>>
    BY <1>3 DEF Beat
  <2> QED BY <1>1, <2>1, UpdateKeepsInv DEF Working, ShowsOwn, Sound
<1>4. CASE TableStep(j)
  <2>1. PICK t \in Tables : StartTable(j, t) \/ CompleteTable(j, t) \/ FailTable(j, t)
    BY <1>4 DEF TableStep
  <2>2. worker[j] = "loading" /\ worker' = worker /\ cancel' = cancel
    BY <2>1 DEF StartTable, CompleteTable, FailTable
  <2>3. CASE StartTable(j, t)
    <3> DEFINE c == [record[j].chunk EXCEPT ![t] = IF record[j].chunk[t] = "PENDING"
                                                   THEN "IN_PROGRESS" ELSE record[j].chunk[t]]
    <3>1. /\ own[j][t] = "PENDING" /\ own' = [own EXCEPT ![j][t] = "IN_PROGRESS"]
          /\ Update(j, c) /\ loaded' = loaded
      BY <2>3 DEF StartTable, Own, Chunk
    <3>2. /\ c \in [Tables -> ChunkStates]
          /\ \A s \in Tables : c[s] = "DONE" => s \in loaded
      BY DEF ChunkStates, Sound
    <3>3. /\ own' \in [Jobs -> [Tables -> ChunkStates]]
          /\ \A k \in Jobs \ {j} : own'[k] = own[k]
          /\ own'[j] = [own[j] EXCEPT ![t] = "IN_PROGRESS"]
      BY <1>1, <3>1 DEF ChunkStates
    <3>4. record[j].status = "RUNNING" => c = own'[j]
      BY <2>2, <3>1, <3>3 DEF ShowsOwn
    <3>5. \A s \in Tables : own'[j][s] = "DONE" => s \in loaded
      BY <3>3
    <3> HIDE DEF c
    <3> QED BY <1>1, <2>2, <3>1, <3>2, <3>3, <3>4, <3>5, UpdateKeepsInv DEF Working
  <2>4. CASE CompleteTable(j, t)
    <3> DEFINE c == [record[j].chunk EXCEPT ![t] = "DONE"]
    <3>1. /\ own' = [own EXCEPT ![j][t] = "DONE"]
          /\ Update(j, c) /\ loaded' = loaded \cup {t}
      BY <2>4 DEF CompleteTable, Own, Chunk
    <3>2. /\ c \in [Tables -> ChunkStates]
          /\ \A s \in Tables : c[s] = "DONE" => s \in loaded'
      BY <3>1 DEF ChunkStates, Sound
    <3>3. /\ own' \in [Jobs -> [Tables -> ChunkStates]]
          /\ \A k \in Jobs \ {j} : own'[k] = own[k]
          /\ own'[j] = [own[j] EXCEPT ![t] = "DONE"]
      BY <1>1, <3>1 DEF ChunkStates
    <3>4. record[j].status = "RUNNING" => c = own'[j]
      BY <2>2, <3>1, <3>3 DEF ShowsOwn
    <3>5. \A s \in Tables : own'[j][s] = "DONE" => s \in loaded'
      BY <3>1, <3>3
    <3>6. loaded \subseteq loaded' /\ loaded' \subseteq Tables
      BY <1>1, <3>1
    <3> HIDE DEF c
    <3> QED BY <1>1, <2>2, <3>1, <3>2, <3>3, <3>4, <3>5, <3>6, UpdateKeepsInv DEF Working
  <2>5. CASE FailTable(j, t)
    <3> DEFINE c == [record[j].chunk EXCEPT ![t] = "FAILED"]
    <3>1. /\ own' = [own EXCEPT ![j][t] = "FAILED"]
          /\ Update(j, c) /\ loaded' = loaded
      BY <2>5 DEF FailTable, Own, Chunk
    <3>2. /\ c \in [Tables -> ChunkStates]
          /\ \A s \in Tables : c[s] = "DONE" => s \in loaded
      BY DEF ChunkStates, Sound
    <3>3. /\ own' \in [Jobs -> [Tables -> ChunkStates]]
          /\ \A k \in Jobs \ {j} : own'[k] = own[k]
          /\ own'[j] = [own[j] EXCEPT ![t] = "FAILED"]
      BY <1>1, <3>1 DEF ChunkStates
    <3>4. record[j].status = "RUNNING" => c = own'[j]
      BY <2>2, <3>1, <3>3 DEF ShowsOwn
    <3>5. \A s \in Tables : own'[j][s] = "DONE" => s \in loaded
      BY <3>3
    <3> HIDE DEF c
    <3> QED BY <1>1, <2>2, <3>1, <3>2, <3>3, <3>4, <3>5, UpdateKeepsInv DEF Working
  <2> QED BY <2>1, <2>3, <2>4, <2>5
<1> QED BY <1>2, <1>3, <1>4

\* The steps by which the work ends: its thread moves, and a stop fails the unfinished chunks.
LEMMA EndOfWorkKeepsInv ==
  ASSUME JobInv, NEW j \in Jobs,
         Abort(j) \/ Gather(j) \/ Verdict(j) \/ ReadCancel(j)
  PROVE  JobInv'
<1> USE OneJob
<1>1. /\ TypeOK /\ worker \in [Jobs -> Places] /\ loaded \subseteq Tables
  BY DEF JobInv, TypeOK
<1>2. ASSUME NEW w \in Working, worker' = [worker EXCEPT ![j] = w],
             worker[j] \in Working,
             UNCHANGED <<record, quiet, cancel, own, loaded, stored, sig>>,
             record[j].status = "RUNNING" =>
               /\ w = "loading" => record[j].chunk = own[j]
               /\ w = "verdict" /\ j \notin cancel =>
                    /\ record[j].chunk = own[j]
                    /\ \A t \in Tables : own[j][t] \notin {"PENDING", "IN_PROGRESS"}
               /\ w = "completed" \/ (w = "returned" /\ j \notin cancel) =>
                    \A t \in Tables : record[j].chunk[t] \in {"NONE", "DONE"}
      PROVE  JobInv'
  <2>1. /\ worker' \in [Jobs -> Places] /\ worker'[j] = w
        /\ \A k \in Jobs \ {j} : worker'[k] = worker[k]
    BY <1>1, <1>2 DEF Working, Places
  <2>2. InPlace(j)'
    BY <1>2, <2>1 DEF InPlace, Working
  <2>3. ShowsOwn(j)'
    BY <1>2, <2>1 DEF ShowsOwn
  <2>4. Sound(record[j])'
    BY <1>2 DEF Sound
  <2> QED BY <1>1, <1>2, <2>1, <2>2, <2>3, <2>4, StepOfOneJob DEF TypeOK
<1>3. CASE Abort(j)
  <2>1. /\ worker[j] \in {"seeding", "loading", "verdict"}
        /\ worker' = [worker EXCEPT ![j] = "raised"]
        /\ UNCHANGED <<record, quiet, cancel, own, loaded, stored, sig>>
    BY <1>3 DEF Abort, Goes, store
  <2> QED BY <1>2, <2>1 DEF Working
<1>4. CASE Verdict(j)
  <2> DEFINE w == IF Incomplete(j) /\ j \notin cancel THEN "raised" ELSE "returned"
  <2>1. /\ worker[j] = "verdict" /\ worker' = [worker EXCEPT ![j] = w]
        /\ UNCHANGED <<record, quiet, cancel, own, loaded, stored, sig>>
    BY <1>4 DEF Verdict, Goes, store
  <2>2. record[j].status = "RUNNING" /\ j \notin cancel /\ w = "returned" =>
          \A t \in Tables : record[j].chunk[t] \in {"NONE", "DONE"}
    BY <2>1 DEF ShowsOwn, Incomplete, ChunkStates
  <2>3. w \in {"raised", "returned"}
    OBVIOUS
  <2> HIDE DEF w
  <2> QED BY <1>2, <2>1, <2>2, <2>3 DEF Working
<1>5. CASE ReadCancel(j)
  <2> DEFINE w == IF j \in cancel THEN "stopped" ELSE "completed"
  <2>1. /\ worker[j] = "returned" /\ worker' = [worker EXCEPT ![j] = w]
        /\ UNCHANGED <<record, quiet, cancel, own, loaded, stored, sig>>
    BY <1>5 DEF ReadCancel, Goes, store
  <2>2. record[j].status = "RUNNING" /\ w = "completed" =>
          \A t \in Tables : record[j].chunk[t] \in {"NONE", "DONE"}
    BY <2>1 DEF ShowsOwn
  <2>3. w \in {"stopped", "completed"}
    OBVIOUS
  <2> HIDE DEF w
  <2> QED BY <1>2, <2>1, <2>2, <2>3 DEF Working
<1>6. CASE Gather(j)
  <2>1. /\ worker[j] = "loading" /\ worker' = [worker EXCEPT ![j] = "verdict"]
        /\ UNCHANGED <<cancel, own, loaded>>
    BY <1>6 DEF Gather, Goes
  <2>2. CASE j \in cancel
    <3> DEFINE c == UnfinishedFailed(record[j].chunk)
    <3>1. Update(j, c)
      BY <1>6, <2>2 DEF Gather
    <3>2. /\ c \in [Tables -> ChunkStates]
          /\ \A t \in Tables : c[t] = "DONE" => t \in loaded
      BY ChunkFacts DEF Sound
    <3>3. /\ worker' \in [Jobs -> Places] /\ worker'[j] = "verdict"
          /\ \A k \in Jobs \ {j} : worker'[k] = worker[k]
      BY <1>1, <2>1 DEF Places
    <3>4. own \in [Jobs -> [Tables -> ChunkStates]]
      BY <1>1 DEF TypeOK
    <3> HIDE DEF c
    <3> QED BY <1>1, <2>1, <2>2, <3>1, <3>2, <3>3, <3>4, UpdateKeepsInv DEF Working
  <2>3. CASE j \notin cancel
    <3>1. /\ \A t \in Tables : own[j][t] \notin {"PENDING", "IN_PROGRESS"}
          /\ UNCHANGED <<record, quiet, stored, sig>>
      BY <1>6, <2>3 DEF Gather, store
    <3>2. record[j].status = "RUNNING" => record[j].chunk = own[j]
      BY <2>1 DEF ShowsOwn
    <3> QED BY <1>2, <2>1, <2>3, <3>1, <3>2 DEF Working
  <2> QED BY <2>2, <2>3
<1> QED BY <1>3, <1>4, <1>5, <1>6

\* The steps that set the status of a job: RUNNING, and the three outcomes.
LEMMA StatusKeepsInv ==
  ASSUME JobInv, NEW j \in Jobs,
         Run(j) \/ MarkFailed(j) \/ MarkCancelled(j) \/ MarkDone(j)
  PROVE  JobInv'
<1> USE OneJob
<1>1. /\ TypeOK /\ worker \in [Jobs -> Places] /\ loaded \subseteq Tables
  BY DEF JobInv, TypeOK
<1>2. ASSUME NEW r \in JobStates, NEW w \in Places, Change(j, r),
             worker' = [worker EXCEPT ![j] = w], UNCHANGED <<cancel, own, loaded>>,
             quiet' \subseteq Jobs,
             r.chunk = record[j].chunk,
             \/ w = "seeding" /\ r.status = "RUNNING"
             \/ w = "gone" /\ r.status \in Final,
             r.status = "DONE" => \A t \in Tables : r.chunk[t] \in {"NONE", "DONE"}
      PROVE  JobInv'
  <2>1. /\ worker' \in [Jobs -> Places] /\ worker'[j] = w
        /\ \A k \in Jobs \ {j} : worker'[k] = worker[k]
    BY <1>1, <1>2
  <2>2. /\ record'[j] = r
        /\ record' \in [Jobs -> JobStates] /\ stored' \in [Jobs -> JobStates]
        /\ sig' \in [Jobs -> Signatures]
        /\ \A k \in Jobs \ {j} : record'[k] = record[k]
        /\ \A k \in Jobs : stored'[k] = stored[k] \/ stored'[k] = record'[k]
    BY <1>1, <1>2, ChangeFacts
  <2>3. InPlace(j)' /\ ShowsOwn(j)'
    BY <1>2, <2>1, <2>2 DEF InPlace, ShowsOwn, Working, Final
  <2>4. Sound(record[j])'
    BY <1>2, <2>2 DEF Sound
  <2> QED BY <1>1, <1>2, <2>1, <2>2, <2>3, <2>4, StepOfOneJob DEF TypeOK
<1>3. ASSUME worker' = [worker EXCEPT ![j] = "gone"], worker[j] \in Working,
             record[j].status = "FAILED",
             UNCHANGED <<record, quiet, cancel, own, loaded, stored, sig>>
      PROVE  JobInv'
  <2>1. /\ worker' \in [Jobs -> Places] /\ worker'[j] = "gone"
        /\ \A k \in Jobs \ {j} : worker'[k] = worker[k]
    BY <1>1, <1>3 DEF Places
  <2>2. InPlace(j)' /\ ShowsOwn(j)'
    BY <1>3, <2>1 DEF InPlace, ShowsOwn, Working
  <2>3. Sound(record[j])'
    BY <1>3 DEF Sound
  <2> QED BY <1>1, <1>3, <2>1, <2>2, <2>3, StepOfOneJob DEF TypeOK
<1>4. CASE Run(j)
  <2> DEFINE r == [record[j] EXCEPT !.status = "RUNNING"]
  <2>1. /\ worker' = [worker EXCEPT ![j] = "seeding"] /\ Change(j, r)
        /\ quiet' = quiet \ {j} /\ UNCHANGED <<cancel, own, loaded>>
    BY <1>4 DEF Run, Goes
  <2>2. r \in JobStates /\ r.status = "RUNNING" /\ r.chunk = record[j].chunk
    BY DEF JobStates, Active
  <2>3. quiet' \subseteq Jobs
    BY <1>1, <2>1 DEF TypeOK
  <2> HIDE DEF r
  <2> QED BY <1>2, <2>1, <2>2, <2>3 DEF Places, Final
<1>5. CASE MarkFailed(j)
  <2> DEFINE r == [record[j] EXCEPT !.status = "FAILED", !.error = "raised"]
  <2>1. /\ worker' = [worker EXCEPT ![j] = "gone"] /\ Change(j, r)
        /\ UNCHANGED <<quiet, cancel, own, loaded>>
    BY <1>5 DEF MarkFailed, Ends, Goes
  <2>2. r \in JobStates /\ r.status = "FAILED" /\ r.chunk = record[j].chunk
    BY DEF JobStates, Final, Reasons
  <2> HIDE DEF r
  <2> QED BY <1>1, <1>2, <2>1, <2>2 DEF TypeOK, Places, Final
<1>6. CASE MarkCancelled(j)
  <2> DEFINE r == [record[j] EXCEPT !.status = "CANCELLED",
                                    !.error = Because(record[j], "stopped")]
  <2>1. /\ worker[j] = "stopped" /\ worker' = [worker EXCEPT ![j] = "gone"]
        /\ UNCHANGED <<quiet, cancel, own, loaded>>
        /\ IF KeepsFailure(record[j]) THEN UNCHANGED <<record, store>> ELSE Change(j, r)
    BY <1>6 DEF MarkCancelled, Ends, Goes
  <2>2. Because(record[j], "stopped") \in Reasons
    BY BecauseType DEF Reasons
  <2>3. r \in JobStates /\ r.status = "CANCELLED" /\ r.chunk = record[j].chunk
    BY <2>2 DEF JobStates, Final
  <2> HIDE DEF r
  <2>4. CASE KeepsFailure(record[j])
    BY <1>3, <2>1, <2>4 DEF KeepsFailure, store, Working
  <2>5. CASE ~KeepsFailure(record[j])
    BY <1>1, <1>2, <2>1, <2>3, <2>5 DEF TypeOK, Places, Final
  <2> QED BY <2>4, <2>5
<1>7. CASE MarkDone(j)
  <2> DEFINE r == [record[j] EXCEPT !.status = "DONE"]
  <2>1. /\ worker[j] = "completed" /\ worker' = [worker EXCEPT ![j] = "gone"]
        /\ UNCHANGED <<quiet, cancel, own, loaded>>
        /\ IF KeepsFailure(record[j]) THEN UNCHANGED <<record, store>> ELSE Change(j, r)
    BY <1>7 DEF MarkDone, Ends, Goes
  <2>2. r \in JobStates /\ r.status = "DONE" /\ r.chunk = record[j].chunk
    BY DEF JobStates, Final
  <2> HIDE DEF r
  <2>3. CASE KeepsFailure(record[j])
    BY <1>3, <2>1, <2>3 DEF KeepsFailure, store, Working
  <2>4. CASE ~KeepsFailure(record[j])
    <3>1. record[j].status = "RUNNING"
      BY <2>1, <2>4 DEF InPlace, KeepsFailure, Working
    <3>2. \A t \in Tables : r.chunk[t] \in {"NONE", "DONE"}
      BY <2>1, <2>2, <3>1 DEF ShowsOwn
    <3> QED BY <1>1, <1>2, <2>1, <2>2, <2>4, <3>2 DEF TypeOK, Places, Final
  <2> QED BY <2>3, <2>4
<1> QED BY <1>4, <1>5, <1>6, <1>7

\* A stop and the passing of time touch one flag.
LEMMA FlagKeepsInv ==
  ASSUME JobInv, NEW j \in Jobs, RequestCancel(j) \/ FallSilent(j)
  PROVE  JobInv'
<1> USE OneJob
<1>1. /\ UNCHANGED <<record, worker, own, loaded, stored, sig>>
      /\ quiet' \subseteq Jobs /\ cancel' \subseteq Jobs /\ cancel \subseteq cancel'
      /\ \A k \in Jobs \ {j} : k \in cancel <=> k \in cancel'
  BY DEF RequestCancel, FallSilent, work, store, JobInv, TypeOK
<1>2. InPlace(j)'
  BY <1>1 DEF InPlace
<1>3. ShowsOwn(j)'
  BY <1>1 DEF ShowsOwn
<1>4. Sound(record[j])'
  BY <1>1 DEF Sound
<1> QED BY <1>1, <1>2, <1>3, <1>4, StepOfOneJob DEF JobInv, TypeOK

\* The watchdog ends silent jobs and moves no thread.
LEMMA ReapKeepsInv ==
  ASSUME JobInv, Reap
  PROVE  JobInv'
<1> DEFINE stalled == {j \in quiet : Reaped(record[j])}
           ended(j) == [status |-> "FAILED", chunk |-> FailedChunks(record[j].chunk),
                        error |-> Because(record[j], "stalled")]
<1>1. /\ record' = [j \in Jobs |-> IF j \in stalled THEN ended(j) ELSE record[j]]
      /\ Persist(stalled, record') /\ quiet' = quiet \ stalled
      /\ UNCHANGED <<cancel, worker, own, loaded>>
  BY DEF Reap, work
<1>2. ASSUME NEW j \in Jobs
      PROVE  /\ ended(j) \in JobStates
             /\ Sound(record[j]) => Sound(ended(j))
  <2>1. record[j] \in JobStates /\ record[j].chunk \in [Tables -> ChunkStates]
    BY OneJob
  <2>2. Because(record[j], "stalled") \in Reasons
    BY <2>1, BecauseType DEF Reasons
  <2>3. /\ FailedChunks(record[j].chunk) \in [Tables -> ChunkStates]
        /\ \A t \in Tables :
             FailedChunks(record[j].chunk)[t] = "DONE" <=> record[j].chunk[t] = "DONE"
    BY <2>1, ChunkFacts
  <2>4. ended(j) \in JobStates
    BY <2>2, <2>3 DEF JobStates, Final
  <2>5. Sound(record[j]) => Sound(ended(j))
    BY <2>3 DEF Sound
  <2> QED BY <2>4, <2>5
<1>3. record' \in [Jobs -> JobStates]
  BY <1>1, <1>2 DEF JobInv, TypeOK
<1>4. /\ stored' \in [Jobs -> JobStates] /\ sig' \in [Jobs -> Signatures]
      /\ \A j \in Jobs : stored'[j] = stored[j] \/ stored'[j] = record'[j]
  <2>1. TypeOK BY DEF JobInv
  <2> HIDE DEF stalled
  <2> QED BY <1>1, <1>3, <2>1, PersistFacts
<1>5. TypeOK'
  BY <1>1, <1>3, <1>4 DEF JobInv, TypeOK
<1>6. \A j \in Jobs : InPlace(j)' /\ ShowsOwn(j)'
  <2> SUFFICES ASSUME NEW j \in Jobs PROVE InPlace(j)' /\ ShowsOwn(j)'
    OBVIOUS
  <2>1. InPlace(j) /\ ShowsOwn(j)
    BY OneJob
  <2>2. CASE j \in stalled
    <3>1. record[j].status = "RUNNING" /\ record'[j].status = "FAILED"
      BY <1>1, <2>2 DEF Reaped
    <3> QED BY <1>1, <2>1, <3>1 DEF InPlace, ShowsOwn, Working
  <2>3. CASE j \notin stalled
    <3>1. record'[j] = record[j] /\ (stored'[j] = stored[j] \/ stored'[j] = record[j])
      BY <1>1, <1>4, <2>3
    <3> HIDE DEF stalled, ended
    <3>2. InPlace(j)'
      BY <1>1, <2>1, <3>1 DEF InPlace
    <3>3. ShowsOwn(j)'
      BY <1>1, <2>1, <3>1 DEF ShowsOwn
    <3> QED BY <3>2, <3>3
  <2> QED BY <2>2, <2>3
<1>7. \A j \in Jobs, t \in Tables : own'[j][t] = "DONE" => t \in loaded'
  BY <1>1 DEF JobInv
<1>8. DoneMeansLoaded'
  <2> SUFFICES ASSUME NEW j \in Jobs PROVE Sound(record[j])' /\ Sound(stored[j])'
    BY DEF DoneMeansLoaded
  <2>1. Sound(record[j]) /\ Sound(stored[j]) /\ Sound(ended(j))
    BY <1>2 DEF JobInv, DoneMeansLoaded
  <2>2. record'[j] = ended(j) \/ record'[j] = record[j]
    BY <1>1
  <2> HIDE DEF ended
  <2>3. Sound(record[j])'
    BY <1>1, <2>1, <2>2 DEF Sound
  <2> QED BY <1>1, <1>4, <2>1, <2>3 DEF Sound
<1> QED BY <1>5, <1>6, <1>7, <1>8 DEF JobInv

\* A restart leaves no thread and reconciles what S3 gives back.
LEMMA RestartKeepsInv ==
  ASSUME JobInv, Restart
  PROVE  JobInv'
<1>1. /\ record' = [j \in Jobs |-> record'[j]] /\ stored' = [j \in Jobs |-> stored'[j]]
      /\ sig' = [j \in Jobs |-> sig'[j]]
      /\ \A j \in Jobs : /\ record'[j] \in {NoJob, Reconciled(stored[j])}
                         /\ stored'[j] \in {NoJob, Reconciled(stored[j]), stored[j]}
                         /\ sig'[j] \in {NoSig, Sig(NoJob), Sig(Reconciled(stored[j]))}
  <2>1. PICK known \in SUBSET Listed : \E landed \in SUBSET known :
          \E answered \in SUBSET landed : \E at \in RestoreStamps(landed) :
            \E gone \in SUBSET Excess(Kept(known, landed), at) :
              \E lost \in {gone, {}} : Recover(known, landed, answered, at, gone, lost)
    BY DEF Restart
  <2>2. PICK landed \in SUBSET known : \E answered \in SUBSET landed :
          \E at \in RestoreStamps(landed) :
            \E gone \in SUBSET Excess(Kept(known, landed), at) :
              \E lost \in {gone, {}} : Recover(known, landed, answered, at, gone, lost)
    BY <2>1
  <2>3. PICK answered \in SUBSET landed : \E at \in RestoreStamps(landed) :
          \E gone \in SUBSET Excess(Kept(known, landed), at) :
            \E lost \in {gone, {}} : Recover(known, landed, answered, at, gone, lost)
    BY <2>2
  <2>4. PICK at \in RestoreStamps(landed) :
          \E gone \in SUBSET Excess(Kept(known, landed), at) :
            \E lost \in {gone, {}} : Recover(known, landed, answered, at, gone, lost)
    BY <2>3
  <2>5. PICK gone \in SUBSET Excess(Kept(known, landed), at) :
          \E lost \in {gone, {}} : Recover(known, landed, answered, at, gone, lost)
    BY <2>4
  <2>6. PICK lost \in {gone, {}} : Recover(known, landed, answered, at, gone, lost)
    BY <2>5
  <2> QED BY <2>6 DEF Kept, Back, Recover
<1>2. /\ worker' = [j \in Jobs |-> IF worker[j] = "none" THEN "none" ELSE "gone"]
      /\ quiet' = {} /\ cancel' = {} /\ UNCHANGED <<own, loaded>>
  BY DEF Restart
<1>3. NoJob \in JobStates /\ NoSig \in Signatures /\ Sound(NoJob) /\ NoJob.status = "NONE"
  BY DEF NoJob, NoSig, NoChunks, JobStates, Signatures, ChunkStates, Reasons, Sound
<1>4. \A j \in Jobs : /\ Reconciled(stored[j]) \in JobStates
                      /\ Reconciled(stored[j]).status \notin Active
                      /\ Sound(stored[j]) /\ Sound(Reconciled(stored[j]))
  BY ReconciledFacts DEF JobInv, TypeOK, DoneMeansLoaded
<1>5. /\ record' \in [Jobs -> JobStates] /\ stored' \in [Jobs -> JobStates]
  <2>1. \A j \in Jobs : stored[j] \in JobStates
    BY DEF JobInv, TypeOK
  <2>2. \A j \in Jobs : record'[j] \in JobStates /\ stored'[j] \in JobStates
    BY <1>1, <1>3, <1>4, <2>1
  <2> QED BY <1>1, <2>2
<1>6. sig' \in [Jobs -> Signatures]
  <2>1. \A r \in JobStates : Sig(r) \in Signatures
    BY DEF Sig, JobStates, Signatures
  <2> QED BY <1>1, <1>3, <1>4, <2>1
<1>7. TypeOK'
  BY <1>2, <1>5, <1>6 DEF JobInv, TypeOK, Places
<1>8. \A j \in Jobs : InPlace(j)' /\ ShowsOwn(j)'
  <2> SUFFICES ASSUME NEW j \in Jobs PROVE InPlace(j)' /\ ShowsOwn(j)'
    OBVIOUS
  <2>1. record'[j].status \notin Active
    BY <1>1, <1>3, <1>4 DEF Active
  <2>2. worker'[j] \in {"none", "gone"}
    BY <1>2
  <2>3. worker'[j] = "none" => record'[j].status = "NONE" /\ stored'[j].status = "NONE"
    <3>1. worker'[j] = "none" => stored[j].status = "NONE"
      BY <1>2, OneJob DEF InPlace
    <3>2. stored[j].status = "NONE" => Reconciled(stored[j]).status = "NONE"
      BY ReconciledFacts DEF JobInv, TypeOK
    <3> QED BY <1>1, <1>3, <3>1, <3>2
  <2> QED BY <2>1, <2>2, <2>3 DEF InPlace, ShowsOwn, Working, Active
<1>9. \A j \in Jobs, t \in Tables : own'[j][t] = "DONE" => t \in loaded'
  BY <1>2 DEF JobInv
<1>10. DoneMeansLoaded'
  <2> SUFFICES ASSUME NEW j \in Jobs PROVE Sound(record[j])' /\ Sound(stored[j])'
    BY DEF DoneMeansLoaded
  <2>2. record'[j] \in {NoJob, Reconciled(stored[j])}
    BY <1>1
  <2>3. stored'[j] \in {NoJob, Reconciled(stored[j]), stored[j]}
    BY <1>1
  <2> QED BY <1>2, <1>3, <1>4, <2>2, <2>3 DEF Sound
<1> QED BY <1>7, <1>8, <1>9, <1>10 DEF JobInv

-----------------------------------------------------------------------------
(* The theorems. *)

\* Every reachable state satisfies JobInv: the thread of each job stands where the status it
\* shows says, and chunks stand for loaded tables.
THEOREM JobInvariant == Spec => []JobInv
<1>1. Init => JobInv
  BY DEF Init, JobInv, TypeOK, DoneMeansLoaded, Sound, InPlace, ShowsOwn, NoJob, NoSig,
         NoChunks, JobStates, Signatures, ChunkStates, Reasons, Places, Working
<1>2. JobInv /\ [Next]_vars => JobInv'
  <2> SUFFICES ASSUME JobInv, [Next]_vars PROVE JobInv'
    OBVIOUS
  <2>1. CASE Reap
    BY <2>1, ReapKeepsInv
  <2>2. CASE Restart
    BY <2>2, RestartKeepsInv
  <2>3. ASSUME NEW j \in Jobs, JobStep(j) PROVE JobInv'
    BY <2>3, LoadKeepsInv, WorkKeepsInv, EndOfWorkKeepsInv, StatusKeepsInv, FlagKeepsInv
       DEF JobStep
  <2>4. CASE UNCHANGED vars
    BY <2>4 DEF vars, JobInv, TypeOK, InPlace, ShowsOwn, DoneMeansLoaded, Sound
  <2> QED BY <2>1, <2>2, <2>3, <2>4 DEF Next
<1> QED BY <1>1, <1>2, PTL DEF Spec

\* No job is ever shown in progress without a thread that can end it: whatever fails, stops
\* or restarts, restore and the marks at the end of a thread leave none behind.
THEOREM NoOrphanHolds == Spec => []NoOrphan
<1>1. JobInv => NoOrphan
  BY DEF JobInv, InPlace, NoOrphan, Active, Working
<1> QED BY <1>1, JobInvariant, PTL

\* A job recorded DONE, in memory or in S3, retried or not, has loaded all its tables.
THEOREM DoneMeansLoadedHolds == Spec => []DoneMeansLoaded
<1>1. JobInv => DoneMeansLoaded
  BY DEF JobInv
<1> QED BY <1>1, JobInvariant, PTL

\* No step of a job restarts the application.
LEMMA JobStepsDoNotRestart ==
  ASSUME NEW j \in Jobs, JobStep(j)
  PROVE  restarts' = restarts
<1>1. CASE FreshLoad(j) \/ RetryLoad(j) \/ RequestCancel(j) \/ FallSilent(j)
  BY <1>1 DEF FreshLoad, RetryLoad, Submit, RequestCancel, FallSilent
<1>2. CASE Run(j) \/ Seed(j) \/ Beat(j) \/ Abort(j) \/ Gather(j)
  BY <1>2 DEF Run, Seed, Beat, Abort, Gather
<1>3. CASE TableStep(j)
  BY <1>3 DEF TableStep, StartTable, CompleteTable, FailTable
<1>4. CASE Verdict(j) \/ ReadCancel(j) \/ MarkFailed(j) \/ MarkCancelled(j) \/ MarkDone(j)
  BY <1>4 DEF Verdict, ReadCancel, MarkFailed, MarkCancelled, MarkDone, Ends
<1> QED BY <1>1, <1>2, <1>3, <1>4 DEF JobStep

\* Restarts are counted.
LEMMA RestartsAreCounted == Spec => [](restarts \in Nat)
<1>1. Init => restarts \in Nat
  BY DEF Init
<1>2. restarts \in Nat /\ [Next]_vars => (restarts \in Nat)'
  <2> SUFFICES ASSUME restarts \in Nat, [Next]_vars PROVE restarts' \in Nat
    OBVIOUS
  <2>1. CASE Restart
    BY <2>1 DEF Restart
  <2>2. CASE Reap
    BY <2>2 DEF Reap
  <2>3. ASSUME NEW j \in Jobs, JobStep(j) PROVE restarts' = restarts
    BY <2>3, JobStepsDoNotRestart
  <2>4. CASE UNCHANGED vars
    BY <2>4 DEF vars
  <2> QED BY <2>1, <2>2, <2>3, <2>4 DEF Next
<1> QED BY <1>1, <1>2, PTL DEF Spec

\* A step of job j leaves the records of the other jobs alone, and the status of its own once
\* that is final.
LEMMA StepKeepsOutcome ==
  ASSUME JobInv, NEW j \in Jobs, JobStep(j), NEW k \in Jobs, record[k].status \in Final
  PROVE  record'[k].status = record[k].status
<1> USE OneJob
<1>1. record \in [Jobs -> JobStates]
  BY DEF JobInv, TypeOK
<1>2. ASSUME NEW r, Change(j, r), j = k => r.status = record[k].status
      PROVE  record'[k].status = record[k].status
  BY <1>1, <1>2 DEF Change
<1>3. ASSUME NEW c, Update(j, c)
      PROVE  record'[k].status = record[k].status
  <2> DEFINE r == [record[j] EXCEPT !.chunk = c]
  <2>1. Change(j, r)
    BY <1>3 DEF Update
  <2>2. r.status = record[j].status
    BY <1>1 DEF JobStates
  <2> HIDE DEF r
  <2> QED BY <1>2, <2>1, <2>2
<1>4. j = k => /\ worker[j] \notin {"none", "starting"}
               /\ worker[j] \in Working => record[j].status = "FAILED"
  BY DEF InPlace, Final, Active
<1>5. CASE \E c : Submit(j, c)
  BY <1>1, <1>4, <1>5 DEF Submit, Change
<1>6. CASE Run(j) \/ MarkFailed(j) \/ MarkCancelled(j) \/ MarkDone(j)
  <2>1. CASE Run(j)
    BY <1>1, <1>4, <2>1 DEF Run, Change
  <2>2. CASE MarkFailed(j)
    BY <1>1, <1>4, <2>2 DEF MarkFailed, Change, Working, JobStates
  <2>3. CASE MarkCancelled(j)
    BY <1>1, <1>4, <2>3 DEF MarkCancelled, Change, KeepsFailure, Working
  <2>4. CASE MarkDone(j)
    BY <1>1, <1>4, <2>4 DEF MarkDone, Change, KeepsFailure, Working
  <2> QED BY <1>6, <2>1, <2>2, <2>3, <2>4
<1>7. CASE \/ Seed(j) \/ TableStep(j) \/ Beat(j) \/ Gather(j)
  BY <1>3, <1>7 DEF Seed, TableStep, StartTable, CompleteTable, FailTable, Chunk, Beat, Gather
<1>8. CASE Abort(j) \/ Verdict(j) \/ ReadCancel(j) \/ RequestCancel(j) \/ FallSilent(j)
  BY <1>8 DEF Abort, Verdict, ReadCancel, RequestCancel, FallSilent
<1> QED BY <1>5, <1>6, <1>7, <1>8 DEF JobStep, FreshLoad, RetryLoad

\* A recorded outcome changes no more while the application runs.
THEOREM OutcomeStaysHolds == Spec => OutcomeStays
<1> DEFINE Stays == restarts' = restarts =>
             \A j \in Jobs : record[j].status \in Final => record'[j].status = record[j].status
<1>1. JobInv /\ restarts \in Nat /\ [Next]_vars => [Stays]_vars
  <2> SUFFICES ASSUME JobInv, restarts \in Nat, [Next]_vars, restarts' = restarts,
                      NEW k \in Jobs, record[k].status \in Final
               PROVE  record'[k].status = record[k].status
    OBVIOUS
  <2>1. CASE Reap
    BY <2>1 DEF Reap, Reaped, Final
  <2>2. CASE Restart
    BY <2>2 DEF Restart
  <2>3. ASSUME NEW j \in Jobs, JobStep(j) PROVE record'[k].status = record[k].status
    BY <2>3, StepKeepsOutcome
  <2>4. CASE UNCHANGED vars
    BY <2>4 DEF vars
  <2> QED BY <2>1, <2>2, <2>3, <2>4 DEF Next
<1> QED BY <1>1, JobInvariant, RestartsAreCounted, PTL DEF Spec, OutcomeStays

-----------------------------------------------------------------------------
(* What S3 has: the reason of every end, and, while no call to it was      *)
(* lost, the work of every durable job.                                    *)

Says(r) == r.status \in {"FAILED", "CANCELLED"} => r.error # "none"
Blank(r) == r.status = "NONE" => r.chunk = NoChunks

\* S3 and the store's memory of it have the status and chunks of each durable job.
Current(j) == sig[j] = Sig(record[j]) /\ Sig(stored[j]) = Sig(record[j])

StoreInv ==
  /\ misses \in Nat
  /\ \A j \in Jobs : Blank(record[j]) /\ Blank(stored[j])
  /\ misses = 0 => \A j \in Durable : Current(j)

\* A step of a job writes its own record or nothing; what it writes is a job that exists,
\* and says why it ended if the one before did.
LEMMA StepWrites ==
  ASSUME JobInv, NEW j \in Jobs, JobStep(j)
  PROVE  \/ UNCHANGED <<record, store>>
         \/ \E r \in JobStates : /\ Change(j, r) /\ r.status # "NONE"
                                 /\ Says(record[j]) => Says(r)
<1> USE OneJob
<1>1. record[j] \in JobStates
  OBVIOUS
<1>2. worker[j] \in Working => record[j].status \in {"RUNNING", "FAILED"}
  BY DEF InPlace
<1>3. ASSUME NEW r \in JobStates, Change(j, r), r.status \in {"PENDING", "RUNNING", "DONE"}
      PROVE  \E q \in JobStates : /\ Change(j, q) /\ q.status # "NONE"
                                  /\ Says(record[j]) => Says(q)
  BY <1>3 DEF Says
<1>4. ASSUME NEW c \in [Tables -> ChunkStates], Update(j, c), worker[j] \in Working
      PROVE  \E r \in JobStates : /\ Change(j, r) /\ r.status # "NONE"
                                  /\ Says(record[j]) => Says(r)
  <2> DEFINE r == [record[j] EXCEPT !.chunk = c]
  <2>1. r \in JobStates /\ r.status = record[j].status /\ r.error = record[j].error
    BY <1>1 DEF JobStates
  <2>2. Change(j, r)
    BY <1>4 DEF Update
  <2> HIDE DEF r
  <2> QED BY <1>2, <1>4, <2>1, <2>2 DEF Says
<1>5. CASE \E c : Submit(j, c)
  <2> DEFINE r == [NoJob EXCEPT !.status = "PENDING"]
  <2>1. r \in JobStates /\ r.status = "PENDING"
    BY DEF NoJob, NoChunks, JobStates, ChunkStates, Reasons, Active
  <2>2. Change(j, r)
    BY <1>5 DEF Submit
  <2> HIDE DEF r
  <2> QED BY <1>3, <2>1, <2>2
<1>6. CASE Run(j)
  <2> DEFINE r == [record[j] EXCEPT !.status = "RUNNING"]
  <2>1. r \in JobStates /\ r.status = "RUNNING"
    BY <1>1 DEF JobStates, Active
  <2>2. Change(j, r)
    BY <1>6 DEF Run
  <2> HIDE DEF r
  <2> QED BY <1>3, <2>1, <2>2
<1>7. CASE Seed(j) \/ Beat(j) \/ Gather(j)
  <2>1. worker[j] \in Working
    BY <1>7 DEF Seed, Beat, Gather, Working
  <2>2. UnfinishedFailed(record[j].chunk) \in [Tables -> ChunkStates]
    BY ChunkFacts
  <2> QED BY <1>4, <1>7, <2>1, <2>2 DEF Seed, Beat, Gather
<1>8. CASE TableStep(j)
  <2>1. PICK t \in Tables, state \in ChunkStates : Chunk(j, t, state) /\ worker[j] = "loading"
    BY <1>8 DEF TableStep, StartTable, CompleteTable, FailTable, ChunkStates
  <2>2. [record[j].chunk EXCEPT ![t] = state] \in [Tables -> ChunkStates]
    OBVIOUS
  <2> QED BY <1>4, <2>1, <2>2 DEF Chunk, Working
<1>9. CASE MarkFailed(j)
  <2> DEFINE r == [record[j] EXCEPT !.status = "FAILED", !.error = "raised"]
  <2>1. r \in JobStates /\ r.status = "FAILED" /\ r.error = "raised"
    BY <1>1 DEF JobStates, Final, Reasons
  <2>2. Change(j, r)
    BY <1>9 DEF MarkFailed
  <2> HIDE DEF r
  <2> QED BY <2>1, <2>2 DEF Says
<1>10. CASE MarkCancelled(j)
  <2> DEFINE why == Because(record[j], "stopped")
             r == [record[j] EXCEPT !.status = "CANCELLED", !.error = why]
  <2>1. why \in Reasons /\ why # "none"
    BY BecauseType DEF Because, Reasons
  <2>2. r \in JobStates /\ r.status = "CANCELLED" /\ r.error = why
    <3> HIDE DEF why
    <3> QED BY <1>1, <2>1 DEF JobStates, Final
  <2>3. UNCHANGED <<record, store>> \/ Change(j, r)
    BY <1>10 DEF MarkCancelled
  <2> HIDE DEF r, why
  <2> QED BY <2>1, <2>2, <2>3 DEF Says
<1>11. CASE MarkDone(j)
  <2> DEFINE r == [record[j] EXCEPT !.status = "DONE"]
  <2>1. r \in JobStates /\ r.status = "DONE"
    BY <1>1 DEF JobStates, Final
  <2>2. UNCHANGED <<record, store>> \/ Change(j, r)
    BY <1>11 DEF MarkDone
  <2> HIDE DEF r
  <2> QED BY <1>3, <2>1, <2>2
<1>12. CASE Abort(j) \/ Verdict(j) \/ ReadCancel(j) \/ RequestCancel(j) \/ FallSilent(j)
  BY <1>12 DEF Abort, Verdict, ReadCancel, RequestCancel, FallSilent
<1> QED BY <1>5, <1>6, <1>7, <1>8, <1>9, <1>10, <1>11, <1>12 DEF JobStep, FreshLoad, RetryLoad

\* A job the watchdog ends says why, and exists.
LEMMA ReapWrites ==
  ASSUME JobInv, Reap
  PROVE  \E stalled \in SUBSET Jobs :
           /\ Persist(stalled, record') /\ record' \in [Jobs -> JobStates]
           /\ \A k \in Jobs : IF k \in stalled
                              THEN Says(record'[k]) /\ record'[k].status # "NONE"
                              ELSE record'[k] = record[k]
<1> DEFINE stalled == {j \in quiet : Reaped(record[j])}
<1>1. stalled \in SUBSET Jobs /\ Persist(stalled, record')
  BY DEF Reap, JobInv, TypeOK
<1>2. \A k \in Jobs : record'[k] =
        IF k \in stalled THEN [status |-> "FAILED", chunk |-> FailedChunks(record[k].chunk),
                               error |-> Because(record[k], "stalled")]
        ELSE record[k]
  BY DEF Reap
<1>3. record' = [k \in Jobs |-> record'[k]]
  BY DEF Reap
<1> HIDE DEF stalled
<1>4. \A k \in Jobs : /\ record'[k] \in JobStates
                      /\ k \in stalled => Says(record'[k]) /\ record'[k].status = "FAILED"
  <2> SUFFICES ASSUME NEW k \in Jobs
               PROVE  /\ record'[k] \in JobStates
                      /\ k \in stalled => Says(record'[k]) /\ record'[k].status = "FAILED"
    OBVIOUS
  <2>1. record[k] \in JobStates /\ record[k].chunk \in [Tables -> ChunkStates]
    BY OneJob
  <2>2. /\ FailedChunks(record[k].chunk) \in [Tables -> ChunkStates]
        /\ Because(record[k], "stalled") \in Reasons
        /\ Because(record[k], "stalled") # "none"
    BY <2>1, ChunkFacts, BecauseType DEF Because, Reasons
  <2>3. CASE k \in stalled
    <3>1. record'[k] = [status |-> "FAILED", chunk |-> FailedChunks(record[k].chunk),
                        error |-> Because(record[k], "stalled")]
      BY <1>2, <2>3
    <3> QED BY <2>2, <3>1 DEF JobStates, Final, Says
  <2>4. CASE k \notin stalled
    BY <1>2, <2>1, <2>4
  <2> QED BY <2>3, <2>4
<1> QED BY <1>1, <1>2, <1>3, <1>4

\* A snapshot read back says why it ended: an interrupted job is given the reason.
LEMMA ReconciledSays ==
  ASSUME NEW r \in JobStates, Says(r)
  PROVE  Says(Reconciled(r))
BY DEF Reconciled, Because, Says

\* What a restart leaves of each job.
LEMMA RestartWrites ==
  ASSUME JobInv, Restart
  PROVE  \A j \in Jobs : /\ record'[j] \in {NoJob, Reconciled(stored[j])}
                         /\ stored'[j] \in {NoJob, Reconciled(stored[j]), stored[j]}
BY DEF Restart, Recover, Kept, Back

\* Every ended job, in memory or in S3, says why it ended: no path to FAILED or CANCELLED
\* forgets the reason, and none is kept out of S3 by the signature that ignores it.
THEOREM EndedSaysWhyHolds == Spec => []EndedSaysWhy
<1> DEFINE Inv == \A j \in Jobs : Says(record[j]) /\ Says(stored[j])
<1>1. Init => Inv
  BY DEF Init, NoJob, Says
<1>2. JobInv /\ Inv /\ [Next]_vars => Inv'
  <2> SUFFICES ASSUME JobInv, Inv, [Next]_vars PROVE Inv'
    OBVIOUS
  <2>0. TypeOK
    BY DEF JobInv
  <2>1. CASE Reap
    <3>1. PICK stalled \in SUBSET Jobs :
            /\ Persist(stalled, record') /\ record' \in [Jobs -> JobStates]
            /\ \A k \in Jobs : IF k \in stalled THEN Says(record'[k])
                               ELSE record'[k] = record[k]
      BY <2>1, ReapWrites
    <3>2. \A k \in Jobs : stored'[k] = stored[k] \/ stored'[k] = record'[k]
      BY <2>0, <3>1, PersistFacts
    <3>3. \A k \in Jobs : Says(record'[k])
      BY <3>1
    <3> QED BY <3>2, <3>3 DEF Says
  <2>2. CASE Restart
    <3>1. \A j \in Jobs : Says(Reconciled(stored[j]))
      BY <2>0, ReconciledSays DEF TypeOK
    <3>2. Says(NoJob)
      BY DEF Says, NoJob
    <3>3. \A j \in Jobs : Says(record'[j]) /\ Says(stored'[j])
      BY <2>2, <3>1, <3>2, RestartWrites
    <3> QED BY <3>3 DEF Says
  <2>3. CASE \E j \in Jobs : JobStep(j)
    <3>1. PICK j \in Jobs : JobStep(j)
      BY <2>3
    <3>2. CASE UNCHANGED <<record, store>>
      BY <3>2 DEF store, Says
    <3>3. CASE ~UNCHANGED <<record, store>>
      <4>1. PICK r \in JobStates : Change(j, r) /\ (Says(record[j]) => Says(r))
        BY <3>1, <3>3, StepWrites
      <4>2. /\ record'[j] = r /\ \A k \in Jobs \ {j} : record'[k] = record[k]
            /\ \A k \in Jobs : stored'[k] = stored[k] \/ stored'[k] = record'[k]
        BY <2>0, <4>1, ChangeFacts
      <4>3. \A k \in Jobs : Says(record'[k]) /\ Says(stored'[k])
        BY <4>1, <4>2
      <4> QED BY <4>3 DEF Says
    <3> QED BY <3>2, <3>3
  <2>4. CASE UNCHANGED vars
    BY <2>4 DEF vars, Says
  <2> QED BY <2>1, <2>2, <2>3, <2>4 DEF Next
<1>3. Inv => EndedSaysWhy
  BY DEF EndedSaysWhy, Says
<1> QED BY <1>1, <1>2, <1>3, JobInvariant, PTL DEF Spec

\* A write without a lost call leaves S3 current for the jobs it was about, and touches no other.
LEMMA PersistKeepsCurrent ==
  ASSUME TypeOK, StoreInv, NEW js \in SUBSET Jobs, record' \in [Jobs -> JobStates],
         Persist(js, record'), \A k \in Jobs \ js : record'[k] = record[k],
         \A k \in js : record'[k].status # "NONE"
  PROVE  StoreInv'
<1> DEFINE Writes(tried, landed, answered) ==
        /\ \A j \in (js \cap Durable) \ tried : sig[j] = Sig(record'[j])
        /\ misses' = misses + Cardinality(tried \ answered) /\ misses' <= MaxMisses
        /\ stored' = [j \in Jobs |-> IF j \in landed THEN record'[j] ELSE stored[j]]
        /\ sig' = [j \in Jobs |-> IF j \in answered THEN Sig(record'[j]) ELSE sig[j]]
        /\ Stamped(landed)
<1>0. \E tried \in SUBSET (js \cap Durable) : \E landed \in SUBSET tried :
        \E answered \in SUBSET landed : Writes(tried, landed, answered)
  BY Zenon DEF Persist
<1>1. PICK tried \in SUBSET (js \cap Durable) : \E landed \in SUBSET tried :
        \E answered \in SUBSET landed : Writes(tried, landed, answered)
  BY <1>0
<1>a. PICK landed \in SUBSET tried : \E answered \in SUBSET landed :
        Writes(tried, landed, answered)
  BY <1>1
<1>b. PICK answered \in SUBSET landed : Writes(tried, landed, answered)
  BY <1>a
<1>2. IsFiniteSet(tried \ answered)
  BY FiniteAssumption, FS_Subset
<1>3. Cardinality(tried \ answered) \in Nat
  BY <1>2, FS_CardinalityType
<1>4. misses' \in Nat /\ (misses' = 0 => misses = 0 /\ Cardinality(tried \ answered) = 0)
  BY <1>b, <1>3 DEF StoreInv
<1>5. misses' = 0 => tried = answered /\ tried = landed
  <2>1. misses' = 0 => Cardinality(tried \ answered) = 0
    BY <1>4
  <2> HIDE DEF Writes
  <2>2. Cardinality(tried \ answered) = 0 => tried \ answered = {}
    BY <1>2, FS_EmptySet
  <2> QED BY <2>1, <2>2
<1>6. \A k \in Jobs : Blank(record'[k]) /\ Blank(stored'[k])
  <2>1. \A k \in Jobs : Blank(record'[k])
    BY DEF StoreInv, Blank
  <2> QED BY <1>b, <2>1 DEF StoreInv
<1>7. ASSUME misses' = 0, NEW k \in Durable
      PROVE  sig'[k] = Sig(record'[k]) /\ Sig(stored'[k]) = Sig(record'[k])
  <2>1. k \in Jobs /\ sig[k] = Sig(record[k]) /\ Sig(stored[k]) = Sig(record[k])
    BY <1>4, <1>7, DurableAssumption DEF StoreInv, Current
  <2>2. CASE k \in tried
    BY <1>b, <1>5, <1>7, <2>1, <2>2
  <2>3. CASE k \notin tried
    <3>1. sig[k] = Sig(record'[k])
      BY <1>b, <1>7, <2>1, <2>3
    <3> QED BY <1>b, <2>1, <2>3, <3>1
  <2> QED BY <2>2, <2>3
<1> QED BY <1>4, <1>6, <1>7 DEF StoreInv, Current, Blank, Sig

\* What start-up does when S3 answers every call: the jobs it lists come back reconciled, but
\* for the pruned ones, which were DONE.
LEMMA CompleteRestart ==
  ASSUME JobInv, StoreInv, Restart
  PROVE  /\ misses' \in Nat /\ (misses' = 0 => misses = 0)
         /\ misses' = 0 => \A j \in Jobs :
              \/ /\ stored[j].status = "NONE" /\ stored'[j] = stored[j]
                 /\ record'[j] = NoJob /\ sig'[j] = NoSig
              \/ /\ stored[j].status = "DONE" /\ stored'[j] = NoJob
                 /\ record'[j] = NoJob /\ sig'[j] = NoSig
              \/ /\ stored[j].status # "NONE"
                 /\ stored'[j] = Reconciled(stored[j]) /\ record'[j] = Reconciled(stored[j])
                 /\ sig'[j] = Sig(Reconciled(stored[j]))
<1>1. PICK known \in SUBSET Listed : \E landed \in SUBSET known :
        \E answered \in SUBSET landed : \E at \in RestoreStamps(landed) :
          \E gone \in SUBSET Excess(Kept(known, landed), at) :
            \E lost \in {gone, {}} : Recover(known, landed, answered, at, gone, lost)
  BY DEF Restart
<1>2. PICK landed \in SUBSET known : \E answered \in SUBSET landed :
        \E at \in RestoreStamps(landed) :
          \E gone \in SUBSET Excess(Kept(known, landed), at) :
            \E lost \in {gone, {}} : Recover(known, landed, answered, at, gone, lost)
  BY <1>1
<1>3. PICK answered \in SUBSET landed : \E at \in RestoreStamps(landed) :
        \E gone \in SUBSET Excess(Kept(known, landed), at) :
          \E lost \in {gone, {}} : Recover(known, landed, answered, at, gone, lost)
  BY <1>2
<1>4. PICK at \in RestoreStamps(landed) :
        \E gone \in SUBSET Excess(Kept(known, landed), at) :
          \E lost \in {gone, {}} : Recover(known, landed, answered, at, gone, lost)
  BY <1>3
<1>5. PICK gone \in SUBSET Excess(Kept(known, landed), at) :
        \E lost \in {gone, {}} : Recover(known, landed, answered, at, gone, lost)
  BY <1>4
<1>6. PICK lost \in {gone, {}} : Recover(known, landed, answered, at, gone, lost)
  BY <1>5
<1> DEFINE pruned == gone = Excess(Kept(known, landed), at)
<1>7. /\ misses' = misses + Cardinality(Listed \ answered) + (IF pruned THEN 0 ELSE 1)
      /\ pruned => lost = gone
      /\ stored' = [j \in Jobs |-> IF j \in gone THEN NoJob ELSE Kept(known, landed)[j]]
      /\ sig' = [j \in Jobs |-> IF j \in answered \ gone THEN Sig(Back(known)[j]) ELSE NoSig]
      /\ record' = [j \in Jobs |-> IF j \in lost THEN NoJob ELSE Back(known)[j]]
  BY <1>6 DEF Recover
<1>8. IsFiniteSet(Listed \ answered)
  BY FiniteAssumption, FS_Subset DEF Listed
<1>9. Cardinality(Listed \ answered) \in Nat
  BY <1>8, FS_CardinalityType
<1>10. (IF pruned THEN 0 ELSE 1) \in {0, 1} /\ ((IF pruned THEN 0 ELSE 1) = 0 => pruned)
  OBVIOUS
<1> HIDE DEF pruned
<1>11. /\ misses' \in Nat
       /\ misses' = 0 => misses = 0 /\ Cardinality(Listed \ answered) = 0 /\ pruned
  BY <1>7, <1>9, <1>10 DEF StoreInv
<1>12. misses' = 0 => known = Listed /\ landed = Listed /\ answered = Listed /\ lost = gone
  <2>1. misses' = 0 => Cardinality(Listed \ answered) = 0 /\ lost = gone
    BY <1>7, <1>11
  <2>2. Cardinality(Listed \ answered) = 0 => Listed \ answered = {}
    BY <1>8, FS_EmptySet
  <2> QED BY <2>1, <2>2
<1>13. \A j \in gone : j \in Jobs /\ Kept(known, landed)[j].status = "DONE"
  BY DEF Excess
<1>14. ASSUME misses' = 0, NEW j \in Jobs
       PROVE  \/ /\ stored[j].status = "NONE" /\ stored'[j] = stored[j]
                 /\ record'[j] = NoJob /\ sig'[j] = NoSig
              \/ /\ stored[j].status = "DONE" /\ stored'[j] = NoJob
                 /\ record'[j] = NoJob /\ sig'[j] = NoSig
              \/ /\ stored[j].status # "NONE"
                 /\ stored'[j] = Reconciled(stored[j]) /\ record'[j] = Reconciled(stored[j])
                 /\ sig'[j] = Sig(Reconciled(stored[j]))
  <2>1. CASE j \notin Listed
    <3>1. stored[j].status = "NONE"
      BY <2>1 DEF Listed
    <3>2. Kept(known, landed)[j] = stored[j] /\ Back(known)[j] = NoJob
      BY <1>12, <1>14, <2>1 DEF Kept, Back
    <3>3. j \notin gone
      BY <1>13, <3>1, <3>2
    <3> QED BY <1>7, <1>12, <1>14, <2>1, <3>1, <3>2, <3>3
  <2>2. CASE j \in Listed
    <3>1. Kept(known, landed)[j] = Reconciled(stored[j])
      BY <1>12, <1>14, <2>2 DEF Kept, Back
    <3>2. Back(known)[j] = Reconciled(stored[j])
      BY <1>12, <1>14, <2>2 DEF Back
    <3>3. stored[j].status # "NONE"
      BY <2>2 DEF Listed
    <3>4. j \in gone => stored[j].status = "DONE"
      <4>1. Reconciled(stored[j]).status = "DONE" => stored[j].status = "DONE"
        BY DEF Reconciled
      <4> QED BY <1>13, <3>1, <4>1
    <3> QED BY <1>7, <1>12, <1>14, <2>2, <3>1, <3>2, <3>3, <3>4
  <2> QED BY <2>1, <2>2
<1> QED BY <1>11, <1>14

\* A restart that S3 answers leaves it current.
LEMMA RestartKeepsCurrent ==
  ASSUME JobInv, StoreInv, Restart
  PROVE  StoreInv'
<1>1. misses' \in Nat
  BY CompleteRestart
<1>2. \A j \in Jobs : Blank(Reconciled(stored[j]))
  BY DEF StoreInv, Blank, Reconciled
<1>3. \A j \in Jobs : Blank(record'[j]) /\ Blank(stored'[j])
  <2>1. Blank(NoJob)
    BY DEF Blank, NoJob
  <2> QED BY <1>2, <2>1, RestartWrites DEF StoreInv
<1>4. ASSUME misses' = 0, NEW j \in Durable
      PROVE  sig'[j] = Sig(record'[j]) /\ Sig(stored'[j]) = Sig(record'[j])
  <2>1. j \in Jobs /\ Blank(stored[j])
    BY DurableAssumption DEF StoreInv
  <2>2. NoSig = Sig(NoJob) /\ (stored[j].status = "NONE" => Sig(stored[j]) = NoSig)
    BY <2>1 DEF NoSig, NoJob, Sig, Blank
  <2> QED BY <1>4, <2>1, <2>2, CompleteRestart
<1> QED BY <1>1, <1>3, <1>4 DEF StoreInv, Current, Blank, Sig

\* While no call to S3 was lost, its snapshots have the status and the chunks of every durable
\* job: the throttle of the store withholds a write only when nothing of them changed.
THEOREM StoreIsCurrent == Spec => []StoreInv
<1>1. Init => StoreInv
  BY DurableAssumption DEF Init, StoreInv, Current, Blank, Sig, NoJob, NoSig
<1>2. JobInv /\ StoreInv /\ [Next]_vars => StoreInv'
  <2> SUFFICES ASSUME JobInv, StoreInv, [Next]_vars PROVE StoreInv'
    OBVIOUS
  <2>0. TypeOK
    BY DEF JobInv
  <2>1. CASE Reap
    BY <2>0, <2>1, ReapWrites, PersistKeepsCurrent
  <2>2. CASE Restart
    BY <2>2, RestartKeepsCurrent
  <2>3. CASE \E j \in Jobs : JobStep(j)
    <3>1. PICK j \in Jobs : JobStep(j)
      BY <2>3
    <3>2. CASE UNCHANGED <<record, store>>
      BY <3>2 DEF store, StoreInv, Current, Blank, Sig
    <3>3. CASE ~UNCHANGED <<record, store>>
      <4>1. PICK r \in JobStates : Change(j, r) /\ r.status # "NONE"
        BY <3>1, <3>3, StepWrites
      <4>2. /\ record'[j] = r /\ \A k \in Jobs \ {j} : record'[k] = record[k]
            /\ record' \in [Jobs -> JobStates]
        BY <2>0, <4>1, ChangeFacts
      <4>3. Persist({j}, record')
        BY <4>1 DEF Change
      <4> QED BY <2>0, <4>1, <4>2, <4>3, PersistKeepsCurrent
    <3> QED BY <3>2, <3>3
  <2>4. CASE UNCHANGED vars
    BY <2>4 DEF vars, StoreInv, Current, Blank, Sig
  <2> QED BY <2>1, <2>2, <2>3, <2>4 DEF Next
<1> QED BY <1>1, <1>2, JobInvariant, PTL DEF Spec

\* A restart loses no outcome and no loaded table of a durable job, as long as S3 took every
\* write: whatever the store withheld, the jobs come back with what a retry needs.
THEOREM RestartKeepsWorkHolds == Spec => RestartKeepsWork
<1> DEFINE KeepsWork(j) ==
      \/ record'[j] = NoJob /\ record[j].status \in {"NONE", "DONE"}
      \/ /\ record[j].status \in Final => record'[j].status = record[j].status
         /\ \A t \in Tables : record[j].chunk[t] = "DONE" <=> record'[j].chunk[t] = "DONE"
<1>1. ASSUME JobInv, StoreInv, [Next]_vars, restarts \in Nat, restarts' # restarts,
             misses' = 0, NEW j \in Durable
      PROVE  KeepsWork(j)
  <2>1. Restart
    BY <1>1, JobStepsDoNotRestart DEF Next, Reap, vars
  <2>2. /\ j \in Jobs /\ Sig(stored[j]) = Sig(record[j])
        /\ stored[j] \in JobStates /\ stored[j].chunk \in [Tables -> ChunkStates]
    BY <1>1, <2>1, CompleteRestart, DurableAssumption
       DEF StoreInv, Current, JobInv, TypeOK, JobStates
  <2>3. record[j].status = stored[j].status /\ record[j].chunk = stored[j].chunk
    BY <2>2 DEF Sig
  <2>4. CASE record'[j] = NoJob /\ stored[j].status \in {"NONE", "DONE"}
    BY <2>3, <2>4
  <2>5. CASE record'[j] = Reconciled(stored[j])
    <3>1. CASE Interrupted(stored[j])
      <4>1. /\ record'[j].chunk = FailedChunks(stored[j].chunk)
            /\ stored[j].status \notin Final
        BY <2>5, <3>1 DEF Reconciled, Interrupted, Active, Final
      <4>2. \A t \in Tables : FailedChunks(stored[j].chunk)[t] = "DONE"
                                <=> stored[j].chunk[t] = "DONE"
        BY <2>2, ChunkFacts
      <4> QED BY <2>3, <4>1, <4>2
    <3>2. CASE ~Interrupted(stored[j])
      BY <2>3, <2>5, <3>2 DEF Reconciled
    <3> QED BY <3>1, <3>2
  <2> QED BY <1>1, <2>1, <2>2, <2>4, <2>5, CompleteRestart
<1>2. JobInv /\ StoreInv /\ restarts \in Nat /\ [Next]_vars =>
        [restarts' # restarts /\ misses' = 0 => \A j \in Durable :
           LET r == record[j] IN
             \/ record'[j] = NoJob /\ r.status \in {"NONE", "DONE"}
             \/ /\ r.status \in Final => record'[j].status = r.status
                /\ \A t \in Tables : r.chunk[t] = "DONE" <=> record'[j].chunk[t] = "DONE"]_vars
  BY <1>1
<1> QED BY <1>2, JobInvariant, StoreIsCurrent, RestartsAreCounted, PTL
        DEF Spec, RestartKeepsWork
=============================================================================
