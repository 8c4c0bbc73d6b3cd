----------------------------- MODULE PgHandoff -----------------------------
(***************************************************************************)
(* Full load + CDC from a PostgreSQL source: the publication and the       *)
(* replication slot a Full Load provisions, the copies made under its      *)
(* watermark, the tables added to CDC's capture afterwards, and Start CDC, *)
(* which continues from the slot instead of taking a snapshot              *)
(* (snapshot.mode=never).  The names of both objects derive from the CDC   *)
(* stack name alone, so the migrations below -- each with its own session, *)
(* its own job and its own stack -- share them when they share that name.  *)
(*                                                                         *)
(* The source is reduced to its transactions.  A change is published iff   *)
(* its table was a member of the publication when it was written; the slot *)
(* decodes the transactions that commit after its position.  A transaction *)
(* is open from its first write (it then has a transaction ID).            *)
(***************************************************************************)
EXTENDS Naturals, FiniteSets

CONSTANTS
  Migrations,  \* sessions of the tool whose stacks have one name
  Tables,      \* source tables
  Txns,        \* source transactions
  Picked,      \* [Migrations -> SUBSET Tables]: the tables a Full Load loads
  Later,       \* [Migrations -> SUBSET Tables]: those that may be added to its capture
  MaxWal,      \* bound: the last WAL position
  MaxWrites,   \* bound: the changes of a transaction
  MaxRuns,     \* bound: the Full Loads and Starts of all migrations together
  None         \* no watermark, no copy, no user of the slot

ASSUME PgAssumption ==
  /\ None \notin Nat \cup Migrations
  /\ MaxWal \in Nat /\ MaxWrites \in Nat /\ MaxRuns \in Nat
  /\ Picked \in [Migrations -> SUBSET Tables]
  /\ Later \in [Migrations -> SUBSET Tables]

VARIABLES
  runs,       \* how many there have been
  now,        \* the source's WAL position: commits and slot creations advance it
  txn,        \* [Txns -> {"new", "open", "committed", "aborted"}]
  at,         \* [Txns -> Nat]: where a transaction committed, 0 before
  writes,     \* [Txns -> SUBSET Change]
  pub,        \* the publication exists
  members,    \* its tables
  slot,       \* "absent", "creating" or "ready"
  slotAt,     \* the slot's confirmed position
  user,       \* who keeps the slot active: the creating session or a connector
  step,       \* [Migrations -> Steps]: where the running Full Load or retry is
  made,       \* this run's provisioning created the publication
  stale,      \* it found a slot of an earlier run
  awaited,    \* [Migrations -> SUBSET Txns]: the transactions it waits out
  adding,     \* the table a retry adds to the capture
  mark,       \* [Migrations -> Nat or None]: the watermark's LSN, with its slot recorded
  covered,    \* [Migrations -> SUBSET Tables]: what the watermark lets CDC capture
  copy,       \* [Migrations -> [Tables -> Nat or None]]: the snapshot a table was read at
  submitted,  \* a Start CDC was submitted (the operations window, never cleared)
  captured,   \* the tables the connectors were started with
  stack,      \* [Migrations -> Stacks]
  started,    \* the stack records a Start of its connectors, stopped or rolled back
  from,       \* [Migrations -> Nat or None]: where its first stream began
  unguarded   \* history: no check saw what it relies on: the source could not be read (the log
              \* says so), or another run took it where no check looks

source == <<runs, now, txn, at, writes>>
objects == <<pub, members, slot, slotAt, user>>
load == <<step, made, stale, awaited, adding, mark, covered, copy>>
stream == <<submitted, captured, stack, started, from>>
vars == <<source, objects, load, stream, unguarded>>

Provisioning == {"drop", "create", "creating"}
Additions == {"joined", "waiting", "adding", "covering"}
Steps == {"idle", "publish"} \cup Provisioning \cup Additions
Stacks == {"new", "starting", "gated", "running", "stopped", "deleting"}
Change == [table : Tables, published : BOOLEAN]
Position == Nat \cup {None}

Open == {t \in Txns : txn[t] = "open"}
EndedOrNot(T) == TRUE  \* mutant: nothing is waited for
Ended(T) == T \cap Open = {}

Init ==
  /\ runs = 0
  /\ now = 0
  /\ txn = [t \in Txns |-> "new"]
  /\ at = [t \in Txns |-> 0]
  /\ writes = [t \in Txns |-> {}]
  /\ pub = FALSE /\ members = {}
  /\ slot = "absent" /\ slotAt = 0 /\ user = None
  /\ step = [m \in Migrations |-> "idle"]
  /\ made = [m \in Migrations |-> FALSE]
  /\ stale = [m \in Migrations |-> FALSE]
  /\ awaited = [m \in Migrations |-> {}]
  /\ adding = [m \in Migrations |-> {}]
  /\ mark = [m \in Migrations |-> None]
  /\ covered = [m \in Migrations |-> {}]
  /\ copy = [m \in Migrations |-> [tb \in Tables |-> None]]
  /\ submitted = [m \in Migrations |-> FALSE]
  /\ captured = [m \in Migrations |-> {}]
  /\ stack = [m \in Migrations |-> "new"]
  /\ started = [m \in Migrations |-> FALSE]
  /\ from = [m \in Migrations |-> None]
  /\ unguarded = [m \in Migrations |-> FALSE]

-----------------------------------------------------------------------------
(* The source's own transactions. *)

Write(t, tb) ==
  /\ txn[t] \in {"new", "open"} /\ Cardinality(writes[t]) < MaxWrites
  /\ txn' = [txn EXCEPT ![t] = "open"]
  /\ writes' = [writes EXCEPT ![t] =
       @ \cup {[table |-> tb, published |-> pub /\ tb \in members]}]
  /\ UNCHANGED <<runs, now, at, objects, load, stream, unguarded>>

Commit(t) ==
  /\ txn[t] = "open" /\ now < MaxWal
  /\ txn' = [txn EXCEPT ![t] = "committed"]
  /\ now' = now + 1
  /\ at' = [at EXCEPT ![t] = now + 1]
  /\ UNCHANGED <<runs, writes, objects, load, stream, unguarded>>

Abort(t) ==
  /\ txn[t] = "open"
  /\ txn' = [txn EXCEPT ![t] = "aborted"]
  /\ UNCHANGED <<runs, now, at, writes, objects, load, stream, unguarded>>

-----------------------------------------------------------------------------
(* What one migration does to the objects the others rely on.  A Start that *)
(* has passed its checks, and a stack that was started, look at the slot's  *)
(* position no more; a publication dropped and created again between a      *)
(* run's own steps leaves no trace: the documented rule is one stack name   *)
(* per migration, and `unguarded' says where the code depends on it.          *)

PastChecks(m) == stack[m] = "gated" \/ started[m]

Unguards(M) == unguarded' = [n \in Migrations |-> unguarded[n] \/ n \in M]
SlotMovedBy(m) == Unguards({n \in Migrations \ {m} : PastChecks(n)})

Goes(m, s) == step' = [step EXCEPT ![m] = s]

Finishes(m) ==
  /\ Goes(m, "idle")
  /\ made' = [made EXCEPT ![m] = FALSE]
  /\ stale' = [stale EXCEPT ![m] = FALSE]
  /\ awaited' = [awaited EXCEPT ![m] = {}]
  /\ adding' = [adding EXCEPT ![m] = {}]

-----------------------------------------------------------------------------
(* A Full Load that takes a new start point: provision, then load. *)

\* Refused on a stack that has streamed or while a CDC operation runs.  The new job has no
\* watermark.  A slot in use is somebody else's: the run ends before its first write.
StartFullLoad(m) ==
  /\ step[m] = "idle" /\ stack[m] = "new"
  /\ Goes(m, IF user = None THEN "publish" ELSE "idle")
  /\ stale' = [stale EXCEPT ![m] = user = None /\ slot = "ready"]
  /\ mark' = [mark EXCEPT ![m] = None]
  /\ covered' = [covered EXCEPT ![m] = {}]
  /\ copy' = [copy EXCEPT ![m] = [tb \in Tables |-> None]]
  /\ unguarded' = [unguarded EXCEPT ![m] = FALSE]
  /\ runs < MaxRuns /\ runs' = runs + 1
  /\ UNCHANGED <<now, txn, at, writes, objects, made, awaited, adding, stream>>

\* Create the publication, or add to the existing one what this run loads and it lacks.
Publish(m) ==
  /\ step[m] = "publish"
  /\ pub' = TRUE
  /\ members' = IF pub THEN members \cup Picked[m] ELSE Picked[m]
  /\ made' = [made EXCEPT ![m] = ~pub]
  /\ Goes(m, "drop")
  /\ UNCHANGED <<source, slot, slotAt, user, stale, awaited, adding, mark, covered, copy,
                 stream, unguarded>>

\* Mutant: a slot in use is dropped as well.
DropInUse(m) ==
  /\ step[m] = "drop"
  /\ slot' = "absent" /\ slotAt' = 0
  /\ SlotMovedBy(m)
  /\ Goes(m, "create")
  /\ UNCHANGED <<source, pub, members, user, made, stale, awaited, adding, mark, covered,
                 copy, stream>>

\* PostgreSQL refuses to drop an active slot (then only ProvisionFails is left).
DropStale(m) ==
  /\ step[m] = "drop"
  /\ IF stale[m] /\ slot # "absent"
     THEN user = None /\ slot' = "absent" /\ slotAt' = 0 /\ SlotMovedBy(m)
     ELSE UNCHANGED <<slot, slotAt, unguarded>>
  /\ Goes(m, "create")
  /\ UNCHANGED <<source, pub, members, user, made, stale, awaited, adding, mark, covered,
                 copy, stream>>

CreateSlot(m) ==
  /\ step[m] = "create" /\ slot = "absent"
  /\ slot' = "creating" /\ user' = m
  /\ awaited' = [awaited EXCEPT ![m] = Open]
  /\ Goes(m, "creating")
  /\ UNCHANGED <<source, pub, members, slotAt, made, stale, adding, mark, covered, copy,
                 stream, unguarded>>

\* The slot is consistent once the transactions open at its creation have ended.  The
\* process may end before the watermark that names it is on the job's record.
SlotReady(m) ==
  /\ step[m] = "creating" /\ Ended(awaited[m]) /\ now < MaxWal
  /\ now' = now + 1
  /\ slot' = "ready" /\ slotAt' = now + 1 /\ user' = None
  /\ SlotMovedBy(m)
  /\ \/ /\ mark' = [mark EXCEPT ![m] = now + 1]
        /\ covered' = [covered EXCEPT ![m] = Picked[m]]
     \/ UNCHANGED <<mark, covered>>
  /\ Finishes(m)
  /\ UNCHANGED <<runs, txn, at, writes, pub, members, copy, stream>>

\* An error while provisioning: the publication this call created is dropped again, unless
\* that drop fails as well or the process ends.  A slot in creation goes with its session.
ProvisionFails(m) ==
  /\ step[m] \in Provisioning \cup {"publish"}
  /\ Finishes(m)
  /\ IF step[m] = "creating"
     THEN slot' = "absent" /\ user' = None
     ELSE UNCHANGED <<slot, user>>
  /\ \/ /\ made[m] /\ step[m] # "publish"
        /\ pub' = FALSE /\ members' = {}
        /\ Unguards({n \in Migrations \ {m} :
             \/ mark[n] # None \/ step[n] \in Provisioning
             \/ step[m] = "creating" /\ PastChecks(n)})
     \/ /\ UNCHANGED <<pub, members>>
        /\ IF step[m] = "creating" THEN SlotMovedBy(m) ELSE UNCHANGED unguarded
  /\ UNCHANGED <<source, slotAt, mark, covered, copy, stream>>

\* A table of the load or of a retry: every reader's snapshot opens after the watermark was
\* captured, and none while CDC streams or a CDC operation runs (cdc_load_hold).
CopyTable(m, tb) ==
  /\ step[m] = "idle" /\ stack[m] \in {"new", "stopped"}
  /\ tb \in covered[m]
  /\ copy' = [copy EXCEPT ![m][tb] = now]
  /\ UNCHANGED <<source, objects, step, made, stale, awaited, adding, mark, covered, stream,
                 unguarded>>

-----------------------------------------------------------------------------
(* A table selected after the load joins the capture under its watermark. *)

CoverageOpen(m) == ~submitted[m]

JoinPublication(m, tb) ==
  /\ step[m] = "idle" /\ mark[m] # None /\ stack[m] \in {"new", "stopped"}
  /\ tb \in Later[m] \ covered[m] /\ CoverageOpen(m)
  /\ pub /\ slot # "absent"
  /\ members' = members \cup {tb}
  /\ adding' = [adding EXCEPT ![m] = {tb}]
  /\ Goes(m, "joined")
  /\ UNCHANGED <<source, pub, slot, slotAt, user, made, stale, awaited, mark, covered, copy,
                 stream, unguarded>>

\* The transaction ID taken after the table joined: what is open now has a lower one.
TakeXid(m) ==
  /\ step[m] = "joined"
  /\ awaited' = [awaited EXCEPT ![m] = Open]
  /\ Goes(m, "waiting")
  /\ UNCHANGED <<source, objects, made, stale, adding, mark, covered, copy, stream, unguarded>>

TransactionsEnded(m) ==
  /\ step[m] = "waiting" /\ Ended(awaited[m])
  /\ Goes(m, "adding")
  /\ UNCHANGED <<source, objects, made, stale, awaited, adding, mark, covered, copy, stream,
                 unguarded>>

CopyAddition(m) ==
  /\ step[m] = "adding"
  /\ copy' = [copy EXCEPT ![m] =
       [tb \in Tables |-> IF tb \in adding[m] THEN now ELSE copy[m][tb]]]
  /\ Goes(m, "covering")
  /\ UNCHANGED <<source, objects, made, stale, awaited, adding, mark, covered, stream,
                 unguarded>>

ExtendCoverage(m) ==
  /\ step[m] = "covering"
  /\ covered' = IF CoverageOpen(m) THEN [covered EXCEPT ![m] = @ \cup adding[m]]
                                   ELSE covered
  /\ Finishes(m)
  /\ UNCHANGED <<source, objects, mark, copy, stream, unguarded>>

\* The copy of the addition failed, a wait timed out or was stopped, or the process ended:
\* a table that joined the publication stays in it.
AdditionFails(m) ==
  /\ step[m] \in Additions
  /\ Finishes(m)
  /\ UNCHANGED <<source, objects, mark, covered, copy, stream, unguarded>>

-----------------------------------------------------------------------------
(* Start CDC from the slot, Stop CDC and Delete CDC infrastructure. *)

Becomes(m, s) == stack' = [stack EXCEPT ![m] = s]
Rests(m) ==
  IF started[m] THEN Becomes(m, "stopped") /\ UNCHANGED captured
                ELSE Becomes(m, "new") /\ captured' = [captured EXCEPT ![m] = {}]

SubmitStart(m) ==
  /\ step[m] = "idle" /\ mark[m] # None /\ stack[m] \in {"new", "stopped"}
  /\ submitted' = [submitted EXCEPT ![m] = TRUE]
  /\ captured' = [captured EXCEPT ![m] = covered[m]]
  /\ Becomes(m, "starting")
  /\ runs < MaxRuns /\ runs' = runs + 1
  /\ UNCHANGED <<now, txn, at, writes, objects, load, started, from, unguarded>>

\* Mutant: the slot need only exist.
MayStartAnywhere(m) == pub /\ captured[m] \subseteq members /\ slot # "absent"

\* The position counts on the stack's first Start only, and where the slot has one.
MayStart(m) ==
  /\ pub /\ captured[m] \subseteq members
  /\ slot # "absent"
  /\ started[m] \/ slot = "creating" \/ slotAt = mark[m]

CheckStart(m) ==
  /\ stack[m] = "starting"
  /\ \/ MayStart(m) /\ Becomes(m, "gated") /\ UNCHANGED <<captured, unguarded>>
     \/ ~MayStart(m) /\ Rests(m) /\ UNCHANGED unguarded
     \* the source could not be read: the Start goes ahead, and the log says so
     \/ /\ Becomes(m, "gated") /\ UNCHANGED captured
        /\ unguarded' = [unguarded EXCEPT ![m] = TRUE]
  /\ UNCHANGED <<source, objects, load, submitted, started, from>>

\* The connector streams from the slot, or creates one at the current position if it is gone.
\* Without its publication it dies (StartFails).
Attach(m) ==
  /\ stack[m] = "gated" /\ pub /\ user = None
  /\ \/ slot = "ready" /\ UNCHANGED <<now, slot, slotAt>>
     \/ /\ slot = "absent" /\ now < MaxWal
        /\ now' = now + 1 /\ slot' = "ready" /\ slotAt' = now + 1
  /\ user' = m
  /\ from' = [from EXCEPT ![m] = IF @ = None THEN slotAt' ELSE @]
  /\ started' = [started EXCEPT ![m] = TRUE]
  /\ Becomes(m, "running")
  /\ SlotMovedBy(m)
  /\ UNCHANGED <<runs, txn, at, writes, pub, members, load, submitted, captured>>

\* Before the stack was updated, or rolled back by CloudFormation: that counts as a Start.
StartFails(m) ==
  /\ stack[m] = "gated"
  /\ \/ Rests(m) /\ UNCHANGED started
     \/ /\ Becomes(m, "stopped") /\ UNCHANGED captured
        /\ started' = [started EXCEPT ![m] = TRUE]
  /\ UNCHANGED <<source, objects, load, submitted, from, unguarded>>

Stream(m) ==
  /\ stack[m] = "running" /\ slotAt < now
  /\ slotAt' = slotAt + 1
  /\ SlotMovedBy(m)
  /\ UNCHANGED <<source, pub, members, slot, user, load, stream>>

Stop(m) ==
  /\ stack[m] = "running"
  /\ Becomes(m, "stopped") /\ user' = None
  /\ UNCHANGED <<source, pub, members, slot, slotAt, load, submitted, captured, started,
                 from, unguarded>>

\* The stack and its connectors go first, then the slot and the publication.
Delete(m) ==
  /\ stack[m] \in {"new", "stopped", "running"}
  /\ Becomes(m, "deleting")
  /\ user' = IF stack[m] = "running" THEN None ELSE user
  /\ started' = [started EXCEPT ![m] = FALSE]
  /\ from' = [from EXCEPT ![m] = None]
  /\ captured' = [captured EXCEPT ![m] = {}]
  /\ UNCHANGED <<source, pub, members, slot, slotAt, load, submitted, unguarded>>

\* Best effort: an active slot, or a source that cannot be reached, keeps both.
Deprovision(m) ==
  /\ stack[m] = "deleting"
  /\ Becomes(m, "new")
  /\ \/ UNCHANGED <<pub, members, slot, slotAt, unguarded>>
     \/ /\ user = None
        /\ slot' = "absent" /\ slotAt' = 0
        /\ \/ UNCHANGED <<pub, members>>
              /\ IF slot = "absent" THEN UNCHANGED unguarded ELSE SlotMovedBy(m)
           \/ /\ pub' = FALSE /\ members' = {}
              /\ Unguards({n \in Migrations :
                   step[n] \in Provisioning \/ (n # m /\ PastChecks(n))})
  /\ UNCHANGED <<source, user, load, submitted, captured, started, from>>

-----------------------------------------------------------------------------
SourceNext == \E t \in Txns : Commit(t) \/ Abort(t) \/ \E tb \in Tables : Write(t, tb)

LoadNext(m) ==
  \/ StartFullLoad(m) \/ Publish(m) \/ DropStale(m) \/ CreateSlot(m) \/ SlotReady(m)
  \/ ProvisionFails(m) \/ TakeXid(m) \/ TransactionsEnded(m)
  \/ CopyAddition(m) \/ ExtendCoverage(m) \/ AdditionFails(m)
  \/ \E tb \in Tables : CopyTable(m, tb) \/ JoinPublication(m, tb)

StreamNext(m) ==
  \/ SubmitStart(m) \/ CheckStart(m) \/ Attach(m) \/ StartFails(m)
  \/ Stream(m) \/ Stop(m) \/ Delete(m) \/ Deprovision(m)

Next == SourceNext \/ \E m \in Migrations : LoadNext(m) \/ StreamNext(m)

Spec == Init /\ [][Next]_vars

-----------------------------------------------------------------------------
Types ==
  /\ now \in Nat
  /\ txn \in [Txns -> {"new", "open", "committed", "aborted"}]
  /\ at \in [Txns -> Nat] /\ writes \in [Txns -> SUBSET Change]
  /\ pub \in BOOLEAN /\ members \in SUBSET Tables
  /\ slot \in {"absent", "creating", "ready"} /\ slotAt \in Nat
  /\ user \in Migrations \cup {None}
  /\ step \in [Migrations -> Steps]
  /\ made \in [Migrations -> BOOLEAN] /\ stale \in [Migrations -> BOOLEAN]
  /\ awaited \in [Migrations -> SUBSET Txns] /\ adding \in [Migrations -> SUBSET Tables]
  /\ mark \in [Migrations -> Position] /\ covered \in [Migrations -> SUBSET Tables]
  /\ copy \in [Migrations -> [Tables -> Position]]
  /\ submitted \in [Migrations -> BOOLEAN] /\ captured \in [Migrations -> SUBSET Tables]
  /\ stack \in [Migrations -> Stacks] /\ started \in [Migrations -> BOOLEAN]
  /\ from \in [Migrations -> Position]
  /\ unguarded \in [Migrations -> BOOLEAN]

SlotHasOneUser ==
  \A m \in Migrations :
    /\ step[m] = "creating" => slot = "creating" /\ user = m
    /\ stack[m] = "running" => slot = "ready" /\ user = m

\* The shape of the state, and who may hold the slot: the one run that creates it, or the one
\* stack whose connector streams from it.
TypeOK == Types /\ SlotHasOneUser

\* Every committed change of a table CDC captures is in that table's copy or in what the
\* stream decodes, published and past the position it began at -- whatever was open when,
\* however often a step failed or was repeated, and whoever shares the objects' names --
\* unless the log says the checks did not run.  (capture_watermark, guard_cdc_additions and
\* pg_replication_objects_blocker each promise their part of it.)
NoGap ==
  \A m \in Migrations : from[m] # None /\ ~unguarded[m] =>
    \A t \in Txns : txn[t] = "committed" =>
      \A w \in writes[t] : w.table \in captured[m] /\ copy[m][w.table] # None =>
        at[t] <= copy[m][w.table] \/ (w.published /\ at[t] > from[m])
=============================================================================
