--------------------------- MODULE SinkTransaction ---------------------------
(***************************************************************************)
(* The transactions of one put of the sink task on its cached JDBC         *)
(* connection: the attempts of a unit (a chunk, one row of it, or a        *)
(* catalog read), the in-process retry, the rollback after an error, the   *)
(* classification of errors, and the redelivery of the batch by Connect.   *)
(* Which row goes first, holds and dead letters are DsqlSinkTask's part.   *)
(***************************************************************************)
EXTENDS Integers

CONSTANTS
  Rows,         \* the rows of the batch
  Poison,       \* those that Aurora DSQL rejects, each for a reason of its own
  Refused,      \* those of them refused by the client before they are sent
  Catalog,      \* a read of the target's catalog
  Units,        \* the transactions the put begins with: sets of rows, or a read alone
  MaxRetries,   \* config.maxRetries: attempts of one transaction
  MaxFailures   \* bound: failures of the connection and of Aurora DSQL

ASSUME RowsAssumption ==
  Poison \subseteq Rows /\ Refused \subseteq Poison /\ Catalog \notin Rows
ASSUME UnitsAssumption ==
  /\ \A u \in Units : u # {} /\ (u \subseteq Rows \/ u = {Catalog})
  /\ (UNION Units) \ {Catalog} = Rows
ASSUME RetriesAssumption == MaxRetries \in Nat \ {0}

VARIABLES
  step,      \* where the task thread is
  units,     \* the transactions still to run after the current one
  unit,      \* the current one
  done,      \* statements of it executed in this attempt
  attempt,   \* OccRetry's count of failed attempts
  err,       \* the error caught
  conn,      \* the cached connection and the server's session behind it
  landed, rejected, failures

thread == <<step, units, unit, done, attempt, err>>
vars == <<step, units, unit, done, attempt, err, conn, landed, rejected, failures>>

Steps == {"begin", "run", "retry", "failed", "thrown", "returned"}
\* 40001; XX000; SQLSTATE class 08; class 57 or none; a failure to open the connection; 25P02;
\* any other.
Errors == {"occ", "unavailable", "link", "shutdown", "connect", "aborted", "rejected"}

\* link: up; lost (half-open, the driver does not know); closed (it does).
\* txn, sent: the session's transaction and the statements it holds.
NoConn == [link |-> "none", txn |-> "idle", sent |-> {}]
Fresh == [link |-> "up", txn |-> "idle", sent |-> {}]
Connections == [link : {"none", "up", "lost", "closed"}, txn : {"idle", "open", "aborted"},
                sent : SUBSET (Rows \cup {Catalog})]

Init ==
  /\ step = "begin" /\ unit \in Units /\ units = Units \ {unit}
  /\ done = {} /\ attempt = 0 /\ err = "occ" /\ conn = NoConn
  /\ landed = {} /\ rejected = {} /\ failures = 0

\* Something outside the task fails.
Failing == failures < MaxFailures /\ failures' = failures + 1
Working == UNCHANGED failures

-----------------------------------------------------------------------------
(* Errors. *)

RetriesInProcess(e) == e \in {"occ", "unavailable"}

\* Mutants of IsTransient: class 08 only; anything.
IsTransientBy08(e) == e \in {"occ", "unavailable", "link", "connect"}
IsTransientAlways(e) == TRUE
IsTransient(e) == e \in {"occ", "unavailable", "link", "shutdown", "connect"}

\* OccRetry.withRetry catches e.
Caught(e) ==
  /\ err' = e
  /\ attempt' = attempt + 1
  /\ step' = IF RetriesInProcess(e) /\ attempt + 1 < MaxRetries THEN "retry" ELSE "failed"

\* connection.rollback() of an open connection: it sends nothing when no transaction is open;
\* when it fails the connection is dropped.
RolledBack(c) ==
  IF c.link \in {"none", "closed"} THEN {c}
  ELSE IF c.link = "lost" THEN {c, NoConn}
  ELSE {[c EXCEPT !.txn = "idle", !.sent = {}]} \cup (IF c.txn = "idle" THEN {} ELSE {NoConn})

\* A rollback that an open session does not take is a failure of Aurora DSQL.
Rollback(after) ==
  /\ after \in RolledBack(conn)
  /\ IF conn.link = "up" /\ after # [conn EXCEPT !.txn = "idle", !.sent = {}]
     THEN Failing ELSE Working

-----------------------------------------------------------------------------
(* One attempt. *)

\* connection(): isValid passes in an aborted transaction, and can pass on a half-open socket.
Reuse ==
  /\ step = "begin" /\ conn.link \in {"up", "lost"}
  /\ step' = "run" /\ done' = {}
  /\ UNCHANGED <<units, unit, attempt, err, conn, landed, rejected, failures>>

Open ==
  /\ step = "begin" /\ conn.link # "up"
  /\ conn' = Fresh
  /\ step' = "run" /\ done' = {}
  /\ UNCHANGED <<units, unit, attempt, err, landed, rejected, failures>>

\* No token, refused, too many connections: transient whatever the SQLSTATE, which it keeps.
OpenFails ==
  /\ step = "begin" /\ conn.link # "up" /\ Failing
  /\ \E e \in {"connect", "unavailable"} : Caught(e)
  /\ UNCHANGED <<units, unit, done, conn, landed, rejected>>

\* The session is gone under a statement or a commit.
LinkFails ==
  /\ step = "run" /\ conn.link # "up" /\ Working
  /\ \E e \in {"link", "shutdown"} : Caught(e)
  /\ conn' \in {[conn EXCEPT !.link = l] : l \in {"lost", "closed"}}
  /\ UNCHANGED <<units, unit, done, landed, rejected>>

Execute(r) ==
  /\ step = "run" /\ conn.link = "up" /\ r \in unit \ done
  /\ conn.txn # "aborted" /\ r \notin Poison
  /\ conn' = [conn EXCEPT !.txn = "open", !.sent = @ \cup {r}]
  /\ done' = done \cup {r}
  /\ UNCHANGED <<step, units, unit, attempt, err, landed, rejected, failures>>

\* Aurora DSQL rejects the row, which aborts the transaction; or the client refuses it, which
\* leaves the transaction as it is; or an earlier error had aborted the transaction (25P02).
RowFails(r) ==
  /\ step = "run" /\ conn.link = "up" /\ r \in unit \ done /\ Working
  /\ r \in Poison \/ conn.txn = "aborted"
  /\ conn' = IF r \in Refused THEN conn ELSE [conn EXCEPT !.txn = "aborted", !.sent = {}]
  /\ Caught(IF r \notin Refused /\ conn.txn = "aborted" THEN "aborted" ELSE "rejected")
  /\ UNCHANGED <<units, unit, done, landed, rejected>>

\* The session may not read the catalog.
ReadFails ==
  /\ step = "run" /\ conn.link = "up" /\ conn.txn # "aborted" /\ unit = {Catalog}
  /\ done = {} /\ Failing
  /\ conn' = [conn EXCEPT !.txn = "aborted", !.sent = {}]
  /\ Caught("rejected")
  /\ UNCHANGED <<units, unit, done, landed, rejected>>

\* 40001 (the session's catalog is behind) or XX000 when a statement runs.
StatementFails ==
  /\ step = "run" /\ conn.link = "up" /\ conn.txn # "aborted" /\ unit # done /\ Failing
  /\ conn' = [conn EXCEPT !.txn = "aborted", !.sent = {}]
  /\ \E e \in {"occ", "unavailable"} : Caught(e)
  /\ UNCHANGED <<units, unit, done, landed, rejected>>

\* Mutant of Rethrown: every failure of a describe falls back to plain binding.
RethrownNever(e) == FALSE
Rethrown(e) == RetriesInProcess(e)

\* The same when a statement is described, which aborts an open transaction and begins none.
DescribeFails ==
  /\ step = "run" /\ conn.link = "up" /\ conn.txn # "aborted" /\ unit # done /\ Failing
  /\ conn' = IF conn.txn = "idle" THEN conn ELSE [conn EXCEPT !.txn = "aborted", !.sent = {}]
  /\ \E e \in {"occ", "unavailable"} :
       IF Rethrown(e) THEN Caught(e) ELSE UNCHANGED <<step, attempt, err>>
  /\ UNCHANGED <<units, unit, done, landed, rejected>>

\* Aurora DSQL, the network or the worker's host drops the session.
Lose ==
  /\ conn.link = "up" /\ Failing
  /\ conn' \in {[conn EXCEPT !.link = l] : l \in {"lost", "closed"}}
  /\ UNCHANGED <<thread, landed, rejected>>

-----------------------------------------------------------------------------
(* The end of an attempt. *)

Landing(c) == landed' = landed \cup (c.sent \ {Catalog})

\* The unit is done, the next begins.
NextUnit(more) ==
  /\ attempt' = 0 /\ done' = {}
  /\ IF more = {} THEN step' = "returned" /\ units' = {} /\ UNCHANGED unit
     ELSE step' = "begin" /\ unit' \in more /\ units' = more \ {unit'}

AtCommit == step = "run" /\ conn.link = "up" /\ done = unit

Commit ==
  /\ AtCommit
  /\ Landing(conn)
  /\ conn' = Fresh
  /\ NextUnit(units)
  /\ UNCHANGED <<err, rejected, failures>>

\* A write conflict is reported at COMMIT and ends the transaction.
CommitConflicts ==
  /\ AtCommit /\ Failing
  /\ conn' = Fresh
  /\ Caught("occ")
  /\ UNCHANGED <<units, unit, done, landed, rejected>>

\* Server unavailable at COMMIT: the transaction may have committed.
CommitUnanswered ==
  /\ AtCommit /\ Failing
  /\ \/ Landing(conn) /\ conn' = Fresh
     \/ /\ UNCHANGED landed
        /\ conn' \in {Fresh, [conn EXCEPT !.txn = "aborted", !.sent = {}]}
  /\ Caught("unavailable")
  /\ UNCHANGED <<units, unit, done, rejected>>

\* The session is lost during COMMIT: the transaction may have committed.
CommitLost ==
  /\ AtCommit /\ Failing
  /\ Landing(conn) \/ UNCHANGED landed
  /\ conn' \in {[Fresh EXCEPT !.link = l] : l \in {"lost", "closed"}}
  /\ \E e \in {"link", "shutdown"} : Caught(e)
  /\ UNCHANGED <<units, unit, done, rejected>>

\* Mutant of BeforeRetry: the next attempt runs on what the failed one left.
RetryAtOnce ==
  /\ step = "retry" /\ step' = "begin"
  /\ UNCHANGED <<units, unit, done, attempt, err, conn, landed, rejected, failures>>

\* rollbackBeforeRetry and the backoff.
BeforeRetry ==
  /\ step = "retry" /\ step' = "begin"
  /\ \E after \in RolledBack(conn) : Rollback(after) /\ conn' = after
  /\ UNCHANGED <<units, unit, done, attempt, err, landed, rejected>>

\* The callers' catch of a transient error: rollbackQuietly, then transientFailure drops the
\* connection and throws, and Connect redelivers the batch.
Throw ==
  /\ step = "failed" /\ IsTransient(err)
  /\ \E after \in RolledBack(conn) : Rollback(after)
  /\ conn' = NoConn /\ step' = "thrown"
  /\ UNCHANGED <<units, unit, done, attempt, err, landed, rejected>>

Single == \E r \in unit : unit = {r}

\* Any other error: a read that fails opens the check it is for, a single row is rejected.
Judge ==
  /\ step = "failed" /\ ~IsTransient(err) /\ Single
  /\ \E after \in RolledBack(conn) : Rollback(after) /\ conn' = after
  /\ rejected' = rejected \cup (unit \ {Catalog})
  /\ NextUnit(units)
  /\ UNCHANGED <<err, landed>>

\* Mutant of Isolate: the rows are replayed without a rollback.
IsolateOpen ==
  /\ step = "failed" /\ ~IsTransient(err) /\ ~Single
  /\ NextUnit(units \cup {{r} : r \in unit})
  /\ UNCHANGED <<err, conn, landed, rejected, failures>>

\* A chunk is replayed one row per transaction.
Isolate ==
  /\ step = "failed" /\ ~IsTransient(err) /\ ~Single
  /\ \E after \in RolledBack(conn) : Rollback(after) /\ conn' = after
  /\ NextUnit(units \cup {{r} : r \in unit})
  /\ UNCHANGED <<err, landed, rejected>>

\* Connect delivers the batch again; the rows already rejected are in it too.
Redeliver ==
  /\ step = "thrown"
  /\ NextUnit(Units)
  /\ UNCHANGED <<err, conn, landed, rejected, failures>>

-----------------------------------------------------------------------------
Attempt ==
  \/ Reuse \/ Open \/ LinkFails
  \/ \E r \in unit : Execute(r) \/ RowFails(r)
  \/ Commit
Fails ==
  OpenFails \/ ReadFails \/ StatementFails \/ DescribeFails \/ Lose \/ CommitConflicts
  \/ CommitUnanswered \/ CommitLost
After == BeforeRetry \/ Throw \/ Judge \/ Isolate \/ Redeliver
Next == Attempt \/ Fails \/ After

Spec == Init /\ [][Next]_vars

\* The task thread takes its steps and Connect delivers again; nothing is assumed of what
\* fails, but that it does not fail for ever (MaxFailures).
FairSpec == Spec /\ WF_vars(Attempt \/ After)

-----------------------------------------------------------------------------
Statements == Rows \cup {Catalog}
IsUnit(u) == u # {} /\ (u \subseteq Rows \/ u = {Catalog})
InFlight == {"begin", "run", "retry", "failed"}

TypeOK ==
  /\ step \in Steps /\ err \in Errors /\ attempt \in Nat /\ failures \in Nat
  /\ IsUnit(unit) /\ \A u \in units : IsUnit(u)
  /\ done \subseteq Statements /\ conn \in Connections
  /\ landed \subseteq Rows /\ rejected \subseteq Rows

\* An attempt finds a clean transaction, and the transaction holds what it executed and no more.
OwnTransaction ==
  conn.link = "up" =>
    /\ step \in {"begin", "thrown", "returned"} => conn.txn = "idle" /\ conn.sent = {}
    /\ step = "run" => conn.txn # "aborted" /\ conn.sent = done /\ done \subseteq unit \ Poison

\* Each row has landed, was rejected, or is in a unit still to run.
Accounted ==
  /\ step \in InFlight =>
       \A r \in Rows : r \in landed \cup rejected \cup unit \cup UNION units
  /\ step = "returned" => landed \cup rejected = Rows

\* An error judged permanent is about a row of the unit (or about the read).
Justified ==
  /\ err # "aborted"
  /\ step = "failed" /\ err = "rejected" => unit = {Catalog} \/ unit \cap Poison # {}

\* What every step preserves: the connection between the attempts, and what is left to do.
SessionInv ==
  /\ TypeOK /\ OwnTransaction /\ Accounted /\ Justified
  /\ rejected \subseteq Poison /\ landed \cap Poison = {}

\* A commit lands the statements of the current unit, all of them and nothing an abandoned
\* attempt left in the session.
CommitsItsUnit ==
  [][landed' # landed => landed' = landed \cup unit]_vars

Outcome == INSTANCE PutOutcome WITH over <- step = "returned"

\* A healthy row is never rejected, and nothing is left behind by a put that returned.
KeepsPromise == Outcome!Spec

HealthyNotRejected == Outcome!HealthyNotRejected

\* The put returns in the end: a redelivery for the sake of a poison row never repeats for ever.
PutReturns == <>(step = "returned")
=============================================================================
