----------------------- MODULE SinkTransactionProofs -----------------------
(***************************************************************************)
(* Proofs about SinkTransaction, for any batch of rows, any way to cut it  *)
(* into transactions and any sequence of failures: what an attempt finds   *)
(* in the session, that a commit lands its own unit, and that the put      *)
(* keeps PutOutcome's promise.                                             *)
(***************************************************************************)
EXTENDS SinkTransaction, TLAPS

-----------------------------------------------------------------------------
(* Lemmas about the operators. *)

\* A caught error leads to a retry or to the end of the unit's attempts.
LEMMA CaughtFacts ==
  ASSUME attempt \in Nat, NEW e \in Errors, Caught(e)
  PROVE  /\ err' = e /\ attempt' \in Nat /\ step' \in {"retry", "failed"}
BY DEF Caught

\* After a rollback the cached connection holds no transaction, or is not known to work.
LEMMA RolledBackFacts ==
  ASSUME conn \in Connections, NEW after \in RolledBack(conn)
  PROVE  /\ after \in Connections
         /\ after.link = "up" => after.txn = "idle" /\ after.sent = {}
<1>1. CASE conn.link \in {"none", "closed"}
  BY <1>1 DEF RolledBack, Connections
<1>2. CASE conn.link = "lost"
  BY <1>2 DEF RolledBack, Connections, NoConn
<1>3. CASE conn.link = "up"
  <2>1. after = NoConn \/ after = [conn EXCEPT !.txn = "idle", !.sent = {}]
    BY <1>3 DEF RolledBack
  <2>2. CASE after = NoConn
    BY <2>2 DEF NoConn, Connections
  <2>3. CASE after = [conn EXCEPT !.txn = "idle", !.sent = {}]
    BY <2>3 DEF Connections
  <2> QED BY <2>1, <2>2, <2>3
<1> QED BY <1>1, <1>2, <1>3 DEF Connections

LEMMA RollbackCount ==
  ASSUME failures \in Nat, NEW after, Rollback(after)
  PROVE  failures' \in Nat /\ after \in RolledBack(conn)
BY DEF Rollback, Failing, Working

\* The next unit is one of those left, or the put has returned because none is left.
LEMMA NextUnitFacts ==
  ASSUME NEW more, \A u \in more : IsUnit(u), IsUnit(unit), NextUnit(more)
  PROVE  /\ IsUnit(unit') /\ \A u \in units' : IsUnit(u)
         /\ attempt' = 0 /\ done' = {} /\ step' \in {"begin", "returned"}
         /\ step' = "returned" => more = {}
         /\ step' = "begin" => \A r : r \in UNION more => r \in unit' \cup UNION units'
BY DEF NextUnit

-----------------------------------------------------------------------------
(* The invariant. *)

LEMMA InitInv == Init => SessionInv
<1> SUFFICES ASSUME Init PROVE SessionInv
  OBVIOUS
<1>1. unit \in Units /\ units = Units \ {unit} /\ \A u \in Units : IsUnit(u)
  BY UnitsAssumption DEF Init, IsUnit
<1>2. TypeOK
  BY <1>1 DEF Init, TypeOK, Steps, Errors, Connections, NoConn, Statements
<1>3. Accounted
  <2>1. (UNION Units) \ {Catalog} = Rows
    BY UnitsAssumption
  <2> QED BY <1>1, <2>1 DEF Init, Accounted, InFlight
<1> QED BY <1>2, <1>3 DEF Init, SessionInv, OwnTransaction, Justified, NoConn

\* An error that ends an attempt leaves the unit, what has landed and what was rejected.
LEMMA FailedAttempt ==
  ASSUME SessionInv, step \in {"begin", "run"}, NEW e \in Errors \ {"aborted"}, Caught(e),
         e = "rejected" => unit = {Catalog} \/ unit \cap Poison # {},
         conn' \in Connections, failures' \in Nat, landed \subseteq landed',
         landed' \subseteq Rows, landed' \cap Poison = {},
         UNCHANGED <<units, unit, done, rejected>>
  PROVE  SessionInv'
<1>1. err' = e /\ attempt' \in Nat /\ step' \in {"retry", "failed"}
  BY CaughtFacts DEF SessionInv, TypeOK
<1>2. TypeOK'
  BY <1>1 DEF SessionInv, TypeOK, Steps, Errors
<1>3. OwnTransaction'
  BY <1>1 DEF OwnTransaction
<1>4. Accounted'
  BY <1>1 DEF SessionInv, Accounted, InFlight
<1>5. Justified'
  BY <1>1 DEF Justified
<1> QED BY <1>2, <1>3, <1>4, <1>5 DEF SessionInv

\* The end of a unit in which every row landed or was rejected, or is left in another unit.
LEMMA EndedUnit ==
  ASSUME SessionInv, step \in {"run", "failed"}, NEW more, NextUnit(more),
         \A u \in more : IsUnit(u), \A u \in units : u \in more,
         \A r \in unit : r \in landed' \cup rejected' \cup {Catalog} \cup UNION more,
         conn' \in Connections, conn'.link = "up" => conn'.txn = "idle" /\ conn'.sent = {},
         failures' \in Nat, landed \subseteq landed', rejected \subseteq rejected',
         landed' \subseteq Rows, landed' \cap Poison = {}, rejected' \subseteq Poison,
         UNCHANGED err
  PROVE  SessionInv'
<1>1. /\ IsUnit(unit') /\ \A u \in units' : IsUnit(u)
      /\ attempt' = 0 /\ done' = {} /\ step' \in {"begin", "returned"}
      /\ step' = "returned" => more = {}
      /\ step' = "begin" => \A r : r \in UNION more => r \in unit' \cup UNION units'
  BY NextUnitFacts DEF SessionInv, TypeOK
<1>2. TypeOK'
  BY <1>1, RowsAssumption DEF SessionInv, TypeOK, Steps, Statements
<1>3. OwnTransaction'
  BY <1>1 DEF OwnTransaction
<1>4. Accounted'
  <2>1. \A r \in Rows : r \in landed \cup rejected \cup unit \cup UNION units
    BY DEF SessionInv, Accounted, InFlight
  <2>2. \A r \in Rows : r \in landed' \cup rejected' \cup UNION more
    BY <2>1, RowsAssumption
  <2>3. step' = "returned" => landed' \cup rejected' = Rows
    BY <1>1, <2>2, RowsAssumption
  <2>4. step' # "returned" =>
          \A r \in Rows : r \in landed' \cup rejected' \cup unit' \cup UNION units'
    BY <1>1, <2>2
  <2> QED BY <1>1, <2>3, <2>4 DEF Accounted, InFlight
<1>5. Justified'
  BY <1>1 DEF SessionInv, Justified
<1> QED BY <1>2, <1>3, <1>4, <1>5 DEF SessionInv

\* Any other step that keeps the work, as long as it leaves the connection as the step requires.
LEMMA SameUnit ==
  ASSUME SessionInv, UNCHANGED <<units, unit, err, attempt, landed, rejected>>,
         step' \in {"begin", "run", "thrown"} \cup {step}, step' \in InFlight => step \in InFlight,
         step' = "returned" => step = "returned", step' = "failed" => step = "failed",
         failures' \in Nat, done' \subseteq Statements, conn' \in Connections, OwnTransaction'
  PROVE  SessionInv'
<1>1. TypeOK'
  BY DEF SessionInv, TypeOK, Steps
<1>2. Accounted'
  BY DEF SessionInv, Accounted, InFlight
<1>3. Justified'
  BY DEF SessionInv, Justified
<1> QED BY <1>1, <1>2, <1>3 DEF SessionInv

LEMMA NextInv == SessionInv /\ [Next]_vars => SessionInv'
<1> SUFFICES ASSUME SessionInv, [Next]_vars PROVE SessionInv'
  OBVIOUS
<1> USE DEF SessionInv, TypeOK
<1>1. CASE Reuse
  <2>1. OwnTransaction'
    BY <1>1 DEF Reuse, OwnTransaction
  <2> QED BY <1>1, <2>1, SameUnit DEF Reuse, InFlight
<1>2. CASE Open
  <2>1. conn' \in Connections /\ OwnTransaction'
    BY <1>2 DEF Open, OwnTransaction, Fresh, Connections
  <2> QED BY <1>2, <2>1, SameUnit DEF Open, InFlight
<1>3. CASE OpenFails
  <2>1. PICK e \in {"connect", "unavailable"} : Caught(e)
    BY <1>3 DEF OpenFails
  <2> QED BY <1>3, <2>1, FailedAttempt DEF OpenFails, Failing, Errors
<1>4. CASE LinkFails
  <2>1. PICK e \in {"link", "shutdown"} : Caught(e)
    BY <1>4 DEF LinkFails
  <2>2. conn' \in Connections
    BY <1>4 DEF LinkFails, Connections
  <2> QED BY <1>4, <2>1, <2>2, FailedAttempt DEF LinkFails, Working, Errors
<1>5. ASSUME NEW r \in unit, Execute(r) PROVE SessionInv'
  <2>1. r \in Statements
    BY DEF IsUnit, Statements
  <2>2. conn' \in Connections /\ OwnTransaction'
    BY <1>5, <2>1 DEF Execute, OwnTransaction, Connections, Statements
  <2> QED BY <1>5, <2>1, <2>2, SameUnit DEF Execute, InFlight
<1>6. ASSUME NEW r \in unit, RowFails(r) PROVE SessionInv'
  <2>1. conn.txn # "aborted"
    BY <1>6 DEF RowFails, OwnTransaction
  <2>2. Caught("rejected") /\ r \in Poison
    BY <1>6, <2>1 DEF RowFails
  <2>3. conn' \in Connections
    BY <1>6 DEF RowFails, Connections
  <2> QED BY <1>6, <2>2, <2>3, FailedAttempt DEF RowFails, Working, Errors
<1>7. CASE ReadFails
  <2>1. conn' \in Connections
    BY <1>7 DEF ReadFails, Connections
  <2> QED BY <1>7, <2>1, FailedAttempt DEF ReadFails, Failing, Errors
<1>8. CASE StatementFails
  <2>1. PICK e \in {"occ", "unavailable"} : Caught(e)
    BY <1>8 DEF StatementFails
  <2>2. conn' \in Connections
    BY <1>8 DEF StatementFails, Connections
  <2> QED BY <1>8, <2>1, <2>2, FailedAttempt DEF StatementFails, Failing, Errors
<1>9. CASE DescribeFails
  <2>1. PICK e \in {"occ", "unavailable"} : Caught(e)
    BY <1>9 DEF DescribeFails, Rethrown, RetriesInProcess
  <2>2. conn' \in Connections
    BY <1>9 DEF DescribeFails, Connections
  <2> QED BY <1>9, <2>1, <2>2, FailedAttempt DEF DescribeFails, Failing, Errors
<1>10. CASE Lose
  <2>1. conn' \in Connections /\ conn'.link # "up"
    BY <1>10 DEF Lose, Connections
  <2>2. OwnTransaction'
    BY <2>1 DEF OwnTransaction
  <2> QED BY <1>10, <2>1, <2>2, SameUnit DEF Lose, Failing, thread
<1>11. CASE Commit
  <2>1. /\ step = "run" /\ done = unit /\ conn.sent = unit /\ unit \cap Poison = {}
        /\ landed' = landed \cup (unit \ {Catalog}) /\ NextUnit(units)
    BY <1>11 DEF Commit, AtCommit, OwnTransaction, Landing
  <2>2. landed' \subseteq Rows /\ landed' \cap Poison = {}
    BY <2>1 DEF IsUnit
  <2>3. conn' \in Connections /\ conn'.txn = "idle" /\ conn'.sent = {}
    BY <1>11 DEF Commit, Fresh, Connections
  <2>4. \A r \in unit : r \in landed' \cup rejected' \cup {Catalog} \cup UNION units
    BY <2>1
  <2> QED BY <1>11, <2>1, <2>2, <2>3, <2>4, EndedUnit DEF Commit
<1>12. CASE CommitConflicts
  <2>1. conn' \in Connections
    BY <1>12 DEF CommitConflicts, Fresh, Connections
  <2> QED BY <1>12, <2>1, FailedAttempt DEF CommitConflicts, AtCommit, Failing, Errors
<1>13. CASE CommitUnanswered
  <2>1. step = "run" /\ conn.sent = unit /\ unit \cap Poison = {}
    BY <1>13 DEF CommitUnanswered, AtCommit, OwnTransaction
  <2>2. landed \subseteq landed' /\ landed' \subseteq Rows /\ landed' \cap Poison = {}
    BY <1>13, <2>1 DEF CommitUnanswered, Landing, IsUnit
  <2>3. conn' \in Connections
    <3>1. conn' = Fresh \/ conn' = [conn EXCEPT !.txn = "aborted", !.sent = {}]
      BY <1>13 DEF CommitUnanswered
    <3>2. Fresh \in Connections
      BY DEF Fresh, Connections
    <3>3. [conn EXCEPT !.txn = "aborted", !.sent = {}] \in Connections
      BY DEF Connections
    <3> QED BY <3>1, <3>2, <3>3
  <2> QED BY <1>13, <2>1, <2>2, <2>3, FailedAttempt DEF CommitUnanswered, Failing, Errors
<1>14. CASE CommitLost
  <2>1. step = "run" /\ conn.sent = unit /\ unit \cap Poison = {}
    BY <1>14 DEF CommitLost, AtCommit, OwnTransaction
  <2>2. landed \subseteq landed' /\ landed' \subseteq Rows /\ landed' \cap Poison = {}
    BY <1>14, <2>1 DEF CommitLost, Landing, IsUnit
  <2>3. conn' \in Connections
    BY <1>14 DEF CommitLost, Fresh, Connections
  <2>4. PICK e \in {"link", "shutdown"} : Caught(e)
    BY <1>14 DEF CommitLost
  <2> QED BY <1>14, <2>1, <2>2, <2>3, <2>4, FailedAttempt DEF CommitLost, Failing, Errors
<1>15. CASE BeforeRetry
  <2>1. conn' \in RolledBack(conn) /\ failures' \in Nat
    BY <1>15, RollbackCount DEF BeforeRetry
  <2>2. conn' \in Connections /\ OwnTransaction'
    BY <1>15, <2>1, RolledBackFacts DEF BeforeRetry, OwnTransaction
  <2> QED BY <1>15, <2>1, <2>2, SameUnit DEF BeforeRetry, InFlight
<1>16. CASE Throw
  <2>1. failures' \in Nat
    BY <1>16, RollbackCount DEF Throw
  <2>2. conn' \in Connections /\ OwnTransaction'
    BY <1>16 DEF Throw, OwnTransaction, NoConn, Connections
  <2> QED BY <1>16, <2>1, <2>2, SameUnit DEF Throw, InFlight
<1>17. CASE Judge
  <2>1. conn' \in RolledBack(conn) /\ failures' \in Nat
    BY <1>17, RollbackCount DEF Judge
  <2>2. conn' \in Connections /\ (conn'.link = "up" => conn'.txn = "idle" /\ conn'.sent = {})
    BY <2>1, RolledBackFacts
  <2>3. step = "failed" /\ err = "rejected"
    BY <1>17 DEF Judge, IsTransient, Justified, Errors
  <2>4. PICK x \in unit : unit = {x}
    BY <1>17 DEF Judge, Single
  <2>5. unit \ {Catalog} \subseteq Poison
    BY <2>3, <2>4, RowsAssumption DEF Justified
  <2>6. rejected' \subseteq Poison
    BY <1>17, <2>5 DEF Judge
  <2>7. \A r \in unit : r \in landed' \cup rejected' \cup {Catalog} \cup UNION units
    BY <1>17 DEF Judge
  <2> QED BY <1>17, <2>1, <2>2, <2>3, <2>6, <2>7, EndedUnit DEF Judge
<1>18. CASE Isolate
  <2> DEFINE more == units \cup {{r} : r \in unit}
  <2>1. conn' \in RolledBack(conn) /\ failures' \in Nat
    BY <1>18, RollbackCount DEF Isolate
  <2>2. conn' \in Connections /\ (conn'.link = "up" => conn'.txn = "idle" /\ conn'.sent = {})
    BY <2>1, RolledBackFacts
  <2>3. \A u \in more : IsUnit(u)
    BY DEF IsUnit
  <2>4. \A r \in unit : r \in landed' \cup rejected' \cup {Catalog} \cup UNION more
    OBVIOUS
  <2>5. NextUnit(more) /\ \A u \in units : u \in more
    BY <1>18 DEF Isolate
  <2> HIDE DEF more
  <2> QED BY <1>18, <2>1, <2>2, <2>3, <2>4, <2>5, EndedUnit DEF Isolate
<1>19. CASE Redeliver
  <2>1. \A u \in Units : IsUnit(u)
    BY UnitsAssumption DEF IsUnit
  <2>2. /\ IsUnit(unit') /\ \A u \in units' : IsUnit(u)
        /\ attempt' = 0 /\ done' = {} /\ step' \in {"begin", "returned"}
        /\ step' = "returned" => Units = {}
        /\ step' = "begin" => \A r : r \in UNION Units => r \in unit' \cup UNION units'
    BY <1>19, <2>1, NextUnitFacts DEF Redeliver
  <2>3. TypeOK'
    BY <1>19, <2>2 DEF Redeliver, Steps
  <2>4. OwnTransaction'
    BY <1>19, <2>2 DEF Redeliver, OwnTransaction
  <2>5. Accounted'
    BY <1>19, <2>2, UnitsAssumption DEF Redeliver, Accounted, InFlight
  <2>6. Justified'
    BY <1>19, <2>2 DEF Redeliver, Justified
  <2> QED BY <1>19, <2>3, <2>4, <2>5, <2>6 DEF Redeliver
<1>20. CASE UNCHANGED vars
  BY <1>20 DEF vars, OwnTransaction, Accounted, Justified, InFlight
<1> QED BY <1>1, <1>2, <1>3, <1>4, <1>5, <1>6, <1>7, <1>8, <1>9, <1>10, <1>11, <1>12, <1>13,
  <1>14, <1>15, <1>16, <1>17, <1>18, <1>19, <1>20 DEF Next, Attempt, Fails, After

-----------------------------------------------------------------------------
(* The theorems. *)

\* Whatever fails, an attempt starts on a clean transaction, the transaction holds what the
\* attempt executed, no row gets lost between the units, and only rows that Aurora DSQL rejects
\* are rejected (connection, rollbackQuietly, rollbackBeforeRetry, transientFailure).
THEOREM SessionInvariant == Spec => []SessionInv
<1> QED BY InitInv, NextInv, PTL DEF Spec

\* A row that Aurora DSQL can take is never held or dead-lettered (isTransient, applyBatch).
THEOREM HealthyNotRejectedHolds == Spec => []HealthyNotRejected
<1>1. SessionInv => HealthyNotRejected
  BY DEF SessionInv, HealthyNotRejected, Outcome!HealthyNotRejected
<1> QED BY <1>1, SessionInvariant, PTL

\* What a step does to landed: nothing, or the current unit lands.
LEMMA LandedStep ==
  ASSUME SessionInv, [Next]_vars
  PROVE  /\ landed' = landed \/ landed' = landed \cup unit
         /\ landed' # landed => /\ step = "run" /\ unit \subseteq Rows \ Poison
                                /\ UNCHANGED rejected
<1>1. CASE AtCommit /\ Landing(conn) /\ UNCHANGED rejected
  <2>1. step = "run" /\ conn.sent = unit /\ unit \cap Poison = {}
    BY <1>1 DEF AtCommit, SessionInv, OwnTransaction
  <2>2. landed' = landed \cup (unit \ {Catalog})
    BY <1>1, <2>1 DEF Landing
  <2>3. CASE unit = {Catalog}
    BY <2>2, <2>3
  <2>4. CASE unit \subseteq Rows
    BY <1>1, <2>1, <2>2, <2>4, RowsAssumption
  <2> QED BY <2>3, <2>4 DEF SessionInv, TypeOK, IsUnit
<1>2. ASSUME ~(AtCommit /\ Landing(conn) /\ UNCHANGED rejected) PROVE landed' = landed
  BY <1>2 DEF Next, Attempt, Fails, After, Reuse, Open, OpenFails, LinkFails, Execute, RowFails,
    ReadFails, StatementFails, DescribeFails, Lose, Commit, CommitConflicts, CommitUnanswered,
    CommitLost, BeforeRetry, Throw, Judge, Isolate, Redeliver, vars
<1> QED BY <1>1, <1>2

\* A commit lands its own unit, whole, and nothing that an abandoned attempt left behind.
THEOREM CommitsItsUnitHolds == Spec => CommitsItsUnit
<1>1. SessionInv /\ [Next]_vars => [landed' # landed => landed' = landed \cup unit]_vars
  BY LandedStep
<1> QED BY <1>1, SessionInvariant, PTL DEF Spec, CommitsItsUnit

\* The transactions of a put keep the promise of PutOutcome: each of their steps lands rows that
\* Aurora DSQL can take, rejects one that it cannot, ends the batch with every row accounted for,
\* or changes none of it.
THEOREM KeepsPromiseHolds == Spec => KeepsPromise
<1>1. Init => Outcome!Init
  BY DEF Init, Outcome!Init
<1>2. ASSUME SessionInv, SessionInv', [Next]_vars PROVE [Outcome!Next]_Outcome!vars
  <2>1. step = "returned" => UNCHANGED <<landed, rejected, step>>
    BY <1>2 DEF Next, Attempt, Fails, After, Reuse, Open, OpenFails, LinkFails, Execute,
      RowFails, ReadFails, StatementFails, DescribeFails, Lose, thread, AtCommit, Commit,
      CommitConflicts, CommitUnanswered, CommitLost, BeforeRetry, Throw, Judge, Isolate,
      Redeliver, vars
  <2>2. step' = "returned" => landed' \cup rejected' = Rows
    BY <1>2 DEF SessionInv, Accounted
  <2>3. CASE landed' # landed
    <3>1. /\ landed' = landed \cup unit /\ unit \subseteq Rows \ Poison /\ step = "run"
          /\ UNCHANGED rejected
      BY <1>2, <2>3, LandedStep
    <3>2. Outcome!Land
      BY <2>2, <3>1 DEF Outcome!Land
    <3> QED BY <3>1, <3>2 DEF Outcome!Next
  <2>4. CASE rejected' # rejected
    <3>1. Judge
      BY <1>2, <2>4 DEF Next, Attempt, Fails, After, Reuse, Open, OpenFails, LinkFails, Execute,
        RowFails, ReadFails, StatementFails, DescribeFails, Lose, Commit, CommitConflicts,
        CommitUnanswered, CommitLost, BeforeRetry, Throw, Isolate, Redeliver, vars
    <3>2. PICK x \in unit : unit = {x}
      BY <3>1 DEF Judge, Single
    <3>3. rejected' = rejected \cup {x} /\ x \in Poison /\ UNCHANGED landed /\ step = "failed"
      BY <1>2, <2>4, <3>1, <3>2 DEF Judge, SessionInv
    <3>4. Outcome!Reject
      BY <2>2, <3>3 DEF Outcome!Reject
    <3> QED BY <3>3, <3>4 DEF Outcome!Next
  <2>5. CASE UNCHANGED <<landed, rejected>>
    <3>1. CASE step' = "returned" /\ step # "returned"
      BY <2>2, <2>5, <3>1 DEF Outcome!Next, Outcome!Finish
    <3>2. CASE ~(step' = "returned" /\ step # "returned")
      <4>1. (step = "returned")' <=> step = "returned"
        BY <2>1, <3>2
      <4> QED BY <2>5, <4>1 DEF Outcome!vars
    <3> QED BY <3>1, <3>2
  <2> QED BY <2>3, <2>4, <2>5
<1> QED BY <1>1, <1>2, SessionInvariant, PTL DEF Spec, KeepsPromise, Outcome!Spec
=============================================================================
