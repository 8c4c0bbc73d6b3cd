----------------------------- MODULE PutOutcome -----------------------------
(***************************************************************************)
(* What the sink task promises of the rows of one batch it is given: a row *)
(* that Aurora DSQL can take is never judged to be rejected, whatever      *)
(* happens to the connection, and the batch is over only when each of its  *)
(* rows has landed or was rejected.  DsqlSinkTask relies on this.          *)
(***************************************************************************)
CONSTANTS
  Rows,    \* the rows of the batch
  Poison   \* those that Aurora DSQL rejects, each for a reason of its own

VARIABLES
  landed,    \* rows whose image is committed in Aurora DSQL
  rejected,  \* rows handed on to be held or dead-lettered
  over       \* the batch is done, its offsets may be committed

vars == <<landed, rejected, over>>

Init == landed = {} /\ rejected = {} /\ over = FALSE

\* A transaction commits; rows may land again.
Land ==
  /\ \E unit \in SUBSET (Rows \ Poison) : landed' = landed \cup unit
  /\ UNCHANGED rejected
  /\ over' \in {over, landed' \cup rejected = Rows}

Reject ==
  /\ \E r \in Poison : rejected' = rejected \cup {r}
  /\ UNCHANGED landed
  /\ over' \in {over, landed \cup rejected' = Rows}

\* The last transaction was a read: nothing changes but that the batch is over.
Finish ==
  /\ landed \cup rejected = Rows
  /\ over' = TRUE
  /\ UNCHANGED <<landed, rejected>>

Next == ~over /\ (Land \/ Reject \/ Finish)

Spec == Init /\ [][Next]_vars

\* A row that Aurora DSQL can take is never dead-lettered.
HealthyNotRejected == rejected \subseteq Poison
=============================================================================
