------------------------------ MODULE TableLoad ------------------------------
(***************************************************************************)
(* What loading one table promises: whatever order its batches run in, and *)
(* however often the source is read again, a load that says it loaded the  *)
(* table has every row of the snapshot it read last in the target or in    *)
(* its report, and reports only rows the target rejects.                   *)
(***************************************************************************)
CONSTANTS
  Rows, Poison   \* all rows; those that Aurora DSQL rejects for good

VARIABLES
  snapshot,      \* the rows of the snapshot being read
  target,        \* the rows in the target
  reported,      \* the rows reported as dropped
  outcome

vars == <<snapshot, target, reported, outcome>>

Init ==
  /\ snapshot \subseteq Rows /\ target \subseteq Rows
  /\ reported = {} /\ outcome = "loading"

\* Batches land and rows are reported, any number of them at a time.
Settle ==
  /\ outcome = "loading"
  /\ target' \in SUBSET Rows /\ target \subseteq target'
  /\ reported' \in SUBSET (reported \cup Poison) /\ reported \subseteq reported'
  /\ UNCHANGED <<snapshot, outcome>>

\* The source is read again, after the table was recreated or not.
Reread ==
  /\ outcome = "loading"
  /\ snapshot' \in SUBSET Rows
  /\ target' \in {target, {}} /\ reported' \in {reported, {}}
  /\ UNCHANGED outcome

Finish ==
  /\ outcome = "loading"
  /\ \/ outcome' = "loaded" /\ snapshot \subseteq target \cup reported
     \/ outcome' \in {"failed", "stopped"}
  /\ UNCHANGED <<snapshot, target, reported>>

Next == Settle \/ Reread \/ Finish
Spec == Init /\ [][Next]_vars
=============================================================================
