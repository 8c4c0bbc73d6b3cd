--------------------------- MODULE MCBatchedImport ---------------------------
(* Small loads for BatchedImport. *)
EXTENDS BatchedImport, TLC

CONSTANTS r1, r2, r3, r4, r5, a, b

Load2(x, y) == (a :> x) @@ (b :> y)
Plan(cuts, shared, recreates, rereads, present, live) ==
  [cuts |-> cuts, shared |-> shared, recreates |-> recreates, rereads |-> rereads,
   present |-> present, live |-> live]

\* One range in three batches beside another; a row changes its size, and a row goes away.
Wide == Load2(<<<<r1, r2>>, <<r3>>, <<r4>>>>, <<<<r5>>>>)
Early == Load2(<<<<r1, r2>>, <<r3, r4>>>>, <<<<r5>>>>)
Late == Load2(<<<<r2, r3>>, <<r4>>>>, <<<<r5>>>>)

MCPlans ==
  { \* a PostgreSQL shard that reads two ranges of the run's shared snapshot, empty target
    Plan({Wide}, TRUE, FALSE, TRUE, {}, {}),
    \* the same beside a CDC stream
    Plan({Wide}, TRUE, FALSE, TRUE, {r1}, {r3}),
    \* a table appended to, beside a CDC stream
    Plan({Early, Late}, FALSE, FALSE, TRUE, {}, {r3}),
    \* a table dropped and reloaded
    Plan({Early, Late}, FALSE, TRUE, TRUE, {}, {}),
    \* a MySQL shard, which is not read again
    Plan({Wide}, FALSE, FALSE, FALSE, {}, {}) }
=============================================================================
