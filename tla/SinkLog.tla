------------------------------ MODULE SinkLog ------------------------------
(***************************************************************************)
(* The dead letters of a CDC pipeline, as its log shows them: the sink     *)
(* sets a change aside for good and logs a line that carries the time of   *)
(* its clock; CloudWatch shows the line up to Grace later, in any order.   *)
(*                                                                         *)
(* Times are milliseconds, and what happens happens at multiples of Unit.  *)
(***************************************************************************)
EXTENDS Integers, FiniteSets, FiniteSetsExt

CONSTANTS
  Tables, Lines,
  Of,          \* [Lines -> Tables]: the table of a dead letter
  Unit,        \* between two moments at which something happens
  Skew,        \* of the sink's clock to the application's
  Grace,       \* _DLQ_INGEST_GRACE_SECONDS
  Starts,      \* what the session may hold as its CDC start
  Earlier,     \* when lines that are there from the beginning may be from
  First, Last, \* bounds: the moments of the application's clock
  None

ASSUME SinkLogAssumption ==
  /\ {Unit, Skew, Grace, First, Last} \subseteq Nat /\ Unit > 0 /\ Skew < Grace /\ Skew <= First
  /\ First <= Last /\ None \notin Nat /\ Of \in [Lines -> Tables]
  /\ Starts \subseteq Nat \cup {None} /\ Earlier \subseteq Nat /\ IsFiniteSet(Lines) /\ IsFiniteSet(Tables)

VARIABLES
  now,        \* the application's clock
  cdcStart,   \* cdc_ops_window_start
  at,         \* [Lines -> Nat or None]: the time a line carries, None before it is written
  shown       \* [Lines -> Nat or None]: when the log began to show it

world == <<now, cdcStart, at, shown>>

Time == Nat \cup {None}
Moments == {t \in First..Last : \E k \in 0..t : t = First + Unit * k}
Shown == {l \in Lines : shown[l] # None}

\* A pipeline the session attached to has no known start, and may have logged before.
WorldInit ==
  /\ now = First /\ cdcStart \in Starts
  /\ \E S \in SUBSET Lines : \E t \in [S -> Earlier] :
       /\ \A l \in S : cdcStart # None => cdcStart <= t[l]
       /\ at = [l \in Lines |-> IF l \in S THEN t[l] ELSE None]
       /\ shown = [l \in Lines |-> IF l \in S THEN t[l] ELSE None]

DeadLetter(l) ==
  /\ at[l] = None
  /\ \E t \in {now - Skew, now, now + Skew} : at' = [at EXCEPT ![l] = t]
  /\ UNCHANGED <<now, cdcStart, shown>>

Show(l) ==
  /\ at[l] # None /\ shown[l] = None /\ now < at[l] + Grace
  /\ shown' = [shown EXCEPT ![l] = now]
  /\ UNCHANGED <<now, cdcStart, at>>

Tick ==
  /\ now + Unit <= Last
  /\ \A l \in Lines : at[l] # None /\ shown[l] = None => now + Unit < at[l] + Grace
  /\ now' = now + Unit
  /\ UNCHANGED <<cdcStart, at, shown>>

WorldNext == Tick \/ \E l \in Lines : DeadLetter(l) \/ Show(l)

-----------------------------------------------------------------------------
(* What the tool keeps of them: a count and the latest time per table, and *)
(* the outcome of a read.                                                  *)

Entries == [count : Nat, last : Time]
NoEntry == [count |-> 0, last |-> None]
Record == [began : Moments, ok : BOOLEAN, complete : BOOLEAN]

LinesOf(tb, S) == {l \in S : Of[l] = tb}
Latest(S) == IF S \subseteq {None} THEN None ELSE Max(S \ {None})

FoldedInOrder(ledger, S) ==  \* mutant: the stamp of the last line to land
  [tb \in Tables |->
     LET new == LinesOf(tb, S) IN
     [count |-> ledger[tb].count + Cardinality(new),
      last |-> IF new = {} THEN ledger[tb].last ELSE Latest({at[l] : l \in new})]]
\* The ledger with the lines of S counted in.
Folded(ledger, S) ==
  [tb \in Tables |->
     LET new == LinesOf(tb, S) IN
     [count |-> ledger[tb].count + Cardinality(new),
      last |-> Latest({ledger[tb].last} \cup {at[l] : l \in new})]]
=============================================================================
