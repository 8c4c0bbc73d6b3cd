-------------------------- MODULE DeadLetterLedger --------------------------
(***************************************************************************)
(* What the reading of the dead-letter log promises to the cut-over gate,  *)
(* without saying how the log is read: lines come to be counted, a read's  *)
(* outcome is published with them or after them, and a published read that *)
(* succeeded and reached the end speaks for the ledger.  The gate relies   *)
(* on this module, DeadLetterLog is shown to implement it.                 *)
(***************************************************************************)
EXTENDS SinkLog

CONSTANTS
  Horizons,  \* where the reading of the log may begin
  Excuses    \* lines that may be excused from being counted

VARIABLES
  ledger,    \* cdc_dlq_ledger
  counted,   \* the lines it counts
  readFrom,  \* cdc_dlq_read_from_ms
  lastRead,  \* cdc_dlq_last_read
  excused    \* lines no read owes the ledger (see DeadLetterLog for which these are)

tool == <<ledger, counted, readFrom, lastRead>>

Init ==
  /\ WorldInit
  /\ ledger = [tb \in Tables |-> NoEntry] /\ counted = {}
  /\ readFrom = None /\ lastRead = None /\ excused \in SUBSET Excuses

\* Each line shown from the beginning of the reading on and before a complete read is counted.
Speaks ==
  lastRead # None /\ lastRead.complete =>
    /\ readFrom # None
    /\ \A l \in Shown : at[l] >= readFrom /\ shown[l] < lastRead.began => l \in counted \cup excused

Excusing == excused' \in SUBSET Excuses /\ Speaks'

World == WorldNext /\ UNCHANGED tool /\ Excusing

\* Lines are read, or known to be lost; nothing is published.
Reading == UNCHANGED <<world, tool>> /\ Excusing

Count(S) ==
  /\ counted' = counted \cup S
  /\ ledger' = Folded(ledger, S)

\* A read lands.  Its outcome is published after its lines are counted.
Land(S) ==
  /\ Count(S)
  /\ lastRead' \in {r \in Record : r.began <= now /\ (r.complete => r.ok)}
  /\ readFrom' \in IF readFrom = None /\ lastRead'.ok THEN Horizons \cup {None} ELSE {readFrom}
  /\ UNCHANGED world /\ Excusing

\* A read lands whose outcome another one has published.
LandUnpublished(S) == Count(S) /\ UNCHANGED <<world, readFrom, lastRead>> /\ Excusing

\* A restart goes back to an earlier ledger, and must read again.
Restart ==
  /\ counted' \in SUBSET counted
  /\ \E n \in [Tables -> 0..Max({ledger[tb].count : tb \in Tables})] :
       /\ \A tb \in Tables : n[tb] \in Cardinality(LinesOf(tb, counted'))..ledger[tb].count
       /\ ledger' = [tb \in Tables |->
            [count |-> n[tb], last |-> Latest({at[l] : l \in LinesOf(tb, counted')})]]
  /\ readFrom' \in {readFrom, None} /\ lastRead' = None
  /\ UNCHANGED world /\ Excusing

Next ==
  \/ World \/ Reading \/ Restart
  \/ \E S \in SUBSET Shown : Land(S) \/ LandUnpublished(S)

Spec == Init /\ [][Next]_<<world, tool, excused>>
=============================================================================
