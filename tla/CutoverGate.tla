---------------------------- MODULE CutoverGate ----------------------------
(***************************************************************************)
(* The dead-letter gate on cut over: which dead letters a session may cut  *)
(* over with.  A dead letter leaves its row stale until a later change of  *)
(* the row heals it.  The gate lets a table go if a value comparison that  *)
(* started after its last dead letter matched, or if the operator waived   *)
(* what no comparison can prove; and it wants a read of the dead-letter    *)
(* log that began after the latest validation.  What a read tells is left  *)
(* to DeadLetterLedger.                                                    *)
(*                                                                         *)
(* A validation runs on a worker thread, table by table.  A run in the     *)
(* count mode ends with a CHECKSUM pass over the tables the ledger lists;  *)
(* a re-check compares some tables and merges them into the report.        *)
(***************************************************************************)
EXTENDS DeadLetterLedger

CONSTANTS
  Margin,     \* CDC_DLQ_EVIDENCE_MARGIN_SECONDS
  Gaps,       \* what tables the Full Load may have reported dropped rows of
  MaxSpent,   \* bound: validations, re-checks and reads that land, together
  MaxFaults   \* bound: restarts

ASSUME GateAssumption ==
  /\ Skew <= Margin /\ Gaps \subseteq SUBSET Tables /\ {Margin, MaxSpent, MaxFaults} \subseteq Nat
  /\ Horizons \subseteq Nat
  \* No dead letter carries a time before the CDC start: the connector takes minutes to come up.
  /\ \A s \in Starts \ {None} : s + Skew <= First

VARIABLES
  explained,     \* tables with rows the Full Load reported as dropped: they never match
  healed,        \* dead letters whose row a later change brought up to date
  report,        \* result: [items, checksum] or None
  runStart,      \* compared_run_start
  overrides,     \* compared_overrides
  completedAt, recheckedAt,
  accepted,      \* accept_explained_gap, which no snapshot holds
  waiver,        \* cutover_dlq_waiver
  run,           \* the validation thread
  saved,         \* the snapshot of the session
  faults,        \* how often the application restarted
  spent,         \* how many validations, re-checks and landings of a read there were
  acknowledged,  \* history: the dead letters the waiver was given for
  mixed          \* history: tables whose verdict and its time a snapshot took from two reports

verdict == <<report, runStart, overrides, completedAt, recheckedAt, accepted, waiver, acknowledged, mixed>>
counters == <<faults, spent>>
gate == <<verdict, healed, run, saved, counters>>
gvars == <<world, tool, excused, explained, gate>>

Verdicts == {"mismatch", "matched", "verified"}
Items == [Tables -> Verdicts \cup {"absent"}]

Problems == {"failed", "incomplete", "partial-history"}  \* of a read

ASSUME NoneAssumption == None \notin [items : Items, checksum : BOOLEAN] \cup Problems

NoItems == [tb \in Tables |-> "absent"]
NoTimes == [tb \in Tables |-> None]
NoRun == [kind |-> "none", todo |-> {}, deep |-> {}, checksum |-> FALSE, items |-> NoItems,
          began |-> None, pass |-> {}, passBegan |-> None]
Snapshot ==
  [ledger |-> ledger, counted |-> counted, readFrom |-> readFrom, report |-> report, runStart |-> runStart,
   overrides |-> overrides, completedAt |-> IF report = None THEN None ELSE completedAt,
   recheckedAt |-> recheckedAt, waiver |-> waiver, acknowledged |-> acknowledged, mixed |-> mixed]

GateInit ==
  /\ Init
  /\ explained \in Gaps /\ healed = {} /\ report = None /\ runStart = None /\ overrides = NoTimes
  /\ completedAt = None /\ recheckedAt = None /\ accepted = FALSE /\ waiver = None
  /\ run = NoRun /\ faults = 0 /\ spent = 0 /\ acknowledged = {} /\ mixed = {}
  /\ saved = Snapshot

-----------------------------------------------------------------------------
(* The gate, a function of the session's state. *)

Listed == {tb \in Tables : ledger[tb].count > 0}
Present == IF report = None THEN {} ELSE {tb \in Tables : report.items[tb] # "absent"}
Unmatched == {tb \in Present : report.items[tb] = "mismatch"}

Release ==
  IF report = None THEN "blocked"
  ELSE IF Unmatched = {} THEN "clean"
  ELSE IF ~(Unmatched \subseteq explained) THEN "blocked"
  ELSE IF accepted THEN "accepted" ELSE "acceptable"
Released == Release \in {"clean", "accepted"}

ComparedFrom(tb) == IF overrides[tb] # None THEN overrides[tb] ELSE runStart

InAcceptedGap(tb) == Release = "accepted" /\ tb \in Unmatched
LateAtAll(tb, t) == t = None \/ ComparedFrom(tb) + 2 * Margin > t  \* mutant: the margin on the wrong side
Late(tb, t) == t = None \/ ComparedFrom(tb) > t + Margin
ProvenSince(tb, t) ==
  /\ report.items[tb] = "verified" /\ ComparedFrom(tb) # None
  /\ Late(tb, t)

Waivable == {tb \in Listed : tb \notin Present \/ InAcceptedGap(tb)}
MustRecheck == {tb \in Listed \ Waivable : ~ProvenSince(tb, ledger[tb].last)}

HistoryCleared ==
  readFrom # None /\ Present # {} /\ \A tb \in Present : ProvenSince(tb, readFrom)
HistoryReaches == readFrom # None /\ cdcStart # None /\ readFrom <= cdcStart

Evidence == Latest({completedAt, recheckedAt})

ReadStateByRun ==  \* mutant: any read since the run began will do
  IF lastRead = None \/ (runStart # None /\ lastRead.began < runStart) THEN "pending"
  ELSE IF ~lastRead.ok THEN "failed"
  ELSE IF ~lastRead.complete THEN "incomplete"
  ELSE IF HistoryReaches \/ HistoryCleared THEN "ok" ELSE "partial-history"
ReadState ==
  IF lastRead = None \/ (Evidence # None /\ lastRead.began <= Evidence) THEN "pending"
  ELSE IF ~lastRead.ok THEN "failed"
  ELSE IF ~lastRead.complete THEN "incomplete"
  ELSE IF HistoryReaches \/ HistoryCleared THEN "ok" ELSE "partial-history"
ReadProblem == IF ReadState \in {"pending", "ok"} THEN None ELSE ReadState

CoversProblem(w) ==  \* mutant: the problem of the read, whatever was counted since
  /\ w # None
  /\ ReadProblem \in {None, w.problem}
Covers(w) ==
  /\ w # None
  /\ \A tb \in Waivable : ledger[tb].count <= w.tables[tb]
  /\ ReadProblem \in {None, w.problem}

NeedsWaiver == Waivable # {} \/ ReadProblem # None
Blocks == MustRecheck # {} \/ (NeedsWaiver /\ ~Covers(waiver))
Held == Blocks \/ ReadState = "pending"
CanWaive == MustRecheck = {} /\ ReadState # "pending" /\ NeedsWaiver /\ ~Covers(waiver)

\* Cut over is offered.
Open == Released /\ ~Held

-----------------------------------------------------------------------------
(* Validation.  A comparison reads its table at one moment. *)

Stale(tb) == \E l \in Lines \ healed : at[l] # None /\ Of[l] = tb

\* A missed UPDATE changes no count, a missed INSERT does.
Outcomes(tb, deep) ==
  IF tb \in explained THEN {"mismatch"}
  ELSE IF deep THEN {IF Stale(tb) THEN "mismatch" ELSE "verified"}
  ELSE IF Stale(tb) THEN {"matched", "mismatch"} ELSE {"matched"}

\* A run without a read after it opens nothing.
MayStart == spent + 1 < MaxSpent

StartRun(S, checksum) ==
  /\ run = NoRun /\ MayStart /\ S # {}
  /\ report' = None /\ runStart' = None /\ overrides' = NoTimes /\ recheckedAt' = None
  /\ waiver' = None /\ acknowledged' = {} /\ mixed' = {}
  /\ run' = [NoRun EXCEPT !.kind = "run", !.todo = S, !.deep = IF checksum THEN S ELSE {},
                          !.checksum = checksum, !.began = now]
  /\ spent' = spent + 1
  /\ UNCHANGED <<world, tool, excused, completedAt, accepted, healed, saved, faults>>

Compare(tb) ==
  /\ tb \in run.todo
  /\ \E v \in Outcomes(tb, tb \in run.deep) :
       run' = [run EXCEPT !.todo = @ \ {tb}, !.items[tb] = v]
  /\ UNCHANGED <<world, tool, excused, verdict, healed, saved, counters>>

\* The tables the ledger lists by now that only their counts speak for.
ForcedPass == {tb \in Listed : run.items[tb] = "matched"}

ChecksumPass ==
  /\ run.kind = "run" /\ run.todo = {} /\ run.passBegan = None /\ ForcedPass # {}
  /\ run' = [run EXCEPT !.todo = ForcedPass, !.deep = @ \cup ForcedPass, !.pass = ForcedPass,
                        !.passBegan = now]
  /\ UNCHANGED <<world, tool, excused, verdict, healed, saved, counters>>

FinishRun ==
  /\ run.kind = "run" /\ run.todo = {}
  /\ run.passBegan # None \/ ForcedPass = {}
  /\ report' = [items |-> run.items, checksum |-> run.checksum]
  /\ runStart' = run.began
  /\ overrides' = [tb \in Tables |-> IF tb \in run.pass THEN run.passBegan ELSE None]
  /\ completedAt' = now /\ recheckedAt' = None /\ waiver' = None /\ acknowledged' = {}
  /\ run' = NoRun
  /\ UNCHANGED <<world, tool, excused, accepted, mixed, healed, saved, counters>>

\* Cancelled or failed: no report, but a finish time.
StopRun ==
  /\ run.kind = "run"
  /\ completedAt' = now
  /\ run' = NoRun
  /\ UNCHANGED <<world, tool, excused, report, runStart, overrides, recheckedAt, accepted, waiver,
                 acknowledged, mixed, healed, saved, counters>>

StartRecheckAny(S) ==  \* mutant: tables the report leaves out as well
  /\ run = NoRun /\ MayStart /\ S # {} /\ report # None
  /\ run' = [NoRun EXCEPT !.kind = "recheck", !.todo = S,
                          !.deep = IF report.checksum THEN S ELSE S \cap Listed, !.began = now]
  /\ spent' = spent + 1
  /\ UNCHANGED <<world, tool, excused, verdict, healed, saved, faults>>
StartRecheck(S) ==
  /\ run = NoRun /\ MayStart /\ S # {} /\ S \subseteq Present
  /\ run' = [NoRun EXCEPT !.kind = "recheck", !.todo = S,
                          !.deep = IF report.checksum THEN S ELSE S \cap Listed, !.began = now]
  /\ spent' = spent + 1
  /\ UNCHANGED <<world, tool, excused, verdict, healed, saved, faults>>

Rechecked == {tb \in Tables : run.items[tb] # "absent"}

MergeNow ==  \* mutant: stamped with its end
  /\ run.kind = "recheck" /\ run.todo = {}
  /\ report' = [report EXCEPT !.items = [tb \in Tables |-> IF tb \in Rechecked THEN run.items[tb] ELSE @[tb]]]
  /\ overrides' = [tb \in Tables |-> IF tb \in Rechecked THEN now ELSE overrides[tb]]
  /\ recheckedAt' = now /\ mixed' = mixed \ Rechecked
  /\ run' = NoRun
  /\ UNCHANGED <<world, tool, excused, runStart, completedAt, accepted, waiver, acknowledged, healed, counters>>
Merge ==
  /\ run.kind = "recheck" /\ run.todo = {}
  /\ report' = [report EXCEPT !.items = [tb \in Tables |-> IF tb \in Rechecked THEN run.items[tb] ELSE @[tb]]]
  /\ overrides' = [tb \in Tables |-> IF tb \in Rechecked THEN run.began ELSE overrides[tb]]
  /\ recheckedAt' = now /\ mixed' = mixed \ Rechecked
  /\ run' = NoRun
  /\ UNCHANGED <<world, tool, excused, runStart, completedAt, accepted, waiver, acknowledged, healed, counters>>

FinishRecheck == Merge /\ UNCHANGED saved

\* The merge falls between two reads of a snapshot: the report before it, its times after it.
SaveInMerge ==
  /\ faults < MaxFaults
  /\ Merge
  /\ \E r \in {recheckedAt, recheckedAt'} :
       saved' = [Snapshot EXCEPT !.recheckedAt = r, !.overrides = overrides', !.mixed = @ \cup Rechecked]

StopRecheck ==
  /\ run.kind = "recheck"
  /\ run' = NoRun
  /\ UNCHANGED <<world, tool, excused, verdict, healed, saved, counters>>

-----------------------------------------------------------------------------
(* The operator, the stream, the reads, and a restart. *)

Accept ==
  /\ Release = "acceptable" /\ ~accepted
  /\ accepted' = TRUE
  /\ UNCHANGED <<world, tool, excused, report, runStart, overrides, completedAt, recheckedAt, waiver,
                 acknowledged, mixed, healed, run, saved, counters>>

Waive ==
  /\ Released /\ CanWaive
  /\ waiver' = [tables |-> [tb \in Tables |-> IF tb \in Waivable THEN ledger[tb].count ELSE 0],
                problem |-> ReadProblem]
  /\ acknowledged' = {l \in counted : Of[l] \in Waivable}
  /\ UNCHANGED <<world, tool, excused, report, runStart, overrides, completedAt, recheckedAt, accepted,
                 mixed, healed, run, saved, counters>>

Heal(l) ==
  /\ at[l] # None /\ l \notin healed
  /\ healed' = healed \cup {l}
  /\ UNCHANGED <<world, tool, excused, verdict, run, saved, counters>>

LandRead ==
  /\ spent < MaxSpent /\ spent' = spent + 1
  /\ \E S \in SUBSET Shown : Land(S) \/ LandUnpublished(S)
  /\ UNCHANGED <<verdict, healed, run, saved, faults>>

Stream == World /\ UNCHANGED gate

Save ==
  /\ faults < MaxFaults
  /\ saved' = Snapshot
  /\ UNCHANGED <<world, tool, excused, verdict, healed, run, counters>>

RestartAppOnRead ==  \* mutant: the last read outlives the ledger it spoke for
  /\ faults < MaxFaults /\ faults' = faults + 1
  /\ ledger' = saved.ledger /\ counted' = saved.counted /\ readFrom' = saved.readFrom /\ UNCHANGED lastRead
  /\ report' = saved.report /\ runStart' = saved.runStart /\ overrides' = saved.overrides
  /\ completedAt' = saved.completedAt /\ recheckedAt' = saved.recheckedAt
  /\ accepted' = FALSE /\ waiver' = saved.waiver /\ acknowledged' = saved.acknowledged
  /\ mixed' = saved.mixed
  /\ run' = NoRun
  /\ UNCHANGED <<world, excused, healed, saved, spent>>
RestartApp ==
  /\ faults < MaxFaults /\ faults' = faults + 1
  /\ ledger' = saved.ledger /\ counted' = saved.counted /\ readFrom' = saved.readFrom /\ lastRead' = None
  /\ report' = saved.report /\ runStart' = saved.runStart /\ overrides' = saved.overrides
  /\ completedAt' = saved.completedAt /\ recheckedAt' = saved.recheckedAt
  /\ accepted' = FALSE /\ waiver' = saved.waiver /\ acknowledged' = saved.acknowledged
  /\ mixed' = saved.mixed
  /\ run' = NoRun
  /\ UNCHANGED <<world, excused, healed, saved, spent>>

GateStep ==
  \/ \E S \in SUBSET Tables : StartRecheck(S) \/ \E c \in BOOLEAN : StartRun(S, c)
  \/ \E tb \in Tables : Compare(tb)
  \/ ChecksumPass \/ FinishRun \/ StopRun \/ FinishRecheck \/ SaveInMerge \/ StopRecheck
  \/ Accept \/ Waive \/ Stream \/ LandRead \/ Save \/ RestartApp
  \/ \E l \in Lines : Heal(l)
GateNext == GateStep /\ UNCHANGED explained

GateSpec == GateInit /\ [][GateNext]_gvars

-----------------------------------------------------------------------------
Waivers == [tables : [Tables -> Nat], problem : Problems \cup {None}]

TypeOK ==
  /\ healed \subseteq {l \in Lines : at[l] # None} /\ counted \subseteq Shown /\ acknowledged \subseteq Lines
  /\ mixed \subseteq Present
  /\ ledger \in [Tables -> Entries] /\ lastRead \in Record \cup {None} /\ readFrom \in Time
  /\ report \in [items : Items, checksum : BOOLEAN] \cup {None}
  /\ runStart \in Time /\ overrides \in [Tables -> Time] /\ completedAt \in Time /\ recheckedAt \in Time
  /\ waiver \in Waivers \cup {None}
  /\ run.kind = "recheck" => report # None /\ run.todo \cup Rechecked \subseteq Present
  /\ run.kind = "run" => report = None

\* What a row may owe its staleness to when cut over is offered: a dead letter the operator
\* acknowledged; one the log showed only after the last read began, and so after the latest
\* validation; one that no read owes; or a read problem the operator waived.
Known(l) ==
  \/ l \in acknowledged
  \/ l \notin counted /\ (l \notin Shown \/ (shown[l] >= lastRead.began /\ shown[l] > Evidence))
  \/ l \in excused
  \/ ReadProblem # None

\* A dead letter from before the reading began, of a table the report leaves out.
Unread(l) == l \notin counted /\ at[l] < readFrom /\ Of[l] \notin Present

\* Cut over is offered only if no dead letter is still stale but the known ones, however
\* comparisons, dead letters, reads, waivers and restarts follow on each other.  Set apart are
\* the tables whose old verdict a restart dates by a later comparison.
OpenIsRight ==
  Open => \A l \in Lines \ healed : at[l] # None => Known(l) \/ Unread(l) \/ Of[l] \in mixed

\* GateInv adds the types: a re-check runs over tables of the report alone, so its merge always
\* has a report to go into.
GateInv == TypeOK /\ OpenIsRight

-----------------------------------------------------------------------------
(* The inductive invariant behind them.                                    *)

\* Nothing is from the future, and no dead letter from before the CDC start.
Past(t) == t = None \/ t <= now
ClocksInv ==
  /\ now \in Nat /\ First <= now /\ cdcStart \in Starts
  /\ at \in [Lines -> Time] /\ shown \in [Lines -> Time]
  /\ \A l \in Lines : at[l] # None /\ cdcStart # None => cdcStart <= at[l]
  /\ \A l \in Shown : at[l] # None
  /\ Past(runStart) /\ \A tb \in Tables : Past(overrides[tb])
  /\ Past(saved.runStart) /\ \A tb \in Tables : Past(saved.overrides[tb])
  /\ Past(run.began) /\ Past(run.passBegan)

Runs == [kind : {"none", "run", "recheck"}, todo : SUBSET Tables, deep : SUBSET Tables,
         checksum : BOOLEAN, items : Items, began : Time, pass : SUBSET Tables, passBegan : Time]
RunInv ==
  /\ run \in Runs /\ explained \subseteq Tables
  /\ run.kind = "none" => run = NoRun
  /\ run.kind # "none" => run.began # None
  /\ run.kind = "recheck" => run.pass = {}
  /\ run.pass # {} => run.passBegan # None
  /\ report # None => completedAt # None

Snapshots ==
  [ledger : [Tables -> Entries], counted : SUBSET Lines, readFrom : Time,
   report : [items : Items, checksum : BOOLEAN] \cup {None}, runStart : Time,
   overrides : [Tables -> Time], completedAt : Time, recheckedAt : Time,
   waiver : Waivers \cup {None}, acknowledged : SUBSET Lines, mixed : SUBSET Tables]
SavedInv ==
  /\ saved \in Snapshots /\ saved.counted \subseteq Shown
  /\ saved.report # None => saved.completedAt # None
  /\ saved.report = None => saved.mixed = {}
  /\ \A tb \in saved.mixed : saved.report.items[tb] # "absent"

\* The ledger counts no fewer dead letters than it knows of, and has the time of the latest.
Holds(e, C) ==
  /\ \A tb \in Tables : Cardinality(LinesOf(tb, C)) <= e[tb].count
  /\ \A l \in C : e[Of[l]].last # None /\ at[l] <= e[Of[l]].last
LedgerInv == Holds(ledger, counted) /\ Holds(saved.ledger, saved.counted)

\* A waiver as high as the ledger was given for each dead letter in it.
Covered(w, e, C, A) ==
  w # None => \A tb \in Tables : /\ w.tables[tb] <= e[tb].count
                                 /\ w.tables[tb] < e[tb].count \/ LinesOf(tb, C) \subseteq A
WaiverInv ==
  /\ Covered(waiver, ledger, counted, acknowledged)
  /\ Covered(saved.waiver, saved.ledger, saved.counted, saved.acknowledged)

\* A table verified by a comparison that began at t has no dead letter stale from before t, but
\* for the sink's clock.
FreshSince(tb, v, t) ==
  v = "verified" /\ t # None =>
    \A l \in Lines \ healed : Of[l] = tb /\ at[l] # None => t <= at[l] + Skew
VerdictInv ==
  /\ report # None => \A tb \in Tables \ mixed : FreshSince(tb, report.items[tb], ComparedFrom(tb))
  /\ saved.report # None =>
       \A tb \in Tables \ saved.mixed :
         FreshSince(tb, saved.report.items[tb],
                 IF saved.overrides[tb] # None THEN saved.overrides[tb] ELSE saved.runStart)
  /\ \A tb \in Tables :
       FreshSince(tb, run.items[tb], IF tb \in run.pass THEN run.passBegan ELSE run.began)

IInv == TypeOK /\ ClocksInv /\ RunInv /\ SavedInv /\ LedgerInv /\ WaiverInv /\ VerdictInv /\ Speaks
=============================================================================
