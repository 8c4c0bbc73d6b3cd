---------------------------- MODULE OverlayLedger ----------------------------
(***************************************************************************)
(* Excluded columns and the record of what the tool changed for them.      *)
(* Before rows are written without a column, the column loses its DEFAULT  *)
(* on Aurora DSQL, so that every row holds NULL there.  The ledger         *)
(* (core/overlay_ledger.py), one object per target, records which DEFAULTs *)
(* were dropped and under which set of columns the rows were written.      *)
(* Full Load (_full_load_engine.py), Start CDC (_cdc_overlay.py) and the   *)
(* restore at cut over (cutover_defaults.py) read and merge it.            *)
(*                                                                         *)
(* One session migrates the tables.  A job may end at any step: cancelled, *)
(* failed, or with the process it runs in.                                 *)
(***************************************************************************)
EXTENDS Naturals, FiniteSets

CONSTANTS
  Tables, Columns,
  Defaults, NoDefault,   \* DEFAULT expressions, and the absence of one
  Ddls,                  \* the DDLs an operator may apply: the DEFAULT of each column
  NoRecord,
  MaxAttempts,  \* _BlobLedger.max_attempts
  MaxJobs, MaxFaults   \* bounds of the model

ASSUME DdlAssumption == Ddls \subseteq [Columns -> Defaults \cup {NoDefault}]
ASSUME MarkAssumption == NoDefault \notin Defaults
ASSUME BoundAssumption == MaxAttempts \in Nat \ {0} /\ MaxJobs \in Nat /\ MaxFaults \in Nat

Values == Defaults \cup {NoDefault}

\* OverlayLedgerTable: the set, whether every row was written under it, and the DEFAULT
\* recorded for each column.
Records == [set : SUBSET Columns, empty : BOOLEAN, owed : [Columns -> Values]]
ASSUME RecordAssumption == NoRecord \notin Records

VARIABLES
  \* The target.
  exists,       \* the tables that exist
  default,      \* table -> column -> its DEFAULT
  dropped,      \* table -> column -> the DEFAULT the overlay dropped and nobody set again
  kinds,        \* table -> the kinds of its rows: the columns NULL for having been left out
  unread,       \* history: tables written, since they were last dropped, by a load or a stream
                \* that went by another record of them than the ledger's
  ledger,       \* the ledger object: table -> its record
  \* The session.
  excluded,     \* table -> the excluded columns
  uses,         \* it is marked as using the ledger
  cdc,          \* "none", "streaming", "drained" (attested at cut over) or "frozen" (drained,
                \* the attestation withdrawn)
  \* Its Full Load or Start CDC job.
  kind,         \* "none", "load" or "cdc"
  at,           \* table -> where the job is with it
  replace,      \* the tables it recreates
  view,         \* the job's view of the ledger
  facts,        \* table -> the facts it read
  \* Its restore job.
  phase,        \* "idle", "read" or "unit"
  items,        \* the columns to restore: <<table, column, recorded DEFAULT>>
  gone,         \* the items found absent
  absent,       \* the tables the screen showed as absent
  tries,        \* failed attempts of the merge under way
  jobs, faults  \* counters of the environment

target == <<exists, default, dropped, kinds, unread>>
session == <<excluded, uses, cdc>>
run == <<kind, at, replace, view, facts>>
restore == <<phase, items, gone, absent>>
vars == <<target, ledger, session, run, restore, tries, jobs, faults>>

NoValues == [c \in Columns |-> NoDefault]
NoFacts == [rows |-> FALSE, fresh |-> FALSE, default |-> NoValues]
NoView == [t \in Tables |-> NoRecord]

Init ==
  /\ exists = Tables
  /\ default \in [Tables -> Ddls]
  /\ dropped = [t \in Tables |-> NoValues]
  /\ kinds \in [Tables -> {{}, {{}}}] /\ unread = {}
  /\ ledger = NoView
  /\ excluded = [t \in Tables |-> {}] /\ uses = FALSE /\ cdc = "none"
  /\ kind = "none" /\ at = [t \in Tables |-> "idle"] /\ replace = {}
  /\ view = NoView /\ facts = [t \in Tables |-> NoFacts]
  /\ phase = "idle" /\ items = {} /\ gone = {} /\ absent = {}
  /\ tries = [t \in Tables |-> 0] /\ jobs = 0 /\ faults = 0

-----------------------------------------------------------------------------
(* The pure rules of core/overlay_ledger.py.                               *)

\* reincluded_columns: NULL in the rows there, and written by the next load.
Reincluded(record, set) == IF record = NoRecord THEN {} ELSE record.set \ set

\* append_accepted: every row was written under exactly this set.
AppendAccepted(record, set) ==
  record # NoRecord /\ record.set = set /\ record.empty

\* Mutant of AppendRefused: re-included columns are not looked for.
AppendRefusedOverlay(record, set) == set # {} /\ ~AppendAccepted(record, set)

\* append_refusal of a table that holds rows and is not exempt.
AppendRefused(record, set) ==
  \/ set # {} /\ ~AppendAccepted(record, set)
  \/ Reincluded(record, set) # {}

\* The DEFAULTs a record speaks of after the overlay of set: one dropped now is rewritten,
\* one dropped before is kept, unless the table was recreated.
Owed(old, set, f) ==
  [c \in Columns |->
     IF c \in set /\ f.default[c] # NoDefault THEN f.default[c]
     ELSE IF old = NoRecord \/ f.fresh THEN NoDefault
     ELSE old.owed[c]]

\* Mutant of EveryRow: a record that says so keeps saying so.
EveryRowOnce(old, set, f) ==
  \/ ~f.rows
  \/ old # NoRecord /\ old.empty

\* empty_when_applied: the table has no row, or only rows written under the same set.
EveryRow(old, set, f) ==
  \/ ~f.rows
  \/ old # NoRecord /\ old.set = set /\ old.empty

\* plan_ledger_record: what the record of a table becomes; f.rows is FALSE when the
\* table was just recreated.
Planned(old, set, f) ==
  IF set = {} /\ old # NoRecord /\ f.rows
  THEN [old EXCEPT !.empty = @ /\ Reincluded(old, set) = {}]
  ELSE IF set = {} /\ Owed(old, set, f) = NoValues
  THEN NoRecord
  ELSE [set |-> set, empty |-> EveryRow(old, set, f), owed |-> Owed(old, set, f)]

-----------------------------------------------------------------------------
(* Jobs: how they start, end and keep out of each other's way.             *)

Fault == faults < MaxFaults /\ faults' = faults + 1

\* No job is under way.
Quiet == kind = "none" /\ phase = "idle"

\* Mutant of MayOverlay: a running restore does not hold a load or a start back.
MayOverlayAnyTime == kind = "none"

\* cutover_restore_block_reason: no job that drops DEFAULTs starts beside a restore.
MayOverlay == kind = "none" /\ phase = "idle"

\* Mutant of MayRestore: the attestation is not asked for.
MayRestoreStreaming == kind = "none" /\ phase = "idle"

\* cutover_job_block and the attestation: no restore beside a job that drops DEFAULTs, and
\* with CDC in use only once the operator attests that it has drained.
MayRestore == kind = "none" /\ phase = "idle" /\ cdc \in {"none", "drained"}

RunOver ==
  /\ kind' = "none" /\ at' = [t \in Tables |-> "idle"] /\ replace' = {}
  /\ view' = NoView /\ facts' = [t \in Tables |-> NoFacts]
  /\ tries' = [t \in Tables |-> 0]

\* The job is cancelled, fails, has nothing left to do, or dies with its process.
RunEnds ==
  /\ kind # "none"
  /\ RunOver
  /\ UNCHANGED <<target, ledger, session, restore, jobs, faults>>

RestoreOver == phase' = "idle" /\ items' = {} /\ gone' = {} /\ absent' = {}

RestoreDies ==
  /\ phase # "idle"
  /\ RestoreOver /\ tries' = [t \in Tables |-> 0]
  /\ UNCHANGED <<target, ledger, session, run, jobs, faults>>

\* Other columns are excluded: locked while the CDC infrastructure stands
\* (exclusion_lock_state).
ChangeExclusions(t) ==
  /\ Quiet /\ cdc = "none"
  /\ \E set \in SUBSET Columns \ {excluded[t]} : excluded' = [excluded EXCEPT ![t] = set]
  /\ UNCHANGED <<target, ledger, uses, cdc, run, restore, tries, jobs, faults>>

\* Start over: the session forgets; the target and its ledger do not.
StartOver ==
  /\ Quiet /\ cdc = "none" /\ uses
  /\ excluded' = [t \in Tables |-> {}] /\ uses' = FALSE
  /\ UNCHANGED <<target, ledger, cdc, run, restore, tries, jobs, faults>>

\* The Start dialog or the cut-over screen reads the ledger and finds records: the session
\* is marked. A job goes by the mark it was started with.
FindRecords ==
  /\ Quiet /\ ~uses /\ ledger # NoView
  /\ uses' = TRUE
  /\ UNCHANGED <<target, ledger, excluded, cdc, run, restore, tries, jobs, faults>>

\* The operator attests that source writes are frozen and CDC has drained.
Attest ==
  /\ cdc \in {"streaming", "frozen"} /\ kind = "none"
  /\ cdc' = "drained"
  /\ UNCHANGED <<target, ledger, excluded, uses, run, restore, tries, jobs, faults>>

\* Stop CDC; the infrastructure is deleted.
EndCdc ==
  /\ cdc # "none" /\ Quiet
  /\ cdc' = "none"
  /\ UNCHANGED <<target, ledger, excluded, uses, run, restore, tries, jobs, faults>>

AnyExcluded == \E t \in Tables : excluded[t] # {}

Starts(what, ts, again, place) ==
  /\ MayOverlay /\ jobs < MaxJobs /\ jobs' = jobs + 1
  /\ kind' = what /\ replace' = again
  /\ at' = [t \in Tables |-> IF t \in ts THEN place ELSE "idle"]
  /\ UNCHANGED <<target, ledger, excluded, view, facts, restore, tries, faults>>

\* A Full Load, Retry or Reload of some tables; none while CDC is live (cdc_load_hold).
StartLoad ==
  /\ cdc = "none"
  /\ \E ts \in SUBSET Tables \ {{}} : \E again \in SUBSET ts :
       /\ Starts("load", ts, again, "read")
       /\ uses' = (uses \/ \E t \in ts : excluded[t] # {})
  /\ UNCHANGED cdc

\* Start CDC or Retry CDC. A session without excluded columns that is not marked makes no
\* call, and reads no ledger. The attestation is withdrawn.
StartCdc ==
  /\ Starts("cdc", Tables, {}, IF AnyExcluded \/ uses THEN "read" ELSE "ready")
  /\ uses' = (uses \/ AnyExcluded)
  /\ cdc' = IF cdc = "drained" THEN "frozen" ELSE cdc

-----------------------------------------------------------------------------
(* The steps of a Full Load and of Start CDC.                              *)

Goes(t, place) == at' = [at EXCEPT ![t] = place]

\* The job has failed for table t: a load goes on with the others, a start is blocked.
Fails(t) ==
  IF kind = "cdc" THEN RunOver
  ELSE Goes(t, "idle") /\ UNCHANGED <<kind, replace, view, facts, tries>>

Reading == {t \in Tables : at[t] = "read"}

\* What a table is left with by the read of the ledger.
PlaceAfterRead(t, known) ==
  IF at[t] # "read" THEN at[t]
  ELSE IF t \in replace THEN "drop"
  ELSE IF excluded[t] # {} \/ (known /\ ledger[t] # NoRecord) THEN "facts"
  ELSE IF kind = "cdc" THEN "ready"
  ELSE "load"

\* The job's one read of the ledger (_open_run_ledger_view, apply_start_cdc_overlay). A load
\* that finds a record of its tables marks the session.
ReadLedger ==
  /\ Reading # {}
  /\ view' = ledger
  /\ uses' = (uses \/ \E t \in Reading : ledger[t] # NoRecord)
  /\ at' = [t \in Tables |-> PlaceAfterRead(t, TRUE)]
  /\ UNCHANGED <<target, ledger, excluded, cdc, kind, replace, facts, restore, tries, jobs, faults>>

\* The ledger is unreadable: a job of a session that uses it ends with nothing touched; the
\* load of any other goes on as if there were no record.
ReadFails ==
  /\ Reading # {} /\ Fault
  /\ IF uses THEN RunOver
     ELSE /\ kind = "load"
          /\ at' = [t \in Tables |-> PlaceAfterRead(t, FALSE)]
          /\ UNCHANGED <<kind, replace, view, facts, tries>>
  /\ UNCHANGED <<target, ledger, session, restore, jobs>>

\* The overlay has nothing to do with table t in this job.
Untouched(t) == excluded[t] = {} /\ view[t] = NoRecord

\* recreate_table: the first of its two statements.
DropTable(t) ==
  /\ at[t] = "drop"
  /\ exists' = exists \ {t}
  /\ default' = [default EXCEPT ![t] = NoValues]
  /\ dropped' = [dropped EXCEPT ![t] = NoValues]
  /\ kinds' = [kinds EXCEPT ![t] = {}] /\ unread' = unread \ {t}
  /\ Goes(t, "create")
  /\ UNCHANGED <<ledger, session, kind, replace, view, facts, restore, tries, jobs, faults>>

\* The second, with the DDL applied now. The parent records again what it finds; a worker
\* that recreates a table recorded before goes by that record (_overlay_verify_recorded).
CreateTable(t) ==
  /\ at[t] = "create"
  /\ exists' = exists \cup {t}
  /\ \E ddl \in Ddls : default' = [default EXCEPT ![t] = ddl]
  /\ \/ Untouched(t) /\ Goes(t, "load")
     \/ ~Untouched(t) /\ Goes(t, "facts")
     \/ facts[t].fresh /\ Goes(t, "alter")
  /\ UNCHANGED <<dropped, kinds, unread, ledger, session, kind, replace, view, facts, restore,
                 tries, jobs, faults>>

Facts(t) ==
  [rows |-> t \notin replace /\ kinds[t] # {}, fresh |-> t \in replace,
   default |-> default[t]]

\* The catalog is read; an append that would mix NULL with values is refused, except beside
\* CDC, which never writes an excluded column.
ReadFacts(t) ==
  /\ at[t] = "facts"
  /\ \/ /\ t \in exists
        /\ kind = "cdc" \/ ~Facts(t).rows \/ ~AppendRefused(view[t], excluded[t])
        /\ facts' = [facts EXCEPT ![t] = Facts(t)]
        /\ Goes(t, "record")
        /\ UNCHANGED <<kind, replace, view, tries, faults>>
     \/ /\ t \notin exists /\ kind = "cdc"
        /\ Goes(t, "ready")
        /\ UNCHANGED <<kind, replace, view, facts, tries, faults>>
     \/ /\ kind = "load"
        /\ t \notin exists \/ (Facts(t).rows /\ AppendRefused(view[t], excluded[t]))
        /\ Fails(t) /\ UNCHANGED faults
     \/ Fails(t) /\ Fault
  /\ UNCHANGED <<target, ledger, session, restore, jobs>>

\* OverlayLedgerView.merge: one locked attempt, which reads the ledger afresh, writes it and
\* reads it back. The view takes in what was read back.
Record(t) ==
  LET record == Planned(ledger[t], excluded[t], facts[t])
  IN /\ at[t] = "record"
     /\ ledger' = [ledger EXCEPT ![t] = record]
     /\ view' = [view EXCEPT ![t] = record]
     /\ tries' = [tries EXCEPT ![t] = 0]
     /\ Goes(t, "alter")
     /\ UNCHANGED <<target, session, kind, replace, facts, restore, jobs, faults>>

\* Mutant of MoreAttempts: one attempt too many.
MoreAttemptsOne(n) == n < MaxAttempts

\* Is the merge tried again after n failed attempts and one more?
MoreAttempts(n) == n + 1 < MaxAttempts

\* An attempt that fails, though its write may have landed; after MaxAttempts of them the
\* table fails with nothing altered.
RecordFails(t) ==
  LET record == Planned(ledger[t], excluded[t], facts[t])
  IN /\ at[t] = "record" /\ Fault
     /\ ledger' \in {ledger, [ledger EXCEPT ![t] = record]}
     /\ IF MoreAttempts(tries[t])
        THEN tries' = [tries EXCEPT ![t] = @ + 1] /\ UNCHANGED run
        ELSE Fails(t)
     /\ UNCHANGED <<target, session, restore, jobs>>

\* The columns of table t whose DEFAULT the overlay still has to drop.
Standing(t) == {c \in excluded[t] : default[t][c] # NoDefault}

\* Mutant of Unrecorded: the DEFAULTs are not compared.
UnrecordedNone(t) == {}

\* The standing DEFAULTs that are not the recorded ones (_refuse_unrecorded_defaults).
Unrecorded(t) ==
  {c \in Standing(t) : view[t] = NoRecord \/ view[t].owed[c] # default[t][c]}

\* apply_exclusion_overlay: a statement per column, refused when a DEFAULT is not recorded.
Alter(t) ==
  /\ at[t] = "alter" /\ Standing(t) # {}
  /\ IF Unrecorded(t) # {}
     THEN Fails(t) /\ UNCHANGED <<default, dropped>>
     ELSE /\ \E c \in Standing(t) :
               /\ dropped' = [dropped EXCEPT ![t][c] = default[t][c]]
               /\ default' = [default EXCEPT ![t][c] = NoDefault]
          /\ UNCHANGED <<run, tries>>
  /\ UNCHANGED <<exists, kinds, unread, ledger, session, restore, jobs, faults>>

\* The overlay is in place (_assert_overlay_in_place).
Altered(t) ==
  /\ at[t] = "alter" /\ Standing(t) = {}
  /\ Goes(t, IF kind = "cdc" THEN "ready" ELSE "load")
  /\ UNCHANGED <<target, ledger, session, kind, replace, view, facts, restore, tries, jobs,
                 faults>>

\* The columns a row written now holds NULL in for having been left out.
LeftNull(t) == {c \in excluded[t] : default[t][c] = NoDefault}

Writes(t) ==
  /\ t \in exists
  /\ kinds' = [kinds EXCEPT ![t] = @ \cup {LeftNull(t)}]
  /\ UNCHANGED <<exists, default, dropped, ledger, session, run, restore, tries, jobs, faults>>

\* The tables the job holds another record of than the ledger's.
Misread == {t \in Tables : view[t] # ledger[t]}

LoadRows(t) == at[t] = "load" /\ Writes(t) /\ unread' = unread \cup (Misread \cap {t})

\* The source connection drops: a table that was recreated is recreated again.
LoadAgain(t) ==
  /\ at[t] = "load" /\ t \in replace
  /\ Goes(t, "drop")
  /\ UNCHANGED <<target, ledger, session, kind, replace, view, facts, restore, tries, jobs,
                 faults>>

\* Start CDC creates the connectors.
Connectors ==
  /\ kind = "cdc" /\ \A t \in Tables : at[t] = "ready"
  /\ cdc' = "streaming" /\ unread' = unread \cup Misread
  /\ RunOver
  /\ UNCHANGED <<exists, default, dropped, kinds, ledger, excluded, uses, restore, jobs, faults>>

\* The sink writes a row of the stream.
StreamRows(t) == cdc = "streaming" /\ Writes(t) /\ UNCHANGED unread

-----------------------------------------------------------------------------
(* The restore at cut over.                                                *)

Entries ==
  {i \in Tables \X Columns \X Defaults :
     ledger[i[1]] # NoRecord /\ ledger[i[1]].owed[i[2]] = i[3]}

\* The operator restores DEFAULTs shown as pending; the automatic list also takes along
\* what is shown as gone (classify_cutover_defaults, _run_cutover_default_restore).
StartRestore ==
  LET pending == {i \in Entries : i[1] \in exists /\ default[i[1]][i[2]] = NoDefault}
      missing == {i \in Entries : i[1] \notin exists}
  IN /\ MayRestore /\ jobs < MaxJobs /\ jobs' = jobs + 1
     /\ \E chosen \in SUBSET pending \ {{}} : items' \in {chosen, chosen \cup missing}
     /\ absent' = Tables \ exists
     /\ phase' = "read"
     /\ UNCHANGED <<target, ledger, session, run, gone, tries, faults>>

\* CDC is probed, then the ledger is read. A stream that has not settled refuses the restore
\* and withdraws the attestation, an unreadable ledger refuses it too, and an item whose
\* record changed since the screen was drawn is skipped.
ReadForRestore ==
  /\ phase = "read"
  /\ \/ phase' = "unit" /\ items' = items \cap Entries /\ UNCHANGED <<cdc, gone, absent, faults>>
     \/ RestoreOver /\ Fault /\ cdc' \in {cdc, IF cdc = "drained" THEN "frozen" ELSE cdc}
  /\ UNCHANGED <<target, ledger, excluded, uses, run, tries, jobs>>

\* restore_column_default: a column that has a DEFAULT keeps it, one that is absent is gone.
RestoreOne ==
  /\ phase = "unit"
  /\ \E i \in items :
       LET t == i[1]
           c == i[2]
       IN /\ items' = items \ {i}
          /\ \/ /\ t \in exists /\ default[t][c] = NoDefault
                /\ default' = [default EXCEPT ![t][c] = i[3]]
                /\ dropped' = [dropped EXCEPT ![t][c] = NoDefault]
                /\ UNCHANGED <<gone, faults>>
             \/ /\ t \in exists /\ default[t][c] # NoDefault
                /\ UNCHANGED <<default, dropped, gone, faults>>
             \/ /\ t \notin exists /\ gone' = gone \cup {i}
                /\ UNCHANGED <<default, dropped, faults>>
             \/ Fault /\ UNCHANGED <<default, dropped, gone>>
  /\ UNCHANGED <<exists, kinds, unread, ledger, session, run, phase, absent, tries, jobs>>

\* apply_restore_results: an absent column's entry is pruned, and the record of an absent
\* table with its last entry.
Pruned(t) ==
  LET lost == {i[2] : i \in {i \in gone : i[1] = t}}
      owed == [c \in Columns |-> IF c \in lost THEN NoDefault ELSE ledger[t].owed[c]]
  IN IF lost = {} \/ ledger[t] = NoRecord THEN ledger[t]
     ELSE IF t \in absent /\ owed = NoValues THEN NoRecord
     ELSE [ledger[t] EXCEPT !.owed = owed]

\* The one merge of the results, when every item was tried or the job was cancelled; when it
\* fails the operator is warned.
RecordRestore ==
  /\ phase = "unit"
  /\ \/ ledger' = [t \in Tables |-> Pruned(t)] /\ UNCHANGED faults
     \/ ledger' = ledger /\ Fault
  /\ RestoreOver
  /\ UNCHANGED <<target, session, run, tries, jobs>>

-----------------------------------------------------------------------------
RunStep(t) ==
  \/ DropTable(t) \/ CreateTable(t) \/ ReadFacts(t) \/ Record(t) \/ RecordFails(t)
  \/ Alter(t) \/ Altered(t) \/ LoadRows(t) \/ LoadAgain(t)

Next ==
  \/ \E t \in Tables : RunStep(t) \/ StreamRows(t) \/ ChangeExclusions(t)
  \/ StartLoad \/ StartCdc \/ ReadLedger \/ ReadFails \/ Connectors \/ RunEnds
  \/ StartRestore \/ ReadForRestore \/ RestoreOne \/ RecordRestore \/ RestoreDies
  \/ StartOver \/ FindRecords \/ Attest \/ EndCdc

Spec == Init /\ [][Next]_vars

-----------------------------------------------------------------------------
Places == {"idle", "read", "drop", "create", "facts", "record", "alter", "load", "ready"}
FactSet == [rows : BOOLEAN, fresh : BOOLEAN, default : [Columns -> Values]]

TypeOK ==
  /\ exists \subseteq Tables
  /\ default \in [Tables -> [Columns -> Values]]
  /\ dropped \in [Tables -> [Columns -> Values]]
  /\ kinds \in [Tables -> SUBSET SUBSET Columns] /\ unread \subseteq Tables
  /\ ledger \in [Tables -> Records \cup {NoRecord}]
  /\ excluded \in [Tables -> SUBSET Columns] /\ uses \in BOOLEAN
  /\ cdc \in {"none", "streaming", "drained", "frozen"}
  /\ kind \in {"none", "load", "cdc"} /\ at \in [Tables -> Places]
  /\ replace \subseteq Tables
  /\ view \in [Tables -> Records \cup {NoRecord}] /\ facts \in [Tables -> FactSet]
  /\ phase \in {"idle", "read", "unit"}
  /\ items \subseteq Tables \X Columns \X Defaults /\ gone \subseteq Tables \X Columns \X Defaults
  /\ absent \subseteq Tables
  /\ tries \in [Tables -> 0..(MaxAttempts - 1)] /\ jobs \in 0..MaxJobs /\ faults \in 0..MaxFaults

\* A DEFAULT the overlay dropped and nobody set again is recorded, with the expression it
\* had: cut over can put it back whatever ended in between.
OwedIsRecorded ==
  \A t \in Tables : \A c \in Columns :
    dropped[t][c] # NoDefault =>
      ledger[t] # NoRecord /\ ledger[t].owed[c] = dropped[t][c]

\* The record of table t says every row was written under its set only if so it is.
RecordIsRight(t) ==
  ledger[t] # NoRecord /\ ledger[t].empty => kinds[t] \subseteq {ledger[t].set}

\* A record that says every row was written under its set is right, unless a job that had
\* not read the record wrote rows.
EmptyMeansEveryRow == \A t \in Tables \ unread : RecordIsRight(t)

\* While CDC streams, the columns it leaves out have no DEFAULT, so its rows hold NULL there.
StreamLeavesNull ==
  cdc = "streaming" => \A t \in exists : LeftNull(t) = excluded[t]

\* After the load wrote a row of table t, every row was written without exactly the columns
\* it excludes.
WritesUnmixed(t) ==
  kind = "load" /\ kinds'[t] # {} /\ kinds'[t] # kinds[t] => kinds'[t] = {excluded[t]}

\* A Full Load never mixes rows, unless it or an earlier job wrote them without having read
\* the record of the table.
LoadKeepsContract == [][\A t \in Tables \ unread' : WritesUnmixed(t)]_vars
=============================================================================
