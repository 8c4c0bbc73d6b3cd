------------------------ MODULE OverlayLedgerProofs ------------------------
(***************************************************************************)
(* What OverlayLedger keeps, for all tables, columns, DEFAULTs and DDLs.   *)
(*                                                                         *)
(* OwedIsRecorded is inductive only with three facts around it: a job and  *)
(* a restore never run side by side (GateInv), what a job read of the      *)
(* catalog still holds when it writes the record (FactsInv), and what it   *)
(* holds of the ledger is the ledger when it alters (ViewInv).             *)
(* EmptyMeansEveryRow and LoadKeepsContract need in addition that the      *)
(* records, the rows and the excluded columns fit, but for the rows that   *)
(* were written past a record nobody read (ContractInv).                   *)
(***************************************************************************)
EXTENDS OverlayLedger, TLAPS

\* A job that drops DEFAULTs and a restore keep out of each other's way, and CDC is what
\* they were started beside.
GateInv ==
  /\ kind # "none" => phase = "idle"
  /\ phase # "idle" => cdc \in {"none", "drained"}
  /\ phase = "idle" => gone = {}
  /\ kind = "load" => cdc = "none"
  /\ kind = "cdc" => replace = {}
  /\ \A t \in Tables :
       /\ kind = "none" => at[t] = "idle"
       /\ at[t] \in {"drop", "create"} => t \in replace
       /\ at[t] \in {"drop", "create", "load"} => kind = "load"

\* The DEFAULTs dropped are dropped, and an absent table has nothing to restore.
TargetInv ==
  /\ \A t \in Tables :
       /\ t \notin exists => kinds[t] = {} /\ dropped[t] = NoValues /\ default[t] = NoValues
       /\ \A c \in Columns : dropped[t][c] # NoDefault => default[t][c] = NoDefault
  /\ \A i \in gone : i[1] \notin exists

\* What the job read of the catalog still holds when it writes the record.
FactsInv ==
  \A t \in Tables :
    /\ kind = "none" \/ at[t] = "read" => ~facts[t].fresh
    /\ at[t] \in {"create", "facts", "record"} /\ t \in replace =>
         dropped[t] = NoValues /\ kinds[t] = {}
    /\ at[t] = "record" => facts[t].default = default[t] /\ (facts[t].fresh <=> t \in replace)
    /\ at[t] = "record" /\ ~facts[t].rows => kinds[t] \subseteq {excluded[t]}

\* What the job holds of the ledger is the ledger, unless it read nothing of a table the
\* overlay has no business with.
ViewInv ==
  \A t \in Tables :
    /\ kind = "none" \/ at[t] = "read" => view[t] = NoRecord
    /\ at[t] = "read" => (excluded[t] # {} => uses) /\ \A s \in Tables : at[s] \in {"idle", "read"}
    /\ at[t] \in {"facts", "alter"} => view[t] = ledger[t]
    /\ at[t] \in {"drop", "create", "load"} => view[t] = ledger[t] \/ (Untouched(t) /\ ~facts[t].fresh)
    /\ at[t] = "ready" => view[t] = ledger[t] \/ Untouched(t)

\* No excluded column has its DEFAULT where rows are written.
NullInv ==
  \A t \in Tables :
    /\ at[t] = "load" => Standing(t) = {}
    /\ at[t] = "ready" /\ t \in exists => Standing(t) = {}
    /\ cdc = "streaming" /\ t \in exists => Standing(t) = {}

\* The record of table t fits the columns the session excludes.
RecordAgrees(t) ==
  /\ excluded[t] # {} => ledger[t] # NoRecord /\ ledger[t].set = excluded[t]
  /\ ledger[t] # NoRecord /\ ledger[t].empty => ledger[t].set = excluded[t]

\* It does wherever the job goes on to write rows by it, and under a stream that read it.
RecordFits(t) ==
  /\ at[t] = "alter" => RecordAgrees(t)
  /\ at[t] \in {"drop", "create"} /\ facts[t].fresh => RecordAgrees(t)
  /\ at[t] = "load" /\ view[t] = ledger[t] => RecordAgrees(t)
  /\ at[t] = "ready" /\ t \in exists /\ view[t] = ledger[t] => RecordAgrees(t)
  /\ cdc = "streaming" /\ t \in exists /\ t \notin unread => RecordAgrees(t)

\* The rows fit the excluded columns once a load may append to them, and the record.
RowsFit(t) ==
  /\ kind = "load" /\ at[t] \in {"record", "alter"} => kinds[t] \subseteq {excluded[t]}
  /\ kind = "load" /\ at[t] = "load" /\ view[t] = ledger[t] => kinds[t] \subseteq {excluded[t]}
  /\ kinds[t] \subseteq {{}} \/ (ledger[t] # NoRecord /\ ledger[t].set # {})

Fits(t) == RecordFits(t) /\ (t \notin unread => RowsFit(t) /\ RecordIsRight(t))
ContractInv == \A t \in Tables : Fits(t)

\* The inductive invariant.
IInv ==
  /\ TypeOK /\ GateInv /\ TargetInv /\ FactsInv /\ ViewInv /\ NullInv
  /\ OwedIsRecorded /\ ContractInv

USE DEF target, session, run, restore

-----------------------------------------------------------------------------
(* The operators the steps are built from.                                 *)

\* What the variables are reset to has their types.
LEMMA ValueTypes ==
  /\ NoValues \in [Columns -> Values]
  /\ NoFacts \in FactSet /\ NoFacts.fresh = FALSE
  /\ NoView \in [Tables -> Records \cup {NoRecord}]
  /\ Ddls \subseteq [Columns -> Values]
  /\ Defaults \subseteq Values
BY DdlAssumption DEF NoValues, NoFacts, NoView, Values, FactSet

\* Where the read of the ledger leaves a table.
LEMMA PlacesAfterRead ==
  ASSUME NEW t \in Tables, NEW known \in BOOLEAN
  PROVE  \/ at[t] # "read" /\ PlaceAfterRead(t, known) = at[t]
         \/ at[t] = "read" /\ PlaceAfterRead(t, known) = "drop" /\ t \in replace
         \/ at[t] = "read" /\ PlaceAfterRead(t, known) = "facts" /\ t \notin replace
         \/ /\ at[t] = "read" /\ excluded[t] = {} /\ (known => ledger[t] = NoRecord)
            /\ \/ PlaceAfterRead(t, known) = "ready" /\ kind = "cdc"
               \/ PlaceAfterRead(t, known) = "load" /\ kind # "cdc"
  BY DEF PlaceAfterRead

\* A planned record is a record, or none.
LEMMA PlannedType ==
  ASSUME NEW old \in Records \cup {NoRecord}, NEW set \in SUBSET Columns, NEW f \in FactSet
  PROVE  Planned(old, set, f) \in Records \cup {NoRecord}
<1>1. Owed(old, set, f) \in [Columns -> Values]
  BY DEF Owed, Records, FactSet, Values
<1>2. EveryRow(old, set, f) \in BOOLEAN
  BY DEF EveryRow
<1>3. CASE set = {} /\ old # NoRecord /\ f.rows
  <2>1. [old EXCEPT !.empty = @ /\ Reincluded(old, set) = {}] \in Records
    BY <1>3 DEF Records
  <2>. QED
    BY <1>3, <2>1 DEF Planned
<1>4. CASE ~(set = {} /\ old # NoRecord /\ f.rows)
  BY <1>1, <1>2, <1>4 DEF Planned, Records
<1>. QED
  BY <1>3, <1>4

\* A planned record keeps every DEFAULT recorded for a column that has none now, unless the
\* table was recreated.
LEMMA PlannedKeepsOwed ==
  ASSUME NEW old \in Records, NEW set \in SUBSET Columns, NEW f \in FactSet,
         NEW c \in Columns, f.default[c] = NoDefault, old.owed[c] # NoDefault, ~f.fresh
  PROVE  Planned(old, set, f) # NoRecord /\ Planned(old, set, f).owed[c] = old.owed[c]
<1>1. old # NoRecord
  BY RecordAssumption
<1>2. Owed(old, set, f)[c] = old.owed[c] /\ Owed(old, set, f) # NoValues
  BY <1>1 DEF Owed, NoValues
<1>3. PICK planned : planned = Planned(old, set, f)
  OBVIOUS
<1>4. CASE set = {} /\ f.rows
  <2>1. planned = [old EXCEPT !.empty = @ /\ Reincluded(old, set) = {}] /\ planned \in Records
    BY <1>1, <1>3, <1>4 DEF Planned, Records
  <2>2. planned.owed = old.owed
    BY <2>1 DEF Records
  <2>. QED
    BY <1>3, <2>1, <2>2, RecordAssumption
<1>5. CASE ~(set = {} /\ f.rows)
  <2>1. planned = [set |-> set, empty |-> EveryRow(old, set, f), owed |-> Owed(old, set, f)]
    BY <1>1, <1>2, <1>3, <1>5 DEF Planned
  <2>2. planned \in Records \cup {NoRecord}
    BY <1>3, PlannedType
  <2>3. planned \in Records
    BY <2>1, RecordAssumption, <1>2 DEF Records, Owed, EveryRow, FactSet, Values
  <2>. QED
    BY <1>2, <1>3, <2>1, <2>3, RecordAssumption
<1>. QED
  BY <1>4, <1>5

\* What a planned record says of the rows.
LEMMA PlannedSet ==
  ASSUME NEW old \in Records \cup {NoRecord}, NEW set \in SUBSET Columns, NEW f \in FactSet
  PROVE  LET planned == Planned(old, set, f)
         IN /\ set # {} => planned # NoRecord /\ planned.set = set
            /\ planned # NoRecord /\ planned.empty =>
                 planned.set = set /\ (f.rows => old # NoRecord /\ old.set = set /\ old.empty)
            /\ f.rows /\ old # NoRecord /\ old.set # {} => planned # NoRecord /\ planned.set # {}
<1>. DEFINE planned == Planned(old, set, f)
<1>1. planned \in Records \cup {NoRecord}
  BY PlannedType
<1>2. CASE set = {} /\ old # NoRecord /\ f.rows
  <2>1. planned = [old EXCEPT !.empty = @ /\ Reincluded(old, set) = {}]
    BY <1>2 DEF Planned
  <2>2. planned.set = old.set /\ (planned.empty => old.empty /\ Reincluded(old, set) = {})
    BY <1>2, <2>1 DEF Records
  <2>3. Reincluded(old, set) = old.set
    BY <1>2 DEF Reincluded, Records
  <2>4. planned \in Records
    BY <1>2, <2>1 DEF Records
  <2>. QED
    BY <1>2, <2>2, <2>3, <2>4, RecordAssumption
<1>3. CASE set = {} /\ ~(old # NoRecord /\ f.rows) /\ planned = NoRecord
  BY <1>3
<1>4. CASE ~(set = {} /\ old # NoRecord /\ f.rows) /\ (set # {} \/ planned # NoRecord)
  <2>1. planned = [set |-> set, empty |-> EveryRow(old, set, f), owed |-> Owed(old, set, f)]
    BY <1>4 DEF Planned
  <2>2. planned.set = set /\ planned.empty = EveryRow(old, set, f)
    BY <2>1
  <2>3. planned \in Records
    BY <2>1 DEF Records, Owed, EveryRow, FactSet, Values
  <2>. QED
    BY <1>4, <2>2, <2>3, RecordAssumption DEF EveryRow
<1>. QED
  BY <1>2, <1>3, <1>4

\* The merge of a table's record leaves the ledger as the invariant wants it.
LEMMA MergeKeeps ==
  ASSUME IInv, NEW t \in Tables, at[t] = "record",
         ledger' = [ledger EXCEPT ![t] = Planned(ledger[t], excluded[t], facts[t])],
         UNCHANGED <<target, cdc, excluded>>
  PROVE  /\ ledger' \in [Tables -> Records \cup {NoRecord}]
         /\ \A s \in Tables : s # t => ledger'[s] = ledger[s]
         /\ OwedIsRecorded'
         /\ RecordAgrees(t)'
         /\ t \notin unread => RecordIsRight(t)'
         /\ t \notin unread => kinds[t] \subseteq {{}} \/ (ledger'[t] # NoRecord /\ ledger'[t].set # {})
<1>. DEFINE old == ledger[t]
            planned == Planned(old, excluded[t], facts[t])
<1>1. /\ old \in Records \cup {NoRecord} /\ excluded[t] \in SUBSET Columns /\ facts[t] \in FactSet
      /\ ledger'[t] = planned /\ \A s \in Tables : s # t => ledger'[s] = ledger[s]
      /\ excluded[t] = excluded'[t] /\ kinds[t] \subseteq SUBSET Columns
  BY DEF IInv, TypeOK
<1>2. planned \in Records \cup {NoRecord}
  BY <1>1, PlannedType
<1>3. ledger' \in [Tables -> Records \cup {NoRecord}]
  BY <1>2 DEF IInv, TypeOK
<1>4. OwedIsRecorded'
  <2>. SUFFICES ASSUME NEW s \in Tables, NEW c \in Columns, dropped[s][c] # NoDefault
                PROVE  ledger'[s] # NoRecord /\ ledger'[s].owed[c] = dropped[s][c]
    BY DEF OwedIsRecorded
  <2>1. ledger[s] # NoRecord /\ ledger[s].owed[c] = dropped[s][c]
    BY DEF IInv, OwedIsRecorded
  <2>2. CASE s = t
    <3>1. facts[t].default[c] = NoDefault /\ ~facts[t].fresh
      BY <2>2 DEF IInv, FactsInv, TargetInv, NoValues
    <3>2. old \in Records /\ old.owed[c] # NoDefault
      BY <1>1, <2>1, <2>2
    <3>3. planned # NoRecord /\ planned.owed[c] = old.owed[c]
      BY <1>1, <3>1, <3>2, PlannedKeepsOwed
    <3>. QED
      BY <1>1, <2>1, <2>2, <3>3
  <2>. QED
    BY <1>1, <2>1, <2>2
<1>5. /\ excluded[t] # {} => planned # NoRecord /\ planned.set = excluded[t]
      /\ planned # NoRecord /\ planned.empty =>
           planned.set = excluded[t] /\ (facts[t].rows => old # NoRecord /\ old.set = excluded[t] /\ old.empty)
      /\ facts[t].rows /\ old # NoRecord /\ old.set # {} => planned # NoRecord /\ planned.set # {}
  BY <1>1, PlannedSet
<1>6. RecordAgrees(t)'
  BY <1>1, <1>5 DEF RecordAgrees
<1>7. ~facts[t].rows => kinds[t] \subseteq {excluded[t]}
  BY DEF IInv, FactsInv
<1>8. ASSUME t \notin unread PROVE RecordIsRight(t)'
  <2>1. RecordIsRight(t)
    BY <1>8 DEF IInv, ContractInv, Fits
  <2>. QED
    BY <1>1, <1>5, <1>7, <2>1 DEF RecordIsRight
<1>9. ASSUME t \notin unread
      PROVE  kinds[t] \subseteq {{}} \/ (ledger'[t] # NoRecord /\ ledger'[t].set # {})
  <2>1. kinds[t] \subseteq {{}} \/ (old # NoRecord /\ old.set # {})
    BY <1>9 DEF IInv, ContractInv, Fits, RowsFit
  <2>. QED
    BY <1>1, <1>5, <1>7, <2>1
<1>. QED
  BY <1>1, <1>3, <1>4, <1>6, <1>8, <1>9

\* The results of a restore change the record of an absent table only, and not its set.
LEMMA PrunedKeeps ==
  ASSUME IInv, NEW t \in Tables
  PROVE  /\ Pruned(t) \in Records \cup {NoRecord}
         /\ t \in exists => Pruned(t) = ledger[t]
         /\ Pruned(t) # NoRecord =>
              /\ ledger[t] # NoRecord
              /\ Pruned(t).set = ledger[t].set /\ Pruned(t).empty = ledger[t].empty
<1>. DEFINE lost == {i[2] : i \in {i \in gone : i[1] = t}}
            owed == [c \in Columns |-> IF c \in lost THEN NoDefault ELSE ledger[t].owed[c]]
<1>1. ledger[t] \in Records \cup {NoRecord}
  BY DEF IInv, TypeOK
<1>2. t \in exists => lost = {}
  BY DEF IInv, TargetInv
<1>3. CASE lost = {} \/ ledger[t] = NoRecord
  <2>1. Pruned(t) = ledger[t]
    BY <1>3 DEF Pruned
  <2>. QED
    BY <1>1, <2>1
<1>4. CASE ~(lost = {} \/ ledger[t] = NoRecord)
  <2>1. ledger[t] \in Records
    BY <1>1, <1>4
  <2>2. owed \in [Columns -> Values]
    BY <2>1 DEF Records, Values
  <2>3. Pruned(t) \in {NoRecord, [ledger[t] EXCEPT !.owed = owed]}
    BY <1>4 DEF Pruned
  <2>4. /\ [ledger[t] EXCEPT !.owed = owed] \in Records
        /\ [ledger[t] EXCEPT !.owed = owed].set = ledger[t].set
        /\ [ledger[t] EXCEPT !.owed = owed].empty = ledger[t].empty
    BY <2>1, <2>2 DEF Records
  <2>. QED
    BY <1>2, <1>4, <2>3, <2>4
<1>. QED
  BY <1>3, <1>4

-----------------------------------------------------------------------------
(* The initial states, and each step.                                      *)

\* The initial states.
LEMMA InitInv == Init => IInv
<1>. SUFFICES ASSUME Init PROVE IInv
  OBVIOUS
<1>1. TypeOK
  <2>1. default \in [Tables -> [Columns -> Values]] /\ dropped \in [Tables -> [Columns -> Values]]
    BY ValueTypes DEF Init
  <2>2. facts \in [Tables -> FactSet] /\ view \in [Tables -> Records \cup {NoRecord}]
    BY ValueTypes DEF Init
  <2>3. tries \in [Tables -> 0..(MaxAttempts - 1)] /\ jobs \in 0..MaxJobs /\ faults \in 0..MaxFaults
    BY BoundAssumption DEF Init
  <2>4. kinds \in [Tables -> SUBSET SUBSET Columns] /\ ledger \in [Tables -> Records \cup {NoRecord}]
    BY ValueTypes DEF Init
  <2>5. excluded \in [Tables -> SUBSET Columns] /\ at \in [Tables -> Places]
    BY DEF Init, Places
  <2>. QED
    BY <2>1, <2>2, <2>3, <2>4, <2>5 DEF Init, TypeOK
<1>2. GateInv
  BY DEF Init, GateInv
<1>3. TargetInv
  BY DEF Init, TargetInv, NoValues
<1>4. FactsInv
  BY DEF Init, FactsInv, NoFacts
<1>5. ViewInv
  BY DEF Init, ViewInv, NoView
<1>6. NullInv
  BY DEF Init, NullInv
<1>7. OwedIsRecorded
  BY DEF Init, OwedIsRecorded, NoValues
<1>8. ContractInv
  BY DEF Init, ContractInv, Fits, RecordFits, RowsFit, RecordIsRight, NoView
<1>. QED
  BY <1>1, <1>2, <1>3, <1>4, <1>5, <1>6, <1>7, <1>8 DEF IInv

\* A table of which nothing changes that Fits speaks of.
LEMMA FitsStays ==
  ASSUME NEW t \in Tables, Fits(t), UNCHANGED <<at[t], kinds[t], ledger[t], view[t], excluded[t], kind>>,
         UNCHANGED <<facts[t].fresh, t \in exists, t \in unread>>, cdc' \in {cdc, "none", "drained", "frozen"}
  PROVE  Fits(t)'
<1>1. RecordAgrees(t)' <=> RecordAgrees(t)
  BY DEF RecordAgrees
<1>2. RecordFits(t)'
  BY <1>1 DEF Fits, RecordFits
<1>3. (t \notin unread => RowsFit(t) /\ RecordIsRight(t))'
  BY DEF Fits, RowsFit, RecordIsRight
<1>. QED
  BY <1>2, <1>3 DEF Fits

\* A table the job is not at.
LEMMA FitsAside ==
  ASSUME NEW t \in Tables, Fits(t), at'[t] \in {"idle", "read"}, UNCHANGED <<kinds[t], ledger[t]>>,
         UNCHANGED <<t \in exists, t \in unread>>, cdc' # "streaming" \/ UNCHANGED <<cdc, excluded[t]>>
  PROVE  Fits(t)'
<1>1. RecordFits(t)'
  BY DEF Fits, RecordFits, RecordAgrees
<1>2. (t \notin unread => RowsFit(t) /\ RecordIsRight(t))'
  BY DEF Fits, RowsFit, RecordIsRight
<1>. QED
  BY <1>1, <1>2 DEF Fits

\* A job that ends, whatever it was at, leaves the invariant.
LEMMA RunOverStep ==
  ASSUME IInv, RunOver, kind # "none", UNCHANGED <<target, ledger, session, restore>>,
         jobs' \in 0..MaxJobs, faults' \in 0..MaxFaults
  PROVE  IInv'
<1>1. TypeOK'
  <2>1. tries' \in [Tables -> 0..(MaxAttempts - 1)] /\ at' \in [Tables -> Places]
    BY BoundAssumption DEF RunOver, Places
  <2>. QED
    BY <2>1, ValueTypes DEF IInv, TypeOK, RunOver
<1>2. GateInv'
  BY DEF IInv, GateInv, TypeOK, Places, RunOver
<1>3. TargetInv'
  BY DEF IInv, TargetInv, GateInv, TypeOK, RunOver
<1>4. FactsInv'
  BY DEF IInv, FactsInv, GateInv, TypeOK, NoFacts, RunOver
<1>5. ViewInv'
  <2>1. \A s \in Tables : view'[s] = NoRecord /\ at'[s] = "idle"
    BY DEF RunOver, NoView
  <2>. QED
    BY <2>1 DEF ViewInv
<1>6. NullInv'
  BY DEF IInv, NullInv, Standing, GateInv, TypeOK, RunOver
<1>7. OwedIsRecorded'
  BY DEF IInv, OwedIsRecorded, TypeOK, RunOver
<1>8. ContractInv'
  <2>1. ASSUME NEW s \in Tables PROVE Fits(s)'
    <3>1. Fits(s)
      BY DEF IInv, ContractInv
    <3>2. at'[s] \in {"idle", "read"} /\ UNCHANGED <<kinds[s], ledger[s], s \in exists, s \in unread>>
      BY DEF IInv, GateInv, TypeOK, RunOver
    <3>3. cdc' # "streaming" \/ UNCHANGED <<cdc, excluded[s]>>
      BY DEF IInv, GateInv, RunOver
    <3>. QED
      BY <3>1, <3>2, <3>3, FitsAside
  <2>. QED
    BY <2>1 DEF ContractInv
<1>. QED
  BY <1>1, <1>2, <1>3, <1>4, <1>5, <1>6, <1>7, <1>8 DEF IInv

\* Where nothing but the place of table t changes, its new place is all there is to show.
LEMMA PlaceKeepsContract ==
  ASSUME IInv, NEW t \in Tables, NEW p \in Places, Goes(t, p),
         UNCHANGED <<target, ledger, session, kind, view, facts>>,
         p = "alter" => RecordAgrees(t),
         p \in {"drop", "create"} /\ facts[t].fresh => RecordAgrees(t),
         p = "load" /\ view[t] = ledger[t] => RecordAgrees(t),
         p = "ready" /\ t \in exists /\ view[t] = ledger[t] => RecordAgrees(t),
         t \notin unread /\ kind = "load" /\ (p \in {"record", "alter"} \/ (p = "load" /\ view[t] = ledger[t]))
           => kinds[t] \subseteq {excluded[t]}
  PROVE  ContractInv'
<1>1. ASSUME NEW s \in Tables PROVE Fits(s)'
  <2>1. Fits(s)
    BY DEF IInv, ContractInv
  <2>2. CASE s = t
    <3>1. at'[s] = p
      BY <2>2 DEF Goes, IInv, TypeOK
    <3>2. RecordAgrees(s)' <=> RecordAgrees(s)
      BY DEF RecordAgrees
    <3>3. RecordFits(s)'
      BY <2>1, <2>2, <3>1, <3>2 DEF Fits, RecordFits
    <3>4. (s \notin unread => RowsFit(s) /\ RecordIsRight(s))'
      BY <2>1, <2>2, <3>1 DEF Fits, RowsFit, RecordIsRight
    <3>. QED
      BY <3>3, <3>4 DEF Fits
  <2>3. CASE s # t
    <3>1. at'[s] = at[s]
      BY <2>3 DEF Goes, IInv, TypeOK
    <3>. QED
      BY <2>1, <3>1, FitsStays
  <2>. QED
    BY <2>2, <2>3
<1>. QED
  BY <1>1 DEF ContractInv

\* So does a table the job has failed for, or gone past without its rows.
LEMMA IdleStep ==
  ASSUME IInv, NEW t \in Tables, Goes(t, "idle"), kind # "none",
         UNCHANGED <<target, ledger, session, restore, kind, replace, view, facts, tries>>,
         jobs' \in 0..MaxJobs, faults' \in 0..MaxFaults
  PROVE  IInv'
<1>1. TypeOK'
  BY DEF IInv, TypeOK, Goes, Places
<1>2. GateInv'
  BY DEF IInv, GateInv, TypeOK, Places, Goes
<1>3. TargetInv'
  BY DEF IInv, TargetInv, GateInv, TypeOK, Goes
<1>4. FactsInv'
  BY DEF IInv, FactsInv, GateInv, TypeOK, NoFacts, Goes
<1>5. ViewInv'
  BY DEF IInv, ViewInv, Untouched, GateInv, FactsInv, TypeOK, NoFacts, Goes
<1>6. NullInv'
  BY DEF IInv, NullInv, Standing, GateInv, TypeOK, Goes
<1>7. OwedIsRecorded'
  BY DEF IInv, OwedIsRecorded, TypeOK, Goes
<1>8. ContractInv'
  BY PlaceKeepsContract DEF Places
<1>. QED
  BY <1>1, <1>2, <1>3, <1>4, <1>5, <1>6, <1>7, <1>8 DEF IInv

\* A table the job has failed for.
LEMMA FailsStep ==
  ASSUME IInv, NEW t \in Tables, Fails(t), kind # "none",
         UNCHANGED <<target, ledger, session, restore>>,
         jobs' \in 0..MaxJobs, faults' \in 0..MaxFaults
  PROVE  IInv'
BY RunOverStep, IdleStep DEF Fails

\* The step RunEnds.
LEMMA RunEndsStep ==
  ASSUME IInv, RunEnds
  PROVE  IInv'
<1>1. jobs' \in 0..MaxJobs /\ faults' \in 0..MaxFaults
  BY DEF RunEnds, IInv, TypeOK
<1>. QED
  BY <1>1, RunOverStep DEF RunEnds

\* The step RestoreDies.
LEMMA RestoreDiesStep ==
  ASSUME IInv, RestoreDies
  PROVE  IInv'
<1>1. TypeOK'
  BY BoundAssumption DEF IInv, TypeOK, Places, RestoreDies, RestoreOver
<1>2. GateInv'
  BY DEF IInv, GateInv, TypeOK, Places, RestoreDies, RestoreOver
<1>3. TargetInv'
  BY DEF IInv, TargetInv, GateInv, TypeOK, RestoreDies, RestoreOver
<1>4. FactsInv'
  BY DEF IInv, FactsInv, GateInv, TypeOK, NoFacts, RestoreDies, RestoreOver
<1>5. ViewInv'
  BY DEF IInv, ViewInv, Untouched, GateInv, FactsInv, TypeOK, NoFacts, RestoreDies, RestoreOver
<1>6. NullInv'
  BY DEF IInv, NullInv, Standing, GateInv, TypeOK, RestoreDies, RestoreOver
<1>7. OwedIsRecorded'
  BY DEF IInv, OwedIsRecorded, TypeOK, RestoreDies, RestoreOver
<1>8. ContractInv'
  <2>1. ASSUME NEW s \in Tables PROVE Fits(s)'
    <3>1. Fits(s)
      BY DEF IInv, ContractInv
    <3>. QED
      BY <3>1, FitsStays DEF RestoreDies
  <2>. QED
    BY <2>1 DEF ContractInv
<1>. QED
  BY <1>1, <1>2, <1>3, <1>4, <1>5, <1>6, <1>7, <1>8 DEF IInv

\* The step ChangeExclusions.
LEMMA ChangeExclusionsStep ==
  ASSUME IInv, NEW t \in Tables, ChangeExclusions(t)
  PROVE  IInv'
<1>1. TypeOK'
  BY DEF IInv, TypeOK, Places, ChangeExclusions, Quiet
<1>2. GateInv'
  BY DEF IInv, GateInv, TypeOK, Places, ChangeExclusions, Quiet
<1>3. TargetInv'
  BY DEF IInv, TargetInv, GateInv, TypeOK, ChangeExclusions, Quiet
<1>4. FactsInv'
  BY DEF IInv, FactsInv, GateInv, TypeOK, NoFacts, ChangeExclusions, Quiet
<1>5. ViewInv'
  BY DEF IInv, ViewInv, Untouched, GateInv, FactsInv, TypeOK, NoFacts, ChangeExclusions, Quiet
<1>6. NullInv'
  BY DEF IInv, NullInv, Standing, GateInv, TypeOK, ChangeExclusions, Quiet
<1>7. OwedIsRecorded'
  BY DEF IInv, OwedIsRecorded, TypeOK, ChangeExclusions, Quiet
<1>8. ContractInv'
  <2>1. ASSUME NEW s \in Tables PROVE Fits(s)'
    <3>1. Fits(s)
      BY DEF IInv, ContractInv
    <3>2. at'[s] \in {"idle", "read"} /\ UNCHANGED <<kinds[s], ledger[s], s \in exists, s \in unread>>
      BY DEF IInv, GateInv, TypeOK, ChangeExclusions, Quiet
    <3>3. cdc' # "streaming" \/ UNCHANGED <<cdc, excluded[s]>>
      BY DEF IInv, GateInv, ChangeExclusions, Quiet
    <3>. QED
      BY <3>1, <3>2, <3>3, FitsAside
  <2>. QED
    BY <2>1 DEF ContractInv
<1>. QED
  BY <1>1, <1>2, <1>3, <1>4, <1>5, <1>6, <1>7, <1>8 DEF IInv

\* The step StartOver.
LEMMA StartOverStep ==
  ASSUME IInv, StartOver
  PROVE  IInv'
<1>1. TypeOK'
  BY DEF IInv, TypeOK, Places, StartOver, Quiet
<1>2. GateInv'
  BY DEF IInv, GateInv, TypeOK, Places, StartOver, Quiet
<1>3. TargetInv'
  BY DEF IInv, TargetInv, GateInv, TypeOK, StartOver, Quiet
<1>4. FactsInv'
  BY DEF IInv, FactsInv, GateInv, TypeOK, NoFacts, StartOver, Quiet
<1>5. ViewInv'
  BY DEF IInv, ViewInv, Untouched, GateInv, FactsInv, TypeOK, NoFacts, StartOver, Quiet
<1>6. NullInv'
  BY DEF IInv, NullInv, Standing, GateInv, TypeOK, StartOver, Quiet
<1>7. OwedIsRecorded'
  BY DEF IInv, OwedIsRecorded, TypeOK, StartOver, Quiet
<1>8. ContractInv'
  <2>1. ASSUME NEW s \in Tables PROVE Fits(s)'
    <3>1. Fits(s)
      BY DEF IInv, ContractInv
    <3>2. at'[s] \in {"idle", "read"} /\ UNCHANGED <<kinds[s], ledger[s], s \in exists, s \in unread>>
      BY DEF IInv, GateInv, TypeOK, StartOver, Quiet
    <3>3. cdc' # "streaming" \/ UNCHANGED <<cdc, excluded[s]>>
      BY DEF IInv, GateInv, StartOver, Quiet
    <3>. QED
      BY <3>1, <3>2, <3>3, FitsAside
  <2>. QED
    BY <2>1 DEF ContractInv
<1>. QED
  BY <1>1, <1>2, <1>3, <1>4, <1>5, <1>6, <1>7, <1>8 DEF IInv

\* The step FindRecords.
LEMMA FindRecordsStep ==
  ASSUME IInv, FindRecords
  PROVE  IInv'
<1>1. TypeOK'
  BY DEF IInv, TypeOK, Places, FindRecords
<1>2. GateInv'
  BY DEF IInv, GateInv, TypeOK, Places, FindRecords
<1>3. TargetInv'
  BY DEF IInv, TargetInv, GateInv, TypeOK, FindRecords
<1>4. FactsInv'
  BY DEF IInv, FactsInv, GateInv, TypeOK, NoFacts, FindRecords
<1>5. ViewInv'
  BY DEF IInv, ViewInv, Untouched, GateInv, FactsInv, TypeOK, NoFacts, FindRecords
<1>6. NullInv'
  BY DEF IInv, NullInv, Standing, GateInv, TypeOK, FindRecords
<1>7. OwedIsRecorded'
  BY DEF IInv, OwedIsRecorded, TypeOK, FindRecords
<1>8. ContractInv'
  <2>1. ASSUME NEW s \in Tables PROVE Fits(s)'
    <3>1. Fits(s)
      BY DEF IInv, ContractInv
    <3>. QED
      BY <3>1, FitsStays DEF FindRecords
  <2>. QED
    BY <2>1 DEF ContractInv
<1>. QED
  BY <1>1, <1>2, <1>3, <1>4, <1>5, <1>6, <1>7, <1>8 DEF IInv

\* The step Attest.
LEMMA AttestStep ==
  ASSUME IInv, Attest
  PROVE  IInv'
<1>1. TypeOK'
  BY DEF IInv, TypeOK, Places, Attest
<1>2. GateInv'
  BY DEF IInv, GateInv, TypeOK, Places, Attest
<1>3. TargetInv'
  BY DEF IInv, TargetInv, GateInv, TypeOK, Attest
<1>4. FactsInv'
  BY DEF IInv, FactsInv, GateInv, TypeOK, NoFacts, Attest
<1>5. ViewInv'
  BY DEF IInv, ViewInv, Untouched, GateInv, FactsInv, TypeOK, NoFacts, Attest
<1>6. NullInv'
  BY DEF IInv, NullInv, Standing, GateInv, TypeOK, Attest
<1>7. OwedIsRecorded'
  BY DEF IInv, OwedIsRecorded, TypeOK, Attest
<1>8. ContractInv'
  <2>1. ASSUME NEW s \in Tables PROVE Fits(s)'
    <3>1. Fits(s)
      BY DEF IInv, ContractInv
    <3>. QED
      BY <3>1, FitsStays DEF Attest
  <2>. QED
    BY <2>1 DEF ContractInv
<1>. QED
  BY <1>1, <1>2, <1>3, <1>4, <1>5, <1>6, <1>7, <1>8 DEF IInv

\* The step EndCdc.
LEMMA EndCdcStep ==
  ASSUME IInv, EndCdc
  PROVE  IInv'
<1>1. TypeOK'
  BY DEF IInv, TypeOK, Places, EndCdc, Quiet
<1>2. GateInv'
  BY DEF IInv, GateInv, TypeOK, Places, EndCdc, Quiet
<1>3. TargetInv'
  BY DEF IInv, TargetInv, GateInv, TypeOK, EndCdc, Quiet
<1>4. FactsInv'
  BY DEF IInv, FactsInv, GateInv, TypeOK, NoFacts, EndCdc, Quiet
<1>5. ViewInv'
  BY DEF IInv, ViewInv, Untouched, GateInv, FactsInv, TypeOK, NoFacts, EndCdc, Quiet
<1>6. NullInv'
  BY DEF IInv, NullInv, Standing, GateInv, TypeOK, EndCdc, Quiet
<1>7. OwedIsRecorded'
  BY DEF IInv, OwedIsRecorded, TypeOK, EndCdc, Quiet
<1>8. ContractInv'
  <2>1. ASSUME NEW s \in Tables PROVE Fits(s)'
    <3>1. Fits(s)
      BY DEF IInv, ContractInv
    <3>. QED
      BY <3>1, FitsStays DEF EndCdc
  <2>. QED
    BY <2>1 DEF ContractInv
<1>. QED
  BY <1>1, <1>2, <1>3, <1>4, <1>5, <1>6, <1>7, <1>8 DEF IInv

\* The step StartLoad.
LEMMA StartLoadStep ==
  ASSUME IInv, StartLoad
  PROVE  IInv'
<1>1. TypeOK'
  BY BoundAssumption DEF IInv, TypeOK, Places, StartLoad, Starts, MayOverlay
<1>2. GateInv'
  BY DEF IInv, GateInv, TypeOK, Places, StartLoad, Starts, MayOverlay
<1>3. TargetInv'
  BY DEF IInv, TargetInv, GateInv, TypeOK, StartLoad, Starts, MayOverlay
<1>4. FactsInv'
  BY DEF IInv, FactsInv, GateInv, TypeOK, NoFacts, StartLoad, Starts, MayOverlay
<1>5. ViewInv'
  <2>1. \A s \in Tables : view'[s] = NoRecord /\ at'[s] \in {"idle", "read"}
    BY DEF IInv, ViewInv, StartLoad, Starts, MayOverlay
  <2>2. ASSUME NEW s \in Tables, at'[s] = "read", excluded'[s] # {} PROVE uses'
    BY <2>2 DEF StartLoad, Starts
  <2>. QED
    BY <2>1, <2>2 DEF ViewInv, StartLoad, Starts
<1>6. NullInv'
  BY DEF IInv, NullInv, Standing, GateInv, TypeOK, StartLoad, Starts, MayOverlay
<1>7. OwedIsRecorded'
  BY DEF IInv, OwedIsRecorded, TypeOK, StartLoad, Starts, MayOverlay
<1>8. ContractInv'
  <2>1. ASSUME NEW s \in Tables PROVE Fits(s)'
    <3>1. Fits(s)
      BY DEF IInv, ContractInv
    <3>2. at'[s] \in {"idle", "read"} /\ UNCHANGED <<kinds[s], ledger[s], s \in exists, s \in unread>>
      BY DEF IInv, GateInv, TypeOK, StartLoad, Starts
    <3>3. cdc' # "streaming" \/ UNCHANGED <<cdc, excluded[s]>>
      BY DEF IInv, GateInv, StartLoad, Starts
    <3>. QED
      BY <3>1, <3>2, <3>3, FitsAside
  <2>. QED
    BY <2>1 DEF ContractInv
<1>. QED
  BY <1>1, <1>2, <1>3, <1>4, <1>5, <1>6, <1>7, <1>8 DEF IInv

\* The step StartCdc.
LEMMA StartCdcStep ==
  ASSUME IInv, StartCdc
  PROVE  IInv'
<1>1. TypeOK'
  BY BoundAssumption DEF IInv, TypeOK, Places, StartCdc, Starts, MayOverlay, AnyExcluded
<1>2. GateInv'
  BY DEF IInv, GateInv, TypeOK, Places, StartCdc, Starts, MayOverlay, AnyExcluded
<1>3. TargetInv'
  BY DEF IInv, TargetInv, GateInv, TypeOK, StartCdc, Starts, MayOverlay, AnyExcluded
<1>4. FactsInv'
  BY DEF IInv, FactsInv, GateInv, TypeOK, NoFacts, StartCdc, Starts, MayOverlay, AnyExcluded
<1>5. ViewInv'
  BY DEF IInv, ViewInv, Untouched, GateInv, FactsInv, TypeOK, NoFacts, StartCdc, Starts, MayOverlay,
     AnyExcluded
<1>6. NullInv'
  BY DEF IInv, NullInv, Standing, GateInv, TypeOK, StartCdc, Starts, MayOverlay, AnyExcluded
<1>7. OwedIsRecorded'
  BY DEF IInv, OwedIsRecorded, TypeOK, StartCdc, Starts, MayOverlay, AnyExcluded
<1>8. ContractInv'
  <2>1. ASSUME NEW s \in Tables PROVE Fits(s)'
    <3>1. Fits(s) /\ UNCHANGED <<exists, kinds, unread, ledger, view, facts, excluded>>
      BY DEF IInv, ContractInv, StartCdc, Starts
    <3>2. CASE at'[s] = "read"
      <4>1. cdc' # "streaming" \/ UNCHANGED <<cdc, excluded[s]>>
        BY DEF StartCdc, Starts
      <4>. QED
        BY <3>1, <3>2, <4>1, FitsAside
    <3>3. CASE at'[s] = "ready" /\ excluded[s] = {}
      <4>1. view[s] = ledger[s] => RecordAgrees(s)
        BY <3>3 DEF RecordAgrees, IInv, ViewInv, StartCdc, Starts, MayOverlay
      <4>2. RecordAgrees(s)' <=> RecordAgrees(s)
        BY <3>1 DEF RecordAgrees
      <4>3. cdc' = "streaming" => cdc = "streaming"
        BY DEF StartCdc
      <4>4. RecordFits(s)'
        BY <3>1, <3>3, <4>1, <4>2, <4>3 DEF Fits, RecordFits
      <4>5. (s \notin unread => RowsFit(s) /\ RecordIsRight(s))'
        BY <3>1, <3>3 DEF Fits, RowsFit, RecordIsRight
      <4>. QED
        BY <4>4, <4>5 DEF Fits
    <3>. QED
      BY <3>2, <3>3 DEF StartCdc, Starts, AnyExcluded
  <2>. QED
    BY <2>1 DEF ContractInv
<1>. QED
  BY <1>1, <1>2, <1>3, <1>4, <1>5, <1>6, <1>7, <1>8 DEF IInv

\* The step ReadLedger.
LEMMA ReadLedgerStep ==
  ASSUME IInv, ReadLedger
  PROVE  IInv'
<1>0. \A t \in Tables : at'[t] = PlaceAfterRead(t, TRUE)
  BY DEF ReadLedger
<1>1. TypeOK'
  <2>1. at' \in [Tables -> Places]
    BY PlacesAfterRead DEF ReadLedger, IInv, TypeOK, Places
  <2>. QED
    BY <2>1 DEF IInv, TypeOK, ReadLedger
<1>2. GateInv'
  BY <1>0, PlacesAfterRead DEF IInv, GateInv, TypeOK, Places, ReadLedger, Reading
<1>3. TargetInv'
  BY <1>0, PlacesAfterRead DEF IInv, TargetInv, GateInv, TypeOK, ReadLedger, Reading
<1>4. FactsInv'
  BY <1>0, PlacesAfterRead DEF IInv, FactsInv, GateInv, TypeOK, NoFacts, ReadLedger, Reading
<1>5. ViewInv'
  BY <1>0, PlacesAfterRead DEF IInv, ViewInv, Untouched, GateInv, FactsInv, TypeOK, NoFacts,
     ReadLedger, Reading
<1>6. NullInv'
  BY <1>0, PlacesAfterRead DEF IInv, NullInv, Standing, GateInv, TypeOK, ReadLedger, Reading
<1>7. OwedIsRecorded'
  BY <1>0, PlacesAfterRead DEF IInv, OwedIsRecorded, TypeOK, ReadLedger, Reading
<1>8. ContractInv'
  <2>1. ASSUME NEW s \in Tables PROVE Fits(s)'
    <3>1. Fits(s) /\ UNCHANGED <<kinds[s], ledger[s], excluded[s], kind, cdc, facts[s], s \in exists, s \in unread>>
      BY DEF IInv, ContractInv, ReadLedger
    <3>2. at[s] \in {"idle", "read"}
      BY DEF ReadLedger, Reading, IInv, ViewInv
    <3>3. \/ at'[s] = "idle"
          \/ at'[s] \in {"drop", "facts"} /\ ~facts[s].fresh
          \/ at'[s] \in {"ready", "load"} /\ excluded[s] = {} /\ (view'[s] = ledger[s] => ledger[s] = NoRecord)
      BY <1>0, <3>2, PlacesAfterRead DEF IInv, FactsInv, ViewInv, Reading, ReadLedger
    <3>4. RecordFits(s)'
      BY <3>1, <3>3 DEF Fits, RecordFits, RecordAgrees
    <3>5. (s \notin unread => RowsFit(s) /\ RecordIsRight(s))'
      BY <3>1, <3>3 DEF Fits, RowsFit, RecordIsRight
    <3>. QED
      BY <3>4, <3>5 DEF Fits
  <2>. QED
    BY <2>1 DEF ContractInv
<1>. QED
  BY <1>1, <1>2, <1>3, <1>4, <1>5, <1>6, <1>7, <1>8 DEF IInv

\* The ledger is unreadable for a load that goes on.
LEMMA ReadNothingStep ==
  ASSUME IInv, ~uses, Reading # {}, kind = "load", at' = [t \in Tables |-> PlaceAfterRead(t, FALSE)],
         UNCHANGED <<target, ledger, session, restore, kind, replace, view, facts, tries, jobs>>,
         faults' \in 0..MaxFaults
  PROVE  IInv'
<1>0. \A t \in Tables : at'[t] = PlaceAfterRead(t, FALSE)
  OBVIOUS
<1>1. TypeOK'
  <2>1. at' \in [Tables -> Places]
    BY PlacesAfterRead DEF IInv, TypeOK, Places
  <2>. QED
    BY <2>1 DEF IInv, TypeOK
<1>2. GateInv'
  BY <1>0, PlacesAfterRead DEF IInv, GateInv, TypeOK, Places
<1>3. TargetInv'
  BY <1>0, PlacesAfterRead DEF IInv, TargetInv, GateInv, TypeOK
<1>4. FactsInv'
  BY <1>0, PlacesAfterRead DEF IInv, FactsInv, GateInv, TypeOK, NoFacts
<1>5. ViewInv'
  <2>1. ASSUME NEW s \in Tables
        PROVE  /\ at[s] \in {"idle", "read"} /\ view'[s] = view[s]
               /\ at[s] = "read" => view[s] = NoRecord /\ excluded[s] = {} /\ ~facts[s].fresh
    BY DEF IInv, ViewInv, FactsInv, Reading
  <2>2. ASSUME NEW s \in Tables
        PROVE  at'[s] = "idle" \/ (at'[s] \in {"drop", "load"} /\ Untouched(s)' /\ ~facts'[s].fresh)
    BY <1>0, <2>1 DEF PlaceAfterRead, Untouched
  <2>. QED
    BY <2>2 DEF ViewInv
<1>6. NullInv'
  BY <1>0, PlacesAfterRead DEF IInv, NullInv, Standing, GateInv, TypeOK
<1>7. OwedIsRecorded'
  BY <1>0, PlacesAfterRead DEF IInv, OwedIsRecorded, TypeOK
<1>8. ContractInv'
  <2>1. ASSUME NEW s \in Tables PROVE Fits(s)'
    <3>1. Fits(s) /\ UNCHANGED <<kinds[s], ledger[s], excluded[s], kind, cdc, facts[s], s \in exists, s \in unread>>
      BY DEF IInv, ContractInv
    <3>2. at[s] \in {"idle", "read"}
      BY DEF Reading, IInv, ViewInv
    <3>3. \/ at'[s] = "idle"
          \/ at'[s] \in {"drop", "facts"} /\ ~facts[s].fresh
          \/ at'[s] \in {"ready", "load"} /\ excluded[s] = {} /\ (view'[s] = ledger[s] => ledger[s] = NoRecord)
      BY <1>0, <3>2, PlacesAfterRead DEF IInv, FactsInv, ViewInv, Reading
    <3>4. RecordFits(s)'
      BY <3>1, <3>3 DEF Fits, RecordFits, RecordAgrees
    <3>5. (s \notin unread => RowsFit(s) /\ RecordIsRight(s))'
      BY <3>1, <3>3 DEF Fits, RowsFit, RecordIsRight
    <3>. QED
      BY <3>4, <3>5 DEF Fits
  <2>. QED
    BY <2>1 DEF ContractInv
<1>. QED
  BY <1>1, <1>2, <1>3, <1>4, <1>5, <1>6, <1>7, <1>8 DEF IInv

\* The ledger is unreadable.
LEMMA ReadFailsStep ==
  ASSUME IInv, ReadFails
  PROVE  IInv'
<1>1. faults' \in 0..MaxFaults /\ jobs' \in 0..MaxJobs
  BY BoundAssumption DEF ReadFails, Fault, IInv, TypeOK
<1>2. kind # "none"
  BY DEF ReadFails, Reading, IInv, GateInv
<1>. QED
  BY <1>1, <1>2, RunOverStep, ReadNothingStep DEF ReadFails

\* The step DropTable.
LEMMA DropTableStep ==
  ASSUME IInv, NEW t \in Tables, DropTable(t)
  PROVE  IInv'
<1>1. TypeOK'
  <2>1. default' \in [Tables -> [Columns -> Values]] /\ dropped' \in [Tables -> [Columns -> Values]]
    BY ValueTypes DEF DropTable, IInv, TypeOK
  <2>. QED
    BY <2>1 DEF IInv, TypeOK, DropTable, Goes, Places
<1>2. GateInv'
  BY DEF IInv, GateInv, TypeOK, Places, DropTable, Goes
<1>3. TargetInv'
  BY ValueTypes DEF IInv, TargetInv, GateInv, TypeOK, NoValues, DropTable, Goes
<1>4. FactsInv'
  BY DEF IInv, FactsInv, GateInv, TypeOK, NoFacts, DropTable, Goes
<1>5. ViewInv'
  BY DEF IInv, ViewInv, Untouched, GateInv, FactsInv, TypeOK, NoFacts, DropTable, Goes
<1>6. NullInv'
  BY DEF IInv, NullInv, Standing, GateInv, TypeOK, DropTable, Goes
<1>7. OwedIsRecorded'
  BY DEF IInv, OwedIsRecorded, TypeOK, NoValues, DropTable, Goes
<1>8. ContractInv'
  <2>1. ASSUME NEW s \in Tables PROVE Fits(s)'
    <3>1. Fits(s) /\ UNCHANGED <<ledger, excluded, cdc, kind, view, facts>>
      BY DEF IInv, ContractInv, DropTable
    <3>2. CASE s = t
      <4>1. at[s] = "drop" /\ at'[s] = "create" /\ kinds'[s] = {} /\ s \notin exists'
        BY <3>2 DEF DropTable, Goes, IInv, TypeOK
      <4>2. RecordFits(s)'
        BY <3>1, <4>1 DEF Fits, RecordFits, RecordAgrees
      <4>3. (s \notin unread => RowsFit(s) /\ RecordIsRight(s))'
        BY <4>1 DEF RowsFit, RecordIsRight
      <4>. QED
        BY <4>2, <4>3 DEF Fits
    <3>3. CASE s # t
      <4>1. UNCHANGED <<at[s], kinds[s], s \in exists, s \in unread>>
        BY <3>3 DEF DropTable, Goes, IInv, TypeOK
      <4>. QED
        BY <3>1, <4>1, FitsStays
    <3>. QED
      BY <3>2, <3>3
  <2>. QED
    BY <2>1 DEF ContractInv
<1>. QED
  BY <1>1, <1>2, <1>3, <1>4, <1>5, <1>6, <1>7, <1>8 DEF IInv

\* The recreated table has no row, and no DEFAULT of it is dropped.
LEMMA CreateTableStep ==
  ASSUME IInv, NEW t \in Tables, CreateTable(t)
  PROVE  IInv'
<1>0. default' \in [Tables -> [Columns -> Values]] /\ \A s \in Tables : s # t => default'[s] = default[s]
  BY ValueTypes DEF CreateTable, IInv, TypeOK
<1>a. dropped[t] = NoValues /\ kinds[t] = {} /\ at[t] = "create"
  BY DEF CreateTable, IInv, FactsInv, GateInv
<1>1. TypeOK'
  BY <1>0 DEF IInv, TypeOK, CreateTable, Goes, Places
<1>2. GateInv'
  BY DEF IInv, GateInv, TypeOK, Places, CreateTable, Goes, Untouched
<1>3. TargetInv'
  BY <1>0, <1>a DEF IInv, TargetInv, GateInv, TypeOK, NoValues, CreateTable
<1>4. FactsInv'
  BY <1>0, <1>a DEF IInv, FactsInv, GateInv, TypeOK, NoFacts, CreateTable, Goes, Untouched
<1>5. ViewInv'
  BY DEF IInv, ViewInv, Untouched, GateInv, FactsInv, TypeOK, NoFacts, CreateTable, Goes, Untouched
<1>6. NullInv'
  BY <1>0 DEF IInv, NullInv, Standing, GateInv, TypeOK, CreateTable, Goes, Untouched
<1>7. OwedIsRecorded'
  BY DEF IInv, OwedIsRecorded, TypeOK, CreateTable, Goes, Untouched
<1>8. ContractInv'
  <2>1. ASSUME NEW s \in Tables PROVE Fits(s)'
    <3>1. Fits(s) /\ UNCHANGED <<ledger, kinds, unread, excluded, cdc, kind, view, facts>>
      BY DEF IInv, ContractInv, CreateTable
    <3>2. CASE s = t
      <4>1. /\ at[s] = "create" /\ kinds'[s] = {} /\ cdc # "streaming"
            /\ \/ at'[s] = "facts"
               \/ at'[s] = "load" /\ Untouched(s)
               \/ at'[s] = "alter" /\ facts[s].fresh
        BY <1>a, <3>1, <3>2 DEF CreateTable, Goes, IInv, TypeOK, GateInv
      <4>2. RecordFits(s)'
        BY <3>1, <4>1 DEF Fits, RecordFits, RecordAgrees, Untouched
      <4>3. (s \notin unread => RowsFit(s) /\ RecordIsRight(s))'
        BY <4>1 DEF RowsFit, RecordIsRight
      <4>. QED
        BY <4>2, <4>3 DEF Fits
    <3>3. CASE s # t
      <4>1. UNCHANGED <<at[s], s \in exists>>
        BY <3>3 DEF CreateTable, Goes, IInv, TypeOK
      <4>. QED
        BY <3>1, <4>1, FitsStays
    <3>. QED
      BY <3>2, <3>3
  <2>. QED
    BY <2>1 DEF ContractInv
<1>. QED
  BY <1>1, <1>2, <1>3, <1>4, <1>5, <1>6, <1>7, <1>8 DEF IInv

\* The facts are read, and nothing refuses the table.
LEMMA FactsReadStep ==
  ASSUME IInv, NEW t \in Tables, at[t] = "facts",
         kind = "cdc" \/ ~Facts(t).rows \/ ~AppendRefused(view[t], excluded[t]),
         facts' = [facts EXCEPT ![t] = Facts(t)], Goes(t, "record"),
         UNCHANGED <<target, ledger, session, kind, replace, view, restore, tries, jobs, faults>>
  PROVE  IInv'
<1>0. /\ Facts(t) \in FactSet /\ Facts(t).default = default[t] /\ (Facts(t).fresh <=> t \in replace)
      /\ Facts(t).rows <=> t \notin replace /\ kinds[t] # {}
      /\ facts'[t] = Facts(t) /\ \A s \in Tables : s # t => facts'[s] = facts[s]
  <2>1. (t \notin replace /\ kinds[t] # {}) \in BOOLEAN /\ (t \in replace) \in BOOLEAN
    OBVIOUS
  <2>2. default[t] \in [Columns -> Values] /\ facts'[t] = Facts(t)
    BY DEF IInv, TypeOK
  <2>3. \A s \in Tables : s # t => facts'[s] = facts[s]
    BY DEF IInv, TypeOK
  <2>. QED
    BY <2>1, <2>2, <2>3 DEF Facts, FactSet
<1>a. kind # "none"
  BY DEF IInv, GateInv
<1>b. t \notin unread /\ kind = "load" => kinds[t] \subseteq {excluded[t]}
  <2>. SUFFICES ASSUME t \notin unread, kind = "load", Facts(t).rows PROVE kinds[t] \subseteq {excluded[t]}
    BY <1>0 DEF IInv, FactsInv
  <2>1. view[t] = ledger[t] /\ ~AppendRefused(ledger[t], excluded[t])
    BY DEF IInv, ViewInv
  <2>2. kinds[t] \subseteq {{}} \/ (ledger[t] # NoRecord /\ ledger[t].set # {})
    BY DEF IInv, ContractInv, Fits, RowsFit
  <2>3. CASE excluded[t] = {}
    BY <2>1, <2>2, <2>3 DEF AppendRefused, Reincluded
  <2>4. CASE excluded[t] # {}
    BY <2>1, <2>4 DEF AppendRefused, AppendAccepted, IInv, ContractInv, Fits, RecordIsRight
  <2>. QED
    BY <2>3, <2>4
<1>1. TypeOK'
  <2>1. facts' \in [Tables -> FactSet]
    BY <1>0 DEF IInv, TypeOK
  <2>. QED
    BY <2>1 DEF IInv, TypeOK, Goes, Places
<1>2. GateInv'
  BY DEF IInv, GateInv, TypeOK, Places, Goes
<1>3. TargetInv'
  BY DEF IInv, TargetInv, GateInv, TypeOK, Goes
<1>4. FactsInv'
  BY <1>0, <1>a DEF IInv, FactsInv, GateInv, TypeOK, NoFacts, Goes
<1>5. ViewInv'
  BY <1>0 DEF IInv, ViewInv, Untouched, GateInv, FactsInv, TypeOK, NoFacts, Goes
<1>6. NullInv'
  BY DEF IInv, NullInv, Standing, GateInv, TypeOK, Goes
<1>7. OwedIsRecorded'
  BY DEF IInv, OwedIsRecorded, TypeOK, Goes
<1>8. ContractInv'
  <2>1. ASSUME NEW s \in Tables PROVE Fits(s)'
    <3>1. Fits(s)
      BY DEF IInv, ContractInv
    <3>2. CASE s = t
      <4>1. at'[s] = "record"
        BY <3>2 DEF Goes, IInv, TypeOK
      <4>2. RecordFits(s)'
        BY <3>1, <4>1 DEF Fits, RecordFits, RecordAgrees
      <4>3. (s \notin unread => RowsFit(s) /\ RecordIsRight(s))'
        BY <1>b, <3>1, <3>2, <4>1 DEF Fits, RowsFit, RecordIsRight
      <4>. QED
        BY <4>2, <4>3 DEF Fits
    <3>3. CASE s # t
      <4>1. UNCHANGED <<at[s], facts[s].fresh>>
        BY <1>0, <3>3 DEF Goes, IInv, TypeOK
      <4>. QED
        BY <3>1, <4>1, FitsStays
    <3>. QED
      BY <3>2, <3>3
  <2>. QED
    BY <2>1 DEF ContractInv
<1>. QED
  BY <1>1, <1>2, <1>3, <1>4, <1>5, <1>6, <1>7, <1>8 DEF IInv

\* Start CDC goes past a table that is not there.
LEMMA AbsentReadyStep ==
  ASSUME IInv, NEW t \in Tables, at[t] = "facts", t \notin exists, kind = "cdc", Goes(t, "ready"),
         UNCHANGED <<target, ledger, session, kind, replace, view, facts, restore, tries, jobs, faults>>
  PROVE  IInv'
<1>1. TypeOK'
  BY DEF IInv, TypeOK, Goes, Places
<1>2. GateInv'
  BY DEF IInv, GateInv, TypeOK, Places, Goes
<1>3. TargetInv'
  BY DEF IInv, TargetInv, GateInv, TypeOK, Goes
<1>4. FactsInv'
  BY DEF IInv, FactsInv, GateInv, TypeOK, NoFacts, Goes
<1>5. ViewInv'
  BY DEF IInv, ViewInv, Untouched, GateInv, FactsInv, TypeOK, NoFacts, Goes
<1>6. NullInv'
  BY DEF IInv, NullInv, Standing, GateInv, TypeOK, Goes
<1>7. OwedIsRecorded'
  BY DEF IInv, OwedIsRecorded, TypeOK, Goes
<1>8. ContractInv'
  BY PlaceKeepsContract DEF Places
<1>. QED
  BY <1>1, <1>2, <1>3, <1>4, <1>5, <1>6, <1>7, <1>8 DEF IInv

\* The read of the catalog, whatever comes of it.
LEMMA ReadFactsStep ==
  ASSUME IInv, NEW t \in Tables, ReadFacts(t)
  PROVE  IInv'
<1>1. at[t] = "facts" /\ kind # "none"
  BY DEF ReadFacts, IInv, GateInv
<1>2. jobs' \in 0..MaxJobs
  BY DEF ReadFacts, IInv, TypeOK
<1>3. CASE /\ t \in exists
           /\ kind = "cdc" \/ ~Facts(t).rows \/ ~AppendRefused(view[t], excluded[t])
           /\ facts' = [facts EXCEPT ![t] = Facts(t)]
           /\ Goes(t, "record")
           /\ UNCHANGED <<kind, replace, view, tries, faults>>
  BY <1>1, <1>3, FactsReadStep DEF ReadFacts
<1>4. CASE /\ t \notin exists /\ kind = "cdc"
           /\ Goes(t, "ready")
           /\ UNCHANGED <<kind, replace, view, facts, tries, faults>>
  BY <1>1, <1>4, AbsentReadyStep DEF ReadFacts
<1>5. CASE Fails(t) /\ UNCHANGED faults
  <2>1. faults' \in 0..MaxFaults
    BY <1>5 DEF IInv, TypeOK
  <2>. QED
    BY <1>1, <1>2, <1>5, <2>1, FailsStep DEF ReadFacts
<1>6. CASE Fails(t) /\ Fault
  <2>1. faults' \in 0..MaxFaults
    BY <1>6, BoundAssumption DEF IInv, TypeOK, Fault
  <2>. QED
    BY <1>1, <1>2, <1>6, <2>1, FailsStep DEF ReadFacts
<1>. QED
  BY <1>3, <1>4, <1>5, <1>6 DEF ReadFacts

\* The merge of the record.
LEMMA RecordStep ==
  ASSUME IInv, NEW t \in Tables, Record(t)
  PROVE  IInv'
<1>a. /\ ledger' = [ledger EXCEPT ![t] = Planned(ledger[t], excluded[t], facts[t])]
      /\ at[t] = "record" /\ UNCHANGED <<target, cdc, excluded>>
  BY DEF Record
<1>0. /\ ledger' \in [Tables -> Records \cup {NoRecord}]
      /\ \A s \in Tables : s # t => ledger'[s] = ledger[s]
      /\ OwedIsRecorded'
      /\ RecordAgrees(t)'
      /\ t \notin unread => RecordIsRight(t)'
      /\ t \notin unread => kinds[t] \subseteq {{}} \/ (ledger'[t] # NoRecord /\ ledger'[t].set # {})
  BY <1>a, MergeKeeps
<1>1. TypeOK'
  <2>1. view' \in [Tables -> Records \cup {NoRecord}] /\ tries' \in [Tables -> 0..(MaxAttempts - 1)]
    BY <1>0, <1>a, BoundAssumption DEF Record, IInv, TypeOK
  <2>. QED
    BY <1>0, <2>1 DEF IInv, TypeOK, Record, Goes, Places
<1>2. GateInv'
  BY DEF IInv, GateInv, TypeOK, Places, Record, Goes
<1>3. TargetInv'
  BY DEF IInv, TargetInv, GateInv, TypeOK, Record, Goes
<1>4. FactsInv'
  BY DEF IInv, FactsInv, GateInv, TypeOK, NoFacts, Record, Goes
<1>5. ViewInv'
  <2>1. view'[t] = ledger'[t] /\ \A s \in Tables : s # t => view'[s] = view[s]
    BY <1>a DEF Record, IInv, TypeOK
  <2>. QED
    BY <1>0, <2>1 DEF IInv, ViewInv, Untouched, GateInv, FactsInv, TypeOK, Record, Goes
<1>6. NullInv'
  BY DEF IInv, NullInv, Standing, GateInv, TypeOK, Record, Goes
<1>7. OwedIsRecorded'
  BY <1>0
<1>8. ContractInv'
  <2>1. ASSUME NEW s \in Tables PROVE Fits(s)'
    <3>1. Fits(s) /\ UNCHANGED <<exists, kinds, unread, excluded, cdc, kind, facts>>
      BY DEF IInv, ContractInv, Record
    <3>2. CASE s = t
      <4>1. at[s] = "record" /\ at'[s] = "alter"
        BY <3>2 DEF Record, Goes, IInv, TypeOK
      <4>2. RecordFits(s)'
        BY <1>0, <3>2, <4>1 DEF RecordFits
      <4>3. (s \notin unread => RowsFit(s) /\ RecordIsRight(s))'
        BY <1>0, <3>1, <3>2, <4>1 DEF Fits, RowsFit
      <4>. QED
        BY <4>2, <4>3 DEF Fits
    <3>3. CASE s # t
      <4>1. UNCHANGED <<at[s], view[s], ledger[s]>>
        BY <1>0, <3>3 DEF Record, Goes, IInv, TypeOK
      <4>. QED
        BY <3>1, <4>1, FitsStays
    <3>. QED
      BY <3>2, <3>3
  <2>. QED
    BY <2>1 DEF ContractInv
<1>. QED
  BY <1>1, <1>2, <1>3, <1>4, <1>5, <1>6, <1>7, <1>8 DEF IInv

\* A merge attempt that fails, its write landed or not.
LEMMA RecordFailsStep ==
  ASSUME IInv, NEW t \in Tables, RecordFails(t)
  PROVE  IInv'
<1>a. /\ at[t] = "record" /\ UNCHANGED <<target, session, restore, jobs>>
      /\ ledger' \in {ledger, [ledger EXCEPT ![t] = Planned(ledger[t], excluded[t], facts[t])]}
  BY DEF RecordFails
<1>0. /\ ledger' \in [Tables -> Records \cup {NoRecord}]
      /\ \A s \in Tables : s # t => ledger'[s] = ledger[s]
      /\ OwedIsRecorded'
      /\ ledger' = ledger \/ RecordAgrees(t)'
      /\ t \notin unread => RecordIsRight(t)'
      /\ t \notin unread => kinds[t] \subseteq {{}} \/ (ledger'[t] # NoRecord /\ ledger'[t].set # {})
  <2>1. CASE ledger' = ledger
    <3>1. UNCHANGED <<ledger, target, session>>
      BY <1>a, <2>1
    <3>2. OwedIsRecorded'
      BY <3>1 DEF IInv, OwedIsRecorded
    <3>3. t \notin unread => RecordIsRight(t)'
      BY <3>1 DEF IInv, ContractInv, Fits, RecordIsRight
    <3>4. ledger' \in [Tables -> Records \cup {NoRecord}]
      BY <3>1 DEF IInv, TypeOK
    <3>5. t \notin unread => kinds[t] \subseteq {{}} \/ (ledger'[t] # NoRecord /\ ledger'[t].set # {})
      BY <3>1 DEF IInv, ContractInv, Fits, RowsFit
    <3>. QED
      BY <3>1, <3>2, <3>3, <3>4, <3>5
  <2>2. CASE ledger' = [ledger EXCEPT ![t] = Planned(ledger[t], excluded[t], facts[t])]
    BY <1>a, <2>2, MergeKeeps
  <2>. QED
    BY <1>a, <2>1, <2>2
<1>b. /\ UNCHANGED <<target, session, restore>> /\ kind # "none"
      /\ \/ RunOver
         \/ /\ at' \in {at, [at EXCEPT ![t] = "idle"]}
            /\ UNCHANGED <<kind, replace, view, facts>>
  BY DEF RecordFails, Fails, Goes, IInv, GateInv
<1>1. TypeOK'
  <2>1. tries' \in [Tables -> 0..(MaxAttempts - 1)] /\ at' \in [Tables -> Places]
    <3>1. CASE tries' = [tries EXCEPT ![t] = @ + 1] /\ MoreAttempts(tries[t]) /\ at' = at
      <4>1. tries[t] \in Nat /\ tries[t] + 1 \in 0..(MaxAttempts - 1)
        BY <3>1, BoundAssumption DEF MoreAttempts, IInv, TypeOK
      <4>. QED
        BY <3>1, <4>1 DEF IInv, TypeOK
    <3>2. CASE RunOver
      BY <3>2, BoundAssumption DEF RunOver, Places
    <3>3. CASE tries' = tries /\ at' = [at EXCEPT ![t] = "idle"]
      BY <3>3 DEF IInv, TypeOK, Places
    <3>. QED
      BY <3>1, <3>2, <3>3 DEF RecordFails, Fails, Goes
  <2>2. faults' \in 0..MaxFaults
    BY BoundAssumption DEF RecordFails, Fault, IInv, TypeOK
  <2>. QED
    BY <1>0, <1>a, <1>b, <2>1, <2>2, ValueTypes DEF IInv, TypeOK, RunOver
<1>2. GateInv'
  BY <1>0, <1>a, <1>b DEF IInv, GateInv, TypeOK, Places, RunOver
<1>3. TargetInv'
  BY <1>0, <1>a, <1>b DEF IInv, TargetInv, GateInv, TypeOK, RunOver
<1>4. FactsInv'
  BY <1>0, <1>a, <1>b DEF IInv, FactsInv, GateInv, TypeOK, NoFacts, RunOver
<1>5. ViewInv'
  <2>1. CASE RunOver
    <3>1. \A s \in Tables : view'[s] = NoRecord /\ at'[s] = "idle"
      BY <2>1 DEF RunOver, NoView
    <3>. QED
      BY <3>1 DEF ViewInv
  <2>2. CASE at' \in {at, [at EXCEPT ![t] = "idle"]} /\ UNCHANGED <<kind, replace, view, facts>>
    <3>1. ViewInv /\ at \in [Tables -> Places]
      BY DEF IInv, TypeOK
    <3>2. \A s \in Tables : s # t => at'[s] = at[s] /\ (Untouched(s)' <=> Untouched(s))
      BY <1>a, <2>2, <3>1 DEF Untouched
    <3>3. at'[t] \in {"idle", "record"}
      BY <1>a, <2>2, <3>1
    <3>. QED
      BY <1>0, <1>a, <1>b, <2>2, <3>1, <3>2, <3>3 DEF ViewInv
  <2>. QED
    BY <1>b, <2>1, <2>2
<1>6. NullInv'
  <2>1. \A s \in Tables : Standing(s)' = Standing(s)
    BY <1>a DEF Standing
  <2>2. NullInv /\ at \in [Tables -> Places]
    BY DEF IInv, TypeOK
  <2>3. CASE RunOver
    BY <1>a, <1>b, <2>1, <2>2, <2>3 DEF NullInv, RunOver
  <2>4. CASE at' \in {at, [at EXCEPT ![t] = "idle"]} /\ UNCHANGED <<kind, replace, view, facts>>
    BY <1>a, <1>b, <2>1, <2>2, <2>4 DEF NullInv
  <2>. QED
    BY <1>b, <2>3, <2>4
<1>7. OwedIsRecorded'
  BY <1>0
<1>8. ContractInv'
  <2>1. ASSUME NEW s \in Tables PROVE Fits(s)'
    <3>1. Fits(s) /\ UNCHANGED <<exists, kinds, unread, excluded, cdc>>
      BY <1>a DEF IInv, ContractInv
    <3>2. CASE s = t
      <4>1. at[s] = "record" /\ (at'[s] = "idle" \/ (at'[s] = "record" /\ UNCHANGED kind))
        BY <1>a, <1>b, <3>2 DEF RunOver, IInv, TypeOK
      <4>2. RecordFits(s)'
        <5>1. CASE ledger' = ledger
          BY <3>1, <4>1, <5>1 DEF Fits, RecordFits, RecordAgrees
        <5>2. CASE RecordAgrees(s)'
          BY <4>1, <5>2 DEF RecordFits
        <5>. QED
          BY <1>0, <3>2, <5>1, <5>2
      <4>3. (s \notin unread => RowsFit(s) /\ RecordIsRight(s))'
        BY <1>0, <3>1, <3>2, <4>1 DEF Fits, RowsFit
      <4>. QED
        BY <4>2, <4>3 DEF Fits
    <3>3. CASE s # t
      <4>1. ledger'[s] = ledger[s]
        BY <1>0, <3>3
      <4>2. CASE RunOver
        BY <3>1, <4>1, <4>2, FitsAside DEF RunOver
      <4>3. CASE at' \in {at, [at EXCEPT ![t] = "idle"]} /\ UNCHANGED <<kind, replace, view, facts>>
        <5>1. at'[s] = at[s]
          BY <3>3, <4>3 DEF IInv, TypeOK
        <5>. QED
          BY <3>1, <4>1, <4>3, <5>1, FitsStays
      <4>. QED
        BY <1>b, <4>2, <4>3
    <3>. QED
      BY <3>2, <3>3
  <2>. QED
    BY <2>1 DEF ContractInv
<1>. QED
  BY <1>1, <1>2, <1>3, <1>4, <1>5, <1>6, <1>7, <1>8 DEF IInv

\* One DEFAULT that is recorded is dropped.
LEMMA AlterOneStep ==
  ASSUME IInv, NEW t \in Tables, NEW c \in Standing(t), at[t] = "alter", Unrecorded(t) = {},
         dropped' = [dropped EXCEPT ![t][c] = default[t][c]],
         default' = [default EXCEPT ![t][c] = NoDefault],
         UNCHANGED <<exists, kinds, unread, ledger, session, run, restore, tries, jobs, faults>>
  PROVE  IInv'
<1>0. c \in Columns /\ excluded[t] \subseteq Columns /\ default[t][c] # NoDefault
  BY DEF Standing, IInv, TypeOK
<1>a. /\ dropped' \in [Tables -> [Columns -> Values]] /\ default' \in [Tables -> [Columns -> Values]]
      /\ dropped'[t][c] = default[t][c] /\ default'[t][c] = NoDefault
      /\ \A s \in Tables : s # t => dropped'[s] = dropped[s] /\ default'[s] = default[s]
      /\ \A d \in Columns : d # c => dropped'[t][d] = dropped[t][d] /\ default'[t][d] = default[t][d]
  BY <1>0 DEF IInv, TypeOK, Values
<1>b. ledger[t] # NoRecord /\ ledger[t].owed[c] = default[t][c]
  BY <1>0 DEF Unrecorded, IInv, ViewInv
<1>c. t \in exists \/ dropped[t] = NoValues
  BY DEF IInv, TargetInv
<1>d. \A s \in Tables : Standing(s)' \subseteq Standing(s)
  BY <1>a DEF Standing, IInv, TypeOK
<1>1. TypeOK'
  BY <1>a DEF IInv, TypeOK
<1>2. GateInv'
  BY <1>0, <1>a DEF IInv, GateInv, TypeOK, Places
<1>3. TargetInv'
  BY <1>0, <1>a DEF IInv, TargetInv, GateInv, TypeOK
<1>4. FactsInv'
  BY <1>0, <1>a DEF IInv, FactsInv, GateInv, TypeOK, NoFacts
<1>5. ViewInv'
  BY <1>0, <1>a DEF IInv, ViewInv, Untouched, GateInv, FactsInv, TypeOK, NoFacts
<1>6. NullInv'
  BY <1>d DEF IInv, NullInv
<1>7. OwedIsRecorded'
  <2>. SUFFICES ASSUME NEW s \in Tables, NEW d \in Columns, dropped'[s][d] # NoDefault
       PROVE  ledger'[s] # NoRecord /\ ledger'[s].owed[d] = dropped'[s][d]
    BY DEF OwedIsRecorded
  <2>. QED
    BY <1>a, <1>b DEF IInv, OwedIsRecorded
<1>8. ContractInv'
  <2>1. ASSUME NEW s \in Tables PROVE Fits(s)'
    <3>1. Fits(s)
      BY DEF IInv, ContractInv
    <3>. QED
      BY <3>1, FitsStays
  <2>. QED
    BY <2>1 DEF ContractInv
<1>. QED
  BY <1>1, <1>2, <1>3, <1>4, <1>5, <1>6, <1>7, <1>8 DEF IInv

\* One ALTER, or its refusal.
LEMMA AlterStep ==
  ASSUME IInv, NEW t \in Tables, Alter(t)
  PROVE  IInv'
<1>1. kind # "none" /\ at[t] = "alter"
  BY DEF Alter, IInv, GateInv
<1>2. CASE Unrecorded(t) # {}
  <2>1. jobs' \in 0..MaxJobs /\ faults' \in 0..MaxFaults
    BY DEF Alter, IInv, TypeOK
  <2>. QED
    BY <1>1, <1>2, <2>1, FailsStep DEF Alter
<1>3. CASE Unrecorded(t) = {}
  <2>1. PICK c \in Standing(t) : /\ dropped' = [dropped EXCEPT ![t][c] = default[t][c]]
                                 /\ default' = [default EXCEPT ![t][c] = NoDefault]
    BY <1>3 DEF Alter
  <2>. QED
    BY <1>1, <1>3, <2>1, AlterOneStep DEF Alter
<1>. QED
  BY <1>2, <1>3

\* The step Altered.
LEMMA AlteredStep ==
  ASSUME IInv, NEW t \in Tables, Altered(t)
  PROVE  IInv'
<1>1. TypeOK'
  BY DEF IInv, TypeOK, Places, Altered, Goes
<1>2. GateInv'
  BY DEF IInv, GateInv, TypeOK, Places, Altered, Goes
<1>3. TargetInv'
  BY DEF IInv, TargetInv, GateInv, TypeOK, Altered, Goes
<1>4. FactsInv'
  BY DEF IInv, FactsInv, GateInv, TypeOK, NoFacts, Altered, Goes
<1>5. ViewInv'
  BY DEF IInv, ViewInv, Untouched, GateInv, FactsInv, TypeOK, NoFacts, Altered, Goes
<1>6. NullInv'
  BY DEF IInv, NullInv, Standing, GateInv, TypeOK, Altered, Goes
<1>7. OwedIsRecorded'
  BY DEF IInv, OwedIsRecorded, TypeOK, Altered, Goes
<1>8. ContractInv'
  <2>. DEFINE p == IF kind = "cdc" THEN "ready" ELSE "load"
  <2>1. /\ p \in Places /\ Goes(t, p) /\ UNCHANGED <<target, ledger, session, kind, view, facts>>
        /\ p \in {"ready", "load"}
    BY DEF Altered, Places
  <2>2. RecordAgrees(t) /\ (t \notin unread /\ kind = "load" => kinds[t] \subseteq {excluded[t]})
    BY DEF IInv, ContractInv, Fits, RecordFits, RowsFit, Altered
  <2>. HIDE DEF p
  <2>. QED
    BY <2>1, <2>2, PlaceKeepsContract
<1>. QED
  BY <1>1, <1>2, <1>3, <1>4, <1>5, <1>6, <1>7, <1>8 DEF IInv

\* A row of a load: it holds NULL in exactly the excluded columns.
LEMMA LoadRowsStep ==
  ASSUME IInv, NEW t \in Tables, LoadRows(t)
  PROVE  IInv'
<1>0. /\ kinds' \in [Tables -> SUBSET SUBSET Columns]
      /\ kinds'[t] = kinds[t] \cup {excluded[t]}
      /\ \A s \in Tables : s # t => kinds'[s] = kinds[s]
  BY DEF LoadRows, Writes, LeftNull, Standing, IInv, TypeOK, NullInv
<1>a. /\ at[t] = "load" /\ kind = "load" /\ cdc # "streaming"
      /\ t \in unread => t \in unread'
      /\ t \notin unread' => view[t] = ledger[t] /\ RecordAgrees(t)
  BY DEF LoadRows, Misread, IInv, GateInv, ContractInv, Fits, RecordFits
<1>1. TypeOK'
  BY <1>0 DEF IInv, TypeOK, LoadRows, Writes
<1>2. GateInv'
  BY DEF IInv, GateInv, TypeOK, Places, LoadRows, Writes
<1>3. TargetInv'
  BY <1>0 DEF IInv, TargetInv, GateInv, TypeOK, LoadRows, Writes
<1>4. FactsInv'
  BY <1>0 DEF IInv, FactsInv, GateInv, TypeOK, NoFacts, LoadRows, Writes
<1>5. ViewInv'
  BY DEF IInv, ViewInv, Untouched, GateInv, FactsInv, TypeOK, NoFacts, LoadRows, Writes
<1>6. NullInv'
  BY DEF IInv, NullInv, Standing, GateInv, TypeOK, LoadRows, Writes
<1>7. OwedIsRecorded'
  BY DEF IInv, OwedIsRecorded, TypeOK, LoadRows, Writes
<1>8. ContractInv'
  <2>1. ASSUME NEW s \in Tables PROVE Fits(s)'
    <3>1. Fits(s) /\ UNCHANGED <<exists, ledger, excluded, cdc, kind, at, view, facts>>
      BY DEF IInv, ContractInv, LoadRows, Writes
    <3>2. CASE s = t
      <4>1. RecordFits(s)'
        BY <1>a, <3>1, <3>2 DEF Fits, RecordFits, RecordAgrees
      <4>2. (s \notin unread => RowsFit(s))'
        BY <1>0, <1>a, <3>1, <3>2 DEF Fits, RowsFit, RecordAgrees
      <4>3. (s \notin unread => RecordIsRight(s))'
        BY <1>0, <1>a, <3>1, <3>2 DEF Fits, RecordIsRight, RecordAgrees
      <4>. QED
        BY <4>1, <4>2, <4>3 DEF Fits
    <3>3. CASE s # t
      <4>1. UNCHANGED <<kinds[s], s \in unread>>
        BY <1>0, <3>3 DEF LoadRows, Misread
      <4>. QED
        BY <3>1, <4>1, FitsStays
    <3>. QED
      BY <3>2, <3>3
  <2>. QED
    BY <2>1 DEF ContractInv
<1>. QED
  BY <1>1, <1>2, <1>3, <1>4, <1>5, <1>6, <1>7, <1>8 DEF IInv

\* A row of the stream, likewise.
LEMMA StreamRowsStep ==
  ASSUME IInv, NEW t \in Tables, StreamRows(t)
  PROVE  IInv'
<1>0. /\ kinds' \in [Tables -> SUBSET SUBSET Columns]
      /\ kinds'[t] = kinds[t] \cup {excluded[t]}
      /\ \A s \in Tables : s # t => kinds'[s] = kinds[s]
  BY DEF StreamRows, Writes, LeftNull, Standing, IInv, TypeOK, NullInv
<1>a. /\ cdc = "streaming" /\ kind # "load" /\ UNCHANGED unread
      /\ t \notin unread' => RecordAgrees(t)
  BY DEF StreamRows, Writes, IInv, GateInv, ContractInv, Fits, RecordFits
<1>1. TypeOK'
  BY <1>0 DEF IInv, TypeOK, StreamRows, Writes
<1>2. GateInv'
  BY DEF IInv, GateInv, TypeOK, Places, StreamRows, Writes
<1>3. TargetInv'
  BY <1>0 DEF IInv, TargetInv, GateInv, TypeOK, StreamRows, Writes
<1>4. FactsInv'
  BY <1>0 DEF IInv, FactsInv, GateInv, TypeOK, NoFacts, StreamRows, Writes
<1>5. ViewInv'
  BY DEF IInv, ViewInv, Untouched, GateInv, FactsInv, TypeOK, NoFacts, StreamRows, Writes
<1>6. NullInv'
  BY DEF IInv, NullInv, Standing, GateInv, TypeOK, StreamRows, Writes
<1>7. OwedIsRecorded'
  BY DEF IInv, OwedIsRecorded, TypeOK, StreamRows, Writes
<1>8. ContractInv'
  <2>1. ASSUME NEW s \in Tables PROVE Fits(s)'
    <3>1. Fits(s) /\ UNCHANGED <<exists, ledger, excluded, cdc, kind, at, view, facts>>
      BY DEF IInv, ContractInv, StreamRows, Writes
    <3>2. CASE s = t
      <4>1. RecordFits(s)'
        BY <1>a, <3>1, <3>2 DEF Fits, RecordFits, RecordAgrees
      <4>2. (s \notin unread => RowsFit(s))'
        BY <1>0, <1>a, <3>1, <3>2 DEF Fits, RowsFit, RecordAgrees
      <4>3. (s \notin unread => RecordIsRight(s))'
        BY <1>0, <1>a, <3>1, <3>2 DEF Fits, RecordIsRight, RecordAgrees
      <4>. QED
        BY <4>1, <4>2, <4>3 DEF Fits
    <3>3. CASE s # t
      <4>1. UNCHANGED <<kinds[s], s \in unread>>
        BY <1>0, <3>3 DEF StreamRows, Misread
      <4>. QED
        BY <3>1, <4>1, FitsStays
    <3>. QED
      BY <3>2, <3>3
  <2>. QED
    BY <2>1 DEF ContractInv
<1>. QED
  BY <1>1, <1>2, <1>3, <1>4, <1>5, <1>6, <1>7, <1>8 DEF IInv

\* The step LoadAgain.
LEMMA LoadAgainStep ==
  ASSUME IInv, NEW t \in Tables, LoadAgain(t)
  PROVE  IInv'
<1>1. TypeOK'
  BY DEF IInv, TypeOK, Places, LoadAgain, Goes
<1>2. GateInv'
  BY DEF IInv, GateInv, TypeOK, Places, LoadAgain, Goes
<1>3. TargetInv'
  BY DEF IInv, TargetInv, GateInv, TypeOK, LoadAgain, Goes
<1>4. FactsInv'
  BY DEF IInv, FactsInv, GateInv, TypeOK, NoFacts, LoadAgain, Goes
<1>5. ViewInv'
  BY DEF IInv, ViewInv, Untouched, GateInv, FactsInv, TypeOK, NoFacts, LoadAgain, Goes
<1>6. NullInv'
  BY DEF IInv, NullInv, Standing, GateInv, TypeOK, LoadAgain, Goes
<1>7. OwedIsRecorded'
  BY DEF IInv, OwedIsRecorded, TypeOK, LoadAgain, Goes
<1>8. ContractInv'
  <2>1. Goes(t, "drop") /\ UNCHANGED <<target, ledger, session, kind, view, facts>>
    BY DEF LoadAgain
  <2>2. facts[t].fresh => RecordAgrees(t)
    BY DEF IInv, ViewInv, ContractInv, Fits, RecordFits, LoadAgain
  <2>. QED
    BY <2>1, <2>2, PlaceKeepsContract DEF Places
<1>. QED
  BY <1>1, <1>2, <1>3, <1>4, <1>5, <1>6, <1>7, <1>8 DEF IInv

\* The step Connectors.
LEMMA ConnectorsStep ==
  ASSUME IInv, Connectors
  PROVE  IInv'
<1>1. TypeOK'
  <2>1. tries' \in [Tables -> 0..(MaxAttempts - 1)] /\ at' \in [Tables -> Places]
    BY BoundAssumption DEF Connectors, RunOver, Places
  <2>. QED
    BY <2>1, ValueTypes DEF IInv, TypeOK, Connectors, RunOver, Misread
<1>2. GateInv'
  BY DEF IInv, GateInv, TypeOK, Places, Connectors, RunOver
<1>3. TargetInv'
  BY DEF IInv, TargetInv, GateInv, TypeOK, Connectors, RunOver
<1>4. FactsInv'
  BY DEF IInv, FactsInv, GateInv, TypeOK, NoFacts, Connectors, RunOver
<1>5. ViewInv'
  <2>1. \A s \in Tables : view'[s] = NoRecord /\ at'[s] = "idle"
    BY DEF Connectors, RunOver, NoView
  <2>. QED
    BY <2>1 DEF ViewInv
<1>6. NullInv'
  BY DEF IInv, NullInv, Standing, GateInv, TypeOK, Connectors, RunOver
<1>7. OwedIsRecorded'
  BY DEF IInv, OwedIsRecorded, TypeOK, Connectors, RunOver
<1>8. ContractInv'
  <2>1. ASSUME NEW s \in Tables PROVE Fits(s)'
    <3>1. /\ Fits(s) /\ UNCHANGED <<exists, kinds, ledger, excluded>>
          /\ at[s] = "ready" /\ at'[s] = "idle"
          /\ s \notin unread' => s \notin unread /\ view[s] = ledger[s]
      BY DEF IInv, ContractInv, Connectors, RunOver, Misread
    <3>2. RecordFits(s)'
      BY <3>1 DEF Fits, RecordFits, RecordAgrees
    <3>3. (s \notin unread => RowsFit(s) /\ RecordIsRight(s))'
      BY <3>1 DEF Fits, RowsFit, RecordIsRight
    <3>. QED
      BY <3>2, <3>3 DEF Fits
  <2>. QED
    BY <2>1 DEF ContractInv
<1>. QED
  BY <1>1, <1>2, <1>3, <1>4, <1>5, <1>6, <1>7, <1>8 DEF IInv

\* The step StartRestore.
LEMMA StartRestoreStep ==
  ASSUME IInv, StartRestore
  PROVE  IInv'
<1>1. TypeOK'
  BY BoundAssumption DEF IInv, TypeOK, Places, StartRestore, MayRestore, Entries
<1>2. GateInv'
  BY DEF IInv, GateInv, TypeOK, Places, StartRestore, MayRestore, Entries
<1>3. TargetInv'
  BY DEF IInv, TargetInv, GateInv, TypeOK, StartRestore, MayRestore, Entries
<1>4. FactsInv'
  BY DEF IInv, FactsInv, GateInv, TypeOK, NoFacts, StartRestore, MayRestore, Entries
<1>5. ViewInv'
  BY DEF IInv, ViewInv, Untouched, GateInv, FactsInv, TypeOK, NoFacts, StartRestore, MayRestore,
     Entries
<1>6. NullInv'
  BY DEF IInv, NullInv, Standing, GateInv, TypeOK, StartRestore, MayRestore, Entries
<1>7. OwedIsRecorded'
  BY DEF IInv, OwedIsRecorded, TypeOK, StartRestore, MayRestore, Entries
<1>8. ContractInv'
  <2>1. ASSUME NEW s \in Tables PROVE Fits(s)'
    <3>1. Fits(s)
      BY DEF IInv, ContractInv
    <3>. QED
      BY <3>1, FitsStays DEF StartRestore
  <2>. QED
    BY <2>1 DEF ContractInv
<1>. QED
  BY <1>1, <1>2, <1>3, <1>4, <1>5, <1>6, <1>7, <1>8 DEF IInv

\* The step ReadForRestore.
LEMMA ReadForRestoreStep ==
  ASSUME IInv, ReadForRestore
  PROVE  IInv'
<1>1. TypeOK'
  BY BoundAssumption DEF IInv, TypeOK, Places, ReadForRestore, RestoreOver, Fault
<1>2. GateInv'
  BY DEF IInv, GateInv, TypeOK, Places, ReadForRestore, RestoreOver, Fault
<1>3. TargetInv'
  BY DEF IInv, TargetInv, GateInv, TypeOK, ReadForRestore, RestoreOver, Fault
<1>4. FactsInv'
  BY DEF IInv, FactsInv, GateInv, TypeOK, NoFacts, ReadForRestore, RestoreOver, Fault
<1>5. ViewInv'
  BY DEF IInv, ViewInv, Untouched, GateInv, FactsInv, TypeOK, NoFacts, ReadForRestore, RestoreOver,
     Fault
<1>6. NullInv'
  BY DEF IInv, NullInv, Standing, GateInv, TypeOK, ReadForRestore, RestoreOver, Fault
<1>7. OwedIsRecorded'
  BY DEF IInv, OwedIsRecorded, TypeOK, ReadForRestore, RestoreOver, Fault
<1>8. ContractInv'
  <2>1. ASSUME NEW s \in Tables PROVE Fits(s)'
    <3>1. Fits(s)
      BY DEF IInv, ContractInv
    <3>. QED
      BY <3>1, FitsStays DEF ReadForRestore
  <2>. QED
    BY <2>1 DEF ContractInv
<1>. QED
  BY <1>1, <1>2, <1>3, <1>4, <1>5, <1>6, <1>7, <1>8 DEF IInv

\* One column of the restore.
LEMMA RestoreOneStep ==
  ASSUME IInv, RestoreOne
  PROVE  IInv'
<1>0. PICK i \in items :
        /\ items' = items \ {i}
        /\ gone' = gone \/ (i[1] \notin exists /\ gone' = gone \cup {i})
        /\ \/ /\ i[1] \in exists /\ default[i[1]][i[2]] = NoDefault
              /\ default' = [default EXCEPT ![i[1]][i[2]] = i[3]]
              /\ dropped' = [dropped EXCEPT ![i[1]][i[2]] = NoDefault]
              /\ UNCHANGED faults
           \/ UNCHANGED <<default, dropped, faults>>
           \/ Fault /\ UNCHANGED <<default, dropped>>
  BY DEF RestoreOne
<1>a. i[1] \in Tables /\ i[2] \in Columns /\ i[3] \in Values /\ i \in Tables \X Columns \X Defaults
  BY ValueTypes DEF IInv, TypeOK
<1>b. /\ dropped' \in [Tables -> [Columns -> Values]] /\ default' \in [Tables -> [Columns -> Values]]
      /\ \A s \in Tables : s \notin exists => dropped'[s] = dropped[s] /\ default'[s] = default[s]
      /\ \A s \in Tables : \A c \in Columns :
           \/ dropped'[s][c] = dropped[s][c] /\ default'[s][c] = default[s][c]
           \/ dropped'[s][c] = NoDefault
  <2>1. NoDefault \in Values
    BY DEF Values
  <2>2. CASE /\ i[1] \in exists /\ default[i[1]][i[2]] = NoDefault
             /\ default' = [default EXCEPT ![i[1]][i[2]] = i[3]]
             /\ dropped' = [dropped EXCEPT ![i[1]][i[2]] = NoDefault]
    BY <1>a, <2>1, <2>2 DEF IInv, TypeOK
  <2>3. CASE UNCHANGED <<default, dropped>>
    BY <2>3 DEF IInv, TypeOK
  <2>. QED
    BY <1>0, <2>2, <2>3
<1>c. phase # "idle" /\ kind = "none" /\ cdc # "streaming" /\ \A s \in Tables : at[s] = "idle"
  BY DEF RestoreOne, IInv, GateInv
<1>1. TypeOK'
  <2>1. faults' \in 0..MaxFaults
    BY <1>0, BoundAssumption DEF Fault, IInv, TypeOK
  <2>2. items' \subseteq Tables \X Columns \X Defaults /\ gone' \subseteq Tables \X Columns \X Defaults
    BY <1>0, <1>a DEF IInv, TypeOK
  <2>. QED
    BY <1>b, <2>1, <2>2 DEF IInv, TypeOK, RestoreOne
<1>2. GateInv'
  BY <1>0, <1>a, <1>b, <1>c DEF IInv, GateInv, TypeOK, Places, RestoreOne
<1>3. TargetInv'
  BY <1>0, <1>a, <1>b, <1>c DEF IInv, TargetInv, GateInv, TypeOK, RestoreOne
<1>4. FactsInv'
  BY <1>0, <1>a, <1>b, <1>c DEF IInv, FactsInv, GateInv, TypeOK, NoFacts, RestoreOne
<1>5. ViewInv'
  BY <1>0, <1>a, <1>b, <1>c DEF IInv, ViewInv, Untouched, GateInv, FactsInv, TypeOK, NoFacts,
     RestoreOne
<1>6. NullInv'
  BY <1>c DEF NullInv, RestoreOne
<1>7. OwedIsRecorded'
  BY <1>0, <1>a, <1>b, <1>c DEF IInv, OwedIsRecorded, TypeOK, RestoreOne
<1>8. ContractInv'
  <2>1. ASSUME NEW s \in Tables PROVE Fits(s)'
    <3>1. Fits(s)
      BY DEF IInv, ContractInv
    <3>. QED
      BY <3>1, FitsStays DEF RestoreOne
  <2>. QED
    BY <2>1 DEF ContractInv
<1>. QED
  BY <1>1, <1>2, <1>3, <1>4, <1>5, <1>6, <1>7, <1>8 DEF IInv

\* The merge of a restore's results.
LEMMA RecordRestoreStep ==
  ASSUME IInv, RecordRestore
  PROVE  IInv'
<1>0. /\ ledger' \in [Tables -> Records \cup {NoRecord}]
      /\ \A t \in Tables : t \in exists => ledger'[t] = ledger[t]
      /\ \A t \in Tables : ledger'[t] # NoRecord =>
           /\ ledger[t] # NoRecord
           /\ ledger'[t].set = ledger[t].set /\ ledger'[t].empty = ledger[t].empty
  <2>1. CASE ledger' = [t \in Tables |-> Pruned(t)]
    BY <2>1, PrunedKeeps
  <2>2. CASE ledger' = ledger
    BY <2>2 DEF IInv, TypeOK
  <2>. QED
    BY <2>1, <2>2 DEF RecordRestore
<1>a. /\ kind = "none" /\ cdc # "streaming" /\ \A s \in Tables : at[s] = "idle"
      /\ \A t \in Tables : t \notin exists => kinds[t] = {} /\ dropped[t] = NoValues
      /\ UNCHANGED <<target, session, run, tries, jobs>>
  BY DEF RecordRestore, IInv, GateInv, TargetInv
<1>1. TypeOK'
  <2>1. faults' \in 0..MaxFaults
    BY BoundAssumption DEF RecordRestore, Fault, IInv, TypeOK
  <2>. QED
    BY <1>0, <1>a, <2>1 DEF IInv, TypeOK, RecordRestore, RestoreOver
<1>2. GateInv'
  BY <1>0, <1>a DEF IInv, GateInv, TypeOK, Places, RecordRestore, RestoreOver
<1>3. TargetInv'
  BY <1>0, <1>a DEF IInv, TargetInv, GateInv, TypeOK, RecordRestore, RestoreOver
<1>4. FactsInv'
  BY <1>0, <1>a DEF IInv, FactsInv, GateInv, TypeOK, NoFacts, RecordRestore, RestoreOver
<1>5. ViewInv'
  BY <1>0, <1>a DEF IInv, ViewInv, Untouched, GateInv, FactsInv, TypeOK, NoFacts, RecordRestore,
     RestoreOver
<1>6. NullInv'
  BY <1>0, <1>a DEF IInv, NullInv, Standing, GateInv, TypeOK, RecordRestore, RestoreOver
<1>7. OwedIsRecorded'
  BY <1>0, <1>a DEF IInv, OwedIsRecorded, NoValues
<1>8. ContractInv'
  <2>1. ASSUME NEW s \in Tables PROVE Fits(s)'
    <3>1. Fits(s) /\ cdc' # "streaming" /\ at'[s] = "idle" /\ UNCHANGED <<kinds, exists, unread>>
      BY <1>a DEF IInv, ContractInv
    <3>2. CASE s \in exists
      BY <1>0, <3>1, <3>2, FitsAside
    <3>3. CASE s \notin exists
      <4>1. kinds'[s] = {}
        BY <1>a, <3>3
      <4>. QED
        BY <3>1, <4>1 DEF Fits, RecordFits, RowsFit, RecordIsRight
    <3>. QED
      BY <3>2, <3>3
  <2>. QED
    BY <2>1 DEF ContractInv
<1>. QED
  BY <1>1, <1>2, <1>3, <1>4, <1>5, <1>6, <1>7, <1>8 DEF IInv

\* A stuttering step.
LEMMA StutterStep ==
  ASSUME IInv, UNCHANGED vars
  PROVE  IInv'
<1>1. TypeOK' /\ GateInv' /\ TargetInv' /\ FactsInv'
  BY DEF IInv, vars, TypeOK, GateInv, TargetInv, FactsInv
<1>2. ViewInv' /\ NullInv' /\ OwedIsRecorded'
  BY DEF IInv, vars, ViewInv, Untouched, NullInv, Standing, OwedIsRecorded
<1>3. ContractInv'
  BY DEF IInv, vars, ContractInv, Fits, RecordFits, RowsFit, RecordAgrees, RecordIsRight
<1>. QED
  BY <1>1, <1>2, <1>3 DEF IInv

\* Every step keeps the invariant.
LEMMA NextStep == IInv /\ [Next]_vars => IInv'
<1>. SUFFICES ASSUME IInv, [Next]_vars PROVE IInv'
  OBVIOUS
<1>1. ASSUME NEW t \in Tables, RunStep(t) PROVE IInv'
  BY <1>1, DropTableStep, CreateTableStep, ReadFactsStep, RecordStep, RecordFailsStep, AlterStep,
     AlteredStep, LoadRowsStep, LoadAgainStep DEF RunStep
<1>2. ASSUME NEW t \in Tables, StreamRows(t) \/ ChangeExclusions(t) PROVE IInv'
  BY <1>2, StreamRowsStep, ChangeExclusionsStep
<1>3. CASE StartLoad \/ StartCdc \/ ReadLedger \/ ReadFails \/ Connectors \/ RunEnds
  BY <1>3, StartLoadStep, StartCdcStep, ReadLedgerStep, ReadFailsStep, ConnectorsStep, RunEndsStep
<1>4. CASE StartRestore \/ ReadForRestore \/ RestoreOne \/ RecordRestore \/ RestoreDies
  BY <1>4, StartRestoreStep, ReadForRestoreStep, RestoreOneStep, RecordRestoreStep, RestoreDiesStep
<1>5. CASE StartOver \/ FindRecords \/ Attest \/ EndCdc
  BY <1>5, StartOverStep, FindRecordsStep, AttestStep, EndCdcStep
<1>6. CASE UNCHANGED vars
  BY <1>6, StutterStep
<1>. QED
  BY <1>1, <1>2, <1>3, <1>4, <1>5, <1>6 DEF Next

-----------------------------------------------------------------------------
(* The theorems.                                                           *)

\* The inductive invariant holds in every reachable state.
THEOREM Inductive == Spec => []IInv
<1>. QED
  BY InitInv, NextStep, PTL DEF Spec

\* Every variable has its type: a merge in particular is never tried more often than
\* _BlobLedger allows.
THEOREM TypeCorrect == Spec => []TypeOK
<1>1. IInv => TypeOK
  BY DEF IInv
<1>. QED
  BY <1>1, Inductive, PTL

\* A DEFAULT that apply_exclusion_overlay dropped and nobody set again is in the ledger with
\* the expression it had, whatever job failed, was cancelled or died in between.
THEOREM DroppedIsRecorded == Spec => []OwedIsRecorded
<1>1. IInv => OwedIsRecorded
  BY DEF IInv
<1>. QED
  BY <1>1, Inductive, PTL

\* While CDC streams, no table has a DEFAULT on a column the stream leaves out.
THEOREM StreamWritesNull == Spec => []StreamLeavesNull
<1>1. IInv => StreamLeavesNull
  BY DEF IInv, NullInv, StreamLeavesNull, LeftNull, Standing, TypeOK
<1>. QED
  BY <1>1, Inductive, PTL

\* A record that says that every row was written under its set of columns is right, unless a
\* load or a stream that went by another record wrote rows since the table was last dropped.
THEOREM RecordDescribesRows == Spec => []EmptyMeansEveryRow
<1>1. IInv => EmptyMeansEveryRow
  BY DEF IInv, ContractInv, Fits, EmptyMeansEveryRow
<1>. QED
  BY <1>1, Inductive, PTL

\* With the same exception a Full Load never mixes: after it writes a row of a table, every
\* row was written without exactly the columns it excludes.
THEOREM LoadsNeverMix == Spec => LoadKeepsContract
<1>. DEFINE Keeps == \A t \in Tables \ unread' : WritesUnmixed(t)
<1>1. ASSUME IInv, [Next]_vars PROVE Keeps
  <2>. SUFFICES ASSUME NEW t \in Tables, t \notin unread', kind = "load", kinds'[t] # {}, kinds'[t] # kinds[t]
                PROVE  kinds'[t] = {excluded[t]}
    BY DEF WritesUnmixed
  <2>1. cdc # "streaming" /\ phase = "idle"
    BY <1>1 DEF IInv, GateInv
  <2>2. ~UNCHANGED kinds
    OBVIOUS
  <2>3. PICK s \in Tables : DropTable(s) \/ LoadRows(s)
    BY <1>1, <2>1, <2>2 DEF Next, RunStep, vars, CreateTable, ReadFacts, Record, RecordFails, Alter, Altered,
       LoadAgain, StreamRows, ChangeExclusions, StartLoad, StartCdc, Starts, ReadLedger, ReadFails,
       Connectors, RunEnds, StartRestore, ReadForRestore, RestoreOne, RecordRestore, RestoreDies,
       StartOver, FindRecords, Attest, EndCdc
  <2>4. CASE DropTable(s)
    BY <1>1, <2>4 DEF DropTable, IInv, TypeOK
  <2>5. CASE LoadRows(s)
    <3>1. LeftNull(s) = excluded[s]
      BY <1>1, <2>5 DEF LoadRows, LeftNull, IInv, NullInv, Standing, TypeOK
    <3>2. kinds' = [kinds EXCEPT ![s] = @ \cup {excluded[s]}] /\ at[s] = "load"
      BY <2>5, <3>1 DEF LoadRows, Writes
    <3>3. s = t
      BY <1>1, <3>2 DEF IInv, TypeOK
    <3>4. t \notin unread /\ view[t] = ledger[t]
      BY <2>5, <3>3 DEF LoadRows, Misread
    <3>5. kinds[t] \subseteq {excluded[t]}
      BY <1>1, <3>2, <3>3, <3>4 DEF IInv, ContractInv, Fits, RowsFit
    <3>. QED
      BY <1>1, <3>2, <3>3, <3>5 DEF IInv, TypeOK
  <2>. QED
    BY <2>3, <2>4, <2>5
<1>2. IInv /\ [Next]_vars => [Keeps]_vars
  BY <1>1
<1>. QED
  BY <1>2, Inductive, PTL DEF Spec, LoadKeepsContract
=============================================================================
