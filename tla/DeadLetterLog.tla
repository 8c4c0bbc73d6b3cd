--------------------------- MODULE DeadLetterLog ---------------------------
(***************************************************************************)
(* How the tool learns of dead letters, the changes the sink set aside and *)
(* never retries.  The sink logs one line for each; CloudWatch shows the   *)
(* line some time later.  A session reads the log through one controller   *)
(* that keeps a position, from two places: the monitor's poll and the      *)
(* check of the cut-over gate.  Each reads on a worker thread and lands    *)
(* its result on the event loop, where the lines are counted per table;    *)
(* the outcome of the last read to land is what the gate looks at.  A      *)
(* snapshot of the session survives a restart of the application.          *)
(*                                                                         *)
(* Times are milliseconds.  Everything happens at multiples of Unit, the   *)
(* position alone can lie between them (it moves just past a line), so     *)
(* the model makes fewer reads than Unit: past a line is not past the next.*)
(***************************************************************************)
EXTENDS SinkLog

CONSTANTS
  Polls,       \* polls of the monitor that can be under way together
  Checks,      \* reads for the cut-over gate that can be under way together
  Lookback,    \* _DLQ_INITIAL_LOOKBACK_SECONDS
  Furthest,    \* the longest look-back, 14 days in the code
  Slack,       \* how far before the CDC start it reaches, 5 minutes
  ResumeAge,   \* _DLQ_RESUME_MAX_AGE_SECONDS
  Watchdog,    \* twice CDC_DLQ_CHECK_TTL_SECONDS
  MaxReads,    \* bound: how often the log is read or the controller built anew
  MaxFaults    \* bound: how often the controller is built anew

Flights == Polls \cup Checks

ASSUME LogAssumption ==
  /\ {Lookback, Furthest, Slack, ResumeAge, Watchdog, MaxReads, MaxFaults} \subseteq Nat
  /\ Polls \cap Checks = {} /\ MaxReads < Unit /\ Lookback <= Furthest /\ Furthest < First
  /\ \A t \in {First, Skew, Grace} \cup Earlier : \E k \in 0..t : t = Unit * k

VARIABLES
  reader,     \* the controller's state
  reads,      \* how often it has read
  faults,     \* how often it was built anew
  flight,     \* [Flights -> Flight]: the reads under way
  claim,      \* _cdc_dlq_check_started
  cursor,     \* cdc_dlq_cursor_ms, of the session
  seen,       \* cdc_dlq_seen_ids
  audited,    \* cdc_dlq_audited_keys
  ledger,     \* cdc_dlq_ledger
  readFrom,   \* cdc_dlq_read_from_ms
  lastRead,   \* cdc_dlq_last_read
  pending,    \* cdc_dlq_pending_read
  saved,      \* the snapshot of the session
  counted,    \* history: the lines the ledger counts
  dropped,    \* history: lines a restart left behind the position, counted nowhere
  overtaken,  \* history: lines the reading was past already when it could have met them
  lookedBack, \* history: where the last read without a position began
  restarted   \* history: whether a restart went back to the snapshot

session == <<cursor, seen, audited, ledger, readFrom, lastRead, pending, counted>>
vars == <<world, reader, reads, faults, flight, claim, session, saved, dropped, overtaken, lookedBack, restarted>>

Reports == [read : Record, from : Time]
Resume == [from : Nat, next : Nat, began : Nat]
ASSUME NoneAssumption == None \notin Resume \cup Reports

Flight == [stage : {"idle", "read", "landing"}, lines : SUBSET Lines, began : Time,
           report : Reports \cup {None}, cursor : Time, seen : SUBSET Lines]
Idle == [stage |-> "idle", lines |-> {}, began |-> None, report |-> None, cursor |-> None, seen |-> {}]

\* A controller that adopts the position and the seen lines of a session.
Seeded(c, s) ==
  [cursor |-> c, seen |-> s, resume |-> None, ok |-> FALSE, capped |-> FALSE, began |-> None, history |-> None]

Nothing == [tb \in Tables |-> NoEntry]

Init ==
  /\ WorldInit
  /\ reader = Seeded(None, {}) /\ reads = 0 /\ faults = 0
  /\ flight = [f \in Flights |-> Idle] /\ claim = None
  /\ cursor = None /\ seen = {} /\ audited = {} /\ ledger = Nothing /\ readFrom = None
  /\ lastRead = None /\ pending = None
  /\ saved = [cursor |-> None, ledger |-> Nothing, readFrom |-> None, counted |-> {}, air |-> {}]
  /\ counted = {} /\ dropped = {} /\ overtaken = {} /\ lookedBack = 0 /\ restarted = FALSE

-----------------------------------------------------------------------------
(* One read of the log by the controller, serialized by its lock. *)

Window ==
  IF cdcStart = None THEN Lookback
  ELSE Max({Lookback, Min({now - cdcStart + Slack, Furthest})})

\* A read begins at the position, one without a position looks back.
Afresh ==
  LET s == IF reader.cursor # None THEN reader.cursor ELSE now - Window
  IN  [from |-> s, next |-> s, began |-> now]

\* The continuation of a capped read, unless it is too old.
Continuation ==
  IF reader.resume # None /\ now - reader.resume.began > ResumeAge THEN None ELSE reader.resume

\* A read goes on with the continuation; one that is refused is read afresh.
Chains == {Afresh} \cup ({Continuation} \ {None})

ChainFrom(c) == {l \in Shown : at[l] >= c.next}

\* What a read that stops at its page cap has passed: a time, and lines of that time.
Stops(c) == {c.next} \cup {at[l] : l \in ChainFrom(c)}
Passed(c, t, S) == {l \in ChainFrom(c) : at[l] < t} \cup S
CapsAt(c, t) == SUBSET {l \in ChainFrom(c) : at[l] = t}

PositionNow(c, fresh, capped) ==  \* mutant: no grace for lines shown late
  LET old == IF reader.cursor = None THEN 0 ELSE reader.cursor
      newest == Max({old} \cup {at[l] : l \in fresh})
  IN  IF ~capped THEN now ELSE IF newest > old THEN newest + 1 ELSE reader.cursor
Position(c, fresh, capped) ==
  LET old == IF reader.cursor = None THEN 0 ELSE reader.cursor
      newest == Max({old} \cup {at[l] : l \in fresh})
  IN  IF ~capped
      THEN Max({IF newest = 0 THEN 0 ELSE newest + 1, c.began - Grace})
      ELSE IF newest > old THEN newest + 1 ELSE reader.cursor

\* The controller after a read of chain c found the lines of got; resume is None at the end.
After(c, got, resume) ==
  LET fresh == got \ reader.seen
      p == Position(c, fresh, resume # None)
  IN  [cursor |-> p, seen |-> reader.seen \cup fresh, resume |-> resume,
       ok |-> TRUE, capped |-> resume # None, began |-> c.began,
       history |-> IF reader.history = None /\ (resume = None \/ p # None)
                   THEN c.from ELSE reader.history]

LooksBack(c) == lookedBack' = IF reader.cursor = None THEN c.from ELSE lookedBack

Completes(c, got) ==
  /\ got = ChainFrom(c)
  /\ reader' = After(c, got, None)
  /\ LooksBack(c) /\ UNCHANGED overtaken

StopsAtCap(c, got) ==
  \E t \in Stops(c) : \E S \in CapsAt(c, t) :
    /\ got = Passed(c, t, S)
    /\ reader' = After(c, got, [from |-> c.from, next |-> t, began |-> c.began])
    /\ overtaken' = overtaken \cup (IF S = {} THEN {} ELSE {l \in ChainFrom(c) : at[l] = t} \ S)
    /\ LooksBack(c)

\* No answer: the continuation stays if no client was made, and is gone if the pages failed.
Fails(got) ==
  /\ got = {}
  /\ \E r \in {Continuation, None} : reader' = [reader EXCEPT !.ok = FALSE, !.resume = r]
  /\ UNCHANGED <<overtaken, lookedBack>>

MayCheck(f) == f \in Checks /\ claim # None => now - claim > Watchdog

Read(f) ==
  /\ flight[f].stage = "idle" /\ reads + faults < MaxReads /\ MayCheck(f)
  /\ reads' = reads + 1
  /\ \E got \in SUBSET Shown :
       /\ Fails(got) \/ \E c \in Chains : Completes(c, got) \/ StopsAtCap(c, got)
       /\ flight' = [flight EXCEPT ![f] =
            [Idle EXCEPT !.stage = "read", !.lines = got \ reader.seen, !.began = now]]
  /\ claim' = IF f \in Checks THEN now ELSE claim
  /\ UNCHANGED <<world, faults, session, saved, dropped, restarted>>

OutcomeOfPages(b) ==  \* mutant: a read that stops at its page cap is complete
  [read |-> [began |-> IF reader.ok /\ reader.began < b THEN reader.began ELSE b,
             ok |-> reader.ok, complete |-> reader.ok],
   from |-> reader.history]
\* What the controller says its last read proved, to a flight that began at b.
Outcome(b) ==
  [read |-> [began |-> IF reader.ok /\ reader.began < b THEN reader.began ELSE b,
             ok |-> reader.ok, complete |-> reader.ok /\ ~reader.capped],
   from |-> reader.history]

\* The poll's worker hands outcome and position to the session at once; a check keeps both
\* for its landing.
Report(f) ==
  /\ flight[f].stage = "read"
  /\ LET r == Outcome(flight[f].began) IN
     IF f \in Polls
     THEN /\ pending' = r /\ cursor' = reader.cursor /\ seen' = reader.seen
          /\ flight' = [flight EXCEPT ![f].stage = "landing"]
     ELSE /\ flight' = [flight EXCEPT ![f].stage = "landing", ![f].report = r,
                          ![f].cursor = reader.cursor, ![f].seen = reader.seen]
          /\ UNCHANGED <<pending, cursor, seen>>
  /\ UNCHANGED <<world, reader, reads, faults, claim, audited, ledger, readFrom, lastRead, counted,
                 saved, dropped, overtaken, lookedBack, restarted>>

-----------------------------------------------------------------------------
(* Landing on the event loop. *)

FoldAll(L) ==  \* mutant: a line that surfaces again is counted again
  /\ audited' = audited \cup L
  /\ counted' = counted \cup L
  /\ ledger' = Folded(ledger, L)
Fold(L) ==
  /\ audited' = audited \cup L
  /\ counted' = counted \cup L
  /\ ledger' = Folded(ledger, L \ audited)

Promote(r) ==
  /\ lastRead' = r.read
  /\ readFrom' = IF r.read.ok /\ r.from # None /\ readFrom = None THEN r.from ELSE readFrom

LandPoll(f) ==
  /\ f \in Polls /\ flight[f].stage = "landing"
  /\ Fold(flight[f].lines)
  /\ IF pending = None THEN UNCHANGED <<lastRead, readFrom>> ELSE Promote(pending)
  /\ pending' = None
  /\ flight' = [flight EXCEPT ![f] = Idle]
  /\ UNCHANGED <<world, reader, reads, faults, claim, cursor, seen, saved, dropped, overtaken, lookedBack, restarted>>

LandCheckOfClaim(f) ==  \* mutant: the landing of a check that lost its claim is given up
  /\ f \in Checks /\ flight[f].stage = "landing"
  /\ IF claim = None THEN UNCHANGED <<session>>
     ELSE /\ Fold(flight[f].lines)
          /\ cursor' = flight[f].cursor /\ seen' = flight[f].seen
          /\ Promote(flight[f].report) /\ UNCHANGED pending
  /\ flight' = [flight EXCEPT ![f] = Idle] /\ claim' = None
  /\ UNCHANGED <<world, reader, reads, faults, saved, dropped, overtaken, lookedBack, restarted>>
LandCheck(f) ==
  /\ f \in Checks /\ flight[f].stage = "landing"
  /\ Fold(flight[f].lines)
  /\ cursor' = flight[f].cursor /\ seen' = flight[f].seen
  /\ Promote(flight[f].report)
  /\ flight' = [flight EXCEPT ![f] = Idle] /\ claim' = None
  /\ UNCHANGED <<world, reader, reads, faults, pending, saved, dropped, overtaken, lookedBack, restarted>>

MayFault == faults < MaxFaults /\ reads + faults < MaxReads

\* Another region or profile: the controller is built anew from the session's position.  No
\* worker is between its read and its report.
Rebuild ==
  /\ MayFault /\ faults' = faults + 1
  /\ \A f \in Flights : flight[f].stage # "read"
  /\ reader' = Seeded(cursor, seen)
  /\ UNCHANGED <<world, reads, flight, claim, session, saved, dropped, overtaken, lookedBack, restarted>>

-----------------------------------------------------------------------------
(* The session's snapshot, and a restart of the application. *)

InAir == UNION {flight[f].lines : f \in Flights}
Behind(c) == {l \in Shown : c # None /\ at[l] < c}

Save ==
  /\ MayFault
  /\ saved' = [cursor |-> cursor, ledger |-> ledger, readFrom |-> readFrom,
               counted |-> counted, air |-> InAir \ counted]
  /\ UNCHANGED <<world, reader, reads, faults, flight, claim, session, dropped, overtaken, lookedBack, restarted>>

RestartOnRead ==  \* mutant: the last read outlives the ledger
  /\ MayFault /\ faults' = faults + 1
  /\ flight' = [f \in Flights |-> Idle] /\ claim' = None
  /\ reader' = Seeded(saved.cursor, {})
  /\ cursor' = saved.cursor /\ seen' = {} /\ audited' = {}
  /\ ledger' = saved.ledger /\ readFrom' = saved.readFrom /\ counted' = saved.counted
  /\ UNCHANGED lastRead /\ pending' = None
  /\ dropped' = dropped \cup (saved.air \cap Behind(saved.cursor)) /\ restarted' = TRUE
  /\ UNCHANGED <<world, reads, saved, overtaken, lookedBack>>
Restart ==
  /\ MayFault /\ faults' = faults + 1
  /\ flight' = [f \in Flights |-> Idle] /\ claim' = None
  /\ reader' = Seeded(saved.cursor, {})
  /\ cursor' = saved.cursor /\ seen' = {} /\ audited' = {}
  /\ ledger' = saved.ledger /\ readFrom' = saved.readFrom /\ counted' = saved.counted
  /\ lastRead' = None /\ pending' = None
  /\ dropped' = dropped \cup (saved.air \cap Behind(saved.cursor)) /\ restarted' = TRUE
  /\ UNCHANGED <<world, reads, saved, overtaken, lookedBack>>

\* The lines the reading has taken up, and whether it is past a line of time t: it has taken up
\* one as young, or a page with younger ones.
Taken == counted \cup InAir \cup dropped
Past(t) == (\E k \in Taken : t <= at[k]) \/ (reader.resume # None /\ t < reader.resume.next)

World ==
  /\ WorldNext
  /\ overtaken' = overtaken \cup {l \in Lines : shown[l] # shown'[l] /\ Past(at[l])}
  /\ UNCHANGED <<reader, reads, faults, flight, claim, session, saved, dropped, lookedBack, restarted>>

Next ==
  \/ \E f \in Flights : Read(f) \/ Report(f) \/ LandPoll(f) \/ LandCheck(f)
  \/ World \/ Rebuild \/ Save \/ Restart

Spec == Init /\ [][Next]_vars

-----------------------------------------------------------------------------
TypeOK ==
  /\ restarted \in BOOLEAN /\ now \in Moments /\ cdcStart \in Starts /\ reads \in 0..MaxReads /\ faults \in 0..MaxFaults
  /\ at \in [Lines -> Time] /\ shown \in [Lines -> Time]
  /\ reader \in [cursor : Time, seen : SUBSET Lines, resume : Resume \cup {None}, ok : BOOLEAN,
                 capped : BOOLEAN, began : Time, history : Time]
  /\ flight \in [Flights -> Flight] /\ claim \in Time
  /\ cursor \in Time /\ readFrom \in Time /\ lookedBack \in Nat
  /\ seen \subseteq Lines /\ audited \subseteq counted /\ counted \subseteq Lines /\ dropped \cup overtaken \subseteq Lines
  /\ ledger \in [Tables -> Entries]
  /\ lastRead \in Record \cup {None} /\ pending \in Reports \cup {None}
  /\ saved \in [cursor : Time, ledger : [Tables -> Entries], readFrom : Time,
                counted : SUBSET Lines, air : SUBSET Lines]

\* Where the tool says that its reading begins, and the lines from then on.  A controller built
\* anew before the session had a position looks back again, and no further.
Begins == IF readFrom # None THEN readFrom ELSE reader.history
Covered == {l \in Shown : Begins # None /\ at[l] >= Begins /\ at[l] >= lookedBack}

\* No dead letter falls behind the position unread, whatever order reads, continuations,
\* failures, landings, rebuilt controllers and restarts come in: each line the log shows from
\* the beginning of the reading on is counted, or about to land, or still ahead of the position.
\* Two ways to lose one are known and set apart: a line that a younger one overtook, because the
\* log showed it late or a capped read stopped in its millisecond, and a line a restart dropped.
NothingSkipped ==
  \A l \in Covered :
    \/ l \in Taken \cup overtaken
    \/ reader.cursor = None \/ at[l] >= reader.cursor

\* The ledger gives each table the time of its latest counted dead letter and no fewer than
\* there are, though lines are read again after a rebuild, a dropped continuation or a restart;
\* and no more, until a restart.
LedgerIsExact ==
  \A tb \in Tables :
    LET L == LinesOf(tb, counted) IN
    /\ ledger[tb].count >= Cardinality(L) /\ (~restarted => ledger[tb].count = Cardinality(L))
    /\ ledger[tb].last = Latest({at[l] : l \in L})

\* The reading implements what the gate relies on: above all, a published read that reached the
\* end has each line the log showed before it began counted or excused.  Excused are the lines of
\* a read that has not landed, and those NothingSkipped sets apart.
Excused == InAir \cup overtaken \cup dropped \cup {l \in Shown : at[l] < lookedBack}
Promise == INSTANCE DeadLetterLedger WITH Horizons <- Nat, Excuses <- Lines, excused <- Excused
ReadSpeaksForLedger == Promise!Spec

\* What the session keeps of the lines is right: none is skipped, none lost on its way into the
\* ledger, none counted twice.
LogInv == TypeOK /\ NothingSkipped /\ LedgerIsExact

-----------------------------------------------------------------------------
(* What a comment promises and the code does not keep. *)

\* The coverage of the log is continuous: a line shown before a complete read began, and not in
\* the air, is counted.  A line shown late, or of the same millisecond, breaks it.
CoverageIsContinuous ==
  lastRead # None /\ lastRead.complete =>
    \A l \in Covered : shown[l] < lastRead.began => l \in counted \cup InAir \cup dropped

-----------------------------------------------------------------------------
(* The inductive invariant behind them.                                    *)

OnGrid(t) == \E k \in 0..t : t = Unit * k
ClockInv ==
  /\ \A l \in Lines : at[l] # None => OnGrid(at[l])
  /\ \A l \in Shown : at[l] # None
  /\ lookedBack <= now - Window

\* A line that was seen is counted or about to land.
SeenInv ==
  /\ Taken \subseteq Shown /\ saved.counted \cup saved.air \subseteq Shown
  /\ reader.seen \cup seen \subseteq counted \cup InAir
  /\ \A f \in Flights : flight[f].seen \subseteq counted \cup InAir

\* A position is reads at most past the grace, or past a line of T, and what it has passed is
\* in T or overtaken.
Bounded(c, T) ==
  \/ c = 0 \/ c + Grace <= now + reads
  \/ \E k \in T : at[k] < c /\ c <= at[k] + reads
Swept(c, T) == \A l \in Shown : lookedBack <= at[l] /\ at[l] < c => l \in T \cup overtaken
Stands(c, T) == c # None => Bounded(c, T) /\ Swept(c, T)

\* What a restart takes for taken: what is counted in the snapshot, and what it would drop.
SavedTaken == saved.counted \cup saved.air \cup dropped
PositionInv ==
  /\ Stands(reader.cursor, Taken) /\ Stands(cursor, Taken)
  /\ \A f \in Flights : Stands(flight[f].cursor, Taken)
  /\ Stands(saved.cursor, SavedTaken)
  /\ saved.cursor # None => \A k \in SavedTaken : at[k] < saved.cursor => k \in Taken

\* A continuation has left nothing behind between the position and where it goes on.
ResumeInv == reader.resume # None =>
  /\ reader.resume.began \in Moments /\ reader.resume.began <= now
  /\ reader.cursor = None => reader.resume.from = lookedBack
  /\ \A l \in Shown :
       lookedBack <= at[l] /\ at[l] < reader.resume.next /\ (reader.cursor = None \/ reader.cursor <= at[l])
         => l \in Taken \cup overtaken

Exact(e, C) ==
  \A tb \in Tables : /\ e[tb].count >= Cardinality(LinesOf(tb, C))
                     /\ e[tb].last = Latest({at[l] : l \in LinesOf(tb, C)})
LedgerInv ==
  /\ LedgerIsExact /\ Exact(saved.ledger, saved.counted)
  /\ ~restarted => audited = counted
  /\ saved.counted \subseteq counted /\ saved.readFrom \in {None, readFrom}
  /\ \A tb \in Tables : saved.ledger[tb].count <= ledger[tb].count

\* What was shown before b is counted or excused.
KnownBefore(b) == \A l \in Shown : shown[l] < b => l \in counted \cup Excused
Honest(r) == r.began <= now /\ (r.complete => r.ok /\ KnownBefore(r.began))
HonestReport(r) == Honest(r.read) /\ (r.read.complete => r.from # None)
ReportsInv ==
  /\ reader.ok => reader.began \in Moments /\ reader.began <= now
  /\ reader.ok /\ ~reader.capped => reader.history # None /\ KnownBefore(reader.began)
  /\ \A f \in Flights :
       /\ flight[f].stage = "idle" => flight[f] = Idle
       /\ flight[f].stage # "idle" => flight[f].began \in Moments /\ flight[f].began <= now
       /\ f \in Checks /\ flight[f].stage = "landing" => flight[f].report # None
       /\ flight[f].report # None => HonestReport(flight[f].report)
  /\ pending # None => HonestReport(pending)
  /\ lastRead # None => Honest(lastRead) /\ (lastRead.complete => readFrom # None)

IInv ==
  /\ TypeOK /\ ClockInv /\ SeenInv /\ PositionInv /\ ResumeInv /\ LedgerInv /\ ReportsInv
=============================================================================
