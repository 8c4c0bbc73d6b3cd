-------------------------- MODULE PgHandoffProofs --------------------------
(***************************************************************************)
(* NoGap for all migrations, tables and transactions.                      *)
(*                                                                         *)
(* A change is lost only if it was written while its table was no member   *)
(* of the publication, or committed at or before the position the stream   *)
(* begins at, and is in no copy.  So the invariant says of every migration *)
(* whose start point still holds (Held) that its copies include each       *)
(* unpublished change of a covered table (CapturePublished), which two     *)
(* waits establish: PostgreSQL's own, in the creation of the slot          *)
(* (CreationWaits), and the one for the transactions open when a table     *)
(* joined (AdditionWaited); and that the stream begins at the watermark,   *)
(* which no copy is older than (PositionKept, Times).                      *)
(***************************************************************************)
EXTENDS PgHandoff, TLAPS

Over(t) == txn[t] \in {"committed", "aborted"}

\* A change of t on a table of T that pgoutput does not publish.
Unpublished(t, T) == {w \in writes[t] : w.table \in T /\ ~w.published}

\* No copy and no slot is older than the watermark, and no commit is ahead of the WAL.
Times ==
  /\ slot = "ready" => slotAt <= now
  /\ \A t \in Txns : at[t] <= now /\ (txn[t] = "new" => writes[t] = {})
  /\ \A m \in Migrations : mark[m] # None =>
       /\ mark[m] <= now
       /\ slot = "ready" => mark[m] <= slotAt
       /\ \A tb \in Tables : copy[m][tb] # None => mark[m] <= copy[m][tb]

\* What a migration has at each point of its runs.
Phase(m) ==
  /\ mark[m] = None =>
       /\ stack[m] \in {"new", "deleting"} /\ step[m] \notin Additions
       /\ covered[m] = {} /\ \A tb \in Tables : copy[m][tb] = None
  /\ step[m] \in Provisioning \cup {"publish"} => mark[m] = None
  /\ IF stack[m] \in {"new", "deleting"}
     THEN ~started[m] /\ from[m] = None
     ELSE captured[m] \subseteq covered[m]
  /\ from[m] # None => started[m]
  /\ stack[m] = "running" => from[m] # None

\* A Start past its checks begins at the watermark.
PositionKept(m) == ~unguarded[m] =>
  /\ from[m] = None /\ PastChecks(m) =>
       slot = "creating" \/ (slot = "ready" /\ slotAt = mark[m])
  /\ from[m] # None => from[m] = mark[m] /\ slot = "ready"

\* The start point of m is where its Full Load put it, or its stream has begun there.
Held(m) ==
  /\ mark[m] # None /\ ~unguarded[m]
  /\ from[m] # None \/ (slot = "ready" /\ slotAt = mark[m])

CapturePublished(m) == Held(m) =>
  /\ pub /\ covered[m] \subseteq members
  /\ \A t \in Txns : \A w \in Unpublished(t, covered[m]) :
       Over(t) /\ (copy[m][w.table] # None => at[t] <= copy[m][w.table])

AdditionWaited(m) == Held(m) /\ step[m] \in Additions =>
  /\ adding[m] \subseteq members
  /\ \A t \in Txns : \A w \in Unpublished(t, adding[m]) :
       /\ step[m] = "waiting" => t \in awaited[m] \/ Over(t)
       /\ step[m] \in {"adding", "covering"} => Over(t)
       /\ step[m] = "covering" /\ copy[m][w.table] # None => at[t] <= copy[m][w.table]

CreationWaits(m) == ~unguarded[m] /\ step[m] \in Provisioning =>
  /\ pub /\ Picked[m] \subseteq members
  /\ step[m] = "creating" =>
       \A t \in Txns : Unpublished(t, Picked[m]) # {} => t \in awaited[m] \/ Over(t)

MigrationInv(m) ==
  /\ Phase(m) /\ PositionKept(m)
  /\ CapturePublished(m) /\ AdditionWaited(m) /\ CreationWaits(m)

\* The inductive invariant.
IInv == TypeOK /\ Times /\ \A m \in Migrations : MigrationInv(m)

USE PgAssumption DEF source, objects, load, stream

-----------------------------------------------------------------------------
(* The shape of the state.                                                 *)

\* Every step keeps the shape of the state.
LEMMA TypesStep ==
  ASSUME Types, [Next]_vars
  PROVE  Types'
<1>. USE DEF Types, Position
<1>a. ASSUME NEW n \in Migrations, NEW s \in Steps, Goes(n, s)
      PROVE  step' \in [Migrations -> Steps]
  BY <1>a DEF Goes
<1>b. ASSUME NEW n \in Migrations, NEW s \in Stacks, Becomes(n, s)
      PROVE  stack' \in [Migrations -> Stacks]
  BY <1>b DEF Becomes
<1>c. ASSUME NEW n \in Migrations, Finishes(n)
      PROVE  /\ step' \in [Migrations -> Steps]
             /\ made' \in [Migrations -> BOOLEAN] /\ stale' \in [Migrations -> BOOLEAN]
             /\ awaited' \in [Migrations -> SUBSET Txns]
             /\ adding' \in [Migrations -> SUBSET Tables]
  BY <1>c DEF Finishes, Goes, Steps
<1>d. ASSUME NEW n \in Migrations, Rests(n)
      PROVE  /\ stack' \in [Migrations -> Stacks]
             /\ captured' \in [Migrations -> SUBSET Tables]
  BY <1>d DEF Rests, Becomes, Stacks
<1>e. ASSUME NEW n \in Migrations, SlotMovedBy(n)
      PROVE  unguarded' \in [Migrations -> BOOLEAN]
  BY <1>e DEF SlotMovedBy, Unguards
<1>f. /\ {"idle", "publish", "drop", "create", "creating"} \subseteq Steps
      /\ {"joined", "waiting", "adding", "covering"} \subseteq Steps
      /\ {"new", "starting", "gated", "running", "stopped", "deleting"} \subseteq Stacks
  BY DEF Steps, Stacks, Provisioning, Additions
<1>g. Open \in SUBSET Txns /\ now + 1 \in Nat /\ now + 1 \in Nat \cup {None}
  BY DEF Open
<1>1. CASE UNCHANGED vars
  BY <1>1 DEF vars
<1>2. CASE \E t \in Txns : Commit(t)
  BY <1>2 DEF Commit
<1>3. CASE \E t \in Txns : Abort(t)
  BY <1>3 DEF Abort
<1>4. CASE \E t \in Txns, tb \in Tables : Write(t, tb)
  <2>. PICK t \in Txns, tb \in Tables : Write(t, tb)
    BY <1>4
  <2>1. [table |-> tb, published |-> pub /\ tb \in members] \in Change
    BY DEF Change
  <2>. QED
    BY <2>1 DEF Write
<1>5. CASE \E n \in Migrations : StartFullLoad(n)
  BY <1>a, <1>b, <1>c, <1>d, <1>e, <1>f, <1>g, <1>5 DEF StartFullLoad
<1>6. CASE \E n \in Migrations : Publish(n)
  BY <1>a, <1>b, <1>c, <1>d, <1>e, <1>f, <1>g, <1>6 DEF Publish
<1>7. CASE \E n \in Migrations : DropStale(n)
  BY <1>a, <1>b, <1>c, <1>d, <1>e, <1>f, <1>g, <1>7 DEF DropStale
<1>8. CASE \E n \in Migrations : CreateSlot(n)
  BY <1>a, <1>b, <1>c, <1>d, <1>e, <1>f, <1>g, <1>8 DEF CreateSlot
<1>9. CASE \E n \in Migrations : SlotReady(n)
  <2>. PICK n \in Migrations : SlotReady(n)
    BY <1>9
  <2>1. /\ mark' \in [Migrations -> Nat \cup {None}]
        /\ covered' \in [Migrations -> SUBSET Tables]
    <3>1. CASE UNCHANGED <<mark, covered>>
      BY <3>1
    <3>2. CASE /\ mark' = [mark EXCEPT ![n] = now + 1]
               /\ covered' = [covered EXCEPT ![n] = Picked[n]]
      BY <1>g, <3>2
    <3>. QED
      BY <3>1, <3>2 DEF SlotReady
  <2>2. /\ now' \in Nat /\ slot' = "ready" /\ slotAt' \in Nat /\ user' = None
        /\ Finishes(n) /\ SlotMovedBy(n)
        /\ UNCHANGED <<runs, txn, at, writes, pub, members, copy, stream>>
    BY <1>g DEF SlotReady
  <2>. QED
    BY <1>c, <1>e, <2>1, <2>2
<1>10. CASE \E n \in Migrations : ProvisionFails(n)
  <2>. PICK n \in Migrations : ProvisionFails(n)
    BY <1>10
  <2>1. unguarded' \in [Migrations -> BOOLEAN]
    BY <1>e DEF ProvisionFails, Unguards
  <2>2. pub' \in BOOLEAN /\ members' \in SUBSET Tables
    BY DEF ProvisionFails
  <2>3. /\ slot' \in {"absent", "creating", "ready"} /\ user' \in Migrations \cup {None}
        /\ Finishes(n)
        /\ UNCHANGED <<source, slotAt, mark, covered, copy, stream>>
    BY DEF ProvisionFails
  <2>. QED
    BY <1>c, <2>1, <2>2, <2>3
<1>11. CASE \E n \in Migrations : TakeXid(n)
  BY <1>a, <1>b, <1>c, <1>d, <1>e, <1>f, <1>g, <1>11 DEF TakeXid
<1>12. CASE \E n \in Migrations : TransactionsEnded(n)
  BY <1>a, <1>b, <1>c, <1>d, <1>e, <1>f, <1>g, <1>12 DEF TransactionsEnded
<1>13. CASE \E n \in Migrations : CopyAddition(n)
  BY <1>a, <1>b, <1>c, <1>d, <1>e, <1>f, <1>g, <1>13 DEF CopyAddition
<1>14. CASE \E n \in Migrations : ExtendCoverage(n)
  BY <1>a, <1>b, <1>c, <1>d, <1>e, <1>f, <1>g, <1>14 DEF ExtendCoverage
<1>15. CASE \E n \in Migrations : AdditionFails(n)
  BY <1>a, <1>b, <1>c, <1>d, <1>e, <1>f, <1>g, <1>15 DEF AdditionFails
<1>16. CASE \E n \in Migrations : SubmitStart(n)
  BY <1>a, <1>b, <1>c, <1>d, <1>e, <1>f, <1>g, <1>16 DEF SubmitStart
<1>17. CASE \E n \in Migrations : CheckStart(n)
  <2>. PICK n \in Migrations : CheckStart(n)
    BY <1>17
  <2>1. /\ stack' \in [Migrations -> Stacks] /\ captured' \in [Migrations -> SUBSET Tables]
        /\ unguarded' \in [Migrations -> BOOLEAN]
        /\ UNCHANGED <<source, objects, load, submitted, started, from>>
    BY <1>b, <1>d, <1>f DEF CheckStart
  <2>. QED
    BY <2>1
<1>18. CASE \E n \in Migrations : Attach(n)
  BY <1>a, <1>b, <1>c, <1>d, <1>e, <1>f, <1>g, <1>18 DEF Attach
<1>19. CASE \E n \in Migrations : StartFails(n)
  <2>. PICK n \in Migrations : StartFails(n)
    BY <1>19
  <2>1. /\ stack' \in [Migrations -> Stacks] /\ captured' \in [Migrations -> SUBSET Tables]
        /\ started' \in [Migrations -> BOOLEAN]
        /\ UNCHANGED <<source, objects, load, submitted, from, unguarded>>
    BY <1>b, <1>d, <1>f DEF StartFails
  <2>. QED
    BY <2>1
<1>20. CASE \E n \in Migrations : Stream(n)
  BY <1>a, <1>b, <1>c, <1>d, <1>e, <1>f, <1>g, <1>20 DEF Stream
<1>21. CASE \E n \in Migrations : Stop(n)
  BY <1>a, <1>b, <1>c, <1>d, <1>e, <1>f, <1>g, <1>21 DEF Stop
<1>22. CASE \E n \in Migrations : Delete(n)
  BY <1>a, <1>b, <1>c, <1>d, <1>e, <1>f, <1>g, <1>22 DEF Delete
<1>23. CASE \E n \in Migrations : Deprovision(n)
  <2>. PICK n \in Migrations : Deprovision(n)
    BY <1>23
  <2>1. unguarded' \in [Migrations -> BOOLEAN]
    BY <1>e DEF Deprovision, Unguards
  <2>2. pub' \in BOOLEAN /\ members' \in SUBSET Tables
    BY DEF Deprovision
  <2>3. slot' \in {"absent", "creating", "ready"} /\ slotAt' \in Nat
    BY DEF Deprovision
  <2>4. /\ stack' \in [Migrations -> Stacks]
        /\ UNCHANGED <<source, user, load, submitted, captured, started, from>>
    BY <1>b, <1>f DEF Deprovision
  <2>. QED
    BY <2>1, <2>2, <2>3, <2>4
<1>24. CASE \E n \in Migrations, tb \in Tables : CopyTable(n, tb)
  BY <1>a, <1>b, <1>c, <1>d, <1>e, <1>f, <1>g, <1>24 DEF CopyTable
<1>25. CASE \E n \in Migrations, tb \in Tables : JoinPublication(n, tb)
  BY <1>a, <1>b, <1>c, <1>d, <1>e, <1>f, <1>g, <1>25 DEF JoinPublication
<1>. QED
  BY <1>1, <1>2, <1>3, <1>4, <1>5, <1>6, <1>7, <1>8, <1>9, <1>10, <1>11, <1>12, <1>13, <1>14,
     <1>15, <1>16, <1>17, <1>18, <1>19, <1>20, <1>21, <1>22, <1>23, <1>24, <1>25 DEF Next,
     SourceNext, LoadNext, StreamNext

\* Every step leaves the slot to its one user.
LEMMA SlotUserStep ==
  ASSUME TypeOK, [Next]_vars
  PROVE  SlotHasOneUser'
<1>. USE DEF TypeOK, Types, SlotHasOneUser, Goes, Becomes, Finishes, Rests, SlotMovedBy,
    Unguards, Steps, Stacks, Provisioning, Additions
<1>1. CASE UNCHANGED vars
  BY <1>1 DEF vars
<1>2. CASE \E t \in Txns : Commit(t)
  BY <1>2 DEF Commit
<1>3. CASE \E t \in Txns : Abort(t)
  BY <1>3 DEF Abort
<1>4. CASE \E t \in Txns, tb \in Tables : Write(t, tb)
  BY <1>4 DEF Write
<1>5. CASE \E n \in Migrations : StartFullLoad(n)
  BY <1>5 DEF StartFullLoad
<1>6. CASE \E n \in Migrations : Publish(n)
  BY <1>6 DEF Publish
<1>7. CASE \E n \in Migrations : DropStale(n)
  BY <1>7 DEF DropStale
<1>8. CASE \E n \in Migrations : CreateSlot(n)
  BY <1>8 DEF CreateSlot
<1>9. CASE \E n \in Migrations : SlotReady(n)
  BY <1>9 DEF SlotReady
<1>10. CASE \E n \in Migrations : ProvisionFails(n)
  BY <1>10 DEF ProvisionFails
<1>11. CASE \E n \in Migrations : TakeXid(n)
  BY <1>11 DEF TakeXid
<1>12. CASE \E n \in Migrations : TransactionsEnded(n)
  BY <1>12 DEF TransactionsEnded
<1>13. CASE \E n \in Migrations : CopyAddition(n)
  BY <1>13 DEF CopyAddition
<1>14. CASE \E n \in Migrations : ExtendCoverage(n)
  BY <1>14 DEF ExtendCoverage
<1>15. CASE \E n \in Migrations : AdditionFails(n)
  BY <1>15 DEF AdditionFails
<1>16. CASE \E n \in Migrations : SubmitStart(n)
  BY <1>16 DEF SubmitStart
<1>17. CASE \E n \in Migrations : CheckStart(n)
  BY <1>17 DEF CheckStart
<1>18. CASE \E n \in Migrations : Attach(n)
  BY <1>18 DEF Attach
<1>19. CASE \E n \in Migrations : StartFails(n)
  BY <1>19 DEF StartFails
<1>20. CASE \E n \in Migrations : Stream(n)
  BY <1>20 DEF Stream
<1>21. CASE \E n \in Migrations : Stop(n)
  BY <1>21 DEF Stop
<1>22. CASE \E n \in Migrations : Delete(n)
  BY <1>22 DEF Delete
<1>23. CASE \E n \in Migrations : Deprovision(n)
  BY <1>23 DEF Deprovision
<1>24. CASE \E n \in Migrations, tb \in Tables : CopyTable(n, tb)
  BY <1>24 DEF CopyTable
<1>25. CASE \E n \in Migrations, tb \in Tables : JoinPublication(n, tb)
  BY <1>25 DEF JoinPublication
<1>. QED
  BY <1>1, <1>2, <1>3, <1>4, <1>5, <1>6, <1>7, <1>8, <1>9, <1>10, <1>11, <1>12, <1>13, <1>14,
     <1>15, <1>16, <1>17, <1>18, <1>19, <1>20, <1>21, <1>22, <1>23, <1>24, <1>25 DEF Next,
     SourceNext, LoadNext, StreamNext

-----------------------------------------------------------------------------
(* The strengthening.                                                      *)

\* Every step keeps the order of the WAL positions.
LEMMA TimesStep ==
  ASSUME IInv, [Next]_vars
  PROVE  Times'
<1>. USE DEF IInv, MigrationInv, Phase, Times, Position, Over, TypeOK, Types, SlotHasOneUser,
    Goes, Becomes, Finishes, Rests, SlotMovedBy, Unguards, PastChecks, Steps, Stacks,
    Provisioning, Additions
<1>1. CASE UNCHANGED vars
  BY <1>1 DEF vars
<1>2. CASE \E t \in Txns : Commit(t)
  BY <1>2 DEF Commit
<1>3. CASE \E t \in Txns : Abort(t)
  BY <1>3 DEF Abort
<1>4. CASE \E t \in Txns, tb \in Tables : Write(t, tb)
  BY <1>4 DEF Write
<1>5. CASE \E n \in Migrations : StartFullLoad(n)
  BY <1>5 DEF StartFullLoad
<1>6. CASE \E n \in Migrations : Publish(n)
  BY <1>6 DEF Publish
<1>7. CASE \E n \in Migrations : DropStale(n)
  BY <1>7 DEF DropStale
<1>8. CASE \E n \in Migrations : CreateSlot(n)
  BY <1>8 DEF CreateSlot
<1>9. CASE \E n \in Migrations : SlotReady(n)
  BY <1>9 DEF SlotReady
<1>10. CASE \E n \in Migrations : ProvisionFails(n)
  BY <1>10 DEF ProvisionFails
<1>11. CASE \E n \in Migrations : TakeXid(n)
  BY <1>11 DEF TakeXid
<1>12. CASE \E n \in Migrations : TransactionsEnded(n)
  BY <1>12 DEF TransactionsEnded
<1>13. CASE \E n \in Migrations : CopyAddition(n)
  BY <1>13 DEF CopyAddition
<1>14. CASE \E n \in Migrations : ExtendCoverage(n)
  BY <1>14 DEF ExtendCoverage
<1>15. CASE \E n \in Migrations : AdditionFails(n)
  BY <1>15 DEF AdditionFails
<1>16. CASE \E n \in Migrations : SubmitStart(n)
  BY <1>16 DEF SubmitStart
<1>17. CASE \E n \in Migrations : CheckStart(n)
  BY <1>17 DEF CheckStart
<1>18. CASE \E n \in Migrations : Attach(n)
  BY <1>18 DEF Attach
<1>19. CASE \E n \in Migrations : StartFails(n)
  BY <1>19 DEF StartFails
<1>20. CASE \E n \in Migrations : Stream(n)
  BY <1>20 DEF Stream
<1>21. CASE \E n \in Migrations : Stop(n)
  BY <1>21 DEF Stop
<1>22. CASE \E n \in Migrations : Delete(n)
  BY <1>22 DEF Delete
<1>23. CASE \E n \in Migrations : Deprovision(n)
  BY <1>23 DEF Deprovision
<1>24. CASE \E n \in Migrations, tb \in Tables : CopyTable(n, tb)
  BY <1>24 DEF CopyTable
<1>25. CASE \E n \in Migrations, tb \in Tables : JoinPublication(n, tb)
  BY <1>25 DEF JoinPublication
<1>. QED
  BY <1>1, <1>2, <1>3, <1>4, <1>5, <1>6, <1>7, <1>8, <1>9, <1>10, <1>11, <1>12, <1>13, <1>14,
     <1>15, <1>16, <1>17, <1>18, <1>19, <1>20, <1>21, <1>22, <1>23, <1>24, <1>25 DEF Next,
     SourceNext, LoadNext, StreamNext

\* Every step leaves a migration what it has at its point.
LEMMA PhaseStep ==
  ASSUME TypeOK, NEW m \in Migrations, Phase(m), [Next]_vars
  PROVE  Phase(m)'
<1>. USE DEF Phase, TypeOK, Types, SlotHasOneUser, Goes, Becomes, Finishes, Rests,
    SlotMovedBy, Unguards, PastChecks, Steps, Stacks, Provisioning, Additions
<1>1. CASE UNCHANGED vars
  BY <1>1 DEF vars
<1>2. CASE \E t \in Txns : Commit(t)
  BY <1>2 DEF Commit
<1>3. CASE \E t \in Txns : Abort(t)
  BY <1>3 DEF Abort
<1>4. CASE \E t \in Txns, tb \in Tables : Write(t, tb)
  BY <1>4 DEF Write
<1>5. CASE \E n \in Migrations : StartFullLoad(n)
  BY <1>5 DEF StartFullLoad
<1>6. CASE \E n \in Migrations : Publish(n)
  BY <1>6 DEF Publish
<1>7. CASE \E n \in Migrations : DropStale(n)
  BY <1>7 DEF DropStale
<1>8. CASE \E n \in Migrations : CreateSlot(n)
  BY <1>8 DEF CreateSlot
<1>9. CASE \E n \in Migrations : SlotReady(n)
  BY <1>9 DEF SlotReady
<1>10. CASE \E n \in Migrations : ProvisionFails(n)
  BY <1>10 DEF ProvisionFails
<1>11. CASE \E n \in Migrations : TakeXid(n)
  BY <1>11 DEF TakeXid
<1>12. CASE \E n \in Migrations : TransactionsEnded(n)
  BY <1>12 DEF TransactionsEnded
<1>13. CASE \E n \in Migrations : CopyAddition(n)
  BY <1>13 DEF CopyAddition
<1>14. CASE \E n \in Migrations : ExtendCoverage(n)
  BY <1>14 DEF ExtendCoverage
<1>15. CASE \E n \in Migrations : AdditionFails(n)
  BY <1>15 DEF AdditionFails
<1>16. CASE \E n \in Migrations : SubmitStart(n)
  BY <1>16 DEF SubmitStart
<1>17. CASE \E n \in Migrations : CheckStart(n)
  BY <1>17 DEF CheckStart
<1>18. CASE \E n \in Migrations : Attach(n)
  BY <1>18 DEF Attach
<1>19. CASE \E n \in Migrations : StartFails(n)
  BY <1>19 DEF StartFails
<1>20. CASE \E n \in Migrations : Stream(n)
  BY <1>20 DEF Stream
<1>21. CASE \E n \in Migrations : Stop(n)
  BY <1>21 DEF Stop
<1>22. CASE \E n \in Migrations : Delete(n)
  BY <1>22 DEF Delete
<1>23. CASE \E n \in Migrations : Deprovision(n)
  BY <1>23 DEF Deprovision
<1>24. CASE \E n \in Migrations, tb \in Tables : CopyTable(n, tb)
  BY <1>24 DEF CopyTable
<1>25. CASE \E n \in Migrations, tb \in Tables : JoinPublication(n, tb)
  BY <1>25 DEF JoinPublication
<1>. QED
  BY <1>1, <1>2, <1>3, <1>4, <1>5, <1>6, <1>7, <1>8, <1>9, <1>10, <1>11, <1>12, <1>13, <1>14,
     <1>15, <1>16, <1>17, <1>18, <1>19, <1>20, <1>21, <1>22, <1>23, <1>24, <1>25 DEF Next,
     SourceNext, LoadNext, StreamNext

\* Every step keeps the position the stream of an unwarned Start begins at.
LEMMA PositionStep ==
  ASSUME TypeOK, NEW m \in Migrations, Phase(m), PositionKept(m), [Next]_vars
  PROVE  PositionKept(m)'
<1>. USE DEF Phase, PositionKept, TypeOK, Types, SlotHasOneUser, Goes, Becomes, Finishes,
    Rests, SlotMovedBy, PastChecks, Steps, Stacks, Provisioning, Additions
<1>1. CASE UNCHANGED vars
  BY <1>1 DEF vars
<1>2. CASE \E t \in Txns : Commit(t)
  BY <1>2 DEF Commit
<1>3. CASE \E t \in Txns : Abort(t)
  BY <1>3 DEF Abort
<1>4. CASE \E t \in Txns, tb \in Tables : Write(t, tb)
  BY <1>4 DEF Write
<1>5. CASE \E n \in Migrations : StartFullLoad(n)
  BY <1>5 DEF StartFullLoad
<1>6. CASE \E n \in Migrations : Publish(n)
  BY <1>6 DEF Publish
<1>7. CASE \E n \in Migrations : DropStale(n)
  BY <1>7 DEF DropStale, Unguards
<1>8. CASE \E n \in Migrations : CreateSlot(n)
  BY <1>8 DEF CreateSlot
<1>9. CASE \E n \in Migrations : SlotReady(n)
  <2>. PICK n \in Migrations : SlotReady(n)
    BY <1>9
  <2>1. CASE n = m
    BY <2>1 DEF SlotReady, Unguards
  <2>2. CASE n # m /\ PastChecks(m)
    BY <2>2 DEF SlotReady, Unguards
  <2>3. CASE n # m /\ ~PastChecks(m)
    BY <2>3 DEF SlotReady, Unguards
  <2>. QED
    BY <2>1, <2>2, <2>3
<1>10. CASE \E n \in Migrations : ProvisionFails(n)
  <2>. PICK n \in Migrations : ProvisionFails(n)
    BY <1>10
  <2>1. CASE n = m
    BY <2>1 DEF ProvisionFails, Unguards
  <2>2. CASE n # m /\ PastChecks(m)
    <3>1. UNCHANGED <<mark, from, stack, started, slotAt>>
      BY DEF ProvisionFails
    <3>2. CASE step[n] = "creating"
      <4>1. PICK M \in SUBSET Migrations : m \in M /\ Unguards(M)
        BY <2>2, <3>2 DEF ProvisionFails
      <4>2. unguarded'[m]
        BY <4>1 DEF Unguards
      <4>. QED
        BY <4>2
    <3>3. CASE step[n] # "creating"
      <4>1. UNCHANGED slot /\ (unguarded[m] => unguarded'[m])
        BY <3>3 DEF ProvisionFails, Unguards
      <4>. QED
        BY <3>1, <4>1
    <3>. QED
      BY <3>2, <3>3
  <2>3. CASE n # m /\ ~PastChecks(m)
    BY <2>3 DEF ProvisionFails, Unguards
  <2>. QED
    BY <2>1, <2>2, <2>3
<1>11. CASE \E n \in Migrations : TakeXid(n)
  BY <1>11 DEF TakeXid
<1>12. CASE \E n \in Migrations : TransactionsEnded(n)
  BY <1>12 DEF TransactionsEnded
<1>13. CASE \E n \in Migrations : CopyAddition(n)
  BY <1>13 DEF CopyAddition
<1>14. CASE \E n \in Migrations : ExtendCoverage(n)
  BY <1>14 DEF ExtendCoverage
<1>15. CASE \E n \in Migrations : AdditionFails(n)
  BY <1>15 DEF AdditionFails
<1>16. CASE \E n \in Migrations : SubmitStart(n)
  BY <1>16 DEF SubmitStart
<1>17. CASE \E n \in Migrations : CheckStart(n)
  <2>. PICK n \in Migrations : CheckStart(n)
    BY <1>17
  <2>1. UNCHANGED <<slot, slotAt, mark, from, started>> /\ (unguarded[m] => unguarded'[m])
    BY DEF CheckStart
  <2>2. CASE n # m
    <3>1. stack'[m] = stack[m]
      BY <2>2 DEF CheckStart
    <3>. QED
      BY <2>1, <3>1
  <2>3. CASE n = m
    BY <2>1, <2>3 DEF CheckStart, MayStart
  <2>. QED
    BY <2>2, <2>3
<1>18. CASE \E n \in Migrations : Attach(n)
  BY <1>18 DEF Attach, Unguards
<1>19. CASE \E n \in Migrations : StartFails(n)
  BY <1>19 DEF StartFails
<1>20. CASE \E n \in Migrations : Stream(n)
  <2>. PICK n \in Migrations : Stream(n)
    BY <1>20
  <2>1. UNCHANGED <<slot, mark, from, stack, started>>
    BY DEF Stream
  <2>2. unguarded'[m] <=> (unguarded[m] \/ (n # m /\ PastChecks(m)))
    BY DEF Stream, Unguards
  <2>3. CASE n # m /\ PastChecks(m)
    BY <2>2, <2>3
  <2>4. CASE n # m /\ ~PastChecks(m)
    BY <2>1, <2>2, <2>4
  <2>5. CASE n = m
    BY <2>1, <2>2, <2>5 DEF Stream
  <2>. QED
    BY <2>3, <2>4, <2>5
<1>21. CASE \E n \in Migrations : Stop(n)
  BY <1>21 DEF Stop
<1>22. CASE \E n \in Migrations : Delete(n)
  BY <1>22 DEF Delete
<1>23. CASE \E n \in Migrations : Deprovision(n)
  <2>. PICK n \in Migrations : Deprovision(n)
    BY <1>23
  <2>1. CASE n = m
    BY <2>1 DEF Deprovision, Unguards
  <2>2. CASE n # m /\ PastChecks(m)
    <3>1. /\ UNCHANGED <<mark, from, started>> /\ stack'[m] = stack[m]
          /\ unguarded[m] => unguarded'[m]
      BY <2>2 DEF Deprovision, Unguards
    <3>2. CASE UNCHANGED <<slot, slotAt>>
      BY <3>1, <3>2
    <3>3. CASE ~UNCHANGED <<slot, slotAt>>
      <4>1. unguarded'[m] \/ slot = "absent"
        <5>1. slot = "absent" \/ (\E M \in SUBSET Migrations : m \in M /\ Unguards(M))
          BY <2>2, <3>3 DEF Deprovision
        <5>. QED
          BY <5>1 DEF Unguards
      <4>2. unguarded[m] \/ slot # "absent"
        BY <2>2
      <4>. QED
        BY <3>1, <4>1, <4>2
    <3>. QED
      BY <3>2, <3>3
  <2>3. CASE n # m /\ ~PastChecks(m)
    BY <2>3 DEF Deprovision, Unguards
  <2>. QED
    BY <2>1, <2>2, <2>3
<1>24. CASE \E n \in Migrations, tb \in Tables : CopyTable(n, tb)
  BY <1>24 DEF CopyTable
<1>25. CASE \E n \in Migrations, tb \in Tables : JoinPublication(n, tb)
  BY <1>25 DEF JoinPublication
<1>. QED
  BY <1>1, <1>2, <1>3, <1>4, <1>5, <1>6, <1>7, <1>8, <1>9, <1>10, <1>11, <1>12, <1>13, <1>14,
     <1>15, <1>16, <1>17, <1>18, <1>19, <1>20, <1>21, <1>22, <1>23, <1>24, <1>25 DEF Next,
     SourceNext, LoadNext, StreamNext

\* A check of a Start leaves the objects alone, and never takes an exemption back.
LEMMA ChecksOnlyExempt ==
  ASSUME Types, NEW m \in Migrations, NEW n \in Migrations, CheckStart(n)
  PROVE  /\ UNCHANGED <<source, objects, load, from>>
         /\ unguarded[m] => unguarded'[m]
<1>1. unguarded \in [Migrations -> BOOLEAN]
  BY DEF Types
<1>. QED
  BY <1>1 DEF CheckStart

\* Every step keeps what the copies of a migration hold.
LEMMA CaptureStep ==
  ASSUME IInv, NEW m \in Migrations, [Next]_vars
  PROVE  CapturePublished(m)'
<1>. USE DEF IInv, MigrationInv, PositionKept, CapturePublished, AdditionWaited,
    CreationWaits, Times, Phase, Held, Unpublished, Over, TypeOK, Types, SlotHasOneUser, Goes,
    Becomes, Finishes, Rests, SlotMovedBy, PastChecks, Steps, Stacks, Provisioning, Additions
<1>1. CASE UNCHANGED vars
  BY <1>1 DEF vars
<1>2. CASE \E t \in Txns : Commit(t)
  BY <1>2 DEF Commit
<1>3. CASE \E t \in Txns : Abort(t)
  BY <1>3 DEF Abort
<1>4. CASE \E t \in Txns, tb \in Tables : Write(t, tb)
  BY <1>4 DEF Write
<1>5. CASE \E n \in Migrations : StartFullLoad(n)
  BY <1>5 DEF StartFullLoad
<1>6. CASE \E n \in Migrations : Publish(n)
  BY <1>6 DEF Publish
<1>7. CASE \E n \in Migrations : DropStale(n)
  BY <1>7 DEF DropStale, Unguards
<1>8. CASE \E n \in Migrations : CreateSlot(n)
  BY <1>8 DEF CreateSlot
<1>9. CASE \E n \in Migrations : SlotReady(n)
  <2>. PICK n \in Migrations : SlotReady(n)
    BY <1>9
  <2>1. CASE n # m
    BY <2>1 DEF SlotReady, Unguards
  <2>2. CASE n = m /\ UNCHANGED <<mark, covered>>
    BY <2>2 DEF SlotReady, Unguards
  <2>3. CASE n = m /\ ~UNCHANGED <<mark, covered>>
    <3>1. /\ covered'[m] = Picked[m] /\ mark'[m] = now + 1 /\ Ended(awaited[m])
          /\ step[m] = "creating" /\ unguarded'[m] = unguarded[m]
          /\ UNCHANGED <<txn, at, writes, pub, members, copy>>
      BY <2>3 DEF SlotReady, Unguards
    <3>2. \A tb \in Tables : copy[m][tb] = None
      BY <3>1
    <3>3. \A t \in awaited[m] : txn[t] # "open"
      BY <3>1 DEF Ended, Open
    <3>4. \A t \in Txns : Unpublished(t, Picked[m]) # {} => Over(t) \/ unguarded[m]
      <4> SUFFICES ASSUME NEW t \in Txns, Unpublished(t, Picked[m]) # {}, ~unguarded[m]
                   PROVE  Over(t)
        OBVIOUS
      <4>1. t \in awaited[m] \/ Over(t)
        BY <3>1
      <4>2. txn[t] # "new"
        OBVIOUS
      <4>. QED
        BY <3>3, <4>1, <4>2
    <3>5. ~unguarded[m] => pub /\ Picked[m] \subseteq members
      BY <3>1
    <3>6. \A t \in Txns : /\ Over(t)' = Over(t)
                       /\ Unpublished(t, Picked[m])' = Unpublished(t, Picked[m])
      BY <3>1
    <3>. QED
      BY <3>1, <3>2, <3>4, <3>5, <3>6
  <2>. QED
    BY <2>1, <2>2, <2>3
<1>10. CASE \E n \in Migrations : ProvisionFails(n)
  BY <1>10 DEF ProvisionFails, Unguards
<1>11. CASE \E n \in Migrations : TakeXid(n)
  BY <1>11 DEF TakeXid
<1>12. CASE \E n \in Migrations : TransactionsEnded(n)
  BY <1>12 DEF TransactionsEnded
<1>13. CASE \E n \in Migrations : CopyAddition(n)
  BY <1>13 DEF CopyAddition
<1>14. CASE \E n \in Migrations : ExtendCoverage(n)
  BY <1>14 DEF ExtendCoverage
<1>15. CASE \E n \in Migrations : AdditionFails(n)
  BY <1>15 DEF AdditionFails
<1>16. CASE \E n \in Migrations : SubmitStart(n)
  BY <1>16 DEF SubmitStart
<1>17. CASE \E n \in Migrations : CheckStart(n)
  <2>. PICK n \in Migrations : CheckStart(n)
    BY <1>17
  <2>1. UNCHANGED <<source, objects, load, from>>
    BY ChecksOnlyExempt
  <2>2. unguarded[m] => unguarded'[m]
    BY ChecksOnlyExempt
  <2>3. Held(m)' => Held(m)
    BY <2>1, <2>2
  <2>4. \A t \in Txns : Over(t)' = Over(t) /\ writes'[t] = writes[t]
    BY <2>1
  <2>. QED
    BY <2>1, <2>3, <2>4, <2>2
<1>18. CASE \E n \in Migrations : Attach(n)
  BY <1>18 DEF Attach, Unguards
<1>19. CASE \E n \in Migrations : StartFails(n)
  BY <1>19 DEF StartFails
<1>20. CASE \E n \in Migrations : Stream(n)
  BY <1>20 DEF Stream, Unguards
<1>21. CASE \E n \in Migrations : Stop(n)
  BY <1>21 DEF Stop
<1>22. CASE \E n \in Migrations : Delete(n)
  BY <1>22 DEF Delete
<1>23. CASE \E n \in Migrations : Deprovision(n)
  <2>. PICK n \in Migrations : Deprovision(n)
    BY <1>23
  <2>1. /\ UNCHANGED <<source, load, from, started>>
        /\ unguarded[m] => unguarded'[m]
    BY DEF Deprovision, Unguards
  <2>2. CASE UNCHANGED <<pub, members>>
    <3>1. UNCHANGED <<slot, slotAt>> \/ slot' = "absent"
      BY DEF Deprovision
    <3>. QED
      BY <2>1, <2>2, <3>1
  <2>3. CASE ~UNCHANGED <<pub, members>>
    <3> DEFINE M == {k \in Migrations : step[k] \in Provisioning \/ (n # k /\ PastChecks(k))}
    <3>1. Unguards(M) /\ slot' = "absent"
      BY <2>3 DEF Deprovision
    <3>2. /\ step[m] \in Provisioning => m \in M
          /\ n # m /\ PastChecks(m) => m \in M
      OBVIOUS
    <3> HIDE DEF M
    <3>3. m \in M => unguarded'[m]
      BY <3>1 DEF Unguards
    <3>4. stack[n] = "deleting"
      BY DEF Deprovision
    <3>. QED
      BY <2>1, <3>1, <3>4, <3>2, <3>3
  <2>. QED
    BY <2>2, <2>3
<1>24. CASE \E n \in Migrations, tb \in Tables : CopyTable(n, tb)
  BY <1>24 DEF CopyTable
<1>25. CASE \E n \in Migrations, tb \in Tables : JoinPublication(n, tb)
  BY <1>25 DEF JoinPublication
<1>. QED
  BY <1>1, <1>2, <1>3, <1>4, <1>5, <1>6, <1>7, <1>8, <1>9, <1>10, <1>11, <1>12, <1>13, <1>14,
     <1>15, <1>16, <1>17, <1>18, <1>19, <1>20, <1>21, <1>22, <1>23, <1>24, <1>25 DEF Next,
     SourceNext, LoadNext, StreamNext

\* Every step keeps what an addition waits for.
LEMMA AdditionStep ==
  ASSUME IInv, NEW m \in Migrations, [Next]_vars
  PROVE  AdditionWaited(m)'
<1>. USE DEF IInv, MigrationInv, PositionKept, CapturePublished, AdditionWaited, Times, Open,
    Ended, Phase, Held, Unpublished, Over, TypeOK, Types, SlotHasOneUser, Goes, Becomes,
    Finishes, Rests, SlotMovedBy, PastChecks, Steps, Stacks, Provisioning, Additions
<1>1. CASE UNCHANGED vars
  BY <1>1 DEF vars
<1>2. CASE \E t \in Txns : Commit(t)
  BY <1>2 DEF Commit
<1>3. CASE \E t \in Txns : Abort(t)
  BY <1>3 DEF Abort
<1>4. CASE \E t \in Txns, tb \in Tables : Write(t, tb)
  BY <1>4 DEF Write
<1>5. CASE \E n \in Migrations : StartFullLoad(n)
  BY <1>5 DEF StartFullLoad
<1>6. CASE \E n \in Migrations : Publish(n)
  BY <1>6 DEF Publish
<1>7. CASE \E n \in Migrations : DropStale(n)
  BY <1>7 DEF DropStale, Unguards
<1>8. CASE \E n \in Migrations : CreateSlot(n)
  BY <1>8 DEF CreateSlot
<1>9. CASE \E n \in Migrations : SlotReady(n)
  BY <1>9 DEF SlotReady, Unguards
<1>10. CASE \E n \in Migrations : ProvisionFails(n)
  BY <1>10 DEF ProvisionFails, Unguards
<1>11. CASE \E n \in Migrations : TakeXid(n)
  BY <1>11 DEF TakeXid
<1>12. CASE \E n \in Migrations : TransactionsEnded(n)
  BY <1>12 DEF TransactionsEnded
<1>13. CASE \E n \in Migrations : CopyAddition(n)
  BY <1>13 DEF CopyAddition
<1>14. CASE \E n \in Migrations : ExtendCoverage(n)
  BY <1>14 DEF ExtendCoverage
<1>15. CASE \E n \in Migrations : AdditionFails(n)
  BY <1>15 DEF AdditionFails
<1>16. CASE \E n \in Migrations : SubmitStart(n)
  BY <1>16 DEF SubmitStart
<1>17. CASE \E n \in Migrations : CheckStart(n)
  <2>. PICK n \in Migrations : CheckStart(n)
    BY <1>17
  <2>1. UNCHANGED <<source, objects, load, from>>
    BY ChecksOnlyExempt
  <2>2. unguarded[m] => unguarded'[m]
    BY ChecksOnlyExempt
  <2>3. Held(m)' => Held(m)
    BY <2>1, <2>2
  <2>4. \A t \in Txns : Over(t)' = Over(t) /\ writes'[t] = writes[t]
    BY <2>1
  <2>. QED
    BY <2>1, <2>3, <2>4, <2>2
<1>18. CASE \E n \in Migrations : Attach(n)
  BY <1>18 DEF Attach, Unguards
<1>19. CASE \E n \in Migrations : StartFails(n)
  BY <1>19 DEF StartFails
<1>20. CASE \E n \in Migrations : Stream(n)
  BY <1>20 DEF Stream, Unguards
<1>21. CASE \E n \in Migrations : Stop(n)
  BY <1>21 DEF Stop
<1>22. CASE \E n \in Migrations : Delete(n)
  BY <1>22 DEF Delete
<1>23. CASE \E n \in Migrations : Deprovision(n)
  <2>. PICK n \in Migrations : Deprovision(n)
    BY <1>23
  <2>1. /\ UNCHANGED <<source, load, from, started>>
        /\ unguarded[m] => unguarded'[m]
    BY DEF Deprovision, Unguards
  <2>2. CASE UNCHANGED <<pub, members>>
    <3>1. UNCHANGED <<slot, slotAt>> \/ slot' = "absent"
      BY DEF Deprovision
    <3>. QED
      BY <2>1, <2>2, <3>1
  <2>3. CASE ~UNCHANGED <<pub, members>>
    <3> DEFINE M == {k \in Migrations : step[k] \in Provisioning \/ (n # k /\ PastChecks(k))}
    <3>1. Unguards(M) /\ slot' = "absent"
      BY <2>3 DEF Deprovision
    <3>2. /\ step[m] \in Provisioning => m \in M
          /\ n # m /\ PastChecks(m) => m \in M
      OBVIOUS
    <3> HIDE DEF M
    <3>3. m \in M => unguarded'[m]
      BY <3>1 DEF Unguards
    <3>4. stack[n] = "deleting"
      BY DEF Deprovision
    <3>. QED
      BY <2>1, <3>1, <3>4, <3>2, <3>3
  <2>. QED
    BY <2>2, <2>3
<1>24. CASE \E n \in Migrations, tb \in Tables : CopyTable(n, tb)
  BY <1>24 DEF CopyTable
<1>25. CASE \E n \in Migrations, tb \in Tables : JoinPublication(n, tb)
  BY <1>25 DEF JoinPublication
<1>. QED
  BY <1>1, <1>2, <1>3, <1>4, <1>5, <1>6, <1>7, <1>8, <1>9, <1>10, <1>11, <1>12, <1>13, <1>14,
     <1>15, <1>16, <1>17, <1>18, <1>19, <1>20, <1>21, <1>22, <1>23, <1>24, <1>25 DEF Next,
     SourceNext, LoadNext, StreamNext

\* Every step keeps what the creation of the slot waits for.
LEMMA CreationStep ==
  ASSUME IInv, NEW m \in Migrations, [Next]_vars
  PROVE  CreationWaits(m)'
<1>. USE DEF IInv, MigrationInv, CreationWaits, Times, Open, Phase, Held, Unpublished, Over,
    TypeOK, Types, SlotHasOneUser, Goes, Becomes, Finishes, Rests, SlotMovedBy, PastChecks,
    Steps, Stacks, Provisioning, Additions
<1>1. CASE UNCHANGED vars
  BY <1>1 DEF vars
<1>2. CASE \E t \in Txns : Commit(t)
  BY <1>2 DEF Commit
<1>3. CASE \E t \in Txns : Abort(t)
  BY <1>3 DEF Abort
<1>4. CASE \E t \in Txns, tb \in Tables : Write(t, tb)
  BY <1>4 DEF Write
<1>5. CASE \E n \in Migrations : StartFullLoad(n)
  BY <1>5 DEF StartFullLoad
<1>6. CASE \E n \in Migrations : Publish(n)
  BY <1>6 DEF Publish
<1>7. CASE \E n \in Migrations : DropStale(n)
  BY <1>7 DEF DropStale, Unguards
<1>8. CASE \E n \in Migrations : CreateSlot(n)
  BY <1>8 DEF CreateSlot
<1>9. CASE \E n \in Migrations : SlotReady(n)
  BY <1>9 DEF SlotReady, Unguards
<1>10. CASE \E n \in Migrations : ProvisionFails(n)
  BY <1>10 DEF ProvisionFails, Unguards
<1>11. CASE \E n \in Migrations : TakeXid(n)
  BY <1>11 DEF TakeXid
<1>12. CASE \E n \in Migrations : TransactionsEnded(n)
  BY <1>12 DEF TransactionsEnded
<1>13. CASE \E n \in Migrations : CopyAddition(n)
  BY <1>13 DEF CopyAddition
<1>14. CASE \E n \in Migrations : ExtendCoverage(n)
  BY <1>14 DEF ExtendCoverage
<1>15. CASE \E n \in Migrations : AdditionFails(n)
  BY <1>15 DEF AdditionFails
<1>16. CASE \E n \in Migrations : SubmitStart(n)
  BY <1>16 DEF SubmitStart
<1>17. CASE \E n \in Migrations : CheckStart(n)
  <2>. PICK n \in Migrations : CheckStart(n)
    BY <1>17
  <2>1. UNCHANGED <<source, objects, load, from>>
    BY ChecksOnlyExempt
  <2>2. unguarded[m] => unguarded'[m]
    BY ChecksOnlyExempt
  <2>3. Held(m)' => Held(m)
    BY <2>1, <2>2
  <2>4. \A t \in Txns : Over(t)' = Over(t) /\ writes'[t] = writes[t]
    BY <2>1
  <2>. QED
    BY <2>1, <2>3, <2>4, <2>2
<1>18. CASE \E n \in Migrations : Attach(n)
  BY <1>18 DEF Attach, Unguards
<1>19. CASE \E n \in Migrations : StartFails(n)
  BY <1>19 DEF StartFails
<1>20. CASE \E n \in Migrations : Stream(n)
  BY <1>20 DEF Stream, Unguards
<1>21. CASE \E n \in Migrations : Stop(n)
  BY <1>21 DEF Stop
<1>22. CASE \E n \in Migrations : Delete(n)
  BY <1>22 DEF Delete
<1>23. CASE \E n \in Migrations : Deprovision(n)
  <2>. PICK n \in Migrations : Deprovision(n)
    BY <1>23
  <2>1. /\ UNCHANGED <<source, load, from, started>>
        /\ unguarded[m] => unguarded'[m]
    BY DEF Deprovision, Unguards
  <2>2. CASE UNCHANGED <<pub, members>>
    <3>1. UNCHANGED <<slot, slotAt>> \/ slot' = "absent"
      BY DEF Deprovision
    <3>. QED
      BY <2>1, <2>2, <3>1
  <2>3. CASE ~UNCHANGED <<pub, members>>
    <3> DEFINE M == {k \in Migrations : step[k] \in Provisioning \/ (n # k /\ PastChecks(k))}
    <3>1. Unguards(M) /\ slot' = "absent"
      BY <2>3 DEF Deprovision
    <3>2. /\ step[m] \in Provisioning => m \in M
          /\ n # m /\ PastChecks(m) => m \in M
      OBVIOUS
    <3> HIDE DEF M
    <3>3. m \in M => unguarded'[m]
      BY <3>1 DEF Unguards
    <3>4. stack[n] = "deleting"
      BY DEF Deprovision
    <3>5. step[m] \in Provisioning => unguarded'[m]
      BY <3>2, <3>3
    <3>6. UNCHANGED step
      BY <2>1
    <3>. QED
      BY <3>5, <3>6
  <2>. QED
    BY <2>2, <2>3
<1>24. CASE \E n \in Migrations, tb \in Tables : CopyTable(n, tb)
  BY <1>24 DEF CopyTable
<1>25. CASE \E n \in Migrations, tb \in Tables : JoinPublication(n, tb)
  BY <1>25 DEF JoinPublication
<1>. QED
  BY <1>1, <1>2, <1>3, <1>4, <1>5, <1>6, <1>7, <1>8, <1>9, <1>10, <1>11, <1>12, <1>13, <1>14,
     <1>15, <1>16, <1>17, <1>18, <1>19, <1>20, <1>21, <1>22, <1>23, <1>24, <1>25 DEF Next,
     SourceNext, LoadNext, StreamNext

-----------------------------------------------------------------------------
(* The theorems.                                                           *)

LEMMA InvInit == Init => IInv
<1> SUFFICES ASSUME Init PROVE IInv
  OBVIOUS
<1>1. TypeOK
  BY DEF Init, TypeOK, Types, SlotHasOneUser, Position, Steps, Stacks
<1>2. Times
  BY DEF Init, Times
<1>3. ASSUME NEW m \in Migrations
      PROVE  MigrationInv(m)
  BY DEF Init, MigrationInv, Phase, PositionKept, PastChecks, CapturePublished, Held,
         AdditionWaited, CreationWaits, Provisioning, Additions
<1>. QED
  BY <1>1, <1>2, <1>3 DEF IInv

LEMMA InvStep == IInv /\ [Next]_vars => IInv'
<1> SUFFICES ASSUME IInv, [Next]_vars PROVE IInv'
  OBVIOUS
<1>1. TypeOK'
  BY TypesStep, SlotUserStep DEF IInv, TypeOK
<1>2. Times'
  BY TimesStep
<1>3. ASSUME NEW m \in Migrations
      PROVE  MigrationInv(m)'
  <2>1. Phase(m)' /\ PositionKept(m)'
    BY PhaseStep, PositionStep DEF IInv, MigrationInv
  <2>. QED
    BY <2>1, CaptureStep, AdditionStep, CreationStep DEF MigrationInv
<1>. QED
  BY <1>1, <1>2, <1>3 DEF IInv

\* What is captured is covered; a change of it that is not published is in its copy, and so is
\* one at or before the watermark, where the stream begins.
LEMMA InvNoGap == IInv => NoGap
<1> SUFFICES ASSUME IInv, NEW m \in Migrations, from[m] # None, ~unguarded[m],
                    NEW t \in Txns, txn[t] = "committed",
                    NEW w \in writes[t], w.table \in captured[m], copy[m][w.table] # None
             PROVE  at[t] <= copy[m][w.table] \/ (w.published /\ at[t] > from[m])
  BY DEF NoGap
<1>1. /\ TypeOK /\ Times /\ Phase(m) /\ PositionKept(m) /\ CapturePublished(m)
      /\ w.table \in Tables /\ w.published \in BOOLEAN
  BY DEF IInv, MigrationInv, TypeOK, Types, Change
<1>2. mark[m] # None /\ from[m] = mark[m] /\ w.table \in covered[m]
  BY <1>1 DEF Phase, PositionKept, TypeOK, Types
<1>3. /\ at[t] \in Nat /\ mark[m] \in Nat /\ copy[m][w.table] \in Nat
      /\ mark[m] <= copy[m][w.table]
  BY <1>1, <1>2 DEF TypeOK, Types, Position, Times
<1>4. CASE ~w.published
  BY <1>1, <1>2, <1>4 DEF CapturePublished, Held, Unpublished
<1>5. CASE w.published /\ at[t] <= mark[m]
  BY <1>3, <1>5
<1>6. CASE w.published /\ at[t] > mark[m]
  BY <1>2, <1>6
<1>. QED
  BY <1>1, <1>3, <1>4, <1>5, <1>6

LEMMA Invariant == Spec => []IInv
  BY InvInit, InvStep, PTL DEF Spec

\* The state keeps its shape, and a slot is in use by the run that creates it or by the one
\* connector that streams from it.
THEOREM TypeCorrect == Spec => []TypeOK
  BY Invariant, PTL DEF IInv

\* A Start that passed its checks begins at its Full Load's watermark, where the slot still
\* is, unless another run of the stack name moved it after the checks.
THEOREM StartsAtWatermark == Spec => []\A m \in Migrations : PositionKept(m)
<1>1. IInv => \A m \in Migrations : PositionKept(m)
  BY DEF IInv, MigrationInv
<1>. QED
  BY <1>1, Invariant, PTL

\* No change of a captured table falls between its copy and the stream, for any number of
\* migrations, tables and transactions, any WAL and any order of their steps.
THEOREM NothingFallsBetween == Spec => []NoGap
  BY Invariant, InvNoGap, PTL
=============================================================================
