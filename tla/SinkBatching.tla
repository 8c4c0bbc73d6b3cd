---------------------------- MODULE SinkBatching ----------------------------
(***************************************************************************)
(* How the Aurora DSQL sink turns a list of change events into the         *)
(* transactions it sends (connectors/dsql-sink, DsqlSinkTask and Batches): *)
(* the split of a put into chunks, the reordering of the deletes of moves, *)
(* the runs of statements that render the same SQL and their collapse to   *)
(* one image per primary key, and what Aurora DSQL does with one statement *)
(* against a table with a primary key and one secondary unique index.      *)
(***************************************************************************)
EXTENDS Naturals, Sequences, SequencesExt

CONSTANTS
  Keys,          \* primary keys of the target rows
  SourceKeyed,   \* those of the re-keyed table (its records are keyed on the source key)
  SourceKeyOf,   \* the source key of a target key; itself for a key that is not re-keyed
  UVals,         \* values of the column under the unique index
  DVals,         \* values of the other column
  Null, NoRow,   \* an SQL NULL, and the absence of a row
  Rejected       \* the result of a statement Aurora DSQL rejects for good

ASSUME SourceKeyedAssumption == SourceKeyed \subseteq Keys
ASSUME SourceKeyOfAssumption == DOMAIN SourceKeyOf = Keys
ASSUME RejectedAssumption == Rejected # NoRow

Columns == {"u", "d"}
Rows == [u: UVals \cup {Null}, d: DVals \cup {Null}]
Tables == [Keys -> Rows \cup {NoRow}]

(***************************************************************************)
(* A change event.  A "move" deletes row old and upserts row key (an       *)
(* UPDATE of the leading key column of a re-keyed table).  A "poison"      *)
(* record does not parse; an "unfit" one parses and is refused before any  *)
(* write (too large, or its column would change it); a "reject" is one     *)
(* Aurora DSQL refuses whatever the state of the table.  blind: an UPDATE  *)
(* of a re-keyed table whose old composite key is unknown.                 *)
(***************************************************************************)
Ops == {"upsert", "delete", "move", "poison", "unfit", "reject"}
Changes == [op: Ops, key: Keys, old: Keys, cols: SUBSET Columns,
            u: UVals \cup {Null}, d: DVals \cup {Null}, blind: BOOLEAN]

IsDelete(c) == c.op = "delete"
IsMove(c) == c.op = "move"
HasSourceKey(c) == c.key \in SourceKeyed
Weight(c) == IF IsMove(c) THEN 2 ELSE 1
TableOf(k) == k \in SourceKeyed

\* The statement text of an event: one per table, kind and column set.
RenderSql(c) == IF IsDelete(c) THEN <<TableOf(c.key), {}>> ELSE <<TableOf(c.key), c.cols>>

-----------------------------------------------------------------------------
(* Sequences.  (Recursive functions, which proofs can unfold.) *)

\* The items of s that lie in S, in their order.
Kept(s, S) ==
  LET kept[i \in 0..Len(s)] ==
        IF i = 0 THEN <<>>
        ELSE IF s[i] \in S THEN Append(kept[i - 1], s[i]) ELSE kept[i - 1]
  IN kept[Len(s)]

\* The groups of consecutive items: item i begins one if Begins(f, i) says so of the group that
\* began with item f.
SplitAt(items, Begins(_, _)) ==
  LET firsts[i \in 0..Len(items)] ==
        IF i = 0 THEN <<>>
        ELSE IF i = 1 \/ Begins(Last(firsts[i - 1]), i) THEN Append(firsts[i - 1], i)
        ELSE firsts[i - 1]
      first == firsts[Len(items)]
      end(n) == IF n = Len(first) THEN Len(items) ELSE first[n + 1] - 1
  IN [n \in DOMAIN first |-> SubSeq(items, first[n], end(n))]

-----------------------------------------------------------------------------
(* Batches.partition: greedy chunks bounded by weight and by bytes. *)

\* Mutants of Partition: it ignores the bytes, and it closes a chunk one row early.
PartitionByRows(items, size, maxBytes, sizes, weights) ==
  LET weight(i, j) == MapThenSumSet(LAMBDA n : weights[n], i..j)
      full(f, i) == weight(f, i) > size
  IN SplitAt(items, full)
PartitionEarly(items, size, maxBytes, sizes, weights) ==
  LET weight(i, j) == MapThenSumSet(LAMBDA n : weights[n], i..j)
      bytes(i, j) == MapThenSumSet(LAMBDA n : sizes[n], i..j)
      full(f, i) == bytes(f, i) > maxBytes \/ weight(f, i) >= size
  IN SplitAt(items, full)

Partition(items, size, maxBytes, sizes, weights) ==
  LET weight(i, j) == MapThenSumSet(LAMBDA n : weights[n], i..j)
      bytes(i, j) == MapThenSumSet(LAMBDA n : sizes[n], i..j)
      full(f, i) == bytes(f, i) > maxBytes \/ weight(f, i) > size \/ weight(f, i - 1) >= size
  IN SplitAt(items, full)

-----------------------------------------------------------------------------
(* withMoveDeletes / moveGroupEnd: a group of consecutive moves of         *)
(* different rows runs all its deletes, then all its upserts.              *)

MoveDelete(c) == [c EXCEPT !.op = "delete", !.key = c.old]

DifferentRows(c, e) ==
  /\ IsMove(c) /\ IsMove(e) /\ TableOf(c.key) = TableOf(e.key)
  /\ SourceKeyOf[c.key] # SourceKeyOf[e.key]

WithMoveDeletes(chunk) ==
  LET begins(f, i) == \E j \in f..(i - 1) : ~DifferentRows(chunk[j], chunk[i])
      deletes(group) == IF IsMove(Head(group)) THEN [i \in DOMAIN group |-> MoveDelete(group[i])]
                        ELSE <<>>
      groups == SplitAt(chunk, begins)
  IN FlattenSeq([n \in DOMAIN groups |-> deletes(groups[n]) \o groups[n]])

-----------------------------------------------------------------------------
(* runEnd / dedupeRunByPk: a maximal run of statements of the same SQL     *)
(* keeps one entry per primary key, the LAST image at the FIRST position.  *)

\* Mutants of DedupedRuns: it keeps the first image, and it collapses nothing.
DedupedToFirst(statements) ==
  LET seen(i) == \E j \in 1..(i - 1) :
        \A m \in j..i : /\ RenderSql(statements[m]) = RenderSql(statements[i])
                        /\ statements[j].key = statements[i].key
      kept == SetToSortSeq({i \in DOMAIN statements : ~seen(i)}, <)
  IN [n \in DOMAIN kept |-> statements[kept[n]]]
NotDeduped(statements) == statements

DedupedRuns(statements) ==
  LET between(i, j) == (i..j) \cup (j..i)
      sameRun(i, j) == \A m \in between(i, j) : RenderSql(statements[m]) = RenderSql(statements[i])
      repeats(i) == {j \in DOMAIN statements :
                       statements[j].key = statements[i].key /\ sameRun(i, j)}
      firsts == {i \in DOMAIN statements : i = Min(repeats(i))}
      kept == Kept([i \in DOMAIN statements |-> i], firsts)
  IN [n \in DOMAIN kept |-> statements[Max(repeats(kept[n]))]]

\* No two statements with a primary key in common stand in one run of the same SQL.
NoKeyTwice(statements) ==
  \A i, j \in DOMAIN statements :
    (i < j /\ \A m \in i..j : RenderSql(statements[m]) = RenderSql(statements[i]))
      => statements[i].key # statements[j].key

-----------------------------------------------------------------------------
(* Aurora DSQL: one statement against the target. *)

Blank == [u |-> Null, d |-> Null]

Written(row, c) ==
  LET old == IF row = NoRow THEN Blank ELSE row
  IN [old EXCEPT !.u = IF "u" \in c.cols THEN c.u ELSE @,
                 !.d = IF "d" \in c.cols THEN c.d ELSE @]

\* A unique index is checked at once; a NULL conflicts with nothing.
UniqueConflict(table, c) ==
  LET row == Written(table[c.key], c)
  IN /\ row.u # Null
     /\ \E k \in Keys \ {c.key} : /\ TableOf(k) = TableOf(c.key)
                                  /\ table[k] # NoRow
                                  /\ table[k].u = row.u

\* The state after one statement, whatever the unique index says.
Put(table, c) ==
  [table EXCEPT ![c.key] = IF IsDelete(c) THEN NoRow ELSE Written(@, c)]

ExecStatement(table, c) ==
  IF table = Rejected THEN Rejected
  ELSE IF c.op = "reject" \/ (~IsDelete(c) /\ UniqueConflict(table, c)) THEN Rejected
  ELSE Put(table, c)

\* One transaction of these statements: its final table, or Rejected (rolled back).
\* (Binding each intermediate table by a quantifier makes TLC evaluate it once.)
ExecAll(table, statements) ==
  LET after[i \in 0..Len(statements)] ==
        IF i = 0 THEN table
        ELSE CHOOSE t \in {ExecStatement(s, statements[i]) : s \in {after[i - 1]}} : TRUE
  IN after[Len(statements)]

\* applyChunkBatched: the batched transaction of a chunk.
ExecChunk(table, chunk) == ExecAll(table, DedupedRuns(WithMoveDeletes(chunk)))

\* executeOne: one event in a transaction of its own (a move's delete first).
ExecOne(table, c) == ExecAll(table, IF IsMove(c) THEN <<MoveDelete(c), c>> ELSE <<c>>)
=============================================================================
