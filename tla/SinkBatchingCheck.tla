-------------------------- MODULE SinkBatchingCheck --------------------------
(***************************************************************************)
(* The batching algorithms of SinkBatching over every small chunk: a chunk *)
(* grows by one change at a time, over every target table, and each state  *)
(* compares the batched transaction with the same changes applied one by   *)
(* one in arrival order.                                                   *)
(***************************************************************************)
EXTENDS SinkBatching

CONSTANTS
  Offered,       \* the changes a chunk is made of
  StartTables,   \* the target tables it is applied to
  MaxChunk,      \* the longest chunk tried
  MaxWeight,     \* the row limits of Partition tried: 1..MaxWeight
  MaxBytes       \* the byte limits tried: 1..MaxBytes

VARIABLES table, chunk, sizes   \* sizes: the estimated bytes of each change

vars == <<table, chunk, sizes>>

Init == table \in StartTables /\ chunk = <<>> /\ sizes = <<>>

Receive ==
  /\ Len(chunk) < MaxChunk
  /\ \E c \in Offered : chunk' = Append(chunk, c)
  /\ \E n \in 1..2 : sizes' = Append(sizes, n)
  /\ UNCHANGED table

Next == Receive
Spec == Init /\ [][Next]_vars

Batched == ExecChunk(table, chunk)
OneByOne ==
  LET after[i \in 0..Len(chunk)] ==
        IF i = 0 THEN table
        ELSE CHOOSE t \in {IF s = Rejected THEN Rejected ELSE ExecOne(s, chunk[i])
                             : s \in {after[i - 1]}} : TRUE
  IN after[Len(chunk)]

\* Batching never changes the outcome of a chunk that applies both ways: grouping same-SQL
\* runs, collapsing a key to its last image and running the deletes of moves first
\* (applyChunkBatched) leave the rows the changes leave one by one.
BatchingKeepsOutcome ==
  Batched # Rejected /\ OneByOne # Rejected => Batched = OneByOne

\* A batched statement never carries the same primary key twice (the rewritten multi-row
\* upsert would be refused: "cannot affect row a second time").
NoKeyTwiceInARun == NoKeyTwice(DedupedRuns(WithMoveDeletes(chunk)))

\* Batches.partition loses, repeats and reorders nothing, whatever the limits; no chunk of two
\* items or more passes either transaction limit, and none could have taken the item the next
\* one starts with: splitting costs no transaction more than the limits demand.
PartitionIsRight ==
  \A size \in 1..MaxWeight, maxBytes \in 1..MaxBytes :
    LET items == [i \in DOMAIN chunk |-> i]
        weights == [i \in DOMAIN chunk |-> Weight(chunk[i])]
        parts == Partition(items, size, maxBytes, sizes, weights)
        total(part, f) == MapThenSumSet(LAMBDA n : f[part[n]], DOMAIN part)
        fits(part) == total(part, weights) <= size /\ total(part, sizes) <= maxBytes
    IN /\ FlattenSeq(parts) = items
       /\ \A n \in DOMAIN parts : parts[n] # <<>> /\ (Len(parts[n]) > 1 => fits(parts[n]))
       /\ \A n \in 1..(Len(parts) - 1) : ~fits(Append(parts[n], Head(parts[n + 1])))
=============================================================================
