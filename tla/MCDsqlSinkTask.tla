--------------------------- MODULE MCDsqlSinkTask ---------------------------
(* Source histories and small constants for DsqlSinkTask. *)
EXTENDS DsqlSinkTask

CONSTANTS k1, k2, k3, ra, rb, rc, a, b, c, p1, p2

MCKeys == {k1, k2, k3, ra, rb, rc}
MCSourceKeyed == {ra, rb, rc}
\* ra and rb are two composite keys of one source row.
MCSourceKeyOf == [k \in MCKeys |-> IF k = rb THEN ra ELSE k]

Blanked(k) == [op |-> "upsert", key |-> k, old |-> k, cols |-> Columns,
               u |-> Null, d |-> Null, blind |-> FALSE]
Up(k, u, d) == [Blanked(k) EXCEPT !.u = u, !.d = d]
Part(k, u) == [Blanked(k) EXCEPT !.cols = {"u"}, !.u = u]
Del(k) == [Blanked(k) EXCEPT !.op = "delete"]
Move(old, k, u, d) == [Up(k, u, d) EXCEPT !.op = "move", !.old = old]
Bad(k, op) == [Blanked(k) EXCEPT !.op = op]

Row(u, d) == [u |-> u, d |-> d]
Empty == [k \in MCKeys |-> NoRow]
History(base, log1, log2) ==
  [base |-> base, log |-> (p1 :> log1 @@ p2 :> log2), dlq |-> TRUE]

\* UPDATE of a primary key: the old row's delete and the new row's insert take the two
\* partitions, and other rows follow on both.
KeyChange == History([Empty EXCEPT ![k1] = Row(a, 1)],
                     <<Up(k1, a, 2), Del(k1)>>,
                     <<Up(k2, a, 3), Up(k3, b, 1)>>)
\* The key changes and changes back: the value's owner is freed by the held row itself.
KeyReversal == History([Empty EXCEPT ![k1] = Row(a, 1)],
                       <<Del(k1), Up(k1, a, 3)>>,
                       <<Up(k2, a, 2), Del(k2)>>)
\* A unique value passed from row to row, with poison and a partial image in the tail.
ValueHandover == History([Empty EXCEPT ![k1] = Row(a, 1), ![k2] = Row(b, 1)],
                         <<Up(k1, c, 2)>>,
                         <<Up(k2, a, 2), Bad(k3, "poison"), Part(k2, b), Up(k3, a, 3)>>)
\* A move on the re-keyed table waits for a value freed on the other partition.
ReKeyed == History([Empty EXCEPT ![ra] = Row(a, 1), ![rc] = Row(b, 1)],
                   <<Move(ra, rb, b, 2), Bad(rb, "reject")>>,
                   <<Up(rc, c, 2), Up(k1, b, 1)>>)
\* The change that would free the value is refused, so the hold runs out of its budget.
Unfreed == History([Empty EXCEPT ![k1] = Row(a, 1)],
                   <<Bad(k1, "unfit")>>,
                   <<Up(k2, a, 2), Up(k3, b, 1)>>)

\* Two of them are also replicated by a task without a dead-letter queue.
MCHistories == {KeyChange, KeyReversal, ValueHandover, ReKeyed, Unfreed}
               \cup {[h EXCEPT !.dlq = FALSE] : h \in {ValueHandover, ReKeyed}}

\* Every source history of n changes over k1 (on p1), k2 and k3 (on p2) from base: each
\* change is legal on the source, whose unique index holds at every moment.
SourceSteps(h) ==
  LET n == h.n + 1
      home(k) == IF k = k1 THEN p1 ELSE p2
      events == {Up(k, u, n) : k \in {k1, k2, k3}, u \in {a, b}}
                \cup {Part(k, u) : k \in {k \in {k2} : h.now[k] # NoRow}, u \in {b}}
                \cup {Del(k) : k \in {k \in {k1, k2, k3} : h.now[k] # NoRow}}
  IN {[n |-> n, now |-> ExecOne(h.now, e), base |-> h.base,
       log |-> [h.log EXCEPT ![home(e.key)] = Append(@, e)]] :
        e \in {x \in events : ExecOne(h.now, x) # Rejected /\ ExecOne(h.now, x) # h.now}}

ShortHistories ==
  LET base == [Empty EXCEPT ![k1] = Row(a, 0), ![k2] = Row(b, 0)]
      after[n \in 0..2] ==
        IF n = 0 THEN {[n |-> 0, now |-> base, base |-> base, log |-> [p \in {p1, p2} |-> <<>>]]}
        ELSE UNION {SourceSteps(h) : h \in after[n - 1]}
  IN {[base |-> h.base, log |-> h.log, dlq |-> TRUE] : h \in after[2]}

AllHistories == MCHistories \cup ShortHistories
=============================================================================
