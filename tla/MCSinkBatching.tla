--------------------------- MODULE MCSinkBatching ---------------------------
(* Small tables and changes for SinkBatchingCheck. *)
EXTENDS SinkBatchingCheck

CONSTANTS k1, k2, ra, rb, rc, a, b

MCKeys == {k1, k2, ra, rb, rc}
MCSourceKeyed == {ra, rb, rc}
\* ra and rb are two composite keys of the same source row.
MCSourceKeyOf == [k \in MCKeys |-> IF k = rb THEN ra ELSE k]

Blanked(k) == [op |-> "upsert", key |-> k, old |-> k, cols |-> Columns,
               u |-> Null, d |-> Null, blind |-> FALSE]
Up(k, u, d) == [Blanked(k) EXCEPT !.u = u, !.d = d]
Part(k, u) == [Blanked(k) EXCEPT !.cols = {"u"}, !.u = u]
Del(k) == [Blanked(k) EXCEPT !.op = "delete"]
Move(old, k, u) == [Up(k, u, 1) EXCEPT !.op = "move", !.old = old]

Row(u, d) == [u |-> u, d |-> d]
Empty == [k \in MCKeys |-> NoRow]

MCTables == {[Empty EXCEPT ![k1] = Row(a, 1), ![ra] = Row(a, 1)],
             [Empty EXCEPT ![k1] = Row(a, 1), ![k2] = Row(b, 1),
                           ![ra] = Row(a, 1), ![rc] = Row(b, 1)]}

MCOffered == {Up(k1, a, 1), Up(k1, b, 2), Up(k2, a, 2), Up(k2, Null, 2), Part(k2, a),
              Del(k1), Del(k2),
              Move(ra, rb, a), Move(rb, ra, b), Move(rc, rc, a)}
=============================================================================
