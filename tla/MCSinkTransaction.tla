-------------------------- MODULE MCSinkTransaction --------------------------
(* Small constants for SinkTransaction. *)
EXTENDS SinkTransaction

CONSTANTS r1, r2, r3, r4

\* A read, a chunk with a row Aurora DSQL rejects and one the client refuses, and a second chunk.
MCUnits == {{Catalog}, {r1, r2, r3}, {r4}}
=============================================================================
