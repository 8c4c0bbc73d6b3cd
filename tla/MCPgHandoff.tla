---------------------------- MODULE MCPgHandoff ----------------------------
(* Small constants for PgHandoff. *)
EXTENDS PgHandoff, TLC

CONSTANTS m1, m2, a, b, t1

\* One migration adds a table to its capture; the other loads a table of it.
MCPicked == (m1 :> {a}) @@ (m2 :> {a})
MCLater == (m1 :> {b}) @@ (m2 :> {})
=============================================================================
