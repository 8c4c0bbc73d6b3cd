-------------------------- MODULE MCOverlayLedger --------------------------
(* Two tables, and DDLs that give every column one of two DEFAULTs, for OverlayLedger. The *)
(* tables are alike, and so are the DEFAULTs.                                               *)
EXTENDS OverlayLedger, TLC

CONSTANTS d1, d2, c1, t1, t2

MCDdls == {[c \in Columns |-> d1], [c \in Columns |-> d2]}
MCSymmetry == Permutations(Tables) \cup Permutations(Defaults)
=============================================================================
