--------------------------- MODULE MCCutoverGate ---------------------------
(* Small constants for CutoverGate. *)
EXTENDS CutoverGate, TLC

CONSTANTS a, b, l1

MCOf == l1 :> a
MCGaps == {{}, {a}, {b}}
MCGapOrNot == {{}, {a}}
=============================================================================
