-------------------------- MODULE MCDeadLetterLog --------------------------
(* Small constants for DeadLetterLog. *)
EXTENDS DeadLetterLog, TLC

CONSTANTS a, l1, l2, p1, c1, c2

MCOfOne == (l1 :> a) @@ (l2 :> a)
MCSymmetry == Permutations({l1, l2}) \cup Permutations({c1, c2})

\* An attached pipeline; a start the look-back does not reach.
MCStarts == {None, 60}

\* A snapshot no restart can go back to any more is left out of the state: the bounds allow no
\* further restart, so no step reads it.
MCView ==
  <<world, reader, reads, faults, flight, claim, session, IF MayFault THEN saved ELSE None,
    dropped, overtaken, lookedBack, restarted>>
=============================================================================
