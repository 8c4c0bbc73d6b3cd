---------------------------- MODULE MCJobManager ----------------------------
(* Small constants for JobManager. *)
EXTENDS JobManager, TLC

CONSTANTS j1, j2, t1, t2

MCKeyRank == (j1 :> 1) @@ (j2 :> 2)

\* Tables are interchangeable; jobs are not (S3 lists them by key).
TableSymmetry == Permutations({t1, t2})
=============================================================================
