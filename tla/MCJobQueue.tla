----------------------------- MODULE MCJobQueue -----------------------------
(* Instances of JobQueue for TLC: two jobs, two kinds of them. *)
EXTENDS JobQueue

CONSTANTS k1, k2
MCJobs == 1..2
MCKeys == {k1, k2}

=============================================================================
