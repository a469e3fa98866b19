----------------------------- MODULE MCJobQueue -----------------------------
(* Two workers share two jobs; each job may be attempted twice and a lease  *)
(* lapses after one silent tick, so every job can be taken over once.       *)
EXTENDS JobQueue

CONSTANTS j1, j2, w1, w2

MCJob == {j1, j2}
MCOneJob == {j1}
MCWorker == {w1, w2}

=============================================================================
