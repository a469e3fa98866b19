--------------------------- MODULE MCImportWorker ---------------------------
(* Two workers and one import, attempted twice; a lease lapses after one     *)
(* silent tick, so the second attempt may overlap the first.  The snapshot   *)
(* has two keys and ends with a duplicate, which no heartbeat follows.       *)
EXTENDS ImportWorker, TLC

CONSTANTS j1, w1, w2, k1, k2

MCJob == {j1}
MCWorker == {w1, w2}
MCKey == {k1, k2}
MCRows == j1 :> <<k1, k2, k1>>

=============================================================================
