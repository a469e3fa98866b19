----------------------------- MODULE MCEnqueue -----------------------------
(***************************************************************************)
(* The admission gate and the life of a staged file keep no state in       *)
(* common: each behaviour of this model exercises one while the other      *)
(* rests.                                                                  *)
(*                                                                         *)
(* gate: one caller and two settings of the thresholds: with 5 percent     *)
(* free, one of them stops ingestion and the other only warns.             *)
(* intake: two processes, two sources and two keys over one file with two  *)
(* contents.                                                               *)
(***************************************************************************)
EXTENDS StoragePressure, SnapshotIntake, TLC

CONSTANTS c1, p1, p2, s1, s2, k1, k2, f1, b1, b2

MCCaller == {c1}
MCFree == {5, 12}
MCThresholds == {[warn |-> 15, stop |-> 10], [warn |-> 8, stop |-> 4]}

MCProcess == {p1, p2}
MCSource == {s1, s2}
MCKey == {k1, k2}
MCFile == {f1}
MCBytes == {b1, b2}

MCSymmetry == Permutations(MCProcess) \cup Permutations(MCSource)
              \cup Permutations(MCKey) \cup Permutations(MCBytes)

VARIABLE part

PressureRests ==
    /\ free = 12 /\ health = Missing /\ stepped = 0
    /\ monitor = [state |-> "waiting", thresholds |-> [warn |-> 15, stop |-> 10],
                  measured |-> Missing]
    /\ caller = [c \in Caller |->
          [state |-> "idle", thresholds |-> monitor.thresholds, document |-> Missing]]

Init ==
    /\ part \in {"gate", "intake"}
    /\ IntakeInit
    /\ IF part = "gate" THEN PressureInit ELSE PressureRests

Next ==
    /\ UNCHANGED part
    /\ \/ part = "gate" /\ PressureNext /\ UNCHANGED intakeVars
       \/ part = "intake" /\ IntakeNext /\ UNCHANGED pressureVars

\* The state of each part has its types.
TypeOK == PressureTypeOK /\ IntakeTypeOK

Spec == Init /\ [][Next]_<<part, pressureVars, intakeVars>>

=============================================================================
