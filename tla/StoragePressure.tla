--------------------------- MODULE StoragePressure ---------------------------
(***************************************************************************)
(* The storage monitor and the admission check that enqueueing and         *)
(* importing make against its health document                              *)
(* (services/ingestion-worker/src/storage-pressure.ts).                    *)
(*                                                                         *)
(* The monitor measures the disk, stamps the measurement with the wall     *)
(* clock and publishes it by renaming a temporary file.  A caller reads    *)
(* the document, then compares it with its own thresholds and the clock.   *)
(* Both read their thresholds when their process starts, so during a       *)
(* reconfiguration they may differ.                                        *)
(*                                                                         *)
(* The wall clock of the host may be stepped back.  Instead of clock       *)
(* values a document carries its real age and the steps made since it was  *)
(* stamped: age - back is what "now - checkedAt" yields.                   *)
(***************************************************************************)
EXTENDS Integers

CONSTANTS
    Caller,      \* processes that call assertStorageAdmission
    Free,        \* measured free space, in percent
    Thresholds,  \* records [warn, stop] the operator may configure
    MaxAge,      \* maxAgeMs, in ticks
    MaxSkew,     \* maxFutureSkewMs, in ticks
    MaxBack,     \* bound: ticks the wall clock is ever stepped back in total
    Missing,     \* no document
    Broken       \* not a regular file of at most 8 KiB that holds a valid
                 \* document: written in part, or replaced by something else

ASSUME FreeAssumption == Free \subseteq 0..100
ASSUME ThresholdsAssumption ==
    Thresholds \subseteq {t \in [warn : 1..99, stop : 1..99] : t.stop < t.warn}
ASSUME AgeAssumption == MaxAge \in Nat \ {0} /\ MaxSkew \in Nat /\ MaxBack \in Nat

\* Ages are counted up to the first value at which nothing depends on them.
AgeLimit == MaxAge + MaxBack + 1

Document == [free : Free, thresholds : Thresholds,
             age : 0..AgeLimit, back : 0..MaxBack]

ASSUME ContentAssumption ==
    Missing \notin Document /\ Broken \notin Document /\ Missing # Broken

VARIABLES
    free,      \* what statfs would report
    monitor,   \* the monitor process: its state and thresholds
    health,    \* what is at the path of the health document
    caller,    \* state, thresholds and the document read, per caller
    stepped    \* ticks the wall clock was stepped back so far

pressureVars == <<free, monitor, health, caller, stepped>>

Content == Document \cup {Missing, Broken}

classifyStoragePressure(percent, t) ==
    IF percent < t.stop THEN "critical"
    ELSE IF percent < t.warn THEN "warning" ELSE "healthy"

ApparentAge(d) == d.age - d.back

FaultyReadableFutureOnly(d, t) ==
    /\ d \in Document
    /\ d.thresholds = t
    /\ ApparentAge(d) >= -MaxSkew

\* readStoragePressureStatus returns the document.
Readable(d, t) ==
    /\ d \in Document
    /\ d.thresholds = t
    /\ ApparentAge(d) >= -MaxSkew /\ ApparentAge(d) <= MaxAge

\* assertStorageAdmission: the recorded status, which the schema ties to the
\* document's own measurement and thresholds, is not critical.
Admissible(d, t) ==
    Readable(d, t) /\ classifyStoragePressure(d.free, d.thresholds) # "critical"

PressureInit ==
    /\ free \in Free
    /\ \E t \in Thresholds :
        /\ monitor = [state |-> "waiting", thresholds |-> t, measured |-> Missing]
        /\ caller = [c \in Caller |->
              [state |-> "idle", thresholds |-> t, document |-> Missing]]
    /\ health = Missing
    /\ stepped = 0

-----------------------------------------------------------------------------
(* The monitor: one round of runStoragePressureMonitor.                    *)

FaultyInspectUsedSpace ==
    /\ monitor.state = "waiting"
    /\ monitor' = [monitor EXCEPT
          !.state = "writing",
          !.measured = [free |-> 100 - free, thresholds |-> monitor.thresholds,
                        age |-> 0, back |-> 0]]
    /\ UNCHANGED <<free, health, caller, stepped>>

\* inspectStoragePressure: statfs and, in the turn that receives its answer,
\* the timestamp.  A failed inspection leaves the monitor waiting.
InspectSpace ==
    /\ monitor.state = "waiting"
    /\ monitor' = [monitor EXCEPT
          !.state = "writing",
          !.measured = [free |-> free, thresholds |-> monitor.thresholds,
                        age |-> 0, back |-> 0]]
    /\ UNCHANGED <<free, health, caller, stepped>>

\* writeFile of the temporary file, under a name nobody reads.
WriteTemporary ==
    /\ monitor.state = "writing"
    /\ monitor' = [monitor EXCEPT !.state = "renaming"]
    /\ UNCHANGED <<free, health, caller, stepped>>

Rename ==
    /\ monitor.state = "renaming"
    /\ health' = monitor.measured
    /\ monitor' = [monitor EXCEPT !.state = "waiting", !.measured = Missing]
    /\ UNCHANGED <<free, caller, stepped>>

\* The write or the rename fails and the next round starts afresh.
WriteFails ==
    /\ monitor.state \in {"writing", "renaming"}
    /\ monitor' = [monitor EXCEPT !.state = "waiting", !.measured = Missing]
    /\ UNCHANGED <<free, health, caller, stepped>>

\* The monitor stops at any point, and may be started with other thresholds.
MonitorStops ==
    /\ monitor.state # "down"
    /\ monitor' = [monitor EXCEPT !.state = "down", !.measured = Missing]
    /\ UNCHANGED <<free, health, caller, stepped>>

MonitorStarts(t) ==
    /\ monitor.state = "down"
    /\ monitor' = [state |-> "waiting", thresholds |-> t, measured |-> Missing]
    /\ UNCHANGED <<free, health, caller, stepped>>

-----------------------------------------------------------------------------
(* A caller: the enqueue command, or the import handler (twice per import). *)

\* lstat and readFile.
ReadDocument(c) ==
    /\ caller[c].state = "idle"
    /\ caller' = [caller EXCEPT ![c].state = "read", ![c].document = health]
    /\ UNCHANGED <<free, monitor, health, stepped>>

\* The comparisons, with the time after the read.
Admit(c) ==
    /\ caller[c].state = "read"
    /\ Admissible(caller[c].document, caller[c].thresholds)
    /\ caller' = [caller EXCEPT ![c].state = "admitted"]
    /\ UNCHANGED <<free, monitor, health, stepped>>

Refuse(c) ==
    /\ caller[c].state = "read"
    /\ ~Admissible(caller[c].document, caller[c].thresholds)
    /\ caller' = [caller EXCEPT ![c].state = "idle", ![c].document = Missing]
    /\ UNCHANGED <<free, monitor, health, stepped>>

\* The admitted work ends, and another call may follow.
Finish(c) ==
    /\ caller[c].state = "admitted"
    /\ caller' = [caller EXCEPT ![c].state = "idle", ![c].document = Missing]
    /\ UNCHANGED <<free, monitor, health, stepped>>

\* The process of the caller is started again with thresholds t.
CallerRestarts(c, t) ==
    /\ caller[c].thresholds # t
    /\ caller' = [caller EXCEPT
          ![c] = [state |-> "idle", thresholds |-> t, document |-> Missing]]
    /\ UNCHANGED <<free, monitor, health, stepped>>

-----------------------------------------------------------------------------
(* The environment.                                                        *)

DiskChanges(percent) ==
    /\ free' = percent
    /\ UNCHANGED <<monitor, health, caller, stepped>>

\* Something else replaces or truncates the document.
DocumentDamaged ==
    /\ health' = Broken
    /\ UNCHANGED <<free, monitor, caller, stepped>>

Aged(d) ==
    IF d \in Document /\ d.age < AgeLimit THEN [d EXCEPT !.age = @ + 1] ELSE d
SteppedBack(d) == IF d \in Document THEN [d EXCEPT !.back = @ + 1] ELSE d

\* f applied to every document there is.
EveryDocument(f(_)) ==
    /\ monitor' = [monitor EXCEPT !.measured = f(@)]
    /\ health' = f(health)
    /\ caller' = [c \in Caller |->
          IF caller[c].state = "read" THEN [caller[c] EXCEPT !.document = f(@)]
                                      ELSE caller[c]]

Tick == EveryDocument(Aged) /\ UNCHANGED <<free, stepped>>

ClockSteppedBack ==
    /\ stepped < MaxBack
    /\ stepped' = stepped + 1
    /\ EveryDocument(SteppedBack)
    /\ UNCHANGED free

PressureNext ==
    \/ InspectSpace \/ WriteTemporary \/ Rename \/ WriteFails \/ MonitorStops
    \/ \E t \in Thresholds : MonitorStarts(t)
    \/ \E c \in Caller :
        \/ ReadDocument(c) \/ Admit(c) \/ Refuse(c) \/ Finish(c)
        \/ \E t \in Thresholds : CallerRestarts(c, t)
    \/ \E percent \in Free : DiskChanges(percent)
    \/ DocumentDamaged \/ Tick \/ ClockSteppedBack

PressureSpec == PressureInit /\ [][PressureNext]_pressureVars

-----------------------------------------------------------------------------
(* Properties.                                                             *)

PressureTypeOK ==
    /\ free \in Free
    /\ monitor \in [state : {"waiting", "writing", "renaming", "down"},
                    thresholds : Thresholds, measured : Document \cup {Missing}]
    /\ health \in Content
    /\ caller \in [Caller -> [state : {"idle", "read", "admitted"},
                              thresholds : Thresholds, document : Content]]
    /\ stepped \in 0..MaxBack

\* Enqueueing and promoting are admitted only on a measurement that left at
\* least the caller's own stop threshold free, also while monitor and callers
\* are being moved to new thresholds one by one.
AdmittedWithRoom ==
    \A c \in Caller : caller[c].state = "admitted" =>
        /\ caller[c].document \in Document
        /\ caller[c].document.free >= caller[c].thresholds.stop

\* The measurement behind an admission was at most MaxAge ticks old when the
\* admission was given, plus what the clock was stepped back: a monitor that
\* stops or hangs closes the gate.
AdmittedWhileFresh ==
    \A c \in Caller : caller[c].state = "admitted" =>
        caller[c].document.age <= MaxAge + stepped

\* A round of the monitor never makes the document older or unreadable: it is
\* replaced whole, so a caller that could be admitted before still can.
NoRegression ==
    monitor'.state # monitor.state /\ health \in Document =>
        health' \in Document /\ health'.age <= health.age

MonitorNeverRegresses == [][NoRegression]_pressureVars

\* The gate as a whole, after every step: who is admitted had room, by a fresh
\* measurement, and no step of the monitor makes a readable document older or
\* unreadable.
GateIsSound ==
    [][AdmittedWithRoom' /\ AdmittedWhileFresh' /\ NoRegression]_pressureVars

=============================================================================
