------------------------ MODULE StoragePressureProofs ------------------------
(***************************************************************************)
(* Proofs about the admission gate for any number of callers, any set of   *)
(* thresholds and any bound on the steps of the wall clock.                *)
(***************************************************************************)
EXTENDS StoragePressure, TLAPS

\* A document was stamped before at most as many steps back as there were.
StampBounded(d) == d \in Document => d.back <= stepped

StampsBounded ==
    /\ StampBounded(monitor.measured)
    /\ StampBounded(health)
    /\ \A c \in Caller : StampBounded(caller[c].document)

\* What the monitor is about to publish is newer than what is published.
MeasuredIsNewer ==
    /\ monitor.state \in {"writing", "renaming"} => monitor.measured \in Document
    /\ monitor.measured \in Document /\ health \in Document => monitor.measured.age <= health.age

\* The inductive invariant.
PressureInv ==
    /\ PressureTypeOK /\ AdmittedWithRoom /\ AdmittedWhileFresh
    /\ StampsBounded /\ MeasuredIsNewer

-----------------------------------------------------------------------------
(* Documents.                                                              *)

LEMMA AgeLimitType == AgeLimit \in Nat /\ MaxBack \in Nat /\ MaxAge \in Nat
BY AgeAssumption DEF AgeLimit

LEMMA DocumentFields ==
    ASSUME NEW d \in Document
    PROVE  /\ d.free \in Free /\ d.thresholds \in Thresholds
           /\ d.age \in 0..AgeLimit /\ d.back \in 0..MaxBack
           /\ d.age \in Int /\ d.back \in Int
BY AgeLimitType DEF Document

LEMMA NotDocuments == Missing \notin Document /\ Broken \notin Document
BY ContentAssumption

LEMMA ThresholdFields ==
    ASSUME NEW t \in Thresholds PROVE t.stop \in 1..99 /\ t.warn \in 1..99
BY ThresholdsAssumption

\* An uncritical measurement leaves the stop threshold free.
LEMMA UncriticalHasRoom ==
    ASSUME NEW d \in Document, NEW t \in Thresholds, Admissible(d, t)
    PROVE  d.free >= t.stop
<1>1. d.thresholds = t /\ classifyStoragePressure(d.free, d.thresholds) # "critical"
  BY DEF Admissible, Readable
<1>2. ~(d.free < t.stop)
  BY <1>1 DEF classifyStoragePressure
<1>3. t.stop \in 1..99 /\ t.stop \in Int
  BY ThresholdFields
<1>4. d.free \in 0..100
  BY FreeAssumption, DocumentFields
<1>5. d.free \in Int
  BY <1>4
<1>6. \A a, b \in Int : ~(a < b) => a >= b
  OBVIOUS
<1>7. QED
  BY <1>2, <1>3, <1>5, <1>6, Zenon

LEMMA AgedDocument ==
    ASSUME NEW d \in Content
    PROVE  /\ Aged(d) \in Content
           /\ Aged(d) \in Document <=> d \in Document
           /\ d \in Document => Aged(d).back = d.back /\ d.age <= Aged(d).age
           /\ d \notin Document => Aged(d) = d
<1>1. CASE d \in Document /\ d.age < AgeLimit
  <2>1. d.age + 1 \in 0..AgeLimit
    BY <1>1, DocumentFields, AgeLimitType
  <2>2. Aged(d) = [d EXCEPT !.age = @ + 1]
    BY <1>1 DEF Aged
  <2>3. Aged(d) \in Document /\ Aged(d).back = d.back /\ Aged(d).age = d.age + 1
    BY <1>1, <2>1, <2>2 DEF Document
  <2>4. QED
    BY <1>1, <2>3, DocumentFields DEF Content
<1>2. CASE ~(d \in Document /\ d.age < AgeLimit)
  <2>1. Aged(d) = d
    BY <1>2 DEF Aged
  <2>2. QED
    BY <2>1, DocumentFields
<1>3. QED
  BY <1>1, <1>2

\* Aging keeps the order of ages.
LEMMA AgedMonotone ==
    ASSUME NEW d \in Document, NEW e \in Document, d.age <= e.age
    PROVE  Aged(d).age <= Aged(e).age
<1> USE AgeLimitType, DocumentFields
<1>1. Aged(d).age = IF d.age < AgeLimit THEN d.age + 1 ELSE d.age
  BY DEF Aged, Document
<1>2. Aged(e).age = IF e.age < AgeLimit THEN e.age + 1 ELSE e.age
  BY DEF Aged, Document
<1>3. QED
  BY <1>1, <1>2

LEMMA SteppedDocument ==
    ASSUME NEW d \in Content, PressureTypeOK, stepped < MaxBack, StampBounded(d)
    PROVE  /\ SteppedBack(d) \in Content
           /\ SteppedBack(d) \in Document <=> d \in Document
           /\ d \in Document => /\ SteppedBack(d).age = d.age
                                /\ SteppedBack(d).back = d.back + 1
           /\ d \notin Document => SteppedBack(d) = d
<1>1. CASE d \in Document
  <2>1. d.back + 1 \in 0..MaxBack
    BY <1>1, DocumentFields, AgeLimitType DEF PressureTypeOK, StampBounded
  <2>2. SteppedBack(d) = [d EXCEPT !.back = @ + 1]
    BY <1>1 DEF SteppedBack
  <2>3. QED
    BY <1>1, <2>1, <2>2 DEF Document, Content
<1>2. CASE d \notin Document
  BY <1>2 DEF SteppedBack
<1>3. QED
  BY <1>1, <1>2

-----------------------------------------------------------------------------
(* The steps.                                                              *)

LEMMA PressureInitInv == PressureInit => PressureInv
<1> SUFFICES ASSUME PressureInit PROVE PressureInv
  OBVIOUS
<1>1. PressureTypeOK
  BY AgeLimitType DEF PressureInit, PressureTypeOK, Content
<1>2. QED
  BY <1>1, NotDocuments
     DEF PressureInit, PressureInv, AdmittedWithRoom, AdmittedWhileFresh, StampsBounded,
         StampBounded,
         MeasuredIsNewer

\* A step of a caller leaves the documents of monitor and health alone.
LEMMA CallerStep ==
    ASSUME PressureInv, NEW c \in Caller, NEW t \in Thresholds,
           ReadDocument(c) \/ Admit(c) \/ Refuse(c) \/ Finish(c) \/ CallerRestarts(c, t)
    PROVE  PressureInv'
<1> USE DEF PressureInv
<1>0. /\ UNCHANGED <<free, monitor, health, stepped>>
      /\ caller' \in [Caller -> [state : {"idle", "read", "admitted"},
                                 thresholds : Thresholds, document : Content]]
      /\ \A o \in Caller \ {c} : caller'[o] = caller[o]
  BY DEF ReadDocument, Admit, Refuse, Finish, CallerRestarts, PressureTypeOK, Content
<1>1. PressureTypeOK'
  BY <1>0 DEF PressureTypeOK
<1>2. /\ StampBounded(caller[c].document)'
      /\ caller'[c].state = "admitted" =>
            /\ caller'[c].document \in Document
            /\ caller'[c].document.free >= caller'[c].thresholds.stop
            /\ caller'[c].document.age <= MaxAge + stepped
  <2>1. CASE ReadDocument(c)
    BY <2>1 DEF ReadDocument, PressureTypeOK, StampsBounded, StampBounded
  <2>2. CASE Admit(c)
    <3>1. /\ caller'[c].document = caller[c].document
          /\ caller'[c].thresholds = caller[c].thresholds
          /\ stepped' = stepped
          /\ Admissible(caller[c].document, caller[c].thresholds)
          /\ caller[c].thresholds \in Thresholds
      BY <2>2 DEF Admit, PressureTypeOK
    <3> DEFINE d == caller[c].document
    <3>2. /\ d \in Document /\ ApparentAge(d) <= MaxAge /\ d.back <= stepped
      BY <3>1 DEF Admissible, Readable, StampsBounded, StampBounded
    <3>3. d.age <= MaxAge + stepped
      BY <3>2, DocumentFields, AgeLimitType DEF ApparentAge, PressureTypeOK
    <3>4. d.free >= caller[c].thresholds.stop
      BY <3>1, <3>2, UncriticalHasRoom
    <3>5. QED
      BY <3>1, <3>2, <3>3, <3>4 DEF StampBounded
  <2>3. CASE Refuse(c) \/ Finish(c) \/ CallerRestarts(c, t)
    BY <2>3, NotDocuments DEF Refuse, Finish, CallerRestarts, PressureTypeOK, StampBounded
  <2>4. QED
    BY <2>1, <2>2, <2>3
<1>3. AdmittedWithRoom' /\ AdmittedWhileFresh'
  BY <1>0, <1>2 DEF AdmittedWithRoom, AdmittedWhileFresh
<1>4. StampsBounded' /\ MeasuredIsNewer'
  BY <1>0, <1>2 DEF StampsBounded, StampBounded, MeasuredIsNewer
<1>5. QED
  BY <1>1, <1>3, <1>4

\* A step of the monitor or the disk leaves the callers alone.
LEMMA MonitorStep ==
    ASSUME PressureInv, NEW t \in Thresholds, NEW percent \in Free,
           \/ InspectSpace \/ WriteTemporary \/ Rename \/ WriteFails \/ MonitorStops
           \/ MonitorStarts(t) \/ DiskChanges(percent) \/ DocumentDamaged
    PROVE  PressureInv'
<1> USE DEF PressureInv
<1>0. UNCHANGED <<caller, stepped>>
  BY DEF InspectSpace, WriteTemporary, Rename, WriteFails, MonitorStops, MonitorStarts,
         DiskChanges, DocumentDamaged
<1>1. AdmittedWithRoom' /\ AdmittedWhileFresh'
  BY <1>0 DEF AdmittedWithRoom, AdmittedWhileFresh
<1>2. \A c \in Caller : StampBounded(caller[c].document)'
  BY <1>0 DEF StampsBounded, StampBounded
<1> SUFFICES PressureTypeOK' /\ StampBounded(monitor.measured)' /\ StampBounded(health)' /\ MeasuredIsNewer'
  BY <1>1, <1>2 DEF StampsBounded
<1>3. CASE InspectSpace
  <2> DEFINE d == [free |-> free, thresholds |-> monitor.thresholds, age |-> 0, back |-> 0]
  <2>1. d \in Document /\ d.age = 0 /\ d.back = 0
    BY AgeLimitType DEF Document, PressureTypeOK
  <2>2. monitor' = [monitor EXCEPT !.state = "writing", !.measured = d]
        /\ UNCHANGED <<free, health, caller, stepped>>
    BY <1>3 DEF InspectSpace
  <2> HIDE DEF d
  <2>3. monitor'.measured = d /\ health' = health /\ stepped' = stepped
    BY <2>2 DEF PressureTypeOK
  <2>4. PressureTypeOK'
    BY <2>1, <2>2 DEF PressureTypeOK
  <2>5. health \in Document => health.age >= 0
    BY DocumentFields, AgeLimitType
  <2>6. QED
    BY <2>1, <2>3, <2>4, <2>5 DEF StampBounded, StampsBounded, MeasuredIsNewer, PressureTypeOK
<1>4. CASE WriteTemporary
  BY <1>4 DEF WriteTemporary, PressureTypeOK, StampBounded, StampsBounded, MeasuredIsNewer
<1>5. CASE Rename
  <2>1. /\ monitor.measured \in Document
        /\ health' = monitor.measured
        /\ monitor' = [monitor EXCEPT !.state = "waiting", !.measured = Missing]
        /\ UNCHANGED <<free, caller, stepped>>
    BY <1>5 DEF Rename, MeasuredIsNewer
  <2>2. monitor'.measured = Missing /\ monitor'.state = "waiting"
    BY <2>1 DEF PressureTypeOK
  <2>3. PressureTypeOK'
    BY <2>1 DEF PressureTypeOK, Content
  <2>4. StampBounded(monitor.measured)' /\ MeasuredIsNewer'
    BY <2>2, NotDocuments DEF StampBounded, MeasuredIsNewer
  <2>5. StampBounded(health)'
    BY <2>1 DEF StampBounded, StampsBounded
  <2>6. QED
    BY <2>3, <2>4, <2>5
<1>6. CASE WriteFails \/ MonitorStops \/ MonitorStarts(t)
  <2>1. health' = health /\ UNCHANGED <<free, caller, stepped>>
    BY <1>6 DEF WriteFails, MonitorStops, MonitorStarts
  <2>2. /\ monitor' \in [state : {"waiting", "writing", "renaming", "down"},
                         thresholds : Thresholds, measured : Document \cup {Missing}]
        /\ monitor'.measured = Missing /\ monitor'.state \in {"waiting", "down"}
    <3>1. CASE WriteFails
      BY <3>1 DEF WriteFails, PressureTypeOK
    <3>2. CASE MonitorStops
      BY <3>2 DEF MonitorStops, PressureTypeOK
    <3>3. CASE MonitorStarts(t)
      BY <3>3 DEF MonitorStarts
    <3>4. QED
      BY <1>6, <3>1, <3>2, <3>3
  <2>3. PressureTypeOK'
    BY <2>1, <2>2 DEF PressureTypeOK
  <2>4. StampBounded(monitor.measured)' /\ MeasuredIsNewer'
    BY <2>2, NotDocuments DEF StampBounded, MeasuredIsNewer
  <2>5. StampBounded(health)'
    BY <2>1 DEF StampBounded, StampsBounded
  <2>6. QED
    BY <2>3, <2>4, <2>5
<1>7. CASE DiskChanges(percent)
  BY <1>7 DEF DiskChanges, PressureTypeOK, StampBounded, StampsBounded, MeasuredIsNewer
<1>8. CASE DocumentDamaged
  BY <1>8, NotDocuments
     DEF DocumentDamaged, PressureTypeOK, Content, StampBounded, StampsBounded, MeasuredIsNewer
<1>9. QED
  BY <1>3, <1>4, <1>5, <1>6, <1>7, <1>8

\* What the two clock steps have in common, for f that maps documents to
\* documents and keeps everything else.
LEMMA TickStep == PressureInv /\ Tick => PressureInv'
<1> SUFFICES ASSUME PressureInv, Tick PROVE PressureInv'
  OBVIOUS
<1> USE DEF PressureInv
<1>0. /\ monitor' = [monitor EXCEPT !.measured = Aged(@)]
      /\ health' = Aged(health)
      /\ caller' = [c \in Caller |->
            IF caller[c].state = "read" THEN [caller[c] EXCEPT !.document = Aged(@)]
                                        ELSE caller[c]]
      /\ UNCHANGED <<free, stepped>>
  BY DEF Tick, EveryDocument
<1>1. monitor.measured \in Content /\ health \in Content /\ Missing \in Content
      /\ \A c \in Caller : caller[c].document \in Content
  BY DEF PressureTypeOK, Content
<1>2. monitor'.measured = Aged(monitor.measured) /\ monitor'.state = monitor.state
  BY <1>0 DEF PressureTypeOK
<1>3. monitor' \in [state : {"waiting", "writing", "renaming", "down"},
                    thresholds : Thresholds, measured : Document \cup {Missing}]
  <2>1. Aged(monitor.measured) \in Document \cup {Missing}
    BY <1>1, AgedDocument DEF PressureTypeOK
  <2>2. QED
    BY <1>0, <2>1 DEF PressureTypeOK
<1>4. ASSUME NEW c \in Caller
      PROVE  /\ caller'[c] \in [state : {"idle", "read", "admitted"},
                                thresholds : Thresholds, document : Content]
             /\ caller'[c].state = caller[c].state
             /\ caller'[c].state = "admitted" => caller'[c] = caller[c]
             /\ caller'[c].document \in {caller[c].document, Aged(caller[c].document)}
  <2>1. Aged(caller[c].document) \in Content
    BY <1>1, AgedDocument
  <2>2. QED
    BY <1>0, <2>1 DEF PressureTypeOK
<1>5. PressureTypeOK'
  <2>1. health' \in Content
    BY <1>0, <1>1, AgedDocument
  <2>2. QED
    BY <1>0, <1>3, <1>4, <2>1 DEF PressureTypeOK
<1>6. AdmittedWithRoom' /\ AdmittedWhileFresh'
  BY <1>0, <1>4 DEF AdmittedWithRoom, AdmittedWhileFresh
<1>7. StampsBounded'
  <2>1. ASSUME NEW d \in Content, StampBounded(d)
        PROVE  Aged(d) \in Document => Aged(d).back <= stepped'
    BY <1>0, <2>1, AgedDocument DEF StampBounded
  <2>2. QED
    BY <1>0, <1>1, <1>2, <1>4, <2>1 DEF StampsBounded, StampBounded
<1>8. MeasuredIsNewer'
  BY <1>0, <1>1, <1>2, AgedDocument, AgedMonotone DEF MeasuredIsNewer
<1>9. QED
  BY <1>5, <1>6, <1>7, <1>8

LEMMA ClockStep == PressureInv /\ ClockSteppedBack => PressureInv'
<1> SUFFICES ASSUME PressureInv, ClockSteppedBack PROVE PressureInv'
  OBVIOUS
<1> USE DEF PressureInv
<1>0. /\ monitor' = [monitor EXCEPT !.measured = SteppedBack(@)]
      /\ health' = SteppedBack(health)
      /\ caller' = [c \in Caller |->
            IF caller[c].state = "read" THEN [caller[c] EXCEPT !.document = SteppedBack(@)]
                                        ELSE caller[c]]
      /\ free' = free /\ stepped < MaxBack /\ stepped' = stepped + 1
      /\ stepped \in Nat /\ stepped' \in 0..MaxBack
  BY AgeLimitType DEF ClockSteppedBack, EveryDocument, PressureTypeOK
<1>1. /\ monitor.measured \in Content /\ StampBounded(monitor.measured)
      /\ health \in Content /\ StampBounded(health)
      /\ \A c \in Caller : caller[c].document \in Content /\ StampBounded(caller[c].document)
  BY DEF PressureTypeOK, Content, StampsBounded
<1>2. monitor'.measured = SteppedBack(monitor.measured) /\ monitor'.state = monitor.state
  BY <1>0 DEF PressureTypeOK
<1>3. monitor' \in [state : {"waiting", "writing", "renaming", "down"},
                    thresholds : Thresholds, measured : Document \cup {Missing}]
  <2>1. SteppedBack(monitor.measured) \in Document \cup {Missing}
    BY <1>0, <1>1, SteppedDocument DEF PressureTypeOK
  <2>2. QED
    BY <1>0, <2>1 DEF PressureTypeOK
<1>4. ASSUME NEW c \in Caller
      PROVE  /\ caller'[c] \in [state : {"idle", "read", "admitted"},
                                thresholds : Thresholds, document : Content]
             /\ caller'[c].state = caller[c].state
             /\ caller'[c].state = "admitted" => caller'[c] = caller[c]
             /\ caller'[c].document \in {caller[c].document, SteppedBack(caller[c].document)}
  <2>1. SteppedBack(caller[c].document) \in Content
    BY <1>0, <1>1, SteppedDocument
  <2>2. QED
    BY <1>0, <2>1 DEF PressureTypeOK
<1>5. PressureTypeOK'
  <2>1. health' \in Content
    BY <1>0, <1>1, SteppedDocument
  <2>2. QED
    BY <1>0, <1>3, <1>4, <2>1 DEF PressureTypeOK
<1>6. AdmittedWithRoom' /\ AdmittedWhileFresh'
  <2>1. ASSUME NEW c \in Caller, caller[c].state = "admitted"
        PROVE  caller[c].document.age <= MaxAge + stepped'
    <3>1. caller[c].document \in Document /\ caller[c].document.age <= MaxAge + stepped
      BY <2>1 DEF AdmittedWithRoom, AdmittedWhileFresh
    <3>2. QED
      BY <1>0, <3>1, DocumentFields, AgeLimitType
  <2>2. QED
    BY <1>4, <2>1 DEF AdmittedWithRoom, AdmittedWhileFresh
<1>7. StampsBounded'
  <2>1. ASSUME NEW d \in Content, StampBounded(d)
        PROVE  /\ SteppedBack(d) \in Document => SteppedBack(d).back <= stepped'
               /\ d \in Document => d.back <= stepped'
    BY <1>0, <2>1, SteppedDocument, DocumentFields DEF StampBounded
  <2>2. QED
    BY <1>0, <1>1, <1>2, <1>4, <2>1 DEF StampsBounded, StampBounded
<1>8. MeasuredIsNewer'
  BY <1>0, <1>1, <1>2, SteppedDocument DEF MeasuredIsNewer
<1>9. QED
  BY <1>5, <1>6, <1>7, <1>8

LEMMA PressureStepInv == PressureInv /\ [PressureNext]_pressureVars => PressureInv'
<1> SUFFICES ASSUME PressureInv, [PressureNext]_pressureVars PROVE PressureInv'
  OBVIOUS
<1>0. PICK t0 \in Thresholds, free0 \in Free : TRUE
  BY DEF PressureInv, PressureTypeOK
<1>1. ASSUME NEW c \in Caller, ReadDocument(c) \/ Admit(c) \/ Refuse(c) \/ Finish(c)
      PROVE  PressureInv'
  BY <1>0, <1>1, CallerStep
<1>2. ASSUME NEW c \in Caller, NEW t \in Thresholds, CallerRestarts(c, t) PROVE PressureInv'
  BY <1>2, CallerStep
<1>3. CASE InspectSpace \/ WriteTemporary \/ Rename \/ WriteFails \/ MonitorStops \/ DocumentDamaged
  BY <1>0, <1>3, MonitorStep
<1>4. ASSUME NEW t \in Thresholds, MonitorStarts(t) PROVE PressureInv'
  BY <1>0, <1>4, MonitorStep
<1>5. ASSUME NEW percent \in Free, DiskChanges(percent) PROVE PressureInv'
  BY <1>0, <1>5, MonitorStep
<1>6. CASE Tick
  BY <1>6, TickStep
<1>7. CASE ClockSteppedBack
  BY <1>7, ClockStep
<1>8. CASE UNCHANGED pressureVars
  BY <1>8
     DEF pressureVars, PressureInv, PressureTypeOK, AdmittedWithRoom, AdmittedWhileFresh,
         StampsBounded,
         StampBounded, MeasuredIsNewer
<1>9. QED
  BY <1>1, <1>2, <1>3, <1>4, <1>5, <1>6, <1>7, <1>8 DEF PressureNext

LEMMA PressureInvHolds == PressureSpec => []PressureInv
BY PressureInitInv, PressureStepInv, PTL DEF PressureSpec

-----------------------------------------------------------------------------
(* Theorems.                                                               *)

\* The disk, the monitor, the document and the callers keep their types.
THEOREM PressureTypeCorrect == PressureSpec => []PressureTypeOK
<1>1. PressureInv => PressureTypeOK
  BY DEF PressureInv
<1>2. QED
  BY <1>1, PressureInvHolds, PTL

\* assertStorageAdmission admits only on a measurement that left the caller's
\* stop threshold free, whatever thresholds the monitor runs with.
THEOREM AdmissionNeedsRoom == PressureSpec => []AdmittedWithRoom
<1>1. PressureInv => AdmittedWithRoom
  BY DEF PressureInv
<1>2. QED
  BY <1>1, PressureInvHolds, PTL

\* The age of the measurement behind an admission is bounded by maxAgeMs and
\* the steps of the clock.
THEOREM AdmissionIsFresh == PressureSpec => []AdmittedWhileFresh
<1>1. PressureInv => AdmittedWhileFresh
  BY DEF PressureInv
<1>2. QED
  BY <1>1, PressureInvHolds, PTL

LEMMA NoRegressionStep ==
    ASSUME PressureInv, [PressureNext]_pressureVars
    PROVE  NoRegression
<1> SUFFICES ASSUME monitor'.state # monitor.state, health \in Document
             PROVE  health' \in Document /\ health'.age <= health.age
  BY DEF NoRegression
<1>1. health.age <= health.age
  BY DocumentFields, AgeLimitType
<1>2. CASE Rename
  BY <1>2 DEF Rename, PressureInv, MeasuredIsNewer, PressureTypeOK
<1>3. CASE Tick \/ ClockSteppedBack
  BY <1>3 DEF Tick, ClockSteppedBack, EveryDocument, PressureInv, PressureTypeOK
<1>4. CASE \E percent \in Free : DiskChanges(percent)
  BY <1>4 DEF DiskChanges
<1>5. CASE DocumentDamaged \/ UNCHANGED pressureVars
  BY <1>5 DEF DocumentDamaged, pressureVars
<1>6. CASE \/ InspectSpace \/ WriteTemporary \/ WriteFails \/ MonitorStops
           \/ \E t \in Thresholds : MonitorStarts(t)
  BY <1>1, <1>6 DEF InspectSpace, WriteTemporary, WriteFails, MonitorStops, MonitorStarts
<1>7. CASE \E c \in Caller :
              \/ ReadDocument(c) \/ Admit(c) \/ Refuse(c) \/ Finish(c)
              \/ \E t \in Thresholds : CallerRestarts(c, t)
  BY <1>7 DEF ReadDocument, Admit, Refuse, Finish, CallerRestarts
<1>8. QED
  BY <1>2, <1>3, <1>4, <1>5, <1>6, <1>7 DEF PressureNext

\* A round of the monitor replaces the document by a newer one or not at all.
THEOREM MonitorOnlyImproves == PressureSpec => MonitorNeverRegresses
<1>1. PressureInv /\ [PressureNext]_pressureVars => [NoRegression]_pressureVars
  BY NoRegressionStep
<1>2. QED
  BY <1>1, PressureInvHolds, PTL DEF PressureSpec, MonitorNeverRegresses

\* writeStoragePressureStatus and assertStorageAdmission together make a gate
\* that is open only when there is room.
THEOREM GateHolds == PressureSpec => GateIsSound
<1>1. PressureInv /\ PressureInv' /\ [PressureNext]_pressureVars =>
        [AdmittedWithRoom' /\ AdmittedWhileFresh' /\ NoRegression]_pressureVars
  BY NoRegressionStep DEF PressureInv
<1>2. QED
  BY <1>1, PressureInvHolds, PTL DEF PressureSpec, GateIsSound

=============================================================================
