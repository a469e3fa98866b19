------------------------- MODULE ImportWorkerProofs -------------------------
(***************************************************************************)
(* Proofs about the import handler for any number of jobs, workers, rows    *)
(* and attempts, and any set of faults.                                     *)
(***************************************************************************)
EXTENDS ImportWorker, JobQueueProofs

-----------------------------------------------------------------------------
(* The handler runs inside the queue's protocol.                           *)

LEMMA HandlerStepKinds ==
    ASSUME NEW w \in Worker,
           HandlerStep(w) \/ RejectRow(w) \/ Throw(w)
    PROVE  \/ UNCHANGED vars \/ Heartbeat(w) \/ Complete(w) \/ CompleteUnheard(w)
           \/ Fail(w)
<1>1. ASSUME \/ CreateManifest(w) \/ ManifestExists(w) \/ MarkProcessing(w)
             \/ StageRow(w) \/ SkipDuplicate(w) \/ EndOfStream(w) \/ MarkValidated(w)
             \/ NotReady(w) \/ Promote(w) \/ MarkFailed(w) \/ RejectRow(w) \/ Throw(w)
      PROVE  HandlerOnly
  BY <1>1 DEF CreateManifest, ManifestExists, MarkProcessing, StageRow, SkipDuplicate,
              EndOfStream, MarkValidated, NotReady, Promote, MarkFailed, RejectRow, Throw
<1>2. HandlerOnly => UNCHANGED vars
  BY DEF HandlerOnly, vars
<1>3. RowHeartbeat(w) => Heartbeat(w)
  BY DEF RowHeartbeat
<1>4. ReturnResult(w) => Complete(w) \/ CompleteUnheard(w)
  BY DEF ReturnResult
<1>5. RecordFailure(w) => Fail(w)
  BY DEF RecordFailure
<1>6. QED
  BY <1>1, <1>2, <1>3, <1>4, <1>5 DEF HandlerStep

LEMMA ImportStepIsQueueStep == [ImportNext]_allVars => [Next]_vars
<1> SUFFICES ASSUME [ImportNext]_allVars PROVE Next \/ UNCHANGED vars
  OBVIOUS
<1>1. CASE Environment
  BY <1>1 DEF Environment, Next
<1>2. ASSUME NEW w \in Worker, NEW skipped \in SUBSET Job, StartImport(w, skipped)
      PROVE  Next
  BY <1>2 DEF StartImport, Next
<1>3. ASSUME NEW w \in Worker, HandlerStep(w) \/ RejectRow(w) \/ Throw(w)
      PROVE  Next \/ UNCHANGED vars
  BY <1>3, HandlerStepKinds DEF Next
<1>4. ASSUME NEW w \in Worker, TimerHeartbeat(w) \/ Stop(w) \/ ProcessDies(w)
      PROVE  Next
  BY <1>4 DEF TimerHeartbeat, Stop, ProcessDies, Next
<1>5. CASE UNCHANGED allVars
  BY <1>5 DEF allVars
<1>6. QED
  BY <1>1, <1>2, <1>3, <1>4, <1>5 DEF ImportNext

\* Worker and handler together implement the job queue specification.
THEOREM WorkerImplementsQueue == ImportSpec => ImplementsQueue
<1>1. ImportInit => Init
  BY DEF ImportInit
<1>2. QED
  BY <1>1, ImportStepIsQueueStep, PTL DEF ImportSpec, ImplementsQueue, Spec

-----------------------------------------------------------------------------
(* The invariant: what a handler relies on at each of its phases.          *)

\* A worker runs a job exactly when its handler is somewhere.
BusyWorker(w) == running[w] # NoJob <=> phase[w] # "idle"

\* The status of its manifest; how far it read, and what it staged on the way.
HandlerExact(w) ==
    LET m == manifest[running[w]]  v == versions[running[w]] IN
    /\ phase[w] = "created" => m = "pending"
    /\ phase[w] \in {"staging", "staged", "verifying"} => m = "processing"
    /\ phase[w] = "validated" => m = "validated"
    /\ phase[w] = "returned" => m = "promoted"
    /\ phase[w] = "failing" => m # "absent"
    /\ phase[w] \in {"checking", "created"} => read[w] = 0 /\ ~rejected[w] /\ seen[w] = {}
    /\ phase[w] = "created" => v = {}
    /\ phase[w] \in {"staging", "staged", "verifying"} =>
          /\ read[w] <= Len(Rows[running[w]])
          /\ v = seen[w]
          /\ ~rejected[w] => v = KeysUpTo(running[w], read[w])
    /\ phase[w] = "verifying" => read[w] = Len(Rows[running[w]])

ManifestExact(j) ==
    /\ manifest[j] \in {"absent", "pending"} => versions[j] = {}
    /\ manifest[j] \in {"validated", "promoted"} => versions[j] = SnapshotKeys(j)

Handlers == \A w \in Worker : BusyWorker(w) /\ HandlerExact(w)
Manifests == \A j \in Job : ManifestExact(j)

ImportInvariant ==
    /\ TypeOK /\ ImportTypeOK
    /\ Handlers /\ Manifests
    /\ OneHandlerPerManifest /\ CompletedMeansPromoted

\* One more row adds its key; before the first there is none.
LEMMA KeysGrow ==
    ASSUME NEW j \in Job
    PROVE  /\ Len(Rows[j]) \in Nat /\ KeysUpTo(j, 0) = {}
           /\ \A n \in Nat : n < Len(Rows[j]) =>
                 /\ KeysUpTo(j, n + 1) = KeysUpTo(j, n) \cup {Rows[j][n + 1]}
                 /\ Rows[j][n + 1] \in SnapshotKeys(j) \cap Key
<1>1. Rows[j] \in Seq(Key) /\ Len(Rows[j]) \in Nat
  BY RowsAssumption
<1>2. KeysUpTo(j, 0) = {}
  BY DEF KeysUpTo
<1>3. ASSUME NEW n \in Nat, n < Len(Rows[j])
      PROVE  /\ KeysUpTo(j, n + 1) = KeysUpTo(j, n) \cup {Rows[j][n + 1]}
             /\ Rows[j][n + 1] \in SnapshotKeys(j) \cap Key
  <2>1. n + 1 \in 1..Len(Rows[j])
    BY <1>1, <1>3
  <2>2. 1..(n + 1) = (1..n) \cup {n + 1}
    OBVIOUS
  <2>3. QED
    BY <1>1, <2>1, <2>2 DEF KeysUpTo, SnapshotKeys
<1>4. QED
  BY <1>1, <1>2, <1>3

LEMMA InitImportInvariant == ImportInit => ImportInvariant
<1> SUFFICES ASSUME ImportInit PROVE ImportInvariant
  OBVIOUS
<1>1. TypeOK
  BY InitTypeOK DEF ImportInit
<1>2. ImportTypeOK
  BY RowsAssumption DEF ImportInit, ImportTypeOK, Phase
<1>3. Handlers /\ Manifests
  BY DEF ImportInit, Init, Handlers, Manifests, BusyWorker, HandlerExact, ManifestExact
<1>4. OneHandlerPerManifest /\ CompletedMeansPromoted
  BY DEF ImportInit, Init, OneHandlerPerManifest, HoldsManifest, CompletedMeansPromoted
<1>5. QED
  BY <1>1, <1>2, <1>3, <1>4 DEF ImportInvariant

\* A step that leaves the handlers and the manifests alone keeps the invariant,
\* as long as it completes no job.
LEMMA QueueOnlyStep ==
    ASSUME ImportInvariant, [Next]_vars, UNCHANGED importVars, UNCHANGED running,
           \A j \in Job : status'[j] = "completed" => status[j] = "completed"
    PROVE  ImportInvariant'
<1> USE DEF ImportInvariant
<1>1. TypeOK'
  BY NextTypeOK
<1>2. ImportTypeOK' /\ Handlers' /\ Manifests' /\ OneHandlerPerManifest'
  BY DEF importVars, ImportTypeOK, Handlers, Manifests, BusyWorker, HandlerExact,
         ManifestExact, OneHandlerPerManifest, HoldsManifest
<1>3. CompletedMeansPromoted'
  BY DEF CompletedMeansPromoted, importVars
<1>4. QED
  BY <1>1, <1>2, <1>3

\* A step of one handler: the others keep what they rely on, because none of
\* them holds the manifest this step may write.
LEMMA HandlerFrame ==
    ASSUME ImportInvariant, [Next]_vars, ImportTypeOK', NEW w \in Worker,
           running[w] \in Job, UNCHANGED <<status, running>>,
           \A v \in Worker \ {w} : /\ phase'[v] = phase[v] /\ read'[v] = read[v]
                                   /\ seen'[v] = seen[v] /\ rejected'[v] = rejected[v],
           \A j \in Job \ {running[w]} :
               manifest'[j] = manifest[j] /\ versions'[j] = versions[j],
           ManifestExact(running[w])', BusyWorker(w)', HandlerExact(w)',
           manifest[running[w]] = "promoted" => manifest'[running[w]] = "promoted",
           \/ UNCHANGED <<manifest, versions>>
           \/ HoldsManifest(w)
           \/ manifest[running[w]] = "absent",
           HoldsManifest(w)' => HoldsManifest(w) \/ manifest[running[w]] = "absent"
    PROVE  ImportInvariant'
<1> USE DEF ImportInvariant
<1>1. TypeOK'
  BY NextTypeOK
<1>2. \A v \in Worker : HoldsManifest(v) => running[v] \in Job /\ manifest[running[v]] # "absent"
  BY NoJobAssumption
     DEF Handlers, BusyWorker, HandlerExact, HoldsManifest, TypeOK
<1>3. \A v \in Worker \ {w} : HoldsManifest(v)' <=> HoldsManifest(v)
  BY DEF HoldsManifest
<1>4. Handlers'
  <2> SUFFICES ASSUME NEW v \in Worker, v # w PROVE BusyWorker(v)' /\ HandlerExact(v)'
    BY DEF Handlers
  <2>1. BusyWorker(v) /\ HandlerExact(v)
    BY DEF Handlers
  <2>2. BusyWorker(v)'
    BY <2>1 DEF BusyWorker
  <2>3. CASE HoldsManifest(v)
    <3>1. running[v] \in Job
      BY <1>2, <2>3
    <3>2. manifest'[running[v]] = manifest[running[v]] /\ versions'[running[v]] = versions[running[v]]
      BY <1>2, <2>3, <3>1 DEF OneHandlerPerManifest
    <3>3. QED
      BY <2>1, <2>2, <3>2 DEF HandlerExact
  <2>4. CASE ~HoldsManifest(v)
    BY <2>1, <2>2, <2>4 DEF HandlerExact, HoldsManifest
  <2>5. QED
    BY <2>3, <2>4, <2>2
<1>5. Manifests'
  BY DEF Manifests, ManifestExact
<1>6. OneHandlerPerManifest'
  BY <1>2, <1>3 DEF OneHandlerPerManifest
<1>7. CompletedMeansPromoted'
  BY DEF CompletedMeansPromoted
<1>8. QED
  BY <1>1, <1>4, <1>5, <1>6, <1>7

LEMMA BusyRunsJob ==
    ASSUME ImportInvariant, NEW w \in Worker, phase[w] # "idle"
    PROVE  /\ running[w] \in Job /\ HandlerExact(w) /\ ManifestExact(running[w])
           /\ Len(Rows[running[w]]) \in Nat
BY KeysGrow DEF ImportInvariant, Handlers, Manifests, BusyWorker, TypeOK

\* Steps of the handler that write nothing.
LEMMA ReadingStep ==
    ASSUME ImportInvariant, [Next]_vars, NEW w \in Worker,
           \/ ManifestExists(w) \/ SkipDuplicate(w) \/ RejectRow(w) \/ EndOfStream(w)
           \/ NotReady(w) \/ Throw(w)
    PROVE  ImportInvariant'
<1> USE DEF ImportInvariant
<1>1. phase[w] # "idle"
  BY DEF ManifestExists, SkipDuplicate, RejectRow, NextRow, EndOfStream, NotReady, Throw
<1>2. /\ running[w] \in Job /\ HandlerExact(w) /\ ManifestExact(running[w])
      /\ Len(Rows[running[w]]) \in Nat
  BY <1>1, BusyRunsJob
<1>3. UNCHANGED <<status, running, manifest, versions, seen>>
  BY DEF ManifestExists, SkipDuplicate, RejectRow, EndOfStream, NotReady, Throw, HandlerOnly,
         rowVars, workerVars
<1>4. /\ ImportTypeOK'
      /\ \A v \in Worker \ {w} : /\ phase'[v] = phase[v] /\ read'[v] = read[v]
                                 /\ seen'[v] = seen[v] /\ rejected'[v] = rejected[v]
  <2>1. CASE RejectRow(w) \/ SkipDuplicate(w)
    <3>1. /\ read' = [read EXCEPT ![w] = @ + 1] /\ phase' = phase
          /\ \E b \in BOOLEAN : rejected' = [rejected EXCEPT ![w] = b]
      BY <2>1 DEF RejectRow, SkipDuplicate, ImportTypeOK
    <3>2. QED
      BY <1>3, <3>1 DEF ImportTypeOK
  <2>2. CASE ~(RejectRow(w) \/ SkipDuplicate(w))
    <3>1. /\ UNCHANGED <<read, rejected>>
          /\ \E p \in {"verifying", "failing", "thrown"} : Goto(w, p)
      BY <2>2 DEF ManifestExists, EndOfStream, NotReady, Throw
    <3>2. QED
      BY <1>3, <3>1 DEF Goto, ImportTypeOK, Phase
  <2>3. QED
    BY <2>1, <2>2
<1>5. BusyWorker(w)'
  BY <1>1, <1>2, <1>3, NoJobAssumption
     DEF ManifestExists, SkipDuplicate, RejectRow, EndOfStream, NotReady, Throw, Goto,
         BusyWorker, ImportTypeOK
<1>6. HandlerExact(w)' /\ (HoldsManifest(w)' => HoldsManifest(w))
  <2>1. CASE ManifestExists(w)
    BY <1>2, <1>3, <2>1 DEF ManifestExists, Goto, HandlerExact, HoldsManifest, ImportTypeOK
  <2>2. CASE RejectRow(w)
    BY <1>2, <1>3, <2>2
       DEF RejectRow, NextRow, HandlerExact, HoldsManifest, ImportTypeOK
  <2>3. CASE SkipDuplicate(w)
    <3>1. /\ phase[w] = "staging" /\ UNCHANGED <<phase, rejected>>
          /\ read[w] \in Nat /\ read[w] < Len(Rows[running[w]])
          /\ read'[w] = read[w] + 1
          /\ Rows[running[w]][read[w] + 1] \in seen[w]
      BY <2>3 DEF SkipDuplicate, NextRow, NextKey, ImportTypeOK
    <3>2. KeysUpTo(running[w], read[w] + 1)
            = KeysUpTo(running[w], read[w]) \cup {Rows[running[w]][read[w] + 1]}
      BY <1>2, <3>1, KeysGrow
    <3>3. /\ versions[running[w]] = seen[w]
          /\ ~rejected[w] => versions[running[w]] = KeysUpTo(running[w], read[w])
      BY <1>2, <3>1 DEF HandlerExact
    <3>4. ~rejected[w] => versions[running[w]] = KeysUpTo(running[w], read[w] + 1)
      BY <3>1, <3>2, <3>3
    <3>5. QED
      BY <1>2, <1>3, <3>1, <3>3, <3>4 DEF HandlerExact, HoldsManifest
  <2>4. CASE EndOfStream(w) \/ NotReady(w)
    BY <1>2, <1>3, <2>4
       DEF EndOfStream, NotReady, Goto, HandlerExact, HoldsManifest, ImportTypeOK
  <2>5. CASE Throw(w)
    BY <1>2, <1>3, <2>5 DEF Throw, Goto, HandlerExact, HoldsManifest, ImportTypeOK
  <2>6. QED
    BY <2>1, <2>2, <2>3, <2>4, <2>5
<1>7. ManifestExact(running[w])'
  BY <1>2, <1>3 DEF ManifestExact
<1>8. QED
  BY <1>2, <1>3, <1>4, <1>5, <1>6, <1>7, HandlerFrame

\* A heartbeat decides nothing about the row's status.
LEMMA HeartbeatFrame ==
    ASSUME NEW w \in Worker, Heartbeat(w)
    PROVE  UNCHANGED <<status, running>>
BY DEF Heartbeat, HeartbeatWorkerJob, workerVars, rowVars

LEMMA RowHeartbeatStep ==
    ASSUME ImportInvariant, [Next]_vars, NEW w \in Worker, RowHeartbeat(w)
    PROVE  ImportInvariant'
<1> USE DEF ImportInvariant
<1>2. /\ running[w] \in Job /\ HandlerExact(w) /\ ManifestExact(running[w])
  BY BusyRunsJob DEF RowHeartbeat
<1>3. UNCHANGED <<status, running, manifest, versions, read, seen, rejected>>
  BY HeartbeatFrame DEF RowHeartbeat
<1>4. /\ phase[w] = "staged" /\ phase'[w] \in {"staging", "failing"}
      /\ \A v \in Worker \ {w} : phase'[v] = phase[v]
      /\ phase' \in [Worker -> Phase]
  BY DEF RowHeartbeat, Goto, ImportTypeOK, Phase
<1>5. ImportTypeOK' /\ BusyWorker(w)' /\ ManifestExact(running[w])'
  BY <1>2, <1>3, <1>4, NoJobAssumption DEF ImportTypeOK, BusyWorker, ManifestExact
<1>6. HandlerExact(w)' /\ HoldsManifest(w)
  BY <1>2, <1>3, <1>4 DEF HandlerExact, HoldsManifest
<1>7. QED
  BY <1>2, <1>3, <1>4, <1>5, <1>6, HandlerFrame

\* Steps of the handler that write its manifest or stage a row.
LEMMA WritingStep ==
    ASSUME ImportInvariant, [Next]_vars, NEW w \in Worker,
           \/ CreateManifest(w) \/ MarkProcessing(w) \/ StageRow(w)
           \/ MarkValidated(w) \/ Promote(w) \/ MarkFailed(w)
    PROVE  ImportInvariant'
<1> USE DEF ImportInvariant
<1>1. /\ phase[w] # "idle"
      /\ HoldsManifest(w) \/ manifest[running[w]] = "absent"
  BY DEF CreateManifest, MarkProcessing, StageRow, NextRow, MarkValidated, Promote,
         MarkFailed, HoldsManifest
<1>2. /\ running[w] \in Job /\ HandlerExact(w) /\ ManifestExact(running[w])
      /\ Len(Rows[running[w]]) \in Nat
  BY <1>1, BusyRunsJob
<1>3. UNCHANGED <<status, running, rejected>>
  BY DEF CreateManifest, MarkProcessing, StageRow, MarkValidated, Promote, MarkFailed,
         HandlerOnly, rowVars, workerVars
<1>4. /\ phase' \in [Worker -> Phase] /\ phase'[w] # "idle"
      /\ \A v \in Worker \ {w} : /\ phase'[v] = phase[v] /\ read'[v] = read[v]
                                 /\ seen'[v] = seen[v]
  BY DEF CreateManifest, MarkProcessing, StageRow, MarkValidated, Promote, MarkFailed,
         Answer, Goto, ImportTypeOK, Phase
<1>5. BusyWorker(w)'
  BY <1>2, <1>3, <1>4, NoJobAssumption DEF BusyWorker
<1>6. CASE StageRow(w)
  <2> DEFINE j == running[w]  k == Rows[j][read[w] + 1]
  <2>1. /\ versions' = [versions EXCEPT ![j] = @ \cup {k}]
        /\ read' = [read EXCEPT ![w] = @ + 1] /\ seen' = [seen EXCEPT ![w] = @ \cup {k}]
        /\ manifest' = manifest /\ phase[w] = "staging"
        /\ phase'[w] \in {"staged", "failing"}
        /\ read[w] \in Nat /\ read[w] < Len(Rows[j])
    BY <1>6 DEF StageRow, NextRow, NextKey, Answer, Goto, ImportTypeOK
  <2>2. /\ manifest[j] = "processing" /\ versions[j] = seen[w]
        /\ ~rejected[w] => versions[j] = KeysUpTo(j, read[w])
    BY <1>2, <2>1 DEF HandlerExact
  <2>3. /\ KeysUpTo(j, read[w] + 1) = KeysUpTo(j, read[w]) \cup {k}
        /\ k \in SnapshotKeys(j) /\ k \in Key
    BY <1>2, <2>1, KeysGrow
  <2> HIDE DEF k
  <2>4. /\ versions'[j] = versions[j] \cup {k} /\ seen'[w] = seen[w] \cup {k}
        /\ read'[w] = read[w] + 1
        /\ versions' \in [Job -> SUBSET Key] /\ seen' \in [Worker -> SUBSET Key]
        /\ read' \in [Worker -> Nat]
        /\ \A i \in Job \ {j} : versions'[i] = versions[i]
        /\ \A v \in Worker \ {w} : seen'[v] = seen[v]
    BY <1>2, <2>1, <2>3 DEF ImportTypeOK
  <2>5. ImportTypeOK'
    <3>1. \A i \in Job : versions'[i] \subseteq SnapshotKeys(i)
      BY <2>3, <2>4 DEF ImportTypeOK
    <3>2. QED
      BY <1>3, <1>4, <2>1, <2>4, <3>1 DEF ImportTypeOK
  <2>6. ~rejected[w] => versions'[j] = KeysUpTo(j, read'[w])
    BY <2>2, <2>3, <2>4
  <2>7. HandlerExact(w)'
    <3>1. read'[w] <= Len(Rows[j])
      BY <1>2, <2>1, <2>4
    <3>2. /\ running'[w] = j /\ (rejected'[w] <=> rejected[w])
          /\ manifest'[j] = "processing" /\ versions'[j] = seen'[w]
          /\ phase'[w] \in {"staged", "failing"}
      BY <1>3, <2>1, <2>2, <2>4
    <3>3. QED
      BY <2>6, <3>1, <3>2 DEF HandlerExact
  <2>8. ManifestExact(running[w])'
    BY <1>3, <2>1, <2>2 DEF ManifestExact
  <2>9. /\ \A v \in Worker \ {w} : /\ phase'[v] = phase[v] /\ read'[v] = read[v]
                                 /\ seen'[v] = seen[v] /\ rejected'[v] = rejected[v]
        /\ \A i \in Job \ {j} : manifest'[i] = manifest[i] /\ versions'[i] = versions[i]
        /\ manifest[j] = "promoted" => manifest'[j] = "promoted"
    BY <1>3, <1>4, <2>1, <2>4
  <2>10. HoldsManifest(w)
    BY <2>1 DEF HoldsManifest
  <2>11. QED
    BY <1>2, <1>3, <1>5, <2>5, <2>7, <2>8, <2>9, <2>10, HandlerFrame
<1>7. CASE ~StageRow(w)
  <2>1. UNCHANGED <<versions, read, seen>>
    BY <1>7 DEF CreateManifest, MarkProcessing, MarkValidated, Promote, MarkFailed
  <2>2. /\ manifest' = [manifest EXCEPT ![running[w]] = manifest'[running[w]]]
        /\ manifest'[running[w]] \in {"pending", "processing", "validated", "promoted", "failed"}
    BY <1>2, <1>7 DEF CreateManifest, MarkProcessing, MarkValidated, Promote, MarkFailed,
                      SetManifest, ImportTypeOK
  <2>3. ImportTypeOK'
    BY <1>2, <1>3, <1>4, <2>1, <2>2 DEF ImportTypeOK
  <2>4. /\ HandlerExact(w)' /\ ManifestExact(running[w])'
        /\ manifest[running[w]] = "promoted" => manifest'[running[w]] = "promoted"
    <3>1. CASE CreateManifest(w)
      BY <1>2, <1>3, <2>1, <3>1
         DEF CreateManifest, SetManifest, Answer, Goto, HandlerExact, ManifestExact, ImportTypeOK
    <3>2. CASE MarkProcessing(w)
      <4>1. KeysUpTo(running[w], 0) = {}
        BY <1>2, KeysGrow
      <4>2. /\ phase[w] = "created" /\ manifest'[running[w]] = "processing"
            /\ phase'[w] \in {"staging", "thrown"} /\ manifest[running[w]] # "promoted"
        BY <1>2, <3>2 DEF MarkProcessing, SetManifest, Answer, Goto, HandlerExact, ImportTypeOK
      <4>3. /\ read'[w] = 0 /\ seen'[w] = {} /\ versions'[running[w]] = {}
            /\ running'[w] = running[w]
        BY <1>2, <1>3, <2>1, <4>2 DEF HandlerExact
      <4>4. HandlerExact(w)'
        BY <1>2, <4>1, <4>2, <4>3 DEF HandlerExact
      <4>5. QED
        BY <4>2, <4>3, <4>4 DEF ManifestExact
    <3>3. CASE MarkValidated(w)
      <4>1. versions[running[w]] = SnapshotKeys(running[w])
        BY <1>2, <3>3 DEF MarkValidated, HandlerExact, SnapshotKeys
      <4>2. QED
        BY <1>2, <1>3, <2>1, <3>3, <4>1
           DEF MarkValidated, SetManifest, Answer, Goto, HandlerExact, ManifestExact, ImportTypeOK
    <3>4. CASE Promote(w)
      BY <1>2, <1>3, <2>1, <3>4
         DEF Promote, SetManifest, Answer, Goto, HandlerExact, ManifestExact, ImportTypeOK
    <3>5. CASE MarkFailed(w)
      BY <1>2, <1>3, <2>1, <3>5
         DEF MarkFailed, SetManifest, Goto, HandlerExact, ManifestExact, ImportTypeOK
    <3>6. QED
      BY <1>7, <3>1, <3>2, <3>3, <3>4, <3>5
  <2>5. \A j \in Job \ {running[w]} : manifest'[j] = manifest[j] /\ versions'[j] = versions[j]
    BY <2>1, <2>2 DEF ImportTypeOK
  <2>6. \A v \in Worker \ {w} : /\ phase'[v] = phase[v] /\ read'[v] = read[v]
                               /\ seen'[v] = seen[v] /\ rejected'[v] = rejected[v]
    BY <1>3, <1>4
  <2>7. QED
    BY <1>1, <1>2, <1>3, <1>5, <2>3, <2>4, <2>5, <2>6, HandlerFrame
<1>8. QED
  BY <1>6, <1>7

\* A claim and the end of a run change one worker, which holds no manifest then.
LEMMA WorkerStep ==
    ASSUME ImportInvariant, [Next]_vars, NEW w \in Worker,
           UNCHANGED <<manifest, versions>>, ImportTypeOK',
           \A v \in Worker \ {w} : /\ phase'[v] = phase[v] /\ read'[v] = read[v]
                                   /\ seen'[v] = seen[v] /\ rejected'[v] = rejected[v]
                                   /\ running'[v] = running[v],
           \/ phase'[w] = "idle" /\ running'[w] = NoJob
           \/ phase'[w] = "checking" /\ running'[w] # NoJob
              /\ read'[w] = 0 /\ seen'[w] = {} /\ ~rejected'[w]
           \/ phase'[w] = "thrown" /\ running'[w] # NoJob,
           \A j \in Job : status'[j] = "completed" =>
               status[j] = "completed" \/ manifest[j] = "promoted"
    PROVE  ImportInvariant'
<1> USE DEF ImportInvariant
<1>1. TypeOK'
  BY NextTypeOK
<1>2. Handlers'
  <2> SUFFICES ASSUME NEW v \in Worker PROVE BusyWorker(v)' /\ HandlerExact(v)'
    BY DEF Handlers
  <2>1. CASE v = w
    BY <2>1 DEF BusyWorker, HandlerExact
  <2>2. CASE v # w
    BY <2>2 DEF Handlers, BusyWorker, HandlerExact
  <2>3. QED
    BY <2>1, <2>2
<1>3. Manifests'
  BY DEF Manifests, ManifestExact
<1>4. OneHandlerPerManifest'
  BY DEF OneHandlerPerManifest, HoldsManifest
<1>5. CompletedMeansPromoted'
  BY DEF CompletedMeansPromoted
<1>6. QED
  BY <1>1, <1>2, <1>3, <1>4, <1>5

LEMMA StartStep ==
    ASSUME ImportInvariant, [Next]_vars, NEW w \in Worker, NEW skipped \in SUBSET Job,
           StartImport(w, skipped)
    PROVE  ImportInvariant'
<1> USE DEF ImportInvariant
<1>1. PICK j \in Job : /\ ClaimWorkerJob(w, j, skipped)
                       /\ running' = [running EXCEPT ![w] = j]
  BY DEF StartImport, Claim
<1>2. /\ running'[w] # NoJob /\ \A v \in Worker \ {w} : running'[v] = running[v]
      /\ \A k \in Job : status'[k] = "completed" => status[k] = "completed"
  BY <1>1, NoJobAssumption DEF ClaimWorkerJob, TypeOK
<1>3. /\ ImportTypeOK' /\ UNCHANGED <<manifest, versions>>
      /\ phase'[w] = "checking" /\ read'[w] = 0 /\ seen'[w] = {} /\ ~rejected'[w]
      /\ \A v \in Worker \ {w} : /\ phase'[v] = phase[v] /\ read'[v] = read[v]
                                 /\ seen'[v] = seen[v] /\ rejected'[v] = rejected[v]
  BY DEF StartImport, Goto, ImportTypeOK, Phase
<1>4. QED
  BY <1>2, <1>3, WorkerStep

LEMMA EndStep ==
    ASSUME ImportInvariant, [Next]_vars, NEW w \in Worker,
           ReturnResult(w) \/ RecordFailure(w) \/ ProcessDies(w)
    PROVE  ImportInvariant'
<1> USE DEF ImportInvariant
<1>1. /\ UNCHANGED <<manifest, versions, read, seen, rejected>>
      /\ phase' \in [Worker -> Phase]
      /\ \A v \in Worker \ {w} : phase'[v] = phase[v]
  BY DEF ReturnResult, RecordFailure, ProcessDies, Goto, ImportTypeOK, Phase
<1>2. ImportTypeOK'
  BY <1>1 DEF ImportTypeOK
<1>3. \/ phase'[w] = "idle" /\ Release(w)
      \/ phase'[w] = "thrown" /\ UNCHANGED workerVars /\ running[w] # NoJob
  BY DEF ReturnResult, RecordFailure, ProcessDies, Complete, CompleteUnheard, Fail, Crash,
         Goto, ImportTypeOK
<1>4. /\ \A v \in Worker \ {w} : running'[v] = running[v]
      /\ \/ phase'[w] = "idle" /\ running'[w] = NoJob
         \/ phase'[w] = "thrown" /\ running'[w] # NoJob
  BY <1>3 DEF Release, workerVars, TypeOK
<1>5. ASSUME NEW j \in Job, status'[j] = "completed"
      PROVE  status[j] = "completed" \/ manifest[j] = "promoted"
  <2>1. CASE ReturnResult(w)
    <3>1. manifest[running[w]] = "promoted"
      BY <2>1 DEF ReturnResult, Handlers, HandlerExact
    <3>2. j = running[w] \/ status'[j] = status[j]
      BY <2>1 DEF ReturnResult, Complete, CompleteUnheard, CompleteWorkerJob, TypeOK
    <3>3. QED
      BY <1>5, <3>1, <3>2
  <2>2. CASE RecordFailure(w)
    BY <1>5, <2>2 DEF RecordFailure, Fail, FailWorkerJob, TypeOK
  <2>3. CASE ProcessDies(w)
    BY <1>5, <2>3 DEF ProcessDies, Crash, rowVars
  <2>4. QED
    BY <2>1, <2>2, <2>3
<1>6. QED
  BY <1>1, <1>2, <1>4, <1>5, WorkerStep

LEMMA NextImportInvariant ==
    ImportInvariant /\ [ImportNext]_allVars => ImportInvariant'
<1> SUFFICES ASSUME ImportInvariant, [ImportNext]_allVars PROVE ImportInvariant'
  OBVIOUS
<1>0. [Next]_vars
  BY ImportStepIsQueueStep
<1>1. CASE Environment
  <2>1. ASSUME NEW j \in Job, Enqueue(j) \/ RequestCancel(j) \/ RequeueFailed(j)
        PROVE  /\ UNCHANGED running
               /\ \A k \in Job : status'[k] = "completed" => status[k] = "completed"
    BY <2>1 DEF ImportInvariant, TypeOK, Enqueue, RequestCancel, RequeueFailed, workerVars
  <2>2. Tick => UNCHANGED <<running, status>>
    BY DEF Tick, workerVars
  <2>3. QED
    BY <1>0, <1>1, <2>1, <2>2, QueueOnlyStep DEF Environment
<1>2. ASSUME NEW w \in Worker, TimerHeartbeat(w) \/ Stop(w)
      PROVE  ImportInvariant'
  <2>1. UNCHANGED <<status, running, importVars>>
    BY <1>2, HeartbeatFrame DEF TimerHeartbeat, Stop, Abort, rowVars
  <2>2. QED
    BY <1>0, <2>1, QueueOnlyStep
<1>3. ASSUME NEW w \in Worker, NEW skipped \in SUBSET Job, StartImport(w, skipped)
      PROVE  ImportInvariant'
  BY <1>0, <1>3, StartStep
<1>4. ASSUME NEW w \in Worker, HandlerStep(w) \/ RejectRow(w) \/ Throw(w) \/ ProcessDies(w)
      PROVE  ImportInvariant'
  BY <1>0, <1>4, ReadingStep, RowHeartbeatStep, WritingStep, EndStep DEF HandlerStep
<1>5. CASE UNCHANGED allVars
  BY <1>0, <1>5, QueueOnlyStep DEF allVars, vars, rowVars, workerVars
<1>6. QED
  BY <1>1, <1>2, <1>3, <1>4, <1>5 DEF ImportNext

-----------------------------------------------------------------------------
(* The theorems.                                                           *)

THEOREM ImportInvariantHolds == ImportSpec => []ImportInvariant
BY InitImportInvariant, NextImportInvariant, PTL DEF ImportSpec

\* Handlers and manifests keep their types; a manifest holds no key that is not
\* in its snapshot.
THEOREM ImportTypeCorrect == ImportSpec => []ImportTypeOK
<1>1. ImportInvariant => ImportTypeOK
  BY DEF ImportInvariant
<1>2. QED
  BY <1>1, ImportInvariantHolds, PTL

\* "completed" is never recorded for an import that was not published.
THEOREM CompletionIsTruthful == ImportSpec => []CompletedMeansPromoted
<1>1. ImportInvariant => CompletedMeansPromoted
  BY DEF ImportInvariant
<1>2. QED
  BY <1>1, ImportInvariantHolds, PTL

\* Nothing partial is ever promoted: every key of the snapshot has its version.
THEOREM NoPartialPublication == ImportSpec => []PromotedIsWhole
<1>1. ImportInvariant => PromotedIsWhole
  BY DEF ImportInvariant, Manifests, ManifestExact, PromotedIsWhole
<1>2. QED
  BY <1>1, ImportInvariantHolds, PTL

\* Overlapping attempts at one job never share a manifest.
THEOREM ManifestHasOneHandler == ImportSpec => []OneHandlerPerManifest
<1>1. ImportInvariant => OneHandlerPerManifest
  BY DEF ImportInvariant
<1>2. QED
  BY <1>1, ImportInvariantHolds, PTL

-----------------------------------------------------------------------------
(* Cancellation.                                                           *)

CancelledEarly(j) == cancelRequested[j] /\ versions[j] # SnapshotKeys(j)

\* What remains true of an import cancelled early: a key is still missing, or
\* no handler of the job is past the heartbeat that follows its last version.
Doomed(j) ==
    /\ cancelRequested[j]
    /\ manifest[j] \notin {"absent", "promoted"} \/ versions[j] # SnapshotKeys(j)
    /\ \/ versions[j] # SnapshotKeys(j)
       \/ \A w \in Worker : running[w] = j =>
             phase[w] \in {"idle", "checking", "staged", "failing", "thrown"}

LEMMA DoomedIsUnpublished ==
    ASSUME ImportInvariant, NEW j \in Job
    PROVE  /\ CancelledEarly(j) => Doomed(j)
           /\ Doomed(j) => manifest[j] # "promoted"
BY DEF ImportInvariant, Manifests, ManifestExact, CancelledEarly, Doomed

LEMMA DoomedStays ==
    ASSUME ImportInvariant, [ImportNext]_allVars, NEW j \in Job, Doomed(j)
    PROVE  Doomed(j)'
<1> USE DEF ImportInvariant
<1>1. ASSUME UNCHANGED <<manifest, versions>>, cancelRequested'[j],
             \A w \in Worker : running'[w] = j =>
                 \/ running[w] = j /\ phase'[w] = phase[w]
                 \/ phase'[w] \in {"idle", "checking", "staged", "failing", "thrown"}
      PROVE  Doomed(j)'
  BY <1>1 DEF Doomed
<1>2. cancelRequested'[j]
  <2>1. cancelRequested[j]
    BY DEF Doomed
  <2>2. [Next]_vars
    BY ImportStepIsQueueStep
  <2>3. ASSUME NEW k \in Job, Enqueue(k) \/ RequestCancel(k) \/ RequeueFailed(k)
        PROVE  cancelRequested'[j]
    BY <2>1, <2>3 DEF Enqueue, RequestCancel, RequeueFailed, TypeOK
  <2>4. ASSUME NEW w \in Worker, NEW skipped \in SUBSET Job, Claim(w, skipped)
        PROVE  cancelRequested'[j]
    BY <2>1, <2>4 DEF Claim, ClaimWorkerJob
  <2>5. ASSUME NEW w \in Worker,
               \/ Heartbeat(w) \/ Abort(w) \/ Complete(w) \/ CompleteUnheard(w)
               \/ Fail(w) \/ Crash(w)
        PROVE  cancelRequested'[j]
    BY <2>1, <2>5 DEF Heartbeat, HeartbeatWorkerJob, Abort, Complete, CompleteUnheard,
                      CompleteWorkerJob, Fail, FailWorkerJob, Crash, rowVars
  <2>6. CASE Tick \/ UNCHANGED vars
    BY <2>1, <2>6 DEF Tick, vars, rowVars
  <2>7. QED
    BY <2>2, <2>3, <2>4, <2>5, <2>6 DEF Next
<1>3. CASE Environment \/ UNCHANGED allVars
  <2>1. UNCHANGED <<importVars, running>>
    BY <1>3 DEF Environment, Tick, Enqueue, RequestCancel, RequeueFailed, allVars, vars,
                workerVars
  <2>2. QED
    BY <1>1, <1>2, <2>1 DEF importVars
<1>4. ASSUME NEW w \in Worker, TimerHeartbeat(w) \/ Stop(w)
      PROVE  Doomed(j)'
  <2>1. UNCHANGED <<importVars, running>>
    BY <1>4, HeartbeatFrame DEF TimerHeartbeat, Stop, Abort
  <2>2. QED
    BY <1>1, <1>2, <2>1 DEF importVars
<1>5. ASSUME NEW w \in Worker, NEW skipped \in SUBSET Job, StartImport(w, skipped)
      PROVE  Doomed(j)'
  <2>1. /\ UNCHANGED <<manifest, versions>> /\ phase'[w] = "checking"
        /\ \A v \in Worker \ {w} : running'[v] = running[v] /\ phase'[v] = phase[v]
    BY <1>5 DEF StartImport, Claim, Goto, ImportTypeOK, TypeOK
  <2>2. QED
    BY <1>1, <1>2, <2>1
<1>6. ASSUME NEW w \in Worker, ReturnResult(w) \/ RecordFailure(w) \/ ProcessDies(w)
      PROVE  Doomed(j)'
  <2>1. /\ UNCHANGED <<manifest, versions>> /\ phase'[w] \in {"idle", "thrown"}
        /\ \A v \in Worker \ {w} : running'[v] = running[v] /\ phase'[v] = phase[v]
    BY <1>6 DEF ReturnResult, RecordFailure, ProcessDies, Complete, CompleteUnheard, Fail,
                Crash, Release, workerVars, Goto, ImportTypeOK, TypeOK
  <2>2. QED
    BY <1>1, <1>2, <2>1
<1>7. ASSUME NEW w \in Worker, RowHeartbeat(w)
      PROVE  Doomed(j)'
  <2>1. /\ UNCHANGED <<manifest, versions, running>>
        /\ \A v \in Worker \ {w} : phase'[v] = phase[v]
    BY <1>7, HeartbeatFrame DEF RowHeartbeat, Goto, ImportTypeOK
  <2>2. running[w] = j => phase'[w] = "failing"
    BY <1>7 DEF RowHeartbeat, Goto, CanHeartbeat, Doomed, ImportTypeOK
  <2>3. QED
    BY <1>1, <1>2, <2>1, <2>2
<1>8. ASSUME NEW w \in Worker,
             \/ CreateManifest(w) \/ ManifestExists(w) \/ MarkProcessing(w) \/ StageRow(w)
             \/ SkipDuplicate(w) \/ EndOfStream(w) \/ MarkValidated(w) \/ NotReady(w) \/ Promote(w)
             \/ MarkFailed(w) \/ RejectRow(w) \/ Throw(w)
      PROVE  Doomed(j)'
  <2>1. /\ UNCHANGED running /\ phase[w] # "idle"
        /\ \A v \in Worker \ {w} : phase'[v] = phase[v]
    BY <1>8 DEF CreateManifest, ManifestExists, MarkProcessing, StageRow, SkipDuplicate, NextRow,
                EndOfStream, MarkValidated, NotReady, Promote, MarkFailed, RejectRow,
                Throw, HandlerOnly, workerVars, Answer, Goto, ImportTypeOK
  <2>2. /\ running[w] \in Job /\ HandlerExact(w) /\ ManifestExact(running[w])
    BY <2>1, BusyRunsJob
  <2>3. CASE running[w] # j
    <3>1. manifest'[j] = manifest[j] /\ versions'[j] = versions[j]
      BY <1>8, <2>3 DEF CreateManifest, ManifestExists, MarkProcessing, StageRow,
                        SkipDuplicate, EndOfStream, MarkValidated, NotReady, Promote, MarkFailed,
                        RejectRow, Throw, SetManifest, ImportTypeOK
    <3>2. QED
      BY <1>2, <2>1, <2>3, <3>1 DEF Doomed
  <2>4. CASE running[w] = j /\ versions[j] # SnapshotKeys(j)
    <3>1. CASE StageRow(w)
      <4>1. /\ manifest' = manifest
            /\ phase[w] = "staging" /\ phase'[w] \in {"staged", "failing"}
            /\ manifest[j] = "processing"
        BY <2>2, <2>4, <3>1
           DEF StageRow, NextRow, Answer, Goto, ImportTypeOK, HandlerExact
      <4>2. \A v \in Worker \ {w} : running[v] = j => ~HoldsManifest(v)
        BY <2>4, <4>1 DEF OneHandlerPerManifest, HoldsManifest
      <4>3. \A v \in Worker : running'[v] = j =>
              phase'[v] \in {"idle", "checking", "staged", "failing", "thrown"}
        BY <2>1, <4>1, <4>2 DEF HoldsManifest, ImportTypeOK, Phase
      <4>4. QED
        BY <1>2, <4>1, <4>3 DEF Doomed
    <3>2. CASE ~StageRow(w)
      BY <1>2, <1>8, <2>4, <3>2
         DEF CreateManifest, ManifestExists, MarkProcessing, SkipDuplicate, EndOfStream,
             MarkValidated,
             NotReady, Promote, MarkFailed, RejectRow, Throw, Doomed
    <3>3. QED
      BY <3>1, <3>2
  <2>5. CASE running[w] = j /\ versions[j] = SnapshotKeys(j)
    <3>1. /\ phase[w] \in {"checking", "staged", "failing", "thrown"}
          /\ manifest[j] \notin {"absent", "promoted"}
      BY <2>1, <2>5 DEF Doomed
    <3>2. /\ versions' = versions /\ phase'[w] \in {"failing", "thrown"}
          /\ manifest'[j] \notin {"absent", "promoted"}
      BY <1>8, <2>5, <3>1
         DEF CreateManifest, ManifestExists, MarkProcessing, StageRow, SkipDuplicate, NextRow,
             EndOfStream, MarkValidated, NotReady, Promote, MarkFailed, RejectRow,
             Throw, SetManifest, Goto, ImportTypeOK
    <3>3. QED
      BY <1>2, <2>1, <2>5, <3>2 DEF Doomed
  <2>6. QED
    BY <2>3, <2>4, <2>5
<1>9. QED
  BY <1>3, <1>4, <1>5, <1>6, <1>7, <1>8 DEF ImportNext, HandlerStep

LEMMA EarlyCancelSticks ==
    ASSUME NEW j \in Job
    PROVE  ImportSpec => [](CancelledEarly(j) => [](manifest[j] # "promoted"))
<1>1. ImportInvariant => (CancelledEarly(j) => Doomed(j)) /\ (Doomed(j) => manifest[j] # "promoted")
  BY DoomedIsUnpublished
<1>2. ImportInvariant /\ [ImportNext]_allVars /\ Doomed(j) => Doomed(j)'
  BY DoomedStays
<1>3. QED
  BY <1>1, <1>2, ImportInvariantHolds, PTL DEF ImportSpec

\* A cancellation requested before the last key of the snapshot is staged
\* prevents the publication for good, whatever retries and takeovers follow.
THEOREM EarlyCancellationHolds == ImportSpec => CancelBeforeLastRowSticks
BY EarlyCancelSticks DEF CancelBeforeLastRowSticks, CancelledEarly

=============================================================================
