---------------------------- MODULE ImportWorker ----------------------------
(***************************************************************************)
(* The snapshot import handler (createSnapshotImportHandler) running inside *)
(* the worker loop of JobQueue: every database call of the handler is a     *)
(* step of its own, so it interleaves with the heartbeat timer, with        *)
(* operators and with other workers that take the job over.                 *)
(*                                                                         *)
(* enqueue_snapshot_import creates one job per snapshot, adapter package    *)
(* and adapter version, and import_manifests is unique on the same columns: *)
(* the manifest of an import is indexed by its job.  promote_import is one  *)
(* step here; Promotion shows that it may be.                               *)
(***************************************************************************)
EXTENDS JobQueue, Sequences

CONSTANTS
    Key,    \* values of source_record_key
    Rows,   \* the snapshot of each job: the key of every row, once normalized
    Faults  \* which of AllFaults may happen

\* "crash": a worker process dies.  "statement": a database call rejects, with
\* or without effect.  "source": a row does not normalize, the stream breaks,
\* the snapshot or storage check fails.  "shutdown": SIGTERM.
AllFaults == {"crash", "statement", "source", "shutdown"}

ASSUME RowsAssumption == Rows \in [Job -> Seq(Key)]
ASSUME FaultsAssumption == Faults \subseteq AllFaults

VARIABLES
    manifest,  \* import_manifests.status; "absent" before the insert
    versions,  \* the keys of its record_versions, of which each is unique
    phase,     \* where the handler of each worker stands
    read,      \* rows that handler has taken from the stream
    seen,      \* its seenKeys
    rejected   \* its errorCount > 0

importVars == <<manifest, versions, phase, read, seen, rejected>>
allVars == <<vars, importVars>>

\* "thrown" is the catch block of runOnce, "failing" that of the handler.
Phase == {"idle", "checking", "created", "staging", "staged", "verifying",
          "validated", "returned", "failing", "thrown"}

ImportInit ==
    /\ Init
    /\ manifest = [j \in Job |-> "absent"]
    /\ versions = [j \in Job |-> {}]
    /\ phase = [w \in Worker |-> "idle"]
    /\ read = [w \in Worker |-> 0]
    /\ seen = [w \in Worker |-> {}]
    /\ rejected = [w \in Worker |-> FALSE]

-----------------------------------------------------------------------------

Goto(w, p) == phase' = [phase EXCEPT ![w] = p]

\* A statement took effect: its answer arrives, or the call rejects.
Answer(w, ok, error) ==
    Goto(w, ok) \/ ("statement" \in Faults /\ Goto(w, error))

SetManifest(w, value) == manifest' = [manifest EXCEPT ![running[w]] = value]

\* The handler reads and stages; the queue row and the worker loop wait.
HandlerOnly == UNCHANGED <<rowVars, workerVars>>

StartImport(w, skipped) ==
    /\ Claim(w, skipped)
    /\ Goto(w, "checking")
    /\ read' = [read EXCEPT ![w] = 0]
    /\ seen' = [seen EXCEPT ![w] = {}]
    /\ rejected' = [rejected EXCEPT ![w] = FALSE]
    /\ UNCHANGED <<manifest, versions>>

FaultyCreateManifestUpsert(w) ==
    /\ phase[w] = "checking"
    /\ SetManifest(w, "pending")
    /\ Answer(w, "created", "thrown")
    /\ HandlerOnly /\ UNCHANGED <<versions, read, seen, rejected>>

\* Outside the handler's try block: an error goes straight to runOnce.
CreateManifest(w) ==
    /\ phase[w] = "checking" /\ manifest[running[w]] = "absent"
    /\ SetManifest(w, "pending")
    /\ Answer(w, "created", "thrown")
    /\ HandlerOnly /\ UNCHANGED <<versions, read, seen, rejected>>

FaultyManifestExistsWaits(w) ==
    /\ phase[w] = "checking" /\ manifest[running[w]] \in {"promoted", "failed"}
    /\ Goto(w, "thrown")
    /\ HandlerOnly /\ UNCHANGED <<manifest, versions, read, seen, rejected>>

\* The insert violates the unique constraint of import_manifests.
ManifestExists(w) ==
    /\ phase[w] = "checking" /\ manifest[running[w]] # "absent"
    /\ Goto(w, "thrown")
    /\ HandlerOnly /\ UNCHANGED <<manifest, versions, read, seen, rejected>>

MarkProcessing(w) ==
    /\ phase[w] = "created"
    /\ SetManifest(w, "processing")
    /\ Answer(w, "staging", "thrown")
    /\ HandlerOnly /\ UNCHANGED <<versions, read, seen, rejected>>

\* The stream yields another row and the handler does not see its signal.
NextRow(w) ==
    /\ phase[w] = "staging" /\ ~aborted[w]
    /\ read[w] < Len(Rows[running[w]])

NextKey(w) == Rows[running[w]][read[w] + 1]

\* The first row of a key becomes a record version.
StageRow(w) ==
    /\ NextRow(w) /\ NextKey(w) \notin seen[w]
    /\ seen' = [seen EXCEPT ![w] = @ \cup {NextKey(w)}]
    /\ versions' = [versions EXCEPT ![running[w]] = @ \cup {NextKey(w)}]
    /\ read' = [read EXCEPT ![w] = @ + 1]
    /\ Answer(w, "staged", "failing")
    /\ HandlerOnly /\ UNCHANGED <<manifest, rejected>>

\* Another row of a key is only warned of: nothing is staged, no heartbeat
\* follows, and the import may still be promoted.
SkipDuplicate(w) ==
    /\ NextRow(w) /\ NextKey(w) \in seen[w]
    /\ read' = [read EXCEPT ![w] = @ + 1]
    /\ HandlerOnly /\ UNCHANGED <<manifest, versions, phase, seen, rejected>>

\* A row that does not normalize is left out when the import is not strict (a
\* strict import throws), and its key is not remembered; so is one that the
\* stream reports as an error instead of yielding it.
RejectRow(w) ==
    /\ NextRow(w) /\ "source" \in Faults
    /\ read' = [read EXCEPT ![w] = @ + 1]
    /\ rejected' = [rejected EXCEPT ![w] = TRUE]
    /\ HandlerOnly /\ UNCHANGED <<manifest, versions, phase, seen>>

FaultyNoRowHeartbeat(w) ==
    /\ phase[w] = "staged"
    /\ Goto(w, "staging")
    /\ HandlerOnly /\ UNCHANGED <<manifest, versions, read, seen, rejected>>

\* context.heartbeat() after each staged row throws when the job was lost.
RowHeartbeat(w) ==
    /\ phase[w] = "staged"
    /\ Heartbeat(w)
    /\ Goto(w, IF CanHeartbeat(w, running[w]) THEN "staging" ELSE "failing")
    /\ UNCHANGED <<manifest, versions, read, seen, rejected>>

\* The stream ends; the signal is not looked at again.
EndOfStream(w) ==
    /\ phase[w] = "staging" /\ read[w] = Len(Rows[running[w]])
    /\ Goto(w, "verifying")
    /\ HandlerOnly /\ UNCHANGED <<manifest, versions, read, seen, rejected>>

FaultyMarkValidatedUnchecked(w) ==
    /\ phase[w] = "verifying"
    /\ SetManifest(w, "validated")
    /\ Answer(w, "validated", "failing")
    /\ HandlerOnly /\ UNCHANGED <<versions, read, seen, rejected>>

\* The second snapshot check passed and so did assertPromotionReady.
MarkValidated(w) ==
    /\ phase[w] = "verifying" /\ ~rejected[w]
    /\ SetManifest(w, "validated")
    /\ Answer(w, "validated", "failing")
    /\ HandlerOnly /\ UNCHANGED <<versions, read, seen, rejected>>

\* assertPromotionReady refuses an import with errors.
NotReady(w) ==
    /\ phase[w] = "verifying" /\ rejected[w]
    /\ Goto(w, "failing")
    /\ HandlerOnly /\ UNCHANGED <<manifest, versions, read, seen, rejected>>

Promote(w) ==
    /\ phase[w] = "validated"
    /\ SetManifest(w, "promoted")
    /\ Answer(w, "returned", "failing")
    /\ HandlerOnly /\ UNCHANGED <<versions, read, seen, rejected>>

FaultyMarkFailedRejects(w) ==
    /\ phase[w] = "failing"
    /\ SetManifest(w, IF manifest[running[w]] = "promoted" THEN "promoted" ELSE "rejected")
    /\ Goto(w, "thrown")
    /\ HandlerOnly /\ UNCHANGED <<versions, read, seen, rejected>>

FaultyMarkFailedSwallows(w) ==
    /\ phase[w] = "failing"
    /\ SetManifest(w, IF manifest[running[w]] = "promoted" THEN "promoted" ELSE "failed")
    /\ Goto(w, "returned")
    /\ HandlerOnly /\ UNCHANGED <<versions, read, seen, rejected>>

\* The catch block of the handler; markFailed spares a promoted manifest.
MarkFailed(w) ==
    /\ phase[w] = "failing"
    /\ SetManifest(w, IF manifest[running[w]] = "promoted" THEN "promoted" ELSE "failed")
    /\ Goto(w, "thrown")
    /\ HandlerOnly /\ UNCHANGED <<versions, read, seen, rejected>>

\* Something throws without effect: an aborted signal seen by the handler, the
\* stream or the archive client, a source fault, or a rejected statement
\* (markFailed and complete_worker_job included).
Throw(w) ==
    /\ \/ "statement" \in Faults /\ phase[w] \in Phase \ {"idle", "thrown"}
       \/ "source" \in Faults /\ phase[w] \in {"checking", "staging", "verifying"}
       \/ aborted[w] /\ phase[w] \in {"checking", "staging", "verifying"}
    /\ Goto(w, IF phase[w] \in {"staging", "staged", "verifying", "validated"}
               THEN "failing" ELSE "thrown")
    /\ HandlerOnly /\ UNCHANGED <<manifest, versions, read, seen, rejected>>

ReturnResult(w) ==
    /\ phase[w] = "returned"
    /\ \/ Complete(w) /\ Goto(w, "idle")
       \/ "statement" \in Faults /\ CompleteUnheard(w) /\ Goto(w, "thrown")
    /\ UNCHANGED <<manifest, versions, read, seen, rejected>>

FaultyRecordFailureOfAnyone(w) ==
    /\ phase[w] = "thrown"
    /\ status' = [status EXCEPT ![running[w]] = "failed"]
    /\ Release(w) /\ Goto(w, "idle")
    /\ UNCHANGED <<attempts, lockedBy, scheduledAt, ticket, silence, cancelRequested,
                   manifest, versions, read, seen, rejected>>

RecordFailure(w) ==
    /\ phase[w] = "thrown"
    /\ Fail(w) /\ Goto(w, "idle")
    /\ UNCHANGED <<manifest, versions, read, seen, rejected>>

ProcessDies(w) ==
    /\ "crash" \in Faults
    /\ Crash(w) /\ Goto(w, "idle")
    /\ UNCHANGED <<manifest, versions, read, seen, rejected>>

\* The heartbeat timer and SIGTERM, at any point of the handler.
TimerHeartbeat(w) == Heartbeat(w) /\ UNCHANGED importVars
Stop(w) == "shutdown" \in Faults /\ Abort(w) /\ UNCHANGED importVars

HandlerStep(w) ==
    \/ CreateManifest(w) \/ ManifestExists(w) \/ MarkProcessing(w)
    \/ StageRow(w) \/ SkipDuplicate(w) \/ RowHeartbeat(w) \/ EndOfStream(w)
    \/ MarkValidated(w) \/ NotReady(w) \/ Promote(w) \/ MarkFailed(w)
    \/ ReturnResult(w) \/ RecordFailure(w)
    \/ aborted[w] /\ Throw(w)

\* Enqueueing, operators and the clock do not touch imports.
Environment ==
    /\ Tick \/ \E j \in Job : Enqueue(j) \/ RequestCancel(j) \/ RequeueFailed(j)
    /\ UNCHANGED importVars

ImportNext ==
    \/ Environment
    \/ \E w \in Worker :
        \/ \E skipped \in SUBSET Job : StartImport(w, skipped)
        \/ HandlerStep(w) \/ RejectRow(w) \/ Throw(w)
        \/ TimerHeartbeat(w) \/ Stop(w) \/ ProcessDies(w)

ImportSpec == ImportInit /\ [][ImportNext]_allVars

\* A poll that meets no locked row eventually happens, and a handler that is
\* not waiting for anything but a finite call goes on.
FairImportSpec ==
    /\ ImportSpec
    /\ WF_allVars(\E w \in Worker : StartImport(w, {}))
    /\ \A w \in Worker : WF_allVars(HandlerStep(w))

-----------------------------------------------------------------------------
(* Properties.                                                             *)

\* The keys of the first rows of a snapshot, and of all its rows.
KeysUpTo(j, n) == {Rows[j][i] : i \in 1..n}
SnapshotKeys(j) == KeysUpTo(j, Len(Rows[j]))

\* Handlers and manifests stay in their domains; a manifest never holds a key
\* that is not in its snapshot.
ImportTypeOK ==
    /\ manifest \in [Job -> {"absent", "pending", "processing", "validated",
                             "promoted", "failed"}]
    /\ versions \in [Job -> SUBSET Key]
    /\ \A j \in Job : versions[j] \subseteq SnapshotKeys(j)
    /\ phase \in [Worker -> Phase]
    /\ read \in [Worker -> Nat]
    /\ seen \in [Worker -> SUBSET Key]
    /\ rejected \in [Worker -> BOOLEAN]

\* A job reported completed has published its import, whatever its workers
\* lost, aborted or repeated.
CompletedMeansPromoted ==
    \A j \in Job : status[j] = "completed" => manifest[j] = "promoted"

\* A promoted manifest holds a version of every key of its snapshot: neither a
\* row that was left out nor an interrupted attempt leads to a partial
\* publication, and a skipped duplicate costs no key.
PromotedIsWhole ==
    \A j \in Job : manifest[j] = "promoted" => versions[j] = SnapshotKeys(j)

\* Phases in which a handler may write to the manifest of its job.
HoldsManifest(w) ==
    phase[w] \in {"created", "staging", "staged", "verifying", "validated",
                  "returned", "failing"}

\* Two attempts at one job, the former owner still at work, never write to one
\* manifest: the unique constraint keeps the second out.
OneHandlerPerManifest ==
    \A v, w \in Worker :
        HoldsManifest(v) /\ HoldsManifest(w) /\ running[v] = running[w] => v = w

\* A cancellation requested while a key of the snapshot is still to be staged
\* prevents the publication, also across attempts and requeues.  The heartbeat
\* behind the last staged row is the last look at it: duplicates that follow
\* that row do not delay the promotion.
CancelBeforeLastRowSticks ==
    \A j \in Job :
        [](cancelRequested[j] /\ versions[j] # SnapshotKeys(j)
            => [](manifest[j] # "promoted"))

\* As far as the queue can tell, the handler is the arbitrary computation
\* JobQueue takes it for.
ImplementsQueue == Spec

\* Nobody works on a job that is still processing: its worker died.
Abandoned(j) == status[j] = "processing" /\ \A w \in Worker : running[w] # j

\* Every enqueued import is settled, or abandoned by a process that died:
\* heartbeats, lapsed leases, takeovers and manifests left by earlier attempts
\* cannot keep a living worker on it.
JobSettles ==
    \A j \in Job :
        status[j] = "pending" ~>
            \/ status[j] \in {"completed", "cancelled", "failed", "dead_letter"}
            \/ Abandoned(j)

\* docs/ingestion.md: "Worker retries must preserve the manifest and snapshot
\* identifiers": a retry that finds the manifest of its job, with no other
\* handler at work on it, carries on with it.
RetryKeepsManifest ==
    [][\A w \in Worker :
        (/\ phase[w] = "checking" /\ runAttempt[w] > 1
         /\ manifest[running[w]] # "absent"
         /\ \A v \in Worker \ {w} : running[v] # running[w])
            => phase'[w] \in {"checking", "created", "idle"}]_allVars

\* docs/security-threat-model.md: "Failed imports never replace valid current
\* data": a job reported failed has not published.
FailedLeavesDataset ==
    \A j \in Job : status[j] \in {"failed", "dead_letter"} => manifest[j] # "promoted"

=============================================================================
