------------------------------ MODULE Promotion ------------------------------
(***************************************************************************)
(* Staging and promotion of imports: the tables import_manifests,          *)
(* record_versions, current_records and record_changes, the statements of  *)
(* createPostgresImportStore, and promote_import at the grain of its SQL   *)
(* statements.                                                             *)
(*                                                                         *)
(* promote_import runs as one READ COMMITTED transaction of a database     *)
(* backend: each statement sees what is committed when it starts plus the  *)
(* transaction's own writes.  The backend may roll back before its commit, *)
(* and the client may give up on it (and mark the manifest failed) while   *)
(* it still runs.                                                          *)
(*                                                                         *)
(* A record version is identified by its manifest and key (the unique      *)
(* constraint of record_versions), so current_records maps a key to the    *)
(* manifest whose version is current.  Of a version only the fingerprint   *)
(* is kept: it is all that promotion compares.                             *)
(***************************************************************************)
EXTENDS Naturals

CONSTANTS
    Source,       \* source_id values
    Manifest,     \* ids of import_manifests
    Key,          \* source_record_key values
    Fingerprint,  \* fingerprint values
    Backend,      \* database connections that may run promote_import
    SourceOf,     \* the source_id of each manifest
    Absent,       \* no staged version for a key
    NoManifest,   \* no current record for a key, and a null version id
    Untouched,    \* a key the running transaction has not written
    NoBackend     \* a free lock

ASSUME SourceOfAssumption == SourceOf \in [Manifest -> Source]
ASSUME AbsentAssumption == Absent \notin Fingerprint
ASSUME NoManifestAssumption ==
    NoManifest \notin Manifest /\ Untouched \notin Manifest \cup {NoManifest}
ASSUME NoBackendAssumption == NoBackend \notin Backend

VARIABLES
    manifestStatus,  \* import_manifests.status; "absent" before the insert
    staged,          \* record_versions: the fingerprint staged for each key
    current,         \* current_records, per source and key
    changes,         \* record_changes
    rowLock,         \* the backend that holds a manifest row FOR UPDATE
    sourceLock,      \* the backend that holds the advisory lock of a source
    step,            \* the last statement a backend's promote_import finished
    target,          \* p_import_manifest_id of that call
    overlay,         \* its uncommitted writes to current_records
    logged,          \* its uncommitted inserts into record_changes
    replica          \* history: what a consumer that applies record_changes
                     \* in commit order holds, per source and key

tables == <<manifestStatus, staged, current, changes>>
locks == <<rowLock, sourceLock>>
txn == <<step, target, overlay, logged>>
vars == <<tables, locks, txn, replica>>

Change == [manifest : Manifest, key : Key, type : {"added", "changed", "removed"},
           previous : Manifest \cup {NoManifest}, next : Manifest \cup {NoManifest}]

\* The fingerprint column of the version of key k that manifest m staged, and
\* the dataset readers of current_records see.
FingerprintOf(versions, m, k) == IF m = NoManifest THEN Absent ELSE versions[m][k]
Dataset(s) == [k \in Key |-> FingerprintOf(staged, current[s][k], k)]

\* The current records of s are those of manifest m.
Shows(s, m) ==
    \A k \in Key : current[s][k] = IF staged[m][k] # Absent THEN m ELSE NoManifest

\* current_records of the target's source as the backend's statements see it.
Seen(b) ==
    [k \in Key |-> IF overlay[b][k] # Untouched THEN overlay[b][k]
                   ELSE current[SourceOf[target[b]]][k]]

NoWrites == [k \in Key |-> Untouched]

Init ==
    /\ manifestStatus = [m \in Manifest |-> "absent"]
    /\ staged = [m \in Manifest |-> [k \in Key |-> Absent]]
    /\ current = [s \in Source |-> [k \in Key |-> NoManifest]]
    /\ changes = {}
    /\ rowLock = [m \in Manifest |-> NoBackend]
    /\ sourceLock = [s \in Source |-> NoBackend]
    /\ step = [b \in Backend |-> "idle"]
    /\ target = [b \in Backend |-> NoManifest]
    /\ overlay = [b \in Backend |-> NoWrites]
    /\ logged = [b \in Backend |-> {}]
    /\ replica = [s \in Source |-> [k \in Key |-> Absent]]

-----------------------------------------------------------------------------
(* The import store: one committed statement per action.                   *)

SetStatus(m, value) == manifestStatus' = [manifestStatus EXCEPT ![m] = value]

CreateManifest(m) ==
    /\ manifestStatus[m] = "absent"
    /\ SetStatus(m, "pending")
    /\ UNCHANGED <<staged, current, changes, locks, txn, replica>>

MarkProcessing(m) ==
    /\ manifestStatus[m] = "pending"
    /\ SetStatus(m, "processing")
    /\ UNCHANGED <<staged, current, changes, locks, txn, replica>>

\* One insert per key: a repeated key is skipped before it is staged.  The
\* handler stages between markProcessing and markValidated only.
StageRecord(m, k, f) ==
    /\ manifestStatus[m] = "processing"
    /\ staged[m][k] = Absent
    /\ staged' = [staged EXCEPT ![m][k] = f]
    /\ UNCHANGED <<manifestStatus, current, changes, locks, txn, replica>>

MarkValidated(m) ==
    /\ manifestStatus[m] = "processing"
    /\ SetStatus(m, "validated")
    /\ UNCHANGED <<staged, current, changes, locks, txn, replica>>

\* Faulty (here and below): forms the next definition must not have, used only
\* to show that a property fails.
FaultyMarkFailedAnyStatus(m) ==
    /\ rowLock[m] = NoBackend
    /\ SetStatus(m, "failed")
    /\ UNCHANGED <<staged, current, changes, locks, txn, replica>>

\* markFailed, from the handler's catch block.  When the client gave up on a
\* promote_import that still runs, the update waits for the row lock and then
\* re-evaluates its status filter.
MarkFailed(m) ==
    /\ rowLock[m] = NoBackend
    /\ manifestStatus[m] \in {"pending", "processing", "validated"}
    /\ SetStatus(m, "failed")
    /\ UNCHANGED <<staged, current, changes, locks, txn, replica>>

-----------------------------------------------------------------------------
(* promote_import.                                                         *)

FaultyLockManifestAnyStatus(b, m) ==
    /\ step[b] = "idle"
    /\ rowLock[m] = NoBackend
    /\ rowLock' = [rowLock EXCEPT ![m] = b]
    /\ step' = [step EXCEPT ![b] = "manifest locked"]
    /\ target' = [target EXCEPT ![b] = m]
    /\ UNCHANGED <<tables, sourceLock, overlay, logged, replica>>

\* select ... for update waits for the row, then the status is checked; a
\* manifest in another status raises and the transaction ends unchanged.
LockManifest(b, m) ==
    /\ step[b] = "idle"
    /\ rowLock[m] = NoBackend
    /\ manifestStatus[m] = "validated"
    /\ rowLock' = [rowLock EXCEPT ![m] = b]
    /\ step' = [step EXCEPT ![b] = "manifest locked"]
    /\ target' = [target EXCEPT ![b] = m]
    /\ UNCHANGED <<tables, sourceLock, overlay, logged, replica>>

FaultyLockSourceNoWait(b) ==
    /\ step[b] = "manifest locked"
    /\ step' = [step EXCEPT ![b] = "source locked"]
    /\ UNCHANGED <<tables, locks, target, overlay, logged, replica>>

\* pg_advisory_xact_lock on the source.
LockSource(b) ==
    LET s == SourceOf[target[b]] IN
    /\ step[b] = "manifest locked"
    /\ sourceLock[s] = NoBackend
    /\ sourceLock' = [sourceLock EXCEPT ![s] = b]
    /\ step' = [step EXCEPT ![b] = "source locked"]
    /\ UNCHANGED <<tables, rowLock, target, overlay, logged, replica>>

\* The rows of the first insert into record_changes: keys staged by the
\* manifest whose current version is missing or has another fingerprint.
AddedOrChanged(versions, m, seen) ==
    {[manifest |-> m, key |-> k,
      type |-> IF seen[k] = NoManifest THEN "added" ELSE "changed",
      previous |-> seen[k], next |-> m] :
     k \in {x \in Key : /\ versions[m][x] # Absent
                        /\ FingerprintOf(versions, seen[x], x) # versions[m][x]}}

FaultyRemovedType(versions, m, seen) ==
    {[manifest |-> m, key |-> k, type |-> "deleted",
      previous |-> seen[k], next |-> NoManifest] :
     k \in {x \in Key : seen[x] # NoManifest /\ versions[m][x] = Absent}}

\* The rows of the second insert: current keys the manifest does not have.
Removed(versions, m, seen) ==
    {[manifest |-> m, key |-> k, type |-> "removed",
      previous |-> seen[k], next |-> NoManifest] :
     k \in {x \in Key : seen[x] # NoManifest /\ versions[m][x] = Absent}}

LogAddedAndChanged(b) ==
    /\ step[b] = "source locked"
    /\ logged' = [logged EXCEPT ![b] = AddedOrChanged(staged, target[b], Seen(b))]
    /\ step' = [step EXCEPT ![b] = "additions logged"]
    /\ UNCHANGED <<tables, locks, target, overlay, replica>>

LogRemoved(b) ==
    /\ step[b] = "additions logged"
    /\ logged' = [logged EXCEPT ![b] = @ \cup Removed(staged, target[b], Seen(b))]
    /\ step' = [step EXCEPT ![b] = "removals logged"]
    /\ UNCHANGED <<tables, locks, target, overlay, replica>>

\* insert into current_records ... on conflict do update.
UpsertCurrent(b) ==
    LET m == target[b] IN
    /\ step[b] = "removals logged"
    /\ overlay' = [overlay EXCEPT ![b] =
          [k \in Key |-> IF staged[m][k] # Absent THEN m ELSE @[k]]]
    /\ step' = [step EXCEPT ![b] = "upserted"]
    /\ UNCHANGED <<tables, locks, target, logged, replica>>

FaultyDeleteNothing(b) ==
    /\ step[b] = "upserted"
    /\ step' = [step EXCEPT ![b] = "others deleted"]
    /\ UNCHANGED <<tables, locks, target, overlay, logged, replica>>

\* delete from current_records the rows of other manifests.
DeleteOthers(b) ==
    LET m == target[b] IN
    /\ step[b] = "upserted"
    /\ overlay' = [overlay EXCEPT ![b] =
          [k \in Key |-> IF Seen(b)[k] \notin {m, NoManifest} THEN NoManifest ELSE @[k]]]
    /\ step' = [step EXCEPT ![b] = "others deleted"]
    /\ UNCHANGED <<tables, locks, target, logged, replica>>

\* A session-level advisory lock outlives the transaction.
FaultyReleaseKeepsSourceLock(b) ==
    /\ rowLock' = [m \in Manifest |-> IF rowLock[m] = b THEN NoBackend ELSE rowLock[m]]
    /\ sourceLock' = sourceLock
    /\ step' = [step EXCEPT ![b] = "idle"]
    /\ target' = [target EXCEPT ![b] = NoManifest]
    /\ overlay' = [overlay EXCEPT ![b] = NoWrites]
    /\ logged' = [logged EXCEPT ![b] = {}]

\* The end of a transaction: its locks go, and its private state.
ReleaseLocks(b) ==
    /\ rowLock' = [m \in Manifest |-> IF rowLock[m] = b THEN NoBackend ELSE rowLock[m]]
    /\ sourceLock' = [s \in Source |-> IF sourceLock[s] = b THEN NoBackend ELSE sourceLock[s]]
    /\ step' = [step EXCEPT ![b] = "idle"]
    /\ target' = [target EXCEPT ![b] = NoManifest]
    /\ overlay' = [overlay EXCEPT ![b] = NoWrites]
    /\ logged' = [logged EXCEPT ![b] = {}]

\* What applying the transaction's change records makes of a replica's key.
Replayed(b, k, old) ==
    LET records == {c \in logged[b] : c.key = k} IN
    IF records = {} THEN old
    ELSE FingerprintOf(staged, (CHOOSE c \in records : TRUE).next, k)

\* update import_manifests set status = 'promoted', and the commit.
Commit(b) ==
    LET m == target[b]  s == SourceOf[target[b]] IN
    /\ step[b] = "others deleted"
    /\ SetStatus(m, "promoted")
    /\ current' = [current EXCEPT ![s] = Seen(b)]
    /\ changes' = changes \cup logged[b]
    /\ replica' = [replica EXCEPT ![s] = [k \in Key |-> Replayed(b, k, @[k])]]
    /\ ReleaseLocks(b)
    /\ UNCHANGED staged

\* A statement fails or the server loses the connection before the commit.
Rollback(b) ==
    /\ step[b] # "idle"
    /\ ReleaseLocks(b)
    /\ UNCHANGED <<tables, replica>>

Statement(b) ==
    \/ LogAddedAndChanged(b) \/ LogRemoved(b) \/ UpsertCurrent(b)
    \/ DeleteOthers(b) \/ Commit(b)

Next ==
    \/ \E m \in Manifest :
        \/ CreateManifest(m) \/ MarkProcessing(m) \/ MarkValidated(m) \/ MarkFailed(m)
        \/ \E k \in Key, f \in Fingerprint : StageRecord(m, k, f)
        \/ \E b \in Backend : LockManifest(b, m)
    \/ \E b \in Backend : LockSource(b) \/ Statement(b) \/ Rollback(b)

Spec == Init /\ [][Next]_vars

\* A running statement completes, and Postgres queues the waiters of an
\* advisory lock, so a lock that keeps being released is eventually granted.
FairSpec ==
    /\ Spec
    /\ \A b \in Backend : WF_vars(Statement(b)) /\ SF_vars(LockSource(b))

-----------------------------------------------------------------------------
(* Properties.                                                             *)

Step == {"idle", "manifest locked", "source locked", "additions logged",
         "removals logged", "upserted", "others deleted"}

\* Tables, locks and transaction state stay in their domains.
TypeOK ==
    /\ manifestStatus \in [Manifest ->
          {"absent", "pending", "processing", "validated", "promoted", "failed"}]
    /\ staged \in [Manifest -> [Key -> Fingerprint \cup {Absent}]]
    /\ current \in [Source -> [Key -> Manifest \cup {NoManifest}]]
    /\ changes \subseteq Change
    /\ rowLock \in [Manifest -> Backend \cup {NoBackend}]
    /\ sourceLock \in [Source -> Backend \cup {NoBackend}]
    /\ step \in [Backend -> Step]
    /\ target \in [Backend -> Manifest \cup {NoManifest}]
    /\ overlay \in [Backend -> [Key -> Manifest \cup {NoManifest, Untouched}]]
    /\ logged \in [Backend -> SUBSET Change]
    /\ replica \in [Source -> [Key -> Fingerprint \cup {Absent}]]

\* The current dataset of a source is nothing, or the whole of one promoted
\* manifest of that source: promote_import never leaves a mixture.
CurrentIsOneManifest ==
    \A s \in Source :
        \/ \A k \in Key : current[s][k] = NoManifest
        \/ \E m \in Manifest :
            manifestStatus[m] = "promoted" /\ SourceOf[m] = s /\ Shows(s, m)

\* record_changes is a complete history: replaying it in commit order yields
\* the fingerprints of current_records, also when promotions overlap.
ChangeLogReplays == \A s \in Source : replica[s] = Dataset(s)

\* A manifest marked failed has published nothing, also when the failure is
\* recorded while its promotion is still running.
FailedPublishesNothing ==
    \A m \in Manifest : manifestStatus[m] = "failed" =>
        /\ \A s \in Source, k \in Key : current[s][k] # m
        /\ \A c \in changes : c.manifest # m

\* Every promote_import call ends: its locks, the manifest row before the
\* source, cannot make two calls wait for each other.
PromotionEnds == \A b \in Backend : step[b] # "idle" ~> step[b] = "idle"

\* Promotion implements the dataset promise: the statements of a transaction
\* are invisible and its commit is one Publish.
Abstract == INSTANCE SourceDataset WITH
    dataset <- [s \in Source |-> Dataset(s)],
    published <- {m \in Manifest : manifestStatus[m] = "promoted"},
    feed <- {[manifest |-> c.manifest, key |-> c.key, type |-> c.type] : c \in changes}

ImplementsDataset == Abstract!Spec

=============================================================================
