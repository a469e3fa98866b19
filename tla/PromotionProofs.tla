--------------------------- MODULE PromotionProofs ---------------------------
(***************************************************************************)
(* Proofs about promotion for any sets of sources, manifests, keys,        *)
(* fingerprints and database connections.                                  *)
(***************************************************************************)
EXTENDS Promotion, TLAPS

\* What a running promote_import relies on at each statement: its manifest row
\* is locked and still validated, and past the advisory lock the committed
\* dataset of its source does not move, so what it logged and wrote is exact.
Active(b) == step[b] # "idle"
HasSourceLock(b) == step[b] \notin {"idle", "manifest locked"}
HasRemovals(b) == step[b] \in {"removals logged", "upserted", "others deleted"}

LocksHeld(b) ==
    /\ Active(b) => /\ target[b] \in Manifest
                    /\ rowLock[target[b]] = b
                    /\ manifestStatus[target[b]] = "validated"
    /\ HasSourceLock(b) => sourceLock[SourceOf[target[b]]] = b

OverlayExact(b) ==
    /\ step[b] \notin {"upserted", "others deleted"} => overlay[b] = NoWrites
    /\ step[b] = "upserted" =>
          \A k \in Key : overlay[b][k] =
              IF staged[target[b]][k] # Absent THEN target[b] ELSE Untouched
    /\ step[b] = "others deleted" =>
          \A k \in Key : Seen(b)[k] =
              IF staged[target[b]][k] # Absent THEN target[b] ELSE NoManifest

LogExact(b) ==
    LET m == target[b]  cur == current[SourceOf[target[b]]] IN
    /\ step[b] = "additions logged" => logged[b] = AddedOrChanged(staged, m, cur)
    /\ HasRemovals(b) => logged[b] = AddedOrChanged(staged, m, cur)
                                     \cup Removed(staged, m, cur)

TransactionExact(b) == LocksHeld(b) /\ OverlayExact(b) /\ LogExact(b)
TransactionInvariant == \A b \in Backend : TransactionExact(b)

\* Only promoted manifests have change records.
ChangesArePromoted ==
    \A c \in changes : manifestStatus[c.manifest] = "promoted"

TableInvariant == CurrentIsOneManifest /\ ChangeLogReplays /\ ChangesArePromoted

PromotionInvariant == TypeOK /\ TransactionInvariant /\ TableInvariant

-----------------------------------------------------------------------------
(* Type correctness.                                                       *)

LEMMA RecordsAreChanges ==
    ASSUME NEW m \in Manifest, NEW seen \in [Key -> Manifest \cup {NoManifest}],
           NEW versions
    PROVE  AddedOrChanged(versions, m, seen) \subseteq Change
           /\ Removed(versions, m, seen) \subseteq Change
BY DEF AddedOrChanged, Removed, Change

LEMMA SeenType ==
    ASSUME TypeOK, NEW b \in Backend, target[b] \in Manifest
    PROVE  Seen(b) \in [Key -> Manifest \cup {NoManifest}]
BY SourceOfAssumption, NoManifestAssumption DEF TypeOK, Seen

LEMMA FingerprintType ==
    ASSUME TypeOK, NEW m \in Manifest \cup {NoManifest}, NEW k \in Key
    PROVE  FingerprintOf(staged, m, k) \in Fingerprint \cup {Absent}
BY DEF TypeOK, FingerprintOf

LEMMA ReplayedType ==
    ASSUME TypeOK, NEW b \in Backend, NEW k \in Key,
           NEW old \in Fingerprint \cup {Absent}
    PROVE  Replayed(b, k, old) \in Fingerprint \cup {Absent}
<1> DEFINE records == {c \in logged[b] : c.key = k}
<1>1. CASE records = {}
  BY <1>1 DEF Replayed
<1>2. CASE records # {}
  <2>1. (CHOOSE c \in records : TRUE) \in records
    BY <1>2
  <2>2. (CHOOSE c \in records : TRUE).next \in Manifest \cup {NoManifest}
    BY <2>1 DEF TypeOK, Change
  <2>3. QED
    BY <1>2, <2>2, FingerprintType DEF Replayed
<1>3. QED
  BY <1>1, <1>2

LEMMA StatementTypeOK ==
    ASSUME TypeOK, NEW b \in Backend, LocksHeld(b), Statement(b)
    PROVE  TypeOK'
<1>0. target[b] \in Manifest
  BY DEF Statement, LogAddedAndChanged, LogRemoved, UpsertCurrent, DeleteOthers,
         Commit, LocksHeld, Active
<1>1. CASE LogAddedAndChanged(b)
  <2>1. AddedOrChanged(staged, target[b], Seen(b)) \subseteq Change
    BY <1>0, SeenType, RecordsAreChanges
  <2>2. QED
    BY <1>1, <2>1 DEF LogAddedAndChanged, TypeOK, Step, tables, locks
<1>2. CASE LogRemoved(b)
  <2>1. Removed(staged, target[b], Seen(b)) \subseteq Change
    BY <1>0, SeenType, RecordsAreChanges
  <2>2. QED
    BY <1>2, <2>1 DEF LogRemoved, TypeOK, Step, tables, locks
<1>3. CASE UpsertCurrent(b)
  BY <1>0, <1>3 DEF UpsertCurrent, TypeOK, Step, tables, locks
<1>4. CASE DeleteOthers(b)
  BY <1>0, <1>4 DEF DeleteOthers, TypeOK, Step, tables, locks
<1>5. CASE Commit(b)
  <2> DEFINE s == SourceOf[target[b]]
  <2>1. s \in Source
    BY <1>0, SourceOfAssumption
  <2>2. Seen(b) \in [Key -> Manifest \cup {NoManifest}]
    BY <1>0, SeenType
  <2>3. \A k \in Key : Replayed(b, k, replica[s][k]) \in Fingerprint \cup {Absent}
    BY <2>1, ReplayedType DEF TypeOK
  <2>4. replica' \in [Source -> [Key -> Fingerprint \cup {Absent}]]
    BY <1>5, <2>1, <2>3 DEF Commit, TypeOK
  <2>5. /\ manifestStatus' \in [Manifest ->
              {"absent", "pending", "processing", "validated", "promoted", "failed"}]
        /\ current' \in [Source -> [Key -> Manifest \cup {NoManifest}]]
        /\ changes' \subseteq Change
    BY <1>0, <1>5, <2>1, <2>2 DEF Commit, SetStatus, TypeOK
  <2>6. QED
    BY <1>5, <2>4, <2>5 DEF Commit, ReleaseLocks, NoWrites, TypeOK, Step
<1>6. QED
  BY <1>1, <1>2, <1>3, <1>4, <1>5 DEF Statement

LEMMA NextTypeOK == TypeOK /\ TransactionInvariant /\ [Next]_vars => TypeOK'
<1> SUFFICES ASSUME TypeOK, TransactionInvariant, [Next]_vars PROVE TypeOK'
  OBVIOUS
<1>1. ASSUME NEW m \in Manifest,
             CreateManifest(m) \/ MarkProcessing(m) \/ MarkValidated(m) \/ MarkFailed(m)
      PROVE  TypeOK'
  BY <1>1 DEF CreateManifest, MarkProcessing, MarkValidated, MarkFailed, SetStatus,
              TypeOK, locks, txn
<1>2. ASSUME NEW m \in Manifest, NEW k \in Key, NEW f \in Fingerprint,
             StageRecord(m, k, f)
      PROVE  TypeOK'
  BY <1>2 DEF StageRecord, TypeOK, locks, txn
<1>3. ASSUME NEW m \in Manifest, NEW b \in Backend, LockManifest(b, m)
      PROVE  TypeOK'
  BY <1>3 DEF LockManifest, TypeOK, Step, tables
<1>4. ASSUME NEW b \in Backend, LockSource(b)
      PROVE  TypeOK'
  BY <1>4 DEF LockSource, TypeOK, Step, tables
<1>5. ASSUME NEW b \in Backend, Rollback(b)
      PROVE  TypeOK'
  BY <1>5 DEF Rollback, ReleaseLocks, NoWrites, TypeOK, Step, tables
<1>6. CASE UNCHANGED vars
  BY <1>6 DEF TypeOK, vars, tables, locks, txn
<1>7. QED
  BY <1>1, <1>2, <1>3, <1>4, <1>5, <1>6, StatementTypeOK
     DEF Next, TransactionInvariant, TransactionExact

-----------------------------------------------------------------------------
(* The invariant.                                                          *)

LEMMA InitPromotionInvariant == Init => PromotionInvariant
<1> SUFFICES ASSUME Init PROVE PromotionInvariant
  OBVIOUS
<1>1. TypeOK
  BY SourceOfAssumption DEF Init, TypeOK, Step, NoWrites
<1>2. TransactionInvariant
  BY DEF Init, TransactionInvariant, TransactionExact, LocksHeld, OverlayExact,
         LogExact, Active, HasSourceLock, HasRemovals
<1>3. CurrentIsOneManifest /\ ChangesArePromoted
  BY DEF Init, CurrentIsOneManifest, ChangesArePromoted
<1>4. ChangeLogReplays
  BY DEF Init, ChangeLogReplays, Dataset, FingerprintOf
<1>5. QED
  BY <1>1, <1>2, <1>3, <1>4 DEF PromotionInvariant, TableInvariant

\* A step that leaves the tables alone leaves their invariant alone.
LEMMA TablesUnchanged ==
    ASSUME TableInvariant, UNCHANGED <<tables, replica>>
    PROVE  TableInvariant'
<1>1. CurrentIsOneManifest'
  BY DEF TableInvariant, CurrentIsOneManifest, Shows, tables
<1>2. ChangeLogReplays'
  BY DEF TableInvariant, ChangeLogReplays, Dataset, tables
<1>3. ChangesArePromoted'
  BY DEF TableInvariant, ChangesArePromoted, tables
<1>4. QED
  BY <1>1, <1>2, <1>3 DEF TableInvariant

\* The logged records only read the versions of the manifest and of the
\* manifests that are current.
LEMMA RecordsReadOnly ==
    ASSUME NEW v1, NEW v2, NEW m, NEW seen, v1[m] = v2[m],
           \A k \in Key : seen[k] # NoManifest => v1[seen[k]] = v2[seen[k]]
    PROVE  /\ AddedOrChanged(v1, m, seen) = AddedOrChanged(v2, m, seen)
           /\ Removed(v1, m, seen) = Removed(v2, m, seen)
<1>1. \A k \in Key : FingerprintOf(v1, seen[k], k) = FingerprintOf(v2, seen[k], k)
  BY DEF FingerprintOf
<1>2. {x \in Key : v1[m][x] # Absent /\ FingerprintOf(v1, seen[x], x) # v1[m][x]}
      = {x \in Key : v2[m][x] # Absent /\ FingerprintOf(v2, seen[x], x) # v2[m][x]}
  BY <1>1
<1>3. {x \in Key : seen[x] # NoManifest /\ v1[m][x] = Absent}
      = {x \in Key : seen[x] # NoManifest /\ v2[m][x] = Absent}
  OBVIOUS
<1>4. QED
  BY <1>2, <1>3 DEF AddedOrChanged, Removed

\* A manifest that is current somewhere is promoted.
LEMMA CurrentIsPromoted ==
    ASSUME CurrentIsOneManifest, NEW s \in Source, NEW k \in Key,
           current[s][k] # NoManifest
    PROVE  current[s][k] \in Manifest /\ manifestStatus[current[s][k]] = "promoted"
BY DEF CurrentIsOneManifest, Shows

\* A transaction stays exact while its own state, its locks, the dataset of its
\* source (once it has the source lock), its manifest and the versions of the
\* promoted manifests stay put.
LEMMA TransactionFrame ==
    ASSUME PromotionInvariant, NEW b \in Backend,
           /\ step'[b] = step[b] /\ target'[b] = target[b]
           /\ overlay'[b] = overlay[b] /\ logged'[b] = logged[b],
           Active(b) => /\ rowLock'[target[b]] = rowLock[target[b]]
                        /\ manifestStatus'[target[b]] = manifestStatus[target[b]]
                        /\ staged'[target[b]] = staged[target[b]],
           HasSourceLock(b) =>
               /\ sourceLock'[SourceOf[target[b]]] = sourceLock[SourceOf[target[b]]]
               /\ current'[SourceOf[target[b]]] = current[SourceOf[target[b]]],
           \A m \in Manifest : manifestStatus[m] = "promoted" => staged'[m] = staged[m]
    PROVE  TransactionExact(b)'
<1> USE DEF PromotionInvariant
<1>0. LocksHeld(b) /\ OverlayExact(b) /\ LogExact(b)
  BY DEF TransactionInvariant, TransactionExact
<1>1. LocksHeld(b)'
  BY <1>0 DEF LocksHeld, Active, HasSourceLock
<1>2. OverlayExact(b)'
  <2>1. HasSourceLock(b) => Seen(b)' = Seen(b)
    BY DEF Seen
  <2>2. QED
    BY <1>0, <2>1 DEF OverlayExact, Active, HasSourceLock
<1>3. LogExact(b)'
  <2>1. CASE ~HasSourceLock(b)
    BY <2>1 DEF LogExact, HasSourceLock, HasRemovals
  <2>2. CASE HasSourceLock(b)
    <3> DEFINE t == target[b]
               cur == current[SourceOf[t]]
    <3>1. SourceOf[t] \in Source
      BY <1>0, <2>2, SourceOfAssumption DEF LocksHeld, Active, HasSourceLock
    <3>2. \A k \in Key : cur[k] # NoManifest => staged[cur[k]] = staged'[cur[k]]
      BY <3>1, CurrentIsPromoted DEF TableInvariant
    <3>3. staged[t] = staged'[t]
      BY <2>2 DEF Active, HasSourceLock
    <3> HIDE DEF t, cur
    <3>4. /\ AddedOrChanged(staged, t, cur) = AddedOrChanged(staged', t, cur)
          /\ Removed(staged, t, cur) = Removed(staged', t, cur)
      BY <3>2, <3>3, RecordsReadOnly
    <3> USE DEF t, cur
    <3>5. QED
      BY <1>0, <2>2, <3>4 DEF LogExact, HasRemovals
  <2>3. QED
    BY <2>1, <2>2
<1>4. QED
  BY <1>1, <1>2, <1>3 DEF TransactionExact

-----------------------------------------------------------------------------
(* The import store: a statement touches one manifest, which is neither     *)
(* promoted nor being promoted.                                             *)

LEMMA StoreStep ==
    ASSUME PromotionInvariant, TypeOK', NEW m \in Manifest,
           \/ CreateManifest(m) \/ MarkProcessing(m) \/ MarkValidated(m) \/ MarkFailed(m)
           \/ \E k \in Key, f \in Fingerprint : StageRecord(m, k, f)
    PROVE  PromotionInvariant'
<1> USE DEF PromotionInvariant
<1>1. /\ UNCHANGED <<current, changes, locks, txn, replica>>
      /\ manifestStatus[m] # "promoted"
      /\ \A x \in Manifest \ {m} :
           manifestStatus'[x] = manifestStatus[x] /\ staged'[x] = staged[x]
  BY DEF CreateManifest, MarkProcessing, MarkValidated, MarkFailed, StageRecord,
         SetStatus, TypeOK
<1>2. \A x \in Manifest : manifestStatus[x] = "promoted" =>
         x # m /\ manifestStatus'[x] = "promoted" /\ staged'[x] = staged[x]
  BY <1>1
<1>3. TransactionInvariant'
  <2> SUFFICES ASSUME NEW b \in Backend PROVE TransactionExact(b)'
    BY DEF TransactionInvariant
  <2>1. ASSUME Active(b)
        PROVE  /\ manifestStatus'[target[b]] = manifestStatus[target[b]]
               /\ staged'[target[b]] = staged[target[b]]
    <3>1. /\ target[b] \in Manifest /\ rowLock[target[b]] = b
          /\ manifestStatus[target[b]] = "validated"
      BY <2>1 DEF TransactionInvariant, TransactionExact, LocksHeld
    <3>2. target[b] # m
      BY <3>1, NoBackendAssumption
         DEF CreateManifest, MarkProcessing, MarkValidated, MarkFailed, StageRecord
    <3>3. QED
      BY <1>1, <3>1, <3>2
  <2>2. QED
    BY <1>1, <1>2, <2>1, TransactionFrame DEF txn, locks
<1>4. CurrentIsOneManifest'
  <2>1. ASSUME NEW s \in Source, NEW x \in Manifest,
               manifestStatus[x] = "promoted", SourceOf[x] = s, Shows(s, x)
        PROVE  manifestStatus'[x] = "promoted" /\ Shows(s, x)'
    BY <1>1, <1>2, <2>1 DEF Shows
  <2>2. QED
    BY <1>1, <2>1 DEF CurrentIsOneManifest, TableInvariant
<1>5. ChangeLogReplays'
  <2>1. \A s \in Source, k \in Key :
          FingerprintOf(staged', current[s][k], k) = FingerprintOf(staged, current[s][k], k)
    BY <1>2, CurrentIsPromoted DEF FingerprintOf, TableInvariant
  <2>2. QED
    BY <1>1, <2>1 DEF ChangeLogReplays, Dataset, TableInvariant
<1>6. ChangesArePromoted'
  BY <1>1, <1>2 DEF ChangesArePromoted, TableInvariant, TypeOK, Change
<1>7. QED
  BY <1>3, <1>4, <1>5, <1>6 DEF TableInvariant

-----------------------------------------------------------------------------
(* promote_import before its commit: a step of one backend changes no table *)
(* and nothing of the other backends.                                       *)

LEMMA PrivateStep ==
    ASSUME PromotionInvariant, NEW b \in Backend, UNCHANGED tables,
           TransactionExact(b)',
           \A v \in Backend \ {b} :
               /\ step'[v] = step[v] /\ target'[v] = target[v]
               /\ overlay'[v] = overlay[v] /\ logged'[v] = logged[v],
           \A m \in Manifest : rowLock[m] \notin {b, NoBackend} => rowLock'[m] = rowLock[m],
           \A s \in Source :
               sourceLock[s] \notin {b, NoBackend} => sourceLock'[s] = sourceLock[s]
    PROVE  TransactionInvariant'
<1> SUFFICES ASSUME NEW v \in Backend, v # b PROVE TransactionExact(v)'
  BY DEF TransactionInvariant
<1>1. LocksHeld(v)
  BY DEF PromotionInvariant, TransactionInvariant, TransactionExact
<1>2. Active(v) => rowLock'[target[v]] = rowLock[target[v]]
  BY <1>1, NoBackendAssumption DEF LocksHeld
<1>3. HasSourceLock(v) =>
         sourceLock'[SourceOf[target[v]]] = sourceLock[SourceOf[target[v]]]
  BY <1>1, NoBackendAssumption, SourceOfAssumption DEF LocksHeld, Active, HasSourceLock
<1>4. QED
  BY <1>2, <1>3, TransactionFrame DEF tables

LEMMA LockManifestStep ==
    ASSUME PromotionInvariant, NEW b \in Backend, NEW m \in Manifest, LockManifest(b, m)
    PROVE  TransactionInvariant'
<1> USE DEF PromotionInvariant
<1>1. TransactionExact(b)
  BY DEF TransactionInvariant
<1>2. LocksHeld(b)'
  BY DEF LockManifest, LocksHeld, Active, HasSourceLock, TypeOK, tables
<1>3. OverlayExact(b)' /\ LogExact(b)'
  BY <1>1 DEF LockManifest, TransactionExact, OverlayExact, LogExact, HasRemovals,
              TypeOK, tables
<1>4. TransactionExact(b)'
  BY <1>2, <1>3 DEF TransactionExact
<1>5. QED
  BY <1>4, PrivateStep DEF LockManifest, TypeOK

LEMMA LockSourceStep ==
    ASSUME PromotionInvariant, NEW b \in Backend, LockSource(b)
    PROVE  TransactionInvariant'
<1> USE DEF PromotionInvariant
<1>1. TransactionExact(b) /\ target[b] \in Manifest
  BY DEF TransactionInvariant, TransactionExact, LocksHeld, LockSource, Active
<1>2. LocksHeld(b)'
  BY <1>1, SourceOfAssumption
     DEF LockSource, TransactionExact, LocksHeld, Active, HasSourceLock, TypeOK, tables
<1>3. OverlayExact(b)' /\ LogExact(b)'
  BY <1>1 DEF LockSource, TransactionExact, OverlayExact, LogExact, HasRemovals,
              TypeOK, tables
<1>4. TransactionExact(b)'
  BY <1>2, <1>3 DEF TransactionExact
<1>5. QED
  BY <1>4, PrivateStep DEF LockSource, TypeOK

\* Before its first write a transaction sees the committed dataset.
LEMMA NoWritesSeen ==
    ASSUME PromotionInvariant, NEW b \in Backend, Active(b),
           step[b] \notin {"upserted", "others deleted"}
    PROVE  Seen(b) = current[SourceOf[target[b]]]
<1>1. overlay[b] = NoWrites /\ SourceOf[target[b]] \in Source
  BY SourceOfAssumption
     DEF PromotionInvariant, TransactionInvariant, TransactionExact, OverlayExact,
         LocksHeld
<1>2. current[SourceOf[target[b]]] \in [Key -> Manifest \cup {NoManifest}]
  BY <1>1 DEF PromotionInvariant, TypeOK
<1>3. QED
  BY <1>1, <1>2 DEF Seen, NoWrites

LEMMA LogStep ==
    ASSUME PromotionInvariant, NEW b \in Backend,
           LogAddedAndChanged(b) \/ LogRemoved(b)
    PROVE  TransactionInvariant'
<1> USE DEF PromotionInvariant
<1>1. TransactionExact(b) /\ Seen(b) = current[SourceOf[target[b]]]
  BY NoWritesSeen DEF TransactionInvariant, LogAddedAndChanged, LogRemoved, Active
<1>2. /\ step[b] \in {"source locked", "additions logged"}
      /\ step'[b] \in {"additions logged", "removals logged"}
      /\ target' = target /\ overlay' = overlay /\ UNCHANGED <<tables, locks>>
  BY DEF LogAddedAndChanged, LogRemoved, TypeOK
<1>3. LocksHeld(b)' /\ OverlayExact(b)'
  BY <1>1, <1>2 DEF TransactionExact, LocksHeld, OverlayExact, Active, HasSourceLock,
                    tables, locks
<1>4. LogExact(b)'
  <2>1. CASE LogAddedAndChanged(b)
    <3>1. /\ step'[b] = "additions logged"
          /\ logged'[b] = AddedOrChanged(staged, target[b], current[SourceOf[target[b]]])
      BY <1>1, <2>1 DEF LogAddedAndChanged, TypeOK
    <3>2. QED
      BY <1>2, <3>1 DEF LogExact, HasRemovals, tables
  <2>2. CASE LogRemoved(b)
    <3>1. /\ step'[b] = "removals logged"
          /\ logged'[b] = logged[b]
                \cup Removed(staged, target[b], current[SourceOf[target[b]]])
      BY <1>1, <2>2 DEF LogRemoved, TypeOK
    <3>2. logged[b] = AddedOrChanged(staged, target[b], current[SourceOf[target[b]]])
      BY <1>1, <2>2 DEF LogRemoved, TransactionExact, LogExact
    <3>3. QED
      BY <1>2, <3>1, <3>2 DEF LogExact, HasRemovals, tables
  <2>3. QED
    BY <2>1, <2>2
<1>5. TransactionExact(b)'
  BY <1>3, <1>4 DEF TransactionExact
<1>6. QED
  BY <1>2, <1>5, PrivateStep DEF LogAddedAndChanged, LogRemoved, TypeOK, locks

LEMMA WriteStep ==
    ASSUME PromotionInvariant, NEW b \in Backend, UpsertCurrent(b) \/ DeleteOthers(b)
    PROVE  TransactionInvariant'
<1> USE DEF PromotionInvariant
<1>1. TransactionExact(b) /\ LocksHeld(b)
  BY DEF TransactionInvariant, TransactionExact
<1>2. /\ step[b] \in {"removals logged", "upserted"}
      /\ step'[b] \in {"upserted", "others deleted"}
      /\ target' = target /\ logged' = logged /\ UNCHANGED <<tables, locks>>
  BY DEF UpsertCurrent, DeleteOthers, TypeOK
<1>3. LocksHeld(b)' /\ LogExact(b)'
  BY <1>1, <1>2 DEF TransactionExact, LocksHeld, LogExact, Active, HasSourceLock,
                    HasRemovals, tables, locks
<1>4. CASE UpsertCurrent(b)
  <2>1. overlay[b] = NoWrites
    BY <1>1, <1>4 DEF UpsertCurrent, TransactionExact, OverlayExact
  <2>2. /\ step'[b] = "upserted"
        /\ overlay'[b] = [k \in Key |-> IF staged[target[b]][k] # Absent
                                        THEN target[b] ELSE overlay[b][k]]
    BY <1>4 DEF UpsertCurrent, TypeOK
  <2>3. OverlayExact(b)'
    BY <1>2, <2>1, <2>2 DEF OverlayExact, NoWrites, tables
  <2>4. TransactionExact(b)'
    BY <1>3, <2>3 DEF TransactionExact
  <2>5. QED
    BY <1>2, <1>4, <2>4, PrivateStep DEF UpsertCurrent, TypeOK, locks
<1>5. CASE DeleteOthers(b)
  <2>1. ASSUME NEW k \in Key
        PROVE  Seen(b)'[k] = IF staged[target[b]][k] # Absent THEN target[b] ELSE NoManifest
    <3>1. /\ target[b] \in Manifest /\ manifestStatus[target[b]] = "validated"
          /\ overlay[b][k] = IF staged[target[b]][k] # Absent THEN target[b] ELSE Untouched
      BY <1>1, <1>5 DEF DeleteOthers, TransactionExact, LocksHeld, OverlayExact, Active
    <3>2. /\ overlay'[b][k] = IF Seen(b)[k] \notin {target[b], NoManifest}
                               THEN NoManifest ELSE overlay[b][k]
          /\ target' = target /\ current' = current
      BY <1>5 DEF DeleteOthers, TypeOK, tables
    <3>3. CASE staged[target[b]][k] # Absent
      BY <3>1, <3>2, <3>3, NoManifestAssumption DEF Seen
    <3>4. CASE staged[target[b]][k] = Absent
      \* A current row of the target itself would be promoted, and the target
      \* is only validated.
      <4>1. Seen(b)[k] = current[SourceOf[target[b]]][k]
        BY <3>1, <3>4 DEF Seen
      <4>2. current[SourceOf[target[b]]][k] # target[b]
        BY <3>1, CurrentIsPromoted, SourceOfAssumption, NoManifestAssumption
           DEF TableInvariant
      <4>3. QED
        BY <3>1, <3>2, <3>4, <4>1, <4>2, NoManifestAssumption DEF Seen
    <3>5. QED
      BY <3>3, <3>4
  <2>2. step'[b] = "others deleted"
    BY <1>5 DEF DeleteOthers, TypeOK
  <2>3. OverlayExact(b)'
    BY <1>2, <2>1, <2>2 DEF OverlayExact, tables
  <2>4. TransactionExact(b)'
    BY <1>3, <2>3 DEF TransactionExact
  <2>5. QED
    BY <1>2, <1>5, <2>4, PrivateStep DEF DeleteOthers, TypeOK, locks
<1>6. QED
  BY <1>4, <1>5

LEMMA IdleIsExact ==
    ASSUME NEW b \in Backend, step'[b] = "idle", overlay'[b] = NoWrites
    PROVE  TransactionExact(b)'
BY DEF TransactionExact, LocksHeld, OverlayExact, LogExact, Active, HasSourceLock,
       HasRemovals

LEMMA RollbackStep ==
    ASSUME PromotionInvariant, NEW b \in Backend, Rollback(b)
    PROVE  TransactionInvariant'
<1>1. TransactionExact(b)'
  BY IdleIsExact DEF Rollback, ReleaseLocks, PromotionInvariant, TypeOK
<1>2. QED
  BY <1>1, PrivateStep DEF Rollback, ReleaseLocks, PromotionInvariant, TypeOK

-----------------------------------------------------------------------------
(* The commit.                                                             *)

\* At its commit a transaction replaces the dataset of its source by the
\* versions of its manifest and has logged the whole difference.
LEMMA ReadyToCommit ==
    ASSUME PromotionInvariant, NEW b \in Backend, step[b] = "others deleted"
    PROVE  LET m == target[b]  s == SourceOf[target[b]] IN
           /\ m \in Manifest /\ s \in Source /\ manifestStatus[m] = "validated"
           /\ \A k \in Key :
                Seen(b)[k] = IF staged[m][k] # Absent THEN m ELSE NoManifest
           /\ logged[b] = AddedOrChanged(staged, m, current[s])
                          \cup Removed(staged, m, current[s])
BY SourceOfAssumption
   DEF PromotionInvariant, TransactionInvariant, TransactionExact, LocksHeld,
       OverlayExact, LogExact, Active, HasRemovals

\* Which keys a promotion logs, and the version each record leads to.
Mentions(records, k) == \E c \in records : c.key = k
LeadTo(records, version) == \A c \in records : c.next = version

LEMMA AddedRecords ==
    ASSUME NEW versions, NEW m, NEW seen, NEW k \in Key
    PROVE  /\ LeadTo(AddedOrChanged(versions, m, seen), m)
           /\ Mentions(AddedOrChanged(versions, m, seen), k)
              <=> /\ versions[m][k] # Absent
                  /\ FingerprintOf(versions, seen[k], k) # versions[m][k]
<1> DEFINE differs(x) == /\ versions[m][x] # Absent
                         /\ FingerprintOf(versions, seen[x], x) # versions[m][x]
           row(x) == [manifest |-> m, key |-> x,
                      type |-> IF seen[x] = NoManifest THEN "added" ELSE "changed",
                      previous |-> seen[x], next |-> m]
<1>1. AddedOrChanged(versions, m, seen) = {row(x) : x \in {y \in Key : differs(y)}}
  BY DEF AddedOrChanged
<1>2. \A x : row(x).key = x /\ row(x).next = m
  OBVIOUS
<1> HIDE DEF row, differs
<1>3. \A c \in AddedOrChanged(versions, m, seen) : \E x \in Key : differs(x) /\ c = row(x)
  BY <1>1
<1>4. \A x \in Key : differs(x) => row(x) \in AddedOrChanged(versions, m, seen)
  BY <1>1
<1>5. QED
  BY <1>2, <1>3, <1>4 DEF differs, Mentions, LeadTo

LEMMA RemovedRecords ==
    ASSUME NEW versions, NEW m, NEW seen, NEW k \in Key
    PROVE  /\ LeadTo(Removed(versions, m, seen), NoManifest)
           /\ Mentions(Removed(versions, m, seen), k)
              <=> seen[k] # NoManifest /\ versions[m][k] = Absent
<1> DEFINE gone(x) == seen[x] # NoManifest /\ versions[m][x] = Absent
           row(x) == [manifest |-> m, key |-> x, type |-> "removed",
                      previous |-> seen[x], next |-> NoManifest]
<1>1. Removed(versions, m, seen) = {row(x) : x \in {y \in Key : gone(y)}}
  BY DEF Removed
<1>2. \A x : row(x).key = x /\ row(x).next = NoManifest
  OBVIOUS
<1> HIDE DEF row, gone
<1>3. \A c \in Removed(versions, m, seen) : \E x \in Key : gone(x) /\ c = row(x)
  BY <1>1
<1>4. \A x \in Key : gone(x) => row(x) \in Removed(versions, m, seen)
  BY <1>1
<1>5. QED
  BY <1>2, <1>3, <1>4 DEF gone, Mentions, LeadTo

\* A consumer that applies the logged records of a key ends with the
\* fingerprint the manifest staged for it.
LEMMA ReplayIsExact ==
    ASSUME PromotionInvariant, NEW b \in Backend, step[b] = "others deleted",
           NEW k \in Key
    PROVE  Replayed(b, k, Dataset(SourceOf[target[b]])[k]) = staged[target[b]][k]
<1> DEFINE m == target[b]
           cur == current[SourceOf[m]]
           old == Dataset(SourceOf[m])[k]
           fresh == AddedOrChanged(staged, m, cur)
           gone == Removed(staged, m, cur)
           records == {c \in logged[b] : c.key = k}
<1>1. m \in Manifest /\ m # NoManifest /\ logged[b] = fresh \cup gone
  BY ReadyToCommit, NoManifestAssumption
<1>2. old = FingerprintOf(staged, cur[k], k)
  BY DEF Dataset
<1> HIDE DEF m, cur, old
<1>3. LeadTo(fresh, m) /\ (Mentions(fresh, k) <=> staged[m][k] # Absent /\ old # staged[m][k])
  BY <1>2, AddedRecords
<1>4. LeadTo(gone, NoManifest) /\ (Mentions(gone, k) <=> cur[k] # NoManifest /\ staged[m][k] = Absent)
  BY RemovedRecords
<1>5. Replayed(b, k, old) = IF records = {} THEN old
        ELSE FingerprintOf(staged, (CHOOSE c \in records : TRUE).next, k)
  BY DEF Replayed
<1>6. records # {} => (CHOOSE c \in records : TRUE) \in records
  OBVIOUS
<1>7. records = {c \in fresh : c.key = k} \cup {c \in gone : c.key = k}
  BY <1>1
<1>8. cur[k] = NoManifest => old = Absent
  BY <1>2 DEF FingerprintOf
<1> HIDE DEF fresh, gone, records
<1>9. Replayed(b, k, old) = staged[m][k]
  <2>1. CASE Mentions(fresh, k)
    <3>1. (CHOOSE c \in records : TRUE) \in fresh /\ records # {}
      BY <1>3, <1>4, <1>6, <1>7, <2>1 DEF Mentions
    <3>2. QED
      BY <1>1, <1>3, <1>5, <3>1 DEF FingerprintOf, LeadTo
  <2>2. CASE Mentions(gone, k)
    <3>1. (CHOOSE c \in records : TRUE) \in gone /\ records # {}
      BY <1>3, <1>4, <1>6, <1>7, <2>2 DEF Mentions
    <3>2. staged[m][k] = Absent
      BY <1>4, <2>2
    <3>3. QED
      BY <1>4, <1>5, <3>1, <3>2 DEF FingerprintOf, LeadTo
  <2>3. CASE ~Mentions(fresh, k) /\ ~Mentions(gone, k)
    <3>1. records = {}
      BY <1>7, <2>3 DEF Mentions
    <3>2. old = staged[m][k]
      BY <1>3, <1>4, <1>8, <2>3
    <3>3. QED
      BY <1>5, <3>1, <3>2
  <2>4. QED
    BY <2>1, <2>2, <2>3
<1>10. QED
  BY <1>9 DEF m, old

LEMMA CommitStep ==
    ASSUME PromotionInvariant, TypeOK', NEW b \in Backend, Commit(b)
    PROVE  PromotionInvariant'
<1> USE DEF PromotionInvariant
<1> DEFINE m == target[b]
           s == SourceOf[m]
<1>1. /\ m \in Manifest /\ s \in Source /\ manifestStatus[m] = "validated"
      /\ \A k \in Key : Seen(b)[k] = IF staged[m][k] # Absent THEN m ELSE NoManifest
      /\ logged[b] = AddedOrChanged(staged, m, current[s]) \cup Removed(staged, m, current[s])
  BY ReadyToCommit DEF Commit
<1>2. /\ manifestStatus' = [manifestStatus EXCEPT ![m] = "promoted"]
      /\ current' = [current EXCEPT ![s] = Seen(b)]
      /\ staged' = staged /\ changes' = changes \cup logged[b]
  BY DEF Commit, SetStatus
<1>3. /\ manifestStatus'[m] = "promoted" /\ current'[s] = Seen(b)
      /\ \A x \in Manifest \ {m} : manifestStatus'[x] = manifestStatus[x]
      /\ \A x \in Source \ {s} : current'[x] = current[x]
  BY <1>1, <1>2 DEF TypeOK
<1>4. TransactionInvariant'
  <2>1. TransactionExact(b)'
    BY IdleIsExact DEF Commit, ReleaseLocks, TypeOK
  <2>2. ASSUME NEW v \in Backend, v # b
        PROVE  TransactionExact(v)'
    <3>1. LocksHeld(v) /\ LocksHeld(b)
      BY DEF TransactionInvariant, TransactionExact
    <3>2. Active(v) => target[v] # m /\ rowLock'[target[v]] = rowLock[target[v]]
      BY <2>2, <3>1, NoBackendAssumption
         DEF LocksHeld, Active, Commit, ReleaseLocks
    <3>3. HasSourceLock(v) =>
            /\ SourceOf[target[v]] # s /\ SourceOf[target[v]] \in Source
            /\ sourceLock'[SourceOf[target[v]]] = sourceLock[SourceOf[target[v]]]
      BY <2>2, <3>1, NoBackendAssumption, SourceOfAssumption
         DEF LocksHeld, Active, HasSourceLock, Commit, ReleaseLocks
    <3>4. /\ step'[v] = step[v] /\ target'[v] = target[v]
          /\ overlay'[v] = overlay[v] /\ logged'[v] = logged[v]
      BY <2>2 DEF Commit, ReleaseLocks, TypeOK
    <3>5. Active(v) => manifestStatus'[target[v]] = manifestStatus[target[v]]
      BY <1>3, <3>1, <3>2 DEF LocksHeld
    <3>6. HasSourceLock(v) => current'[SourceOf[target[v]]] = current[SourceOf[target[v]]]
      BY <1>3, <3>3
    <3>7. QED
      BY <1>2, <3>2, <3>3, <3>4, <3>5, <3>6, TransactionFrame
  <2>3. QED
    BY <2>1, <2>2 DEF TransactionInvariant
<1>5. CurrentIsOneManifest'
  <2> SUFFICES ASSUME NEW x \in Source
        PROVE  \/ \A k \in Key : current'[x][k] = NoManifest
               \/ \E y \in Manifest :
                    manifestStatus'[y] = "promoted" /\ SourceOf[y] = x /\ Shows(x, y)'
    BY DEF CurrentIsOneManifest
  <2>1. CASE x = s
    BY <1>1, <1>2, <1>3, <2>1 DEF Shows
  <2>2. CASE x # s
    BY <1>1, <1>2, <1>3, <2>2 DEF CurrentIsOneManifest, TableInvariant, Shows
  <2>3. QED
    BY <2>1, <2>2
<1>6. ChangeLogReplays'
  <2> SUFFICES ASSUME NEW x \in Source PROVE replica'[x] = Dataset(x)'
    BY DEF ChangeLogReplays
  <2>0. replica[x] = Dataset(x)
    BY DEF ChangeLogReplays, TableInvariant
  <2>1. CASE x = s
    <3>1. replica'[s] = [k \in Key |-> Replayed(b, k, replica[s][k])]
      BY <1>1 DEF Commit, TypeOK
    <3>2. \A k \in Key : Replayed(b, k, Dataset(s)[k]) = staged[m][k]
      BY ReplayIsExact DEF Commit
    <3>3. \A k \in Key : current'[x][k] = IF staged[m][k] # Absent THEN m ELSE NoManifest
      BY <1>1, <1>3, <2>1
    <3>4. Dataset(x)' = [k \in Key |-> staged[m][k]]
      BY <1>1, <1>2, <3>3, NoManifestAssumption DEF Dataset, FingerprintOf
    <3>5. QED
      BY <2>0, <2>1, <3>1, <3>2, <3>4
  <2>2. CASE x # s
    <3>1. replica'[x] = replica[x]
      BY <2>2 DEF Commit, TypeOK
    <3>2. QED
      BY <1>2, <1>3, <2>0, <2>2, <3>1 DEF Dataset
  <2>3. QED
    BY <2>1, <2>2
<1>7. ChangesArePromoted'
  <2>1. \A c \in logged[b] : c.manifest = m
    BY <1>1 DEF AddedOrChanged, Removed
  <2>2. \A c \in changes : c.manifest \in Manifest /\ manifestStatus[c.manifest] = "promoted"
    BY DEF TypeOK, Change, ChangesArePromoted, TableInvariant
  <2>3. QED
    BY <1>1, <1>2, <1>3, <2>1, <2>2 DEF ChangesArePromoted
<1>8. QED
  BY <1>4, <1>5, <1>6, <1>7 DEF TableInvariant

LEMMA NextPromotionInvariant ==
    PromotionInvariant /\ [Next]_vars => PromotionInvariant'
<1> SUFFICES ASSUME PromotionInvariant, [Next]_vars PROVE PromotionInvariant'
  OBVIOUS
<1>0. TypeOK'
  BY NextTypeOK DEF PromotionInvariant
<1>1. ASSUME TransactionInvariant', UNCHANGED <<tables, replica>>
      PROVE  PromotionInvariant'
  BY <1>0, <1>1, TablesUnchanged DEF PromotionInvariant
<1>2. ASSUME NEW m \in Manifest,
             \/ CreateManifest(m) \/ MarkProcessing(m) \/ MarkValidated(m) \/ MarkFailed(m)
             \/ \E k \in Key, f \in Fingerprint : StageRecord(m, k, f)
      PROVE  PromotionInvariant'
  BY <1>0, <1>2, StoreStep
<1>3. ASSUME NEW m \in Manifest, NEW b \in Backend, LockManifest(b, m)
      PROVE  PromotionInvariant'
  BY <1>1, <1>3, LockManifestStep DEF LockManifest
<1>4. ASSUME NEW b \in Backend, LockSource(b)
      PROVE  PromotionInvariant'
  BY <1>1, <1>4, LockSourceStep DEF LockSource
<1>5. ASSUME NEW b \in Backend, LogAddedAndChanged(b) \/ LogRemoved(b)
      PROVE  PromotionInvariant'
  BY <1>1, <1>5, LogStep DEF LogAddedAndChanged, LogRemoved
<1>6. ASSUME NEW b \in Backend, UpsertCurrent(b) \/ DeleteOthers(b)
      PROVE  PromotionInvariant'
  BY <1>1, <1>6, WriteStep DEF UpsertCurrent, DeleteOthers
<1>7. ASSUME NEW b \in Backend, Commit(b)
      PROVE  PromotionInvariant'
  BY <1>0, <1>7, CommitStep
<1>8. ASSUME NEW b \in Backend, Rollback(b)
      PROVE  PromotionInvariant'
  BY <1>1, <1>8, RollbackStep DEF Rollback
<1>9. CASE UNCHANGED vars
  <2>1. TransactionInvariant'
    BY <1>9, TransactionFrame DEF TransactionInvariant, vars, tables, locks, txn
  <2>2. QED
    BY <1>1, <1>9, <2>1 DEF vars
<1>10. QED
  BY <1>2, <1>3, <1>4, <1>5, <1>6, <1>7, <1>8, <1>9 DEF Next, Statement

-----------------------------------------------------------------------------
(* The theorems.                                                           *)

THEOREM InvariantHolds == Spec => []PromotionInvariant
BY InitPromotionInvariant, NextPromotionInvariant, PTL DEF Spec

\* Tables, locks and transaction state of staging and promotion keep their
\* types.
THEOREM TypeCorrect == Spec => []TypeOK
<1>1. PromotionInvariant => TypeOK
  BY DEF PromotionInvariant
<1>2. QED
  BY <1>1, InvariantHolds, PTL

\* current_records of a source is empty or shows exactly one promoted manifest
\* of that source, however promotions and failures interleave.
THEOREM NoMixedDataset == Spec => []CurrentIsOneManifest
<1>1. PromotionInvariant => CurrentIsOneManifest
  BY DEF PromotionInvariant, TableInvariant
<1>2. QED
  BY <1>1, InvariantHolds, PTL

\* Applying record_changes in commit order reproduces the fingerprints of
\* current_records.
THEOREM ChangeLogIsComplete == Spec => []ChangeLogReplays
<1>1. PromotionInvariant => ChangeLogReplays
  BY DEF PromotionInvariant, TableInvariant
<1>2. QED
  BY <1>1, InvariantHolds, PTL

\* A manifest that markFailed closed has no current row and no change record.
THEOREM FailureIsInvisible == Spec => []FailedPublishesNothing
<1>1. PromotionInvariant => FailedPublishesNothing
  <2> SUFFICES ASSUME PromotionInvariant, NEW m \in Manifest, manifestStatus[m] = "failed"
        PROVE  /\ \A s \in Source, k \in Key : current[s][k] # m
               /\ \A c \in changes : c.manifest # m
    BY DEF FailedPublishesNothing
  <2>1. \A s \in Source, k \in Key : current[s][k] # m
    BY CurrentIsPromoted, NoManifestAssumption DEF PromotionInvariant, TableInvariant
  <2>2. \A c \in changes : c.manifest # m
    BY DEF PromotionInvariant, TableInvariant, ChangesArePromoted
  <2>3. QED
    BY <2>1, <2>2
<1>2. QED
  BY <1>1, InvariantHolds, PTL

-----------------------------------------------------------------------------
(* Promotion implements SourceDataset.                                     *)

\* What the change feed of the abstract specification shows of change records.
Feed(records) ==
    {[manifest |-> c.manifest, key |-> c.key, type |-> c.type] : c \in records}

\* The entries Abstract!Publish(m, new) adds to the feed over a dataset old.
Difference(m, old, new) ==
    {[manifest |-> m, key |-> k, type |-> Abstract!Difference(old[k], new[k])] :
        k \in {x \in Key : old[x] # new[x]}}

\* A step is invisible when it leaves current_records, record_changes, the set
\* of promoted manifests and the versions of promoted manifests alone.
LEMMA InvisibleStep ==
    ASSUME PromotionInvariant, UNCHANGED <<current, changes>>,
           \A m \in Manifest : /\ manifestStatus'[m] = "promoted"
                                  <=> manifestStatus[m] = "promoted"
                               /\ manifestStatus[m] = "promoted" => staged'[m] = staged[m]
    PROVE  UNCHANGED Abstract!abstractVars
<1>1. \A s \in Source, k \in Key :
        FingerprintOf(staged', current[s][k], k) = FingerprintOf(staged, current[s][k], k)
  BY CurrentIsPromoted DEF FingerprintOf, PromotionInvariant, TableInvariant
<1>2. \A s \in Source : Dataset(s)' = Dataset(s)
  BY <1>1 DEF Dataset
<1>3. QED
  BY <1>2 DEF Abstract!abstractVars

\* The rows a promotion logs are the difference of the two datasets.
LEMMA FeedIsDifference ==
    ASSUME NEW versions, NEW m, m # NoManifest, NEW seen,
           \A k \in Key : seen[k] # NoManifest => versions[seen[k]][k] # Absent,
           NEW before, \A k \in Key : before[k] = FingerprintOf(versions, seen[k], k),
           NEW after, \A k \in Key : after[k] = versions[m][k]
    PROVE  Feed(AddedOrChanged(versions, m, seen) \cup Removed(versions, m, seen))
           = Difference(m, before, after)
<1> DEFINE old(k) == FingerprintOf(versions, seen[k], k)
           fresh(k) == versions[m][k] # Absent /\ old(k) # versions[m][k]
           gone(k) == seen[k] # NoManifest /\ versions[m][k] = Absent
           freshRow(k) == [manifest |-> m, key |-> k,
                           type |-> IF seen[k] = NoManifest THEN "added" ELSE "changed",
                           previous |-> seen[k], next |-> m]
           goneRow(k) == [manifest |-> m, key |-> k, type |-> "removed",
                          previous |-> seen[k], next |-> NoManifest]
           shown(c) == [manifest |-> c.manifest, key |-> c.key, type |-> c.type]
           entry(k) == [manifest |-> m, key |-> k,
                        type |-> Abstract!Difference(old(k), versions[m][k])]
<1>1. \A k \in Key : old(k) = Absent <=> seen[k] = NoManifest
  BY DEF FingerprintOf
<1>2. \A k \in Key : old(k) # versions[m][k] <=> fresh(k) \/ gone(k)
  BY <1>1
<1>3. \A k \in Key : fresh(k) => shown(freshRow(k)) = entry(k)
  BY <1>1 DEF Abstract!Difference
<1>4. \A k \in Key : gone(k) => shown(goneRow(k)) = entry(k)
  BY <1>1 DEF Abstract!Difference
<1>5. AddedOrChanged(versions, m, seen) = {freshRow(k) : k \in {x \in Key : fresh(x)}}
  BY DEF AddedOrChanged
<1>6. Removed(versions, m, seen) = {goneRow(k) : k \in {x \in Key : gone(x)}}
  BY DEF Removed
<1> HIDE DEF fresh, gone, freshRow, goneRow
<1>7. Feed(AddedOrChanged(versions, m, seen)) = {shown(freshRow(k)) : k \in {x \in Key : fresh(x)}}
  BY <1>5 DEF Feed
<1>8. Feed(Removed(versions, m, seen)) = {shown(goneRow(k)) : k \in {x \in Key : gone(x)}}
  BY <1>6 DEF Feed
<1> HIDE DEF shown, entry, old
<1>9. {entry(k) : k \in {x \in Key : old(x) # versions[m][x]}}
      = Feed(AddedOrChanged(versions, m, seen)) \cup Feed(Removed(versions, m, seen))
  BY <1>2, <1>3, <1>4, <1>7, <1>8
<1>10. \A R, T : Feed(R \cup T) = Feed(R) \cup Feed(T)
  BY DEF Feed
<1>11. Difference(m, before, after) = {entry(k) : k \in {x \in Key : old(x) # versions[m][x]}}
  BY DEF Difference, entry, old
<1>12. QED
  BY <1>9, <1>10, <1>11

LEMMA CommitPublishes ==
    ASSUME PromotionInvariant, PromotionInvariant', NEW b \in Backend, Commit(b)
    PROVE  Abstract!Next
<1>0. PICK m \in Manifest, s \in Source : m = target[b] /\ s = SourceOf[m]
  BY ReadyToCommit DEF Commit
<1>3. PICK content \in [Key -> Fingerprint \cup {Absent}] :
        content = [k \in Key |-> staged[m][k]]
  BY DEF PromotionInvariant, TypeOK
<1>1. /\ manifestStatus[m] = "validated"
      /\ \A k \in Key : Seen(b)[k] = IF staged[m][k] # Absent THEN m ELSE NoManifest
      /\ logged[b] = AddedOrChanged(staged, m, current[s]) \cup Removed(staged, m, current[s])
  BY <1>0, ReadyToCommit DEF Commit
<1>2. /\ manifestStatus' = [manifestStatus EXCEPT ![m] = "promoted"]
      /\ current' = [current EXCEPT ![s] = Seen(b)]
      /\ staged' = staged /\ changes' = changes \cup logged[b]
  BY <1>0 DEF Commit, SetStatus
<1>4. \A x \in Source : Dataset(x)' = IF x = s THEN content ELSE Dataset(x)
  <2> SUFFICES ASSUME NEW x \in Source
        PROVE  Dataset(x)' = IF x = s THEN content ELSE Dataset(x)
    OBVIOUS
  <2>1. CASE x = s
    <3>1. current'[x] = Seen(b)
      BY <1>2, <2>1 DEF PromotionInvariant, TypeOK
    <3>2. Dataset(x)' = [k \in Key |-> FingerprintOf(staged, Seen(b)[k], k)]
      BY <1>2, <3>1 DEF Dataset
    <3>3. \A k \in Key : FingerprintOf(staged, Seen(b)[k], k) = staged[m][k]
      BY <1>1, NoManifestAssumption DEF FingerprintOf
    <3>4. QED
      BY <1>3, <2>1, <3>2, <3>3
  <2>2. CASE x # s
    BY <1>1, <1>2, <2>2 DEF Dataset, PromotionInvariant, TypeOK
  <2>3. QED
    BY <2>1, <2>2
<1>5. {x \in Manifest : manifestStatus'[x] = "promoted"}
      = {x \in Manifest : manifestStatus[x] = "promoted"} \cup {m}
  BY <1>1, <1>2 DEF PromotionInvariant, TypeOK
<1>6. Feed(changes') = Feed(changes) \cup Feed(logged[b])
  BY <1>2 DEF Feed
<1>7. Feed(logged[b]) = Difference(m, Dataset(s), content)
  <2>1. \A k \in Key : current[s][k] # NoManifest => staged[current[s][k]][k] # Absent
    BY DEF PromotionInvariant, TableInvariant, CurrentIsOneManifest, Shows
  <2>2. \A k \in Key : Dataset(s)[k] = FingerprintOf(staged, current[s][k], k)
    BY DEF Dataset
  <2>3. QED
    BY <1>1, <1>3, <2>1, <2>2, NoManifestAssumption, FeedIsDifference
<1>8. Abstract!Publish(m, content)
  <2> DEFINE shown == [x \in Source |-> Dataset(x)]
  <2>1. shown' = [shown EXCEPT ![SourceOf[m]] = content] /\ shown[SourceOf[m]] = Dataset(s)
    BY <1>0, <1>4
  <2>2. Feed(changes') = Feed(changes) \cup Difference(m, shown[SourceOf[m]], content)
    BY <1>6, <1>7, <2>1
  <2>3. {[manifest |-> c.manifest, key |-> c.key, type |-> c.type] : c \in changes}'
        = {[manifest |-> c.manifest, key |-> c.key, type |-> c.type] : c \in changes}
          \cup {[manifest |-> m, key |-> k,
                 type |-> Abstract!Difference(shown[SourceOf[m]][k], content[k])] :
                  k \in {x \in Key : shown[SourceOf[m]][x] # content[x]}}
    BY <2>2 DEF Feed, Difference
  <2>4. m \notin {x \in Manifest : manifestStatus[x] = "promoted"}
    BY <1>1
  <2>5. QED
    BY <1>5, <2>1, <2>3, <2>4 DEF Abstract!Publish
<1>9. QED
  BY <1>8 DEF Abstract!Next

LEMMA StepImplements ==
    PromotionInvariant /\ PromotionInvariant' /\ [Next]_vars
        => [Abstract!Next]_(Abstract!abstractVars)
<1> SUFFICES ASSUME PromotionInvariant, PromotionInvariant', [Next]_vars
      PROVE  Abstract!Next \/ UNCHANGED Abstract!abstractVars
  OBVIOUS
<1>1. ASSUME NEW m \in Manifest,
             \/ CreateManifest(m) \/ MarkProcessing(m) \/ MarkValidated(m) \/ MarkFailed(m)
             \/ \E k \in Key, f \in Fingerprint : StageRecord(m, k, f)
      PROVE  UNCHANGED Abstract!abstractVars
  BY <1>1, InvisibleStep
     DEF CreateManifest, MarkProcessing, MarkValidated, MarkFailed, StageRecord,
         SetStatus, PromotionInvariant, TypeOK
<1>2. ASSUME UNCHANGED tables
      PROVE  UNCHANGED Abstract!abstractVars
  BY <1>2, InvisibleStep DEF tables
<1>3. ASSUME NEW b \in Backend, NEW m \in Manifest,
             \/ LockManifest(b, m) \/ LockSource(b) \/ LogAddedAndChanged(b)
             \/ LogRemoved(b) \/ UpsertCurrent(b) \/ DeleteOthers(b) \/ Rollback(b)
      PROVE  UNCHANGED tables
  BY <1>3 DEF LockManifest, LockSource, LogAddedAndChanged, LogRemoved, UpsertCurrent,
              DeleteOthers, Rollback
<1>4. ASSUME NEW b \in Backend,
             \/ LockSource(b) \/ LogAddedAndChanged(b)
             \/ LogRemoved(b) \/ UpsertCurrent(b) \/ DeleteOthers(b) \/ Rollback(b)
      PROVE  UNCHANGED tables
  BY <1>4 DEF LockSource, LogAddedAndChanged, LogRemoved, UpsertCurrent, DeleteOthers,
              Rollback
<1>5. QED
  BY <1>1, <1>2, <1>3, <1>4, CommitPublishes DEF Next, Statement, vars

\* Promotion implements the dataset promise: readers see one atomic replacement
\* per promoted manifest, and the change feed gains its exact difference.
THEOREM PromotionImplementsDataset == Spec => ImplementsDataset
<1>1. Init => Abstract!Init
  BY DEF Init, Abstract!Init, Dataset, FingerprintOf
<1>2. QED
  BY <1>1, InvariantHolds, StepImplements, PTL
     DEF Spec, ImplementsDataset, Abstract!Spec

=============================================================================
