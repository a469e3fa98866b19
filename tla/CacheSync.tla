------------------------------ MODULE CacheSync ------------------------------
(***************************************************************************)
(* A sync of one source into the local SQLite cache: OpenTradeRegistry     *)
(* .sync of packages/registry over OpenTradeSqliteCache of                 *)
(* packages/storage-sqlite.                                                *)
(*                                                                         *)
(* A session holds the whole database in memory and writes it back as one  *)
(* file, replaced by a rename; nothing keeps two sessions, which may be    *)
(* processes, from doing so in turn.  Between two awaits sync() runs       *)
(* without interruption; at an await the caller's signal may be aborted,   *)
(* and the process may die anywhere.                                       *)
(*                                                                         *)
(* Redaction and retention, which act on single rows between syncs, and    *)
(* warnings and errors of rows are left out.                               *)
(***************************************************************************)
EXTENDS Naturals, Sequences, FiniteSets

CONSTANTS
    Session,      \* open caches, in any number of processes
    Run,          \* ids of import runs
    Fingerprint,  \* raw.fingerprint of a row
    Content,      \* source files: what the adapter finds in each row
    Interval,     \* values of checkpointInterval
    Nothing       \* no run of that id, no open database, no transaction

Kind == {"good", "invalid", "malformed"}
Row == [kind : Kind, fingerprint : Fingerprint]

ASSUME ContentAssumption == Content \subseteq Seq(Row)
ASSUME IntervalAssumption == Interval \subseteq Nat \ {0}

\* A fingerprint is a hash of all of a parsed row, and what normalize() makes of
\* the row in one sync depends on the row alone.
ASSUME FingerprintAssumption ==
    \A content \in Content : \A i, j \in DOMAIN content :
        /\ "malformed" \notin {content[i].kind, content[j].kind}
        /\ content[i].fingerprint = content[j].fingerprint
        => content[i].kind = content[j].kind

VARIABLES
    file,         \* the database image at the cache path
    database,     \* the committed image of each session
    transaction,  \* fingerprints written by the open import transaction
    dirty,        \* #dirty
    sync          \* the sync each session executes, with its local variables

syncVars == <<file, database, transaction, dirty, sync>>

\* opentrade_import_runs; sourceSha256 is identified with the content.
RunRow == [status : {"running", "completed", "failed", "interrupted"},
           content : Content, lastProcessedRow : Nat, rawRecordCount : Nat]

\* records: (source_id, fingerprint) of opentrade_license_records.
Image == [records : SUBSET Fingerprint, runs : [Run -> RunRow \cup {Nothing}]]

\* pc: the await sync() is at.  before and saveFailed are history: the records
\* when the sync began, and whether a save has failed since.
Idle == [pc |-> "idle"]
Syncing == [pc : {"reading", "normalizing", "delivering", "saving", "completing", "failing"},
            run : Run, content : Content, strict : BOOLEAN, resumable : BOOLEAN,
            interval : Interval, aborted : BOOLEAN, startAfterRow : Nat, position : Nat,
            lastProcessedRow : Nat, rawRecordCount : Nat, sinceCheckpoint : Nat,
            seen : SUBSET Fingerprint, before : SUBSET Fingerprint, saveFailed : BOOLEAN]

ASSUME NothingAssumption ==
    Nothing \notin Image /\ \A written \in SUBSET Fingerprint : written # Nothing

Empty == [records |-> {}, runs |-> [r \in Run |-> Nothing]]

SyncInit ==
    /\ file = Empty
    /\ database = [s \in Session |-> Nothing]
    /\ transaction = [s \in Session |-> Nothing]
    /\ dirty = [s \in Session |-> FALSE]
    /\ sync = [s \in Session |-> Idle]

Max2(m, n) == IF m >= n THEN m ELSE n
Active(s) == sync[s].pc # "idle"
Become(s, state) == sync' = [sync EXCEPT ![s] = state]

-----------------------------------------------------------------------------
(* Sessions.                                                               *)

\* open() reads the file; migrate() marks the database dirty every time.
OpenCache(s) ==
    /\ database[s] = Nothing
    /\ database' = [database EXCEPT ![s] = file]
    /\ dirty' = [dirty EXCEPT ![s] = TRUE]
    /\ UNCHANGED <<file, transaction, sync>>

FaultyCloseBeforeSave(s) ==
    /\ database[s] # Nothing /\ ~Active(s)
    /\ transaction[s] = Nothing
    /\ database' = [database EXCEPT ![s] = Nothing]
    /\ file' = IF dirty[s] THEN database'[s] ELSE file
    /\ dirty' = [dirty EXCEPT ![s] = FALSE]
    /\ UNCHANGED <<transaction, sync>>

\* close() saves a dirty database first; a failed save keeps it open.
CloseCache(s) ==
    /\ database[s] # Nothing /\ ~Active(s)
    /\ transaction[s] = Nothing
    /\ file' = IF dirty[s] THEN database[s] ELSE file
    /\ database' = [database EXCEPT ![s] = Nothing]
    /\ dirty' = [dirty EXCEPT ![s] = FALSE]
    /\ UNCHANGED <<transaction, sync>>

\* The process dies with everything but the file.
Crash(s) ==
    /\ database[s] # Nothing
    /\ database' = [database EXCEPT ![s] = Nothing]
    /\ transaction' = [transaction EXCEPT ![s] = Nothing]
    /\ dirty' = [dirty EXCEPT ![s] = FALSE]
    /\ Become(s, Idle)
    /\ UNCHANGED file

-----------------------------------------------------------------------------
(* A sync.                                                                 *)

NewSync(s, run, content, strict, resumable, interval, last, raw) ==
    [pc |-> "reading", run |-> run, content |-> content, strict |-> strict,
     resumable |-> resumable, interval |-> interval, aborted |-> FALSE,
     startAfterRow |-> last, position |-> 1, lastProcessedRow |-> last,
     rawRecordCount |-> raw, sinceCheckpoint |-> 0, seen |-> {},
     before |-> IF resumable THEN {} ELSE database[s].records, saveFailed |-> FALSE]

\* startImportRun, or resumeImportRun of an interrupted run of the same source
\* and checksum, then beginImport.  Other requests to resume are refused.
StartSync(s, run, content, strict, resumable, interval) ==
    /\ database[s] # Nothing /\ ~Active(s)
    /\ database' = [database EXCEPT ![s].runs[run] =
          [status |-> "running", content |-> content,
           lastProcessedRow |-> 0, rawRecordCount |-> 0]]
    /\ Become(s, NewSync(s, run, content, strict, resumable, interval, 0, 0))
    /\ transaction' = [transaction EXCEPT ![s] = {}]
    /\ dirty' = [dirty EXCEPT ![s] = TRUE]
    /\ UNCHANGED file

ResumeSync(s, run, content, strict, interval) ==
    /\ database[s] # Nothing /\ ~Active(s)
    /\ LET previous == database[s].runs[run] IN
        /\ previous # Nothing
        /\ previous.status = "interrupted" /\ previous.content = content
        /\ Become(s, NewSync(s, run, content, strict, TRUE, interval,
                             previous.lastProcessedRow, previous.rawRecordCount))
    /\ database' = [database EXCEPT ![s].runs[run].status = "running"]
    /\ transaction' = [transaction EXCEPT ![s] = {}]
    /\ dirty' = [dirty EXCEPT ![s] = TRUE]
    /\ UNCHANGED file

\* The caller aborts its signal.
Abort(s) ==
    /\ Active(s) /\ ~sync[s].aborted
    /\ Become(s, [sync[s] EXCEPT !.aborted = TRUE])
    /\ UNCHANGED <<file, database, transaction, dirty>>

\* The session's image once the transaction is committed, if there is one.
Committed(s) ==
    IF transaction[s] = Nothing THEN database[s]
    ELSE [database[s] EXCEPT !.records = @ \cup transaction[s]]

\* checkpointImportRun and finishImportRun on an image.
Recorded(image, state, status) ==
    [image EXCEPT !.runs[state.run] =
        [@ EXCEPT !.status = status, !.lastProcessedRow = state.lastProcessedRow,
                  !.rawRecordCount = state.rawRecordCount]]

FaultyCatchRollsBack(s, state) ==
    /\ database' = [database EXCEPT ![s] = Recorded(database[s], state,
          IF state.aborted /\ state.resumable THEN "interrupted" ELSE "failed")]
    /\ transaction' = [transaction EXCEPT ![s] = Nothing]
    /\ dirty' = [dirty EXCEPT ![s] = TRUE]
    /\ Become(s, [state EXCEPT !.pc = "failing"])
    /\ UNCHANGED file

FaultyCatchCommits(s, state) ==
    /\ database' = [database EXCEPT ![s] = Recorded(Committed(s), state,
          IF state.aborted /\ state.resumable THEN "interrupted" ELSE "failed")]
    /\ transaction' = [transaction EXCEPT ![s] = Nothing]
    /\ dirty' = [dirty EXCEPT ![s] = TRUE]
    /\ Become(s, [state EXCEPT !.pc = "failing"])
    /\ UNCHANGED file

\* The catch block: an interrupted import is committed, any other rolled back,
\* and the run says which.  It ends in a save.
Catch(s, state) ==
    LET interrupted == state.aborted /\ state.resumable IN
    /\ database' = [database EXCEPT ![s] =
          Recorded(IF interrupted THEN Committed(s) ELSE database[s], state,
                   IF interrupted THEN "interrupted" ELSE "failed")]
    /\ transaction' = [transaction EXCEPT ![s] = Nothing]
    /\ dirty' = [dirty EXCEPT ![s] = TRUE]
    /\ Become(s, [state EXCEPT !.pc = "failing"])
    /\ UNCHANGED file

RowAt(s) == sync[s].content[sync[s].position]
Reading(s) == sync[s].pc = "reading" /\ sync[s].position <= Len(sync[s].content)

\* The signal is examined before every row.
StopReading(s) ==
    /\ Reading(s) /\ sync[s].aborted
    /\ Catch(s, sync[s])

\* A row the parser rejects: reported also below startAfterRow.
ReadMalformed(s) ==
    LET state == [sync[s] EXCEPT !.position = @ + 1,
                      !.lastProcessedRow = Max2(@, sync[s].position)] IN
    /\ Reading(s) /\ ~sync[s].aborted
    /\ RowAt(s).kind = "malformed"
    /\ IF state.strict THEN Catch(s, state)
       ELSE Become(s, state) /\ UNCHANGED <<file, database, transaction, dirty>>

\* A row of an earlier part of the run.
SkipRow(s) ==
    /\ Reading(s) /\ ~sync[s].aborted
    /\ RowAt(s).kind # "malformed" /\ sync[s].position <= sync[s].startAfterRow
    /\ Become(s, [sync[s] EXCEPT !.position = @ + 1])
    /\ UNCHANGED <<file, database, transaction, dirty>>

FaultyTakeBeforeSignal(s) ==
    LET fingerprint == RowAt(s).fingerprint IN
    /\ Reading(s)
    /\ RowAt(s).kind # "malformed" /\ sync[s].position > sync[s].startAfterRow
    /\ IF sync[s].aborted THEN Catch(s, [sync[s] EXCEPT !.rawRecordCount = @ + 1])
       ELSE /\ Become(s, [sync[s] EXCEPT
                  !.rawRecordCount = @ + 1,
                  !.lastProcessedRow = Max2(@, sync[s].position),
                  !.pc = IF fingerprint \in sync[s].seen THEN @ ELSE "normalizing",
                  !.position = IF fingerprint \in sync[s].seen THEN @ + 1 ELSE @,
                  !.seen = @ \cup {fingerprint}])
            /\ UNCHANGED <<file, database, transaction, dirty>>

\* Any other row is counted; a repeated fingerprint ends it, another is
\* normalized.
TakeRow(s) ==
    LET fingerprint == RowAt(s).fingerprint IN
    /\ Reading(s) /\ ~sync[s].aborted
    /\ RowAt(s).kind # "malformed" /\ sync[s].position > sync[s].startAfterRow
    /\ Become(s, [sync[s] EXCEPT
          !.rawRecordCount = @ + 1,
          !.lastProcessedRow = Max2(@, sync[s].position),
          !.pc = IF fingerprint \in sync[s].seen THEN @ ELSE "normalizing",
          !.position = IF fingerprint \in sync[s].seen THEN @ + 1 ELSE @,
          !.seen = @ \cup {fingerprint}])
    /\ UNCHANGED <<file, database, transaction, dirty>>

\* normalize() or the schema rejects the row.
NormalizeInvalid(s) ==
    LET state == [sync[s] EXCEPT !.pc = "reading", !.position = @ + 1] IN
    /\ sync[s].pc = "normalizing" /\ RowAt(s).kind = "invalid"
    /\ IF state.strict THEN Catch(s, state)
       ELSE Become(s, state) /\ UNCHANGED <<file, database, transaction, dirty>>

\* importRecord; the record is then handed to onRecord, which is awaited.
ImportRecord(s) ==
    /\ sync[s].pc = "normalizing" /\ RowAt(s).kind = "good"
    /\ transaction' = [transaction EXCEPT ![s] = @ \cup {RowAt(s).fingerprint}]
    /\ Become(s, [sync[s] EXCEPT !.pc = "delivering"])
    /\ UNCHANGED <<file, database, dirty>>

\* onRecord rejects, an export file that cannot be written for instance.
DeliveryFails(s) ==
    /\ sync[s].pc = "delivering"
    /\ Catch(s, sync[s])

\* onRecord is done: on to the next row or, when the interval of a resumable
\* sync is reached, the commit and the checkpoint, which await a save.
Delivered(s) ==
    LET count == sync[s].sinceCheckpoint + 1
        due == sync[s].resumable /\ count >= sync[s].interval
    IN
    /\ sync[s].pc = "delivering"
    /\ Become(s, [sync[s] EXCEPT !.pc = IF due THEN "saving" ELSE "reading",
                                 !.position = @ + 1, !.sinceCheckpoint = count])
    /\ IF due
       THEN /\ database' = [database EXCEPT ![s] = Recorded(Committed(s), sync[s], "running")]
            /\ transaction' = [transaction EXCEPT ![s] = Nothing]
            /\ dirty' = [dirty EXCEPT ![s] = TRUE]
       ELSE UNCHANGED <<database, transaction, dirty>>
    /\ UNCHANGED file

\* The rows are read: commit, checkpoint and finish, and a last save.
EndOfRows(s) ==
    /\ sync[s].pc = "reading" /\ sync[s].position > Len(sync[s].content)
    /\ database' = [database EXCEPT ![s] = Recorded(Committed(s), sync[s], "completed")]
    /\ transaction' = [transaction EXCEPT ![s] = Nothing]
    /\ dirty' = [dirty EXCEPT ![s] = TRUE]
    /\ Become(s, [sync[s] EXCEPT !.pc = "completing"])
    /\ UNCHANGED file

\* save(): the image is exported and renamed into place.  After a checkpoint
\* the next import transaction begins; after the others sync() returns.
Save(s) ==
    /\ sync[s].pc \in {"saving", "completing", "failing"}
    /\ file' = database[s]
    /\ dirty' = [dirty EXCEPT ![s] = FALSE]
    /\ IF sync[s].pc = "saving"
       THEN /\ transaction' = [transaction EXCEPT ![s] = {}]
            /\ Become(s, [sync[s] EXCEPT !.pc = "reading", !.sinceCheckpoint = 0])
       ELSE UNCHANGED transaction /\ Become(s, Idle)
    /\ UNCHANGED database

\* The disk is full, or the rename is refused: the catch block runs, or, when
\* it is the catch block that saves, sync() rejects.
SaveFails(s) ==
    \/ /\ sync[s].pc \in {"saving", "completing"}
       /\ Catch(s, [sync[s] EXCEPT !.saveFailed = TRUE])
    \/ /\ sync[s].pc = "failing"
       /\ Become(s, Idle)
       /\ UNCHANGED <<file, database, transaction, dirty>>

Step(s) ==
    \/ StopReading(s) \/ ReadMalformed(s) \/ SkipRow(s) \/ TakeRow(s)
    \/ NormalizeInvalid(s) \/ ImportRecord(s) \/ DeliveryFails(s) \/ Delivered(s)
    \/ EndOfRows(s) \/ Save(s) \/ SaveFails(s)

SyncNext == \E s \in Session :
    \/ OpenCache(s) \/ CloseCache(s) \/ Crash(s) \/ Abort(s) \/ Step(s)
    \/ \E run \in Run, content \in Content, strict \in BOOLEAN, interval \in Interval :
        \/ ResumeSync(s, run, content, strict, interval)
        \/ \E resumable \in BOOLEAN : StartSync(s, run, content, strict, resumable, interval)

SyncSpec == SyncInit /\ [][SyncNext]_syncVars

-----------------------------------------------------------------------------
(* Properties.                                                             *)

SyncTypeOK ==
    /\ file \in Image
    /\ database \in [Session -> Image \cup {Nothing}]
    /\ transaction \in [Session -> (SUBSET Fingerprint) \cup {Nothing}]
    /\ dirty \in [Session -> BOOLEAN]
    /\ sync \in [Session -> Syncing \cup {Idle}]

Images == {file} \cup {database[s] : s \in {t \in Session : database[t] # Nothing}}

Covers(image, content, n) ==
    \A i \in 1..n : content[i].kind = "good" => content[i].fingerprint \in image.records

\* In memory and on disk, the rows up to the point where a run that has not
\* failed would be resumed are in the same image as that point: whatever is
\* aborted, lost or saved in turn by two sessions, a resumed run skips no
\* record.
ResumePointIsCovered ==
    \A image \in Images, r \in Run :
        LET run == image.runs[r] IN
        run # Nothing => run.status = "failed" \/ Covers(image, run.content, run.lastProcessedRow)

CountUpTo(content, n) == Cardinality({i \in 1..n : content[i].kind # "malformed"})

\* However often it was interrupted and resumed, a run counted every parsed row
\* up to its resume point exactly once, and a completed one has read them all.
RowsCountOnce ==
    \A image \in Images, r \in Run :
        LET run == image.runs[r] IN
        run # Nothing =>
            /\ run.rawRecordCount = CountUpTo(run.content, run.lastProcessedRow)
            /\ run.status = "completed" => run.lastProcessedRow = Len(run.content)

\* A sync that is not resumable and fails, for whatever reason but a failed
\* save, leaves the records as they were.
FailedSyncChangesNothing ==
    \A s \in Session :
        sync[s].pc = "failing" /\ ~sync[s].resumable =>
            database[s].records = sync[s].before \/ sync[s].saveFailed

=============================================================================
