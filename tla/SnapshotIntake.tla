--------------------------- MODULE SnapshotIntake ---------------------------
(***************************************************************************)
(* The life of a staged snapshot file: the enqueue command inspects it,    *)
(* archives it under an object key and registers snapshot and job in       *)
(* Postgres; an import inspects it and checks the archive before and after *)
(* parsing it.  Models enqueue.ts, archive.ts and snapshot-file.ts of the  *)
(* ingestion service, enqueue_snapshot_import of migration 0004 and the    *)
(* use the import handler makes of them.                                   *)
(*                                                                         *)
(* The staging file is outside the system's control: an operator or a      *)
(* downloader may replace it at any time.  Every read of the file and      *)
(* every call of the archive or the database is a step of its own.  A      *)
(* digest is identified with the content it digests.                       *)
(***************************************************************************)
EXTENDS Naturals

CONSTANTS
    Process,  \* enqueue commands and import handlers at work
    Source,   \* sources with a trusted policy
    Key,      \* object keys of the archive bucket
    File,     \* paths below OPENTRADE_SNAPSHOT_ROOT
    Bytes,    \* contents a file may have
    None      \* no object under a key, no digest yet

ASSUME NoneAssumption == None \notin Bytes /\ None \notin [sha256 : Bytes, source : Source]

VARIABLES
    file,       \* content of each staging file
    object,     \* archived object per key; immutable content and metadata
    snapshots,  \* source_snapshots, each with the file path of its import job
    process,    \* what each process does
    rewrites    \* history: how often (up to 2) the file of each process was
                \* replaced since the process started

intakeVars == <<file, object, snapshots, process, rewrites>>

Request == [source : Source, key : Key, path : File]
Object == [sha256 : Bytes, source : Source]
Snapshot == [source : Source, key : Key, path : File, sha256 : Bytes]

\* What the process does with the file once it is archived.
Goal == {"register", "parse", "publish"}

\* "refused": the process ended with an error about its request; "published":
\* the import was promoted.
Pc == {"idle", "inspecting", "looking", "putting", "verifying", "archived",
       "parsing", "refused", "published"}

Idle == [pc |-> "idle"]
Working == [pc : Pc \ {"idle"}, goal : Goal, request : Request,
            sha256 : Bytes \cup {None}, parsed : SUBSET Bytes]

Active(p) == process[p].pc \notin {"idle", "refused", "published"}

Goto(p, state) == process' = [process EXCEPT ![p].pc = state]

IntakeInit ==
    /\ file \in [File -> Bytes]
    /\ object = [k \in Key |-> None]
    /\ snapshots = {}
    /\ process = [p \in Process |-> Idle]
    /\ rewrites = [p \in Process |-> 0]

-----------------------------------------------------------------------------
(* Starting and ending.                                                    *)

Start(p, goal, request, digest) ==
    /\ process[p].pc = "idle"
    /\ process' = [process EXCEPT ![p] =
          [pc |-> "inspecting", goal |-> goal, request |-> request,
           sha256 |-> digest, parsed |-> {}]]
    /\ rewrites' = [rewrites EXCEPT ![p] = 0]
    /\ UNCHANGED <<file, object, snapshots>>

\* The enqueue command accepted the request: its source has a policy and its
\* key is a normalized path.
StartEnqueue(p, request) == Start(p, "register", request, None)

\* A worker claimed the job of a snapshot; its payload names path and digest.
StartImport(p, s) ==
    Start(p, "parse", [source |-> s.source, key |-> s.key, path |-> s.path], s.sha256)

\* The command exits, or the handler returns or throws.
End(p) ==
    /\ process[p].pc \in {"refused", "published"}
    /\ process' = [process EXCEPT ![p] = Idle]
    /\ UNCHANGED <<file, object, snapshots, rewrites>>

\* A crash, an aborted signal, a failed limit or a call that rejects without
\* effect: the process ends and leaves behind what it did.
Abandon(p) ==
    /\ Active(p)
    /\ process' = [process EXCEPT ![p] = Idle]
    /\ UNCHANGED <<file, object, snapshots, rewrites>>

-----------------------------------------------------------------------------
(* inspectSnapshotFile and ensureArchived.                                 *)

\* The digest of the file.  A replacement while it is being read shows in its
\* size or modification time and is an Abandon.  An import knows the digest to
\* expect (verifySnapshotFile).
Inspect(p) ==
    LET expected == process[p].sha256
        content == file[process[p].request.path] IN
    /\ process[p].pc = "inspecting"
    /\ process' = [process EXCEPT
          ![p].pc = IF expected \in {None, content} THEN "looking" ELSE "refused",
          ![p].sha256 = IF expected = None THEN content ELSE expected]
    /\ UNCHANGED <<file, object, snapshots, rewrites>>

\* The first HEAD.
Look(p) ==
    /\ process[p].pc = "looking"
    /\ Goto(p, IF object[process[p].request.key] = None THEN "putting" ELSE "verifying")
    /\ UNCHANGED <<file, object, snapshots, rewrites>>

\* The archive stores the body with its metadata.
Store(p) ==
    object' = [object EXCEPT ![process[p].request.key] =
        [sha256 |-> process[p].sha256, source |-> process[p].request.source]]

FaultyPutUnconditional(p) ==
    /\ process[p].pc = "putting"
    /\ file[process[p].request.path] = process[p].sha256
    /\ Store(p)
    /\ Goto(p, "verifying") \/ process' = [process EXCEPT ![p] = Idle]
    /\ UNCHANGED <<file, snapshots, rewrites>>

\* PUT with If-None-Match: the body is read from the file now and the server
\* compares it with the digest sent along.  The answer may be lost.
Put(p) ==
    /\ process[p].pc = "putting"
    /\ object[process[p].request.key] = None
    /\ file[process[p].request.path] = process[p].sha256
    /\ Store(p)
    /\ Goto(p, "verifying") \/ process' = [process EXCEPT ![p] = Idle]
    /\ UNCHANGED <<file, snapshots, rewrites>>

FaultyPutConflict(p) ==
    /\ process[p].pc = "putting"
    /\ object[process[p].request.key] # None
    /\ Goto(p, "refused")
    /\ UNCHANGED <<file, object, snapshots, rewrites>>

\* Another process was faster: the precondition failure is ignored.
PutConflict(p) ==
    /\ process[p].pc = "putting"
    /\ object[process[p].request.key] # None
    /\ Goto(p, "verifying")
    /\ UNCHANGED <<file, object, snapshots, rewrites>>

\* The body no longer has the digest: the server rejects it.
PutMismatch(p) ==
    /\ process[p].pc = "putting"
    /\ object[process[p].request.key] = None
    /\ file[process[p].request.path] # process[p].sha256
    /\ Goto(p, "refused")
    /\ UNCHANGED <<file, object, snapshots, rewrites>>

\* verifyArchivedObject compares digest, checksum and source of the object.
ObjectMatches(p) ==
    object[process[p].request.key] =
        [sha256 |-> process[p].sha256, source |-> process[p].request.source]

\* The last HEAD, verified.
Verify(p) ==
    /\ process[p].pc = "verifying"
    /\ Goto(p, IF ObjectMatches(p) THEN "archived" ELSE "refused")
    /\ UNCHANGED <<file, object, snapshots, rewrites>>

-----------------------------------------------------------------------------
(* What follows.                                                           *)

\* enqueue_snapshot_import, one transaction: a new snapshot and its job, or the
\* ones the same source and digest already have, if the object key agrees.
\* The answer may be lost.  Calls come one after another, as the two unique
\* indexes make them wait: the constraint on object_key, which "on conflict" does
\* not name, may in addition fail the second of two first calls that overlap.
Register(p) ==
    LET r == process[p].request
        same == {s \in snapshots : s.source = r.source /\ s.sha256 = process[p].sha256}
    IN
    /\ process[p].pc = "archived" /\ process[p].goal = "register"
    /\ \/ /\ same = {} /\ \A s \in snapshots : s.key # r.key
          /\ snapshots' = snapshots \cup
                {[source |-> r.source, key |-> r.key, path |-> r.path,
                  sha256 |-> process[p].sha256]}
          /\ process' = [process EXCEPT ![p] = Idle]
       \/ /\ same # {} /\ \A s \in same : s.key = r.key
          /\ snapshots' = snapshots
          /\ process' = [process EXCEPT ![p] = Idle]
       \/ /\ \/ same # {} /\ \E s \in same : s.key # r.key
             \/ same = {} /\ \E s \in snapshots : s.key = r.key
          /\ snapshots' = snapshots
          /\ Goto(p, "refused")
    /\ UNCHANGED <<file, object, rewrites>>

\* The first check of the import passed.
StartParsing(p) ==
    /\ process[p].pc = "archived" /\ process[p].goal = "parse"
    /\ Goto(p, "parsing")
    /\ UNCHANGED <<file, object, snapshots, rewrites>>

\* The adapter streams some of the file.
Parse(p) ==
    /\ process[p].pc = "parsing"
    /\ process' = [process EXCEPT ![p].parsed = @ \cup {file[process[p].request.path]}]
    /\ UNCHANGED <<file, object, snapshots, rewrites>>

FaultyEndOfStream(p) ==
    /\ process[p].pc = "parsing" /\ process[p].parsed # {}
    /\ process' = [process EXCEPT ![p].pc = "archived", ![p].goal = "publish"]
    /\ UNCHANGED <<file, object, snapshots, rewrites>>

\* The second check begins.
EndOfStream(p) ==
    /\ process[p].pc = "parsing" /\ process[p].parsed # {}
    /\ process' = [process EXCEPT ![p].pc = "inspecting", ![p].goal = "publish"]
    /\ UNCHANGED <<file, object, snapshots, rewrites>>

\* The manifest is validated and promoted.
Publish(p) ==
    /\ process[p].pc = "archived" /\ process[p].goal = "publish"
    /\ Goto(p, "published")
    /\ UNCHANGED <<file, object, snapshots, rewrites>>

\* Somebody replaces a staging file.
Replace(f, content) ==
    /\ content # file[f]
    /\ file' = [file EXCEPT ![f] = content]
    /\ rewrites' = [p \in Process |->
          IF Active(p) /\ process[p].request.path = f /\ rewrites[p] < 2
          THEN rewrites[p] + 1 ELSE rewrites[p]]
    /\ UNCHANGED <<object, snapshots, process>>

Step(p) ==
    \/ Inspect(p) \/ Look(p) \/ Put(p) \/ PutConflict(p) \/ PutMismatch(p) \/ Verify(p)
    \/ Register(p) \/ StartParsing(p) \/ Parse(p) \/ EndOfStream(p) \/ Publish(p)

IntakeNext ==
    \/ \E p \in Process :
        \/ \E request \in Request : StartEnqueue(p, request)
        \/ \E s \in snapshots : StartImport(p, s)
        \/ Step(p) \/ End(p) \/ Abandon(p)
    \/ \E f \in File, content \in Bytes : Replace(f, content)

IntakeSpec == IntakeInit /\ [][IntakeNext]_intakeVars

-----------------------------------------------------------------------------
(* Properties.                                                             *)

IntakeTypeOK ==
    /\ file \in [File -> Bytes]
    /\ object \in [Key -> Object \cup {None}]
    /\ snapshots \subseteq Snapshot
    /\ process \in [Process -> Working \cup {Idle}]
    /\ rewrites \in [Process -> 0..2]

\* Every registered snapshot is in the archive under its key, with its digest
\* and its source: no concurrent enqueue, retry or lost answer replaces it, and
\* no two snapshots share a key.
RegisteredIsArchived ==
    \A s \in snapshots : object[s.key] = [sha256 |-> s.sha256, source |-> s.source]

\* An import publishes only rows of the registered content, unless the staging
\* file was replaced at least twice while it ran (the second time by the
\* registered content): one replacement, at any point, stops the import.
PublishedIsRegistered ==
    \A p \in Process : process[p].pc = "published" =>
        process[p].parsed = {process[p].sha256} \/ rewrites[p] = 2

\* The key holds another object, or the content is registered under another key.
Conflict(p) ==
    LET r == process[p].request  sha256 == process[p].sha256 IN
    \/ object[r.key] # None /\ object[r.key] # [sha256 |-> sha256, source |-> r.source]
    \/ \E s \in snapshots : s.source = r.source /\ s.sha256 = sha256 /\ s.key # r.key

\* An enqueue is refused only for a reason that lasts, or because its file was
\* replaced under it: races between enqueues of one request, and repetitions
\* after a lost answer, are never refused.
OnlyConflictsAreRefused ==
    \A p \in Process : process[p].pc = "refused" /\ process[p].goal = "register" =>
        Conflict(p) \/ rewrites[p] > 0

=============================================================================
