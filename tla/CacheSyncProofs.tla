---------------------------- MODULE CacheSyncProofs ----------------------------
(***************************************************************************)
(* Proofs about the sync of a source into the local cache, for any number  *)
(* of sessions, runs, rows and contents and any checkpoint interval.       *)
(***************************************************************************)
EXTENDS CacheSync, FiniteSetTheorems, TLAPS

-----------------------------------------------------------------------------
(* The inductive invariant, over values rather than variables, so that the  *)
(* state of the sessions that do not move is carried over as it is.         *)

Merged(image, written) ==
    IF written = Nothing THEN image ELSE [image EXCEPT !.records = @ \cup written]

\* The counters of a sync, or of a run, that belong together.
Counted(counters) ==
    /\ counters.lastProcessedRow <= Len(counters.content)
    /\ counters.rawRecordCount = CountUpTo(counters.content, counters.lastProcessedRow)

GoodRun(image, run) ==
    /\ Counted(run)
    /\ run.status # "failed" => Covers(image, run.content, run.lastProcessedRow)
    /\ run.status = "completed" => run.lastProcessedRow = Len(run.content)

GoodImage(image) == \A r \in Run : image.runs[r] # Nothing => GoodRun(image, image.runs[r])

Importing == {"reading", "normalizing", "delivering"}

\* Where a sync is in its file.
InPlace(state) ==
    /\ state.startAfterRow <= Len(state.content)
    /\ state.position \in 1..(Len(state.content) + 1)
    /\ state.pc \in {"reading", "saving", "completing"} =>
        state.lastProcessedRow = Max2(state.startAfterRow, state.position - 1)
    /\ state.pc \in {"normalizing", "delivering"} =>
        /\ state.lastProcessedRow = state.position
        /\ state.position <= Len(state.content) /\ state.startAfterRow < state.position
        /\ state.content[state.position].kind # "malformed"
    /\ state.pc = "delivering" => state.content[state.position].kind = "good"
    /\ state.pc = "completing" => state.position = Len(state.content) + 1

\* The rows of which nothing is left to do.
Settled(state) ==
    IF state.pc = "normalizing" THEN state.position - 1 ELSE state.lastProcessedRow

\* A repeated fingerprint is skipped because its record is there, the one at
\* hand excepted.
SeenIsImported(image, state) ==
    \A i \in DOMAIN state.content :
        /\ state.content[i].kind = "good"
        /\ state.content[i].fingerprint \in state.seen
        => \/ state.content[i].fingerprint \in image.records
           \/ /\ state.pc = "normalizing"
              /\ state.content[i].fingerprint = state.content[state.position].fingerprint

KeepsRecords(image, state) ==
    /\ state.pc = "saving" => state.resumable
    /\ state.pc \in Importing /\ ~state.resumable => image.records = state.before
    /\ state.pc = "failing" /\ ~state.resumable => image.records = state.before \/ state.saveFailed

GoodSync(image, written, state) ==
    /\ image \in Image
    /\ image.runs[state.run] \in RunRow /\ image.runs[state.run].content = state.content
    /\ IF state.pc \in Importing THEN written \in SUBSET Fingerprint ELSE written = Nothing
    /\ InPlace(state) /\ Counted(state) /\ KeepsRecords(image, state)
    /\ state.pc # "failing" =>
        /\ Covers(Merged(image, written), state.content, Settled(state))
        /\ SeenIsImported(Merged(image, written), state)

\* The inductive invariant.
SyncInv ==
    /\ SyncTypeOK
    /\ GoodImage(file)
    /\ \A s \in Session :
        /\ database[s] \in Image => GoodImage(database[s])
        /\ Active(s) => GoodSync(database[s], transaction[s], sync[s])

-----------------------------------------------------------------------------
(* Lemmas about the operators.                                             *)

\* A count grows by one with every row that parses, and by nothing else.
LEMMA CountsEveryRow ==
    ASSUME NEW content \in Content, NEW n \in Nat
    PROVE  /\ CountUpTo(content, n) \in Nat
           /\ CountUpTo(content, 0) = 0
           /\ CountUpTo(content, n + 1) =
                CountUpTo(content, n) + (IF content[n + 1].kind # "malformed" THEN 1 ELSE 0)
<1> DEFINE parsed(m) == {i \in 1..m : content[i].kind # "malformed"}
<1>0. \A m : CountUpTo(content, m) = Cardinality(parsed(m))
  BY DEF CountUpTo
<1>1. IsFiniteSet(parsed(n))
  <2>1. IsFiniteSet(1..n)
    BY FS_Interval
  <2>2. parsed(n) \in SUBSET (1..n)
    OBVIOUS
  <2> HIDE DEF parsed
  <2>3. QED
    BY <2>1, <2>2, FS_Subset
<1>2. CountUpTo(content, n) \in Nat
  <2> HIDE DEF parsed
  <2>1. QED
    BY <1>0, <1>1, FS_CardinalityType
<1>3. CountUpTo(content, 0) = 0
  <2>1. parsed(0) = {}
    OBVIOUS
  <2> HIDE DEF parsed
  <2>2. QED
    BY <1>0, <2>1, FS_EmptySet
<1>4. CASE content[n + 1].kind # "malformed"
  <2>1. parsed(n + 1) = parsed(n) \cup {n + 1} /\ n + 1 \notin parsed(n)
    BY <1>4
  <2>2. Cardinality(parsed(n + 1)) = Cardinality(parsed(n)) + 1
    <3> HIDE DEF parsed
    <3>1. QED
      BY <2>1, <1>1, FS_AddElement
  <2>3. QED
    BY <2>2, <1>0, <1>2, <1>3, <1>4
<1>5. CASE content[n + 1].kind = "malformed"
  <2>1. parsed(n + 1) = parsed(n)
    BY <1>5
  <2> HIDE DEF parsed
  <2>2. QED
    BY <2>1, <1>0, <1>2, <1>3, <1>5
<1>6. QED
  BY <1>4, <1>5

LEMMA MergedImage ==
    ASSUME NEW image \in Image, NEW written \in (SUBSET Fingerprint) \cup {Nothing}
    PROVE  /\ Merged(image, written) \in Image
           /\ Merged(image, written).runs = image.runs
           /\ image.records \subseteq Merged(image, written).records
           /\ written = Nothing => Merged(image, written) = image
           /\ written # Nothing => Merged(image, written).records = image.records \cup written
BY DEF Merged, Image

\* Records are never taken away from an image, and more of them do no harm.
LEMMA MoreRecords ==
    ASSUME NEW image \in Image, NEW other \in Image, other.runs = image.runs,
           image.records \subseteq other.records
    PROVE  /\ GoodImage(image) => GoodImage(other)
           /\ \A content \in Content, n \in Nat :
                Covers(image, content, n) => Covers(other, content, n)
<1>1. \A content, n : Covers(image, content, n) => Covers(other, content, n)
  BY DEF Covers
<1>2. QED
  BY <1>1 DEF GoodImage, GoodRun

LEMMA MergedIsGood ==
    ASSUME NEW image \in Image, NEW written \in (SUBSET Fingerprint) \cup {Nothing},
           GoodImage(image)
    PROVE  GoodImage(Merged(image, written))
BY MergedImage, MoreRecords

\* What is recorded of a run by a sync whose counters belong together is good,
\* if the records are in the image.
LEMMA RecordedIsGood ==
    ASSUME NEW image \in Image, NEW state \in Syncing,
           NEW status \in {"running", "completed", "failed", "interrupted"},
           GoodImage(image), Counted(state),
           image.runs[state.run] \in RunRow, image.runs[state.run].content = state.content,
           status # "failed" => Covers(image, state.content, state.lastProcessedRow),
           status = "completed" => state.lastProcessedRow = Len(state.content)
    PROVE  /\ Recorded(image, state, status) \in Image
           /\ GoodImage(Recorded(image, state, status))
           /\ Recorded(image, state, status).records = image.records
           /\ Recorded(image, state, status).runs[state.run] \in RunRow
           /\ Recorded(image, state, status).runs[state.run].content = state.content
<1> DEFINE old == image.runs[state.run]
           new == [old EXCEPT !.status = status, !.lastProcessedRow = state.lastProcessedRow,
                              !.rawRecordCount = state.rawRecordCount]
           next == Recorded(image, state, status)
<1>1. state.run \in Run /\ state.lastProcessedRow \in Nat /\ state.rawRecordCount \in Nat
  BY DEF Syncing
<1>2. /\ new \in RunRow /\ new.content = state.content /\ new.status = status
      /\ new.lastProcessedRow = state.lastProcessedRow
      /\ new.rawRecordCount = state.rawRecordCount
  BY <1>1 DEF RunRow
<1>3. /\ next = [records |-> image.records, runs |-> [image.runs EXCEPT ![state.run] = new]]
      /\ image.records \in SUBSET Fingerprint /\ image.runs \in [Run -> RunRow \cup {Nothing}]
  BY DEF Recorded, Image
<1> HIDE DEF new, next, old
<1>4. /\ next \in Image /\ next.records = image.records /\ next.runs[state.run] = new
      /\ \A r \in Run \ {state.run} : next.runs[r] = image.runs[r]
  BY <1>1, <1>2, <1>3 DEF Image
<1>5. \A content, n : Covers(image, content, n) <=> Covers(next, content, n)
  BY <1>4 DEF Covers
<1>6. GoodRun(next, new)
  BY <1>2, <1>5 DEF GoodRun, Counted
<1>7. ASSUME NEW r \in Run \ {state.run}, next.runs[r] # Nothing
      PROVE  GoodRun(next, next.runs[r])
  BY <1>4, <1>5, <1>7 DEF GoodImage, GoodRun
<1>8. GoodImage(next)
  BY <1>4, <1>6, <1>7 DEF GoodImage
<1>9. QED
  BY <1>2, <1>4, <1>8 DEF next

-----------------------------------------------------------------------------
(* Steps.                                                                  *)

LEMMA CommittedIsMerged ==
    ASSUME NEW s \in Session
    PROVE  Committed(s) = Merged(database[s], transaction[s])
BY DEF Committed, Merged

LEMMA ActiveSession ==
    ASSUME SyncInv, NEW s \in Session, Active(s)
    PROVE  /\ sync[s] \in Syncing /\ database[s] \in Image /\ GoodImage(database[s])
           /\ transaction[s] \in (SUBSET Fingerprint) \cup {Nothing}
           /\ GoodSync(database[s], transaction[s], sync[s])
<1>1. sync[s] \in Syncing
  BY DEF SyncInv, SyncTypeOK, Active, Idle
<1>2. GoodSync(database[s], transaction[s], sync[s])
  BY DEF SyncInv
<1>3. QED
  BY <1>1, <1>2 DEF SyncInv, SyncTypeOK, GoodSync

\* A step of one session: the others keep their part of the invariant.
LEMMA OneSession ==
    ASSUME SyncInv, NEW s \in Session, SyncTypeOK', GoodImage(file'),
           \A t \in Session \ {s} :
                /\ database'[t] = database[t] /\ transaction'[t] = transaction[t]
                /\ sync'[t] = sync[t],
           database'[s] \in Image => GoodImage(database'[s]),
           sync'[s].pc # "idle" => GoodSync(database'[s], transaction'[s], sync'[s])
    PROVE  SyncInv'
<1>1. ASSUME NEW t \in Session
      PROVE  /\ database'[t] \in Image => GoodImage(database'[t])
             /\ sync'[t].pc # "idle" => GoodSync(database'[t], transaction'[t], sync'[t])
  BY DEF SyncInv, Active
<1>2. QED
  BY <1>1 DEF SyncInv, Active

\* A step that moves the sync on and writes nothing.
LEMMA SyncMoves ==
    ASSUME SyncInv, NEW s \in Session, Active(s), NEW state \in Syncing,
           Become(s, state), UNCHANGED <<file, database, transaction, dirty>>,
           GoodSync(database[s], transaction[s], state)
    PROVE  SyncInv'
<1>1. sync \in [Session -> Syncing \cup {Idle}]
  BY DEF SyncInv, SyncTypeOK
<1>2. /\ sync' \in [Session -> Syncing \cup {Idle}] /\ sync'[s] = state
      /\ \A t \in Session \ {s} : sync'[t] = sync[t]
  BY <1>1 DEF Become
<1>3. SyncTypeOK'
  BY <1>2 DEF SyncInv, SyncTypeOK
<1>4. QED
  BY <1>2, <1>3, OneSession DEF SyncInv

\* The catch block, in a state whose counters belong together.
LEMMA CatchIsGood ==
    ASSUME SyncInv, NEW s \in Session, Active(s), NEW state \in Syncing, Catch(s, state),
           state.run = sync[s].run, state.content = sync[s].content,
           state.startAfterRow <= Len(state.content),
           state.position \in 1..(Len(state.content) + 1),
           Counted(state),
           Covers(Committed(s), state.content, state.lastProcessedRow),
           ~state.resumable => database[s].records = state.before \/ state.saveFailed
    PROVE  SyncInv'
<1> DEFINE interrupted == state.aborted /\ state.resumable
           image == IF interrupted THEN Committed(s) ELSE database[s]
           status == IF interrupted THEN "interrupted" ELSE "failed"
           next == Recorded(image, state, status)
           last == [state EXCEPT !.pc = "failing"]
<1>1. /\ sync[s] \in Syncing /\ database[s] \in Image /\ GoodImage(database[s])
      /\ transaction[s] \in (SUBSET Fingerprint) \cup {Nothing}
      /\ GoodSync(database[s], transaction[s], sync[s])
  BY ActiveSession
<1>2. /\ Committed(s) \in Image /\ GoodImage(Committed(s))
      /\ Committed(s).runs = database[s].runs
  BY <1>1, CommittedIsMerged, MergedImage, MergedIsGood
<1>3. /\ image \in Image /\ GoodImage(image) /\ image.runs = database[s].runs
      /\ status \in {"running", "completed", "failed", "interrupted"} /\ status # "completed"
      /\ status # "failed" => Covers(image, state.content, state.lastProcessedRow)
      /\ ~interrupted => image = database[s]
  BY <1>1, <1>2
<1>4. /\ image.runs[state.run] \in RunRow
      /\ image.runs[state.run].content = state.content
  BY <1>1, <1>3 DEF GoodSync
<1> HIDE DEF image, status
<1>5. /\ next \in Image /\ GoodImage(next) /\ next.records = image.records
      /\ next.runs[state.run] \in RunRow /\ next.runs[state.run].content = state.content
  <2> HIDE DEF last, interrupted
  <2>1. /\ image \in Image /\ GoodImage(image)
        /\ status \in {"running", "completed", "failed", "interrupted"}
        /\ image.runs[state.run] \in RunRow /\ image.runs[state.run].content = state.content
        /\ status # "failed" => Covers(image, state.content, state.lastProcessedRow)
        /\ status = "completed" => state.lastProcessedRow = Len(state.content)
    BY <1>3, <1>4
  <2>2. QED
    BY <2>1, RecordedIsGood, Zenon
<1>6. /\ last \in Syncing /\ last.pc = "failing" /\ last.run = state.run
      /\ last.content = state.content /\ last.resumable = state.resumable
      /\ last.lastProcessedRow = state.lastProcessedRow
      /\ last.rawRecordCount = state.rawRecordCount
      /\ last.startAfterRow = state.startAfterRow /\ last.position = state.position
      /\ last.before = state.before /\ last.saveFailed = state.saveFailed
  BY DEF Syncing
<1>7. /\ database' = [database EXCEPT ![s] = next]
      /\ transaction' = [transaction EXCEPT ![s] = Nothing]
      /\ dirty' = [dirty EXCEPT ![s] = TRUE]
      /\ sync' = [sync EXCEPT ![s] = last]
      /\ file' = file
  BY DEF Catch, Become, image, status
<1> HIDE DEF next, last
<1>8. SyncTypeOK'
  BY <1>5, <1>6, <1>7 DEF SyncInv, SyncTypeOK
<1>9. /\ database'[s] = next /\ transaction'[s] = Nothing /\ sync'[s] = last
      /\ \A t \in Session \ {s} :
            /\ database'[t] = database[t] /\ transaction'[t] = transaction[t]
            /\ sync'[t] = sync[t]
  BY <1>7 DEF SyncInv, SyncTypeOK
<1>10. GoodSync(next, Nothing, last)
  <2>1. InPlace(last) /\ Counted(last)
    BY <1>6 DEF InPlace, Counted
  <2>2. KeepsRecords(next, last)
    BY <1>3, <1>5, <1>6 DEF KeepsRecords, Importing, interrupted
  <2>3. QED
    BY <1>5, <1>6, <2>1, <2>2 DEF GoodSync, Importing
<1>11. QED
  BY <1>5, <1>7, <1>8, <1>9, <1>10, OneSession DEF SyncInv

-----------------------------------------------------------------------------
(* Sessions.                                                               *)

LEMMA OpenPreserves ==
    ASSUME SyncInv, NEW s \in Session, OpenCache(s) PROVE SyncInv'
<1>1. SyncTypeOK'
  BY DEF SyncInv, SyncTypeOK, OpenCache
<1>2. database'[s] = file
  BY DEF SyncInv, SyncTypeOK, OpenCache
<1>3. ~Active(s)
  BY NothingAssumption DEF SyncInv, OpenCache, GoodSync
<1>4. QED
  BY <1>1, <1>2, <1>3, OneSession DEF SyncInv, SyncTypeOK, OpenCache, Active

LEMMA ClosePreserves ==
    ASSUME SyncInv, NEW s \in Session, CloseCache(s) PROVE SyncInv'
<1>1. SyncTypeOK'
  BY DEF SyncInv, SyncTypeOK, CloseCache
<1>2. GoodImage(file')
  BY DEF SyncInv, SyncTypeOK, CloseCache
<1>3. database'[s] \notin Image
  BY NothingAssumption DEF SyncInv, SyncTypeOK, CloseCache
<1>4. QED
  BY <1>1, <1>2, <1>3, OneSession DEF SyncInv, SyncTypeOK, CloseCache, Active

LEMMA CrashPreserves ==
    ASSUME SyncInv, NEW s \in Session, Crash(s) PROVE SyncInv'
<1>1. SyncTypeOK'
  BY DEF SyncInv, SyncTypeOK, Crash, Become
<1>2. database'[s] \notin Image /\ sync'[s] = Idle
  BY NothingAssumption DEF SyncInv, SyncTypeOK, Crash, Become
<1>3. QED
  BY <1>1, <1>2, OneSession DEF SyncInv, SyncTypeOK, Crash, Become, Idle

-----------------------------------------------------------------------------
(* The beginning of a sync.                                                *)

\* A sync that begins after the last row an image covers.
LEMMA BeginIsGood ==
    ASSUME SyncInv, NEW s \in Session, database[s] \in Image,
           NEW image \in Image, GoodImage(image), image.records = database[s].records,
           NEW run \in Run, NEW content \in Content, NEW strict \in BOOLEAN,
           NEW resumable \in BOOLEAN, NEW interval \in Interval,
           NEW last \in Nat, NEW raw \in Nat,
           image.runs[run] \in RunRow, image.runs[run].content = content,
           last <= Len(content), raw = CountUpTo(content, last), Covers(image, content, last),
           database' = [database EXCEPT ![s] = image],
           transaction' = [transaction EXCEPT ![s] = {}],
           dirty' = [dirty EXCEPT ![s] = TRUE], file' = file,
           Become(s, NewSync(s, run, content, strict, resumable, interval, last, raw))
    PROVE  SyncInv'
<1> DEFINE state == NewSync(s, run, content, strict, resumable, interval, last, raw)
<1>1. /\ state \in Syncing /\ state.pc = "reading" /\ state.run = run
      /\ state.content = content /\ state.startAfterRow = last /\ state.position = 1
      /\ state.lastProcessedRow = last /\ state.rawRecordCount = raw /\ state.seen = {}
      /\ ~state.resumable => state.before = image.records
  BY DEF NewSync, Syncing, Image
<1>2. /\ Len(content) \in Nat /\ {} # Nothing
  BY ContentAssumption, NothingAssumption
<1>3. Merged(image, {}) \in Image /\ Covers(Merged(image, {}), content, last)
  BY <1>2, MergedImage, MoreRecords
<1>4. sync' = [sync EXCEPT ![s] = state]
  BY DEF Become
<1> HIDE DEF state
<1>5. GoodSync(image, {}, state)
  <2>1. InPlace(state)
    BY <1>1, <1>2 DEF InPlace, Max2
  <2>2. Counted(state) /\ KeepsRecords(image, state)
    BY <1>1 DEF Counted, KeepsRecords
  <2>3. SeenIsImported(Merged(image, {}), state)
    BY <1>1 DEF SeenIsImported
  <2>4. QED
    BY <1>1, <1>3, <2>1, <2>2, <2>3 DEF GoodSync, Importing, Settled
<1>6. SyncTypeOK'
  BY <1>1, <1>4 DEF SyncInv, SyncTypeOK
<1>7. /\ database'[s] = image /\ transaction'[s] = {} /\ sync'[s] = state
      /\ \A t \in Session \ {s} :
            /\ database'[t] = database[t] /\ transaction'[t] = transaction[t]
            /\ sync'[t] = sync[t]
  BY <1>4 DEF SyncInv, SyncTypeOK
<1>8. QED
  BY <1>5, <1>6, <1>7, OneSession DEF SyncInv

LEMMA StartPreserves ==
    ASSUME SyncInv, NEW s \in Session, NEW run \in Run, NEW content \in Content,
           NEW strict \in BOOLEAN, NEW resumable \in BOOLEAN, NEW interval \in Interval,
           StartSync(s, run, content, strict, resumable, interval)
    PROVE  SyncInv'
<1> DEFINE fresh == [status |-> "running", content |-> content,
                     lastProcessedRow |-> 0, rawRecordCount |-> 0]
           image == [database[s] EXCEPT !.runs[run] = fresh]
<1>1. database[s] \in Image /\ GoodImage(database[s])
  BY DEF SyncInv, SyncTypeOK, StartSync
<1>2. fresh \in RunRow
  BY DEF RunRow
<1>3. /\ image = [records |-> database[s].records,
                  runs |-> [database[s].runs EXCEPT ![run] = fresh]]
      /\ database[s].records \in SUBSET Fingerprint
      /\ database[s].runs \in [Run -> RunRow \cup {Nothing}]
  BY <1>1 DEF Image
<1>4. /\ image \in Image /\ image.records = database[s].records /\ image.runs[run] = fresh
      /\ \A r \in Run \ {run} : image.runs[r] = database[s].runs[r]
  BY <1>2, <1>3 DEF Image
<1>5. Len(content) \in Nat /\ CountUpTo(content, 0) = 0
  BY ContentAssumption, CountsEveryRow
<1>6. \A any : Covers(any, content, 0)
  BY DEF Covers
<1>7. /\ database' = [database EXCEPT ![s] = image]
      /\ transaction' = [transaction EXCEPT ![s] = {}]
      /\ dirty' = [dirty EXCEPT ![s] = TRUE] /\ file' = file
      /\ Become(s, NewSync(s, run, content, strict, resumable, interval, 0, 0))
  BY <1>1 DEF StartSync, SyncInv, SyncTypeOK
<1>8. GoodImage(image)
  <2>1. GoodRun(image, fresh)
    BY <1>5, <1>6 DEF GoodRun, Counted
  <2>2. ASSUME NEW r \in Run \ {run}, image.runs[r] # Nothing
        PROVE  GoodRun(image, image.runs[r])
    <3> HIDE DEF image
    <3>1. GoodRun(database[s], image.runs[r])
      BY <1>1, <1>4, <2>2 DEF GoodImage
    <3>2. \A rows, n : Covers(database[s], rows, n) <=> Covers(image, rows, n)
      BY <1>4 DEF Covers
    <3>3. QED
      BY <3>1, <3>2 DEF GoodRun
  <2> HIDE DEF image, fresh
  <2>3. QED
    BY <1>4, <2>1, <2>2 DEF GoodImage
<1>9. fresh.content = content
  OBVIOUS
<1> HIDE DEF image, fresh
<1>10. /\ 0 \in Nat /\ 0 <= Len(content) /\ 0 = CountUpTo(content, 0)
       /\ Covers(image, content, 0)
  BY <1>5, <1>6
<1>11. image.runs[run] \in RunRow /\ image.runs[run].content = content
  BY <1>2, <1>4, <1>9
<1>12. QED
  BY <1>1, <1>4, <1>7, <1>8, <1>10, <1>11, BeginIsGood

LEMMA ResumePreserves ==
    ASSUME SyncInv, NEW s \in Session, NEW run \in Run, NEW content \in Content,
           NEW strict \in BOOLEAN, NEW interval \in Interval,
           ResumeSync(s, run, content, strict, interval)
    PROVE  SyncInv'
<1> DEFINE previous == database[s].runs[run]
           resumed == [previous EXCEPT !.status = "running"]
           image == [database[s] EXCEPT !.runs[run].status = "running"]
<1>1. database[s] \in Image /\ GoodImage(database[s])
  BY DEF SyncInv, SyncTypeOK, ResumeSync
<1>2. /\ previous \in RunRow /\ GoodRun(database[s], previous)
      /\ previous.status = "interrupted" /\ previous.content = content
  BY <1>1 DEF ResumeSync, GoodImage, Image
<1>3. /\ previous.lastProcessedRow \in Nat /\ previous.rawRecordCount \in Nat
      /\ resumed \in RunRow /\ resumed.content = content /\ resumed.status = "running"
      /\ resumed.lastProcessedRow = previous.lastProcessedRow
      /\ resumed.rawRecordCount = previous.rawRecordCount
  BY <1>2 DEF RunRow
<1>4. /\ image = [records |-> database[s].records,
                  runs |-> [database[s].runs EXCEPT ![run] = resumed]]
      /\ database[s].records \in SUBSET Fingerprint
      /\ database[s].runs \in [Run -> RunRow \cup {Nothing}]
  BY <1>1 DEF Image
<1>5. /\ database' = [database EXCEPT ![s] = image]
      /\ transaction' = [transaction EXCEPT ![s] = {}]
      /\ dirty' = [dirty EXCEPT ![s] = TRUE] /\ file' = file
      /\ Become(s, NewSync(s, run, content, strict, TRUE, interval,
                           previous.lastProcessedRow, previous.rawRecordCount))
  BY <1>1 DEF ResumeSync, SyncInv, SyncTypeOK
<1> HIDE DEF resumed, previous, image
<1>6. /\ image \in Image /\ image.records = database[s].records /\ image.runs[run] = resumed
      /\ \A r \in Run \ {run} : image.runs[r] = database[s].runs[r]
  BY <1>3, <1>4 DEF Image
<1>7. \A rows, n : Covers(database[s], rows, n) <=> Covers(image, rows, n)
  BY <1>6 DEF Covers
<1>8. GoodImage(image)
  <2>1. GoodRun(image, resumed)
    BY <1>2, <1>3, <1>7 DEF GoodRun, Counted
  <2>2. ASSUME NEW r \in Run \ {run}, image.runs[r] # Nothing
        PROVE  GoodRun(image, image.runs[r])
    BY <1>1, <1>6, <1>7, <2>2 DEF GoodImage, GoodRun
  <2>3. QED
    BY <1>6, <2>1, <2>2 DEF GoodImage
<1>9. /\ previous.lastProcessedRow <= Len(content)
      /\ previous.rawRecordCount = CountUpTo(content, previous.lastProcessedRow)
      /\ Covers(image, content, previous.lastProcessedRow)
  BY <1>2, <1>7 DEF GoodRun, Counted
<1>10. QED
  BY <1>1, <1>3, <1>5, <1>6, <1>8, <1>9, BeginIsGood

LEMMA AbortPreserves ==
    ASSUME SyncInv, NEW s \in Session, Abort(s) PROVE SyncInv'
<1> DEFINE state == [sync[s] EXCEPT !.aborted = TRUE]
<1>1. /\ Active(s) /\ sync[s] \in Syncing
      /\ GoodSync(database[s], transaction[s], sync[s])
  BY ActiveSession DEF Abort
<1>2. /\ state \in Syncing /\ state.pc = sync[s].pc /\ state.run = sync[s].run
      /\ state.content = sync[s].content /\ state.resumable = sync[s].resumable
      /\ state.startAfterRow = sync[s].startAfterRow /\ state.position = sync[s].position
      /\ state.lastProcessedRow = sync[s].lastProcessedRow
      /\ state.rawRecordCount = sync[s].rawRecordCount /\ state.seen = sync[s].seen
      /\ state.before = sync[s].before /\ state.saveFailed = sync[s].saveFailed
  BY <1>1 DEF Syncing
<1>3. Become(s, state) /\ UNCHANGED <<file, database, transaction, dirty>>
  BY DEF Abort
<1> HIDE DEF state
<1>4. GoodSync(database[s], transaction[s], state)
  BY <1>1, <1>2 DEF GoodSync, InPlace, Counted, KeepsRecords, Settled, SeenIsImported
<1>5. QED
  BY <1>1, <1>2, <1>3, <1>4, SyncMoves

-----------------------------------------------------------------------------
(* The rows.                                                               *)

\* The last processed row when another one has been read.
LEMMA LastRow ==
    ASSUME NEW start \in Nat, NEW position \in Nat \ {0}, NEW last,
           last = Max2(start, position - 1)
    PROVE  /\ last \in Nat
           /\ position <= start => last = start /\ Max2(last, position) = start
           /\ position > start => last = position - 1 /\ Max2(last, position) = position
           /\ Max2(last, position) = Max2(start, position)
BY DEF Max2

LEMMA CoversNext ==
    ASSUME NEW image, NEW content, NEW n \in Nat, Covers(image, content, n),
           content[n + 1].kind = "good" => content[n + 1].fingerprint \in image.records
    PROVE  Covers(image, content, n + 1)
<1>1. \A i \in 1..(n + 1) : i \in 1..n \/ i = n + 1
  OBVIOUS
<1>2. QED
  BY <1>1 DEF Covers

\* What the invariant says of a sync that is between two rows.
LEMMA AtRow ==
    ASSUME SyncInv, NEW s \in Session, Reading(s)
    PROVE  /\ Active(s) /\ sync[s].content \in Content
           /\ Len(sync[s].content) \in Nat
           /\ sync[s].position \in 1..Len(sync[s].content)
           /\ RowAt(s) \in Row
           /\ sync[s].lastProcessedRow = Max2(sync[s].startAfterRow, sync[s].position - 1)
           /\ Covers(Committed(s), sync[s].content, sync[s].lastProcessedRow)
           /\ SeenIsImported(Committed(s), sync[s])
           /\ transaction[s] \in SUBSET Fingerprint
           /\ ~sync[s].resumable => database[s].records = sync[s].before
<1>1. Active(s) /\ sync[s].pc = "reading"
  BY DEF Reading, Active
<1>2. sync[s] \in Syncing /\ GoodSync(database[s], transaction[s], sync[s])
  BY <1>1, ActiveSession
<1>3. /\ sync[s].content \in Content /\ sync[s].content \in Seq(Row)
      /\ sync[s].position \in Nat
  BY <1>2, ContentAssumption DEF Syncing
<1>4. sync[s].position \in 1..Len(sync[s].content)
  BY <1>2, <1>3 DEF GoodSync, InPlace, Reading
<1>5. RowAt(s) \in Row
  BY <1>3, <1>4 DEF RowAt
<1>6. QED
  BY <1>1, <1>2, <1>3, <1>4, <1>5, CommittedIsMerged
     DEF GoodSync, InPlace, Settled, KeepsRecords, Importing

LEMMA StopReadingPreserves ==
    ASSUME SyncInv, NEW s \in Session, StopReading(s) PROVE SyncInv'
<1>1. Reading(s) /\ Catch(s, sync[s])
  BY DEF StopReading
<1>2. sync[s] \in Syncing /\ GoodSync(database[s], transaction[s], sync[s])
  BY <1>1, AtRow, ActiveSession
<1>3. QED
  BY <1>1, <1>2, AtRow, CatchIsGood DEF GoodSync, InPlace

\* A sync that goes on to the next row, which it was not to import.
LEMMA NextRow ==
    ASSUME SyncInv, NEW s \in Session, Reading(s), NEW state \in Syncing,
           state.pc = "reading", state.run = sync[s].run, state.content = sync[s].content,
           state.resumable = sync[s].resumable, state.startAfterRow = sync[s].startAfterRow,
           state.position = sync[s].position + 1,
           state.lastProcessedRow = Max2(sync[s].lastProcessedRow, sync[s].position),
           state.rawRecordCount = sync[s].rawRecordCount +
                (IF RowAt(s).kind # "malformed" /\ sync[s].position > sync[s].startAfterRow
                 THEN 1 ELSE 0),
           state.seen = sync[s].seen, state.before = sync[s].before,
           RowAt(s).kind = "good" /\ sync[s].position > sync[s].startAfterRow
                => RowAt(s).fingerprint \in Committed(s).records
    PROVE  /\ GoodSync(database[s], transaction[s], state)
           /\ Counted(state) /\ InPlace(state)
           /\ Covers(Committed(s), state.content, state.lastProcessedRow)
<1> DEFINE content == sync[s].content
           position == sync[s].position
           start == sync[s].startAfterRow
           last == sync[s].lastProcessedRow
<1>1. /\ sync[s] \in Syncing /\ GoodSync(database[s], transaction[s], sync[s])
      /\ content \in Content /\ Len(content) \in Nat /\ position \in 1..Len(content)
      /\ last = Max2(start, position - 1) /\ start \in Nat
      /\ Covers(Committed(s), content, last) /\ SeenIsImported(Committed(s), sync[s])
  BY AtRow, ActiveSession DEF Syncing
<1>2. start <= Len(content) /\ Counted(sync[s]) /\ sync[s].pc = "reading"
  BY <1>1 DEF GoodSync, InPlace, Reading
<1>3. position \in Nat \ {0} /\ position - 1 + 1 = position /\ position + 1 - 1 = position
  BY <1>1
<1>4. /\ last \in Nat /\ Max2(last, position) = Max2(start, position)
      /\ position <= start => Max2(last, position) = last
      /\ position > start => last = position - 1 /\ Max2(last, position) = position
  <2>1. start \in Nat /\ position \in Nat \ {0} /\ last = Max2(start, position - 1)
    BY <1>1, <1>3
  <2> HIDE DEF position, start, last
  <2>2. QED
    BY <2>1, LastRow
<1>5. InPlace(state)
  <2>1. state.lastProcessedRow = Max2(state.startAfterRow, state.position - 1)
    <3>1. state.position - 1 = position
      BY <1>3
    <3>2. QED
      BY <1>4, <3>1
  <2>2. state.position \in 1..(Len(state.content) + 1)
    BY <1>1
  <2>3. QED
    BY <1>2, <2>1, <2>2 DEF InPlace
<1>6. state.content[position] = RowAt(s)
  BY DEF RowAt
<1>7. Counted(state)
  <2>1. CASE position <= start
    <3>1. ~(position > start)
      BY <1>1, <1>3, <2>1
    <3>2. QED
      BY <1>1, <1>2, <1>4, <2>1, <3>1 DEF Counted, Syncing
  <2>2. CASE position > start
    <3>1. CountUpTo(content, position) =
            CountUpTo(content, last) + (IF RowAt(s).kind # "malformed" THEN 1 ELSE 0)
      <4>1. last \in Nat /\ last + 1 = position /\ content[last + 1] = RowAt(s)
        BY <1>3, <1>4, <2>2 DEF RowAt
      <4>2. content \in Content
        BY <1>1
      <4> HIDE DEF position, last, content
      <4>3. CountUpTo(content, last + 1) =
              CountUpTo(content, last) + (IF content[last + 1].kind # "malformed" THEN 1 ELSE 0)
        BY <4>1, <4>2, CountsEveryRow
      <4>4. QED
        BY <4>1, <4>3
    <3>2. state.lastProcessedRow = position
      BY <1>4, <2>2
    <3>3. state.rawRecordCount = CountUpTo(content, position)
      BY <1>2, <2>2, <3>1 DEF Counted
    <3>4. QED
      BY <1>1, <3>2, <3>3 DEF Counted
  <2>3. QED
    BY <1>1, <1>3, <2>1, <2>2
<1>8. Covers(Committed(s), content, state.lastProcessedRow)
  <2>1. CASE position <= start
    BY <1>1, <1>4, <2>1
  <2>2. CASE position > start
    <3>1. content[last + 1] = RowAt(s) /\ last + 1 = position
      BY <1>3, <1>4, <2>2 DEF RowAt
    <3>2. Covers(Committed(s), content, last + 1)
      BY <1>1, <1>4, <2>2, <3>1, CoversNext
    <3>3. QED
      BY <1>4, <2>2, <3>1, <3>2
  <2>3. QED
    BY <1>1, <1>3, <2>1, <2>2
<1>9. SeenIsImported(Committed(s), state)
  BY <1>1, <1>2 DEF SeenIsImported
<1>10. KeepsRecords(database[s], state)
  BY <1>1, <1>2 DEF KeepsRecords, GoodSync, Importing
<1>11. QED
  BY <1>1, <1>2, <1>5, <1>7, <1>8, <1>9, <1>10, CommittedIsMerged
     DEF GoodSync, Settled, Importing

LEMMA ReadMalformedPreserves ==
    ASSUME SyncInv, NEW s \in Session, ReadMalformed(s) PROVE SyncInv'
<1> DEFINE last == Max2(sync[s].lastProcessedRow, sync[s].position)
           state == [sync[s] EXCEPT !.position = @ + 1, !.lastProcessedRow = last]
<1>1. Reading(s) /\ RowAt(s).kind = "malformed"
  BY DEF ReadMalformed
<1>2. sync[s] \in Syncing /\ Active(s) /\ last \in Nat
  <2>1. sync[s] \in Syncing /\ Active(s)
    BY <1>1, AtRow, ActiveSession
  <2>2. sync[s].lastProcessedRow \in Nat /\ sync[s].position \in Nat
    BY <2>1 DEF Syncing
  <2>3. QED
    BY <2>1, <2>2 DEF Max2
<1>3. /\ state \in Syncing /\ state.pc = sync[s].pc /\ state.run = sync[s].run
      /\ state.content = sync[s].content /\ state.resumable = sync[s].resumable
      /\ state.startAfterRow = sync[s].startAfterRow
      /\ state.position = sync[s].position + 1
      /\ state.lastProcessedRow = last
      /\ state.rawRecordCount = sync[s].rawRecordCount
      /\ state.seen = sync[s].seen /\ state.before = sync[s].before
  <2> DEFINE further == [sync[s] EXCEPT !.position = @ + 1]
  <2>1. /\ further \in Syncing /\ further.pc = sync[s].pc /\ further.run = sync[s].run
        /\ further.content = sync[s].content /\ further.resumable = sync[s].resumable
        /\ further.startAfterRow = sync[s].startAfterRow
        /\ further.position = sync[s].position + 1
        /\ further.rawRecordCount = sync[s].rawRecordCount
        /\ further.seen = sync[s].seen /\ further.before = sync[s].before
    BY <1>2 DEF Syncing
  <2>2. state = [further EXCEPT !.lastProcessedRow = last]
    BY <1>2 DEF Syncing
  <2> HIDE DEF last, further, state
  <2>3. QED
    BY <1>2, <2>1, <2>2 DEF Syncing
<1>4. \/ Catch(s, state)
      \/ Become(s, state) /\ UNCHANGED <<file, database, transaction, dirty>>
  BY DEF ReadMalformed
<1>5. sync[s].rawRecordCount + 0 = sync[s].rawRecordCount
  BY <1>2 DEF Syncing
<1> HIDE DEF state
<1>6. /\ GoodSync(database[s], transaction[s], state)
      /\ Counted(state) /\ InPlace(state)
      /\ Covers(Committed(s), state.content, state.lastProcessedRow)
  BY <1>1, <1>3, <1>5, NextRow DEF Reading
<1>7. CASE Catch(s, state)
  <2>1. ~state.resumable => database[s].records = state.before
    BY <1>1, <1>3, AtRow
  <2>2. QED
    BY <1>2, <1>3, <1>6, <1>7, <2>1, CatchIsGood DEF InPlace
<1>8. QED
  BY <1>2, <1>3, <1>4, <1>6, <1>7, SyncMoves

LEMMA SkipRowPreserves ==
    ASSUME SyncInv, NEW s \in Session, SkipRow(s) PROVE SyncInv'
<1> DEFINE state == [sync[s] EXCEPT !.position = @ + 1]
<1>1. /\ Reading(s) /\ sync[s].position <= sync[s].startAfterRow
      /\ Become(s, state) /\ UNCHANGED <<file, database, transaction, dirty>>
  BY DEF SkipRow
<1>2. sync[s] \in Syncing /\ Active(s)
  BY <1>1, AtRow, ActiveSession
<1>3. /\ state \in Syncing /\ state.pc = sync[s].pc /\ state.run = sync[s].run
      /\ state.content = sync[s].content /\ state.resumable = sync[s].resumable
      /\ state.startAfterRow = sync[s].startAfterRow
      /\ state.position = sync[s].position + 1
      /\ state.lastProcessedRow = sync[s].lastProcessedRow
      /\ state.rawRecordCount = sync[s].rawRecordCount
      /\ state.seen = sync[s].seen /\ state.before = sync[s].before
  BY <1>2 DEF Syncing
<1>4. /\ sync[s].rawRecordCount + 0 = sync[s].rawRecordCount
      /\ ~(sync[s].position > sync[s].startAfterRow)
      /\ sync[s].position \in Nat \ {0} /\ sync[s].startAfterRow \in Nat
  BY <1>1, <1>2, AtRow DEF Syncing
<1>5. Max2(sync[s].lastProcessedRow, sync[s].position) = sync[s].lastProcessedRow
  BY <1>1, <1>4, AtRow, LastRow
<1> HIDE DEF state
<1>6. GoodSync(database[s], transaction[s], state)
  BY <1>1, <1>3, <1>4, <1>5, NextRow DEF Reading
<1>7. QED
  BY <1>1, <1>2, <1>3, <1>6, SyncMoves

LEMMA TakeRowPreserves ==
    ASSUME SyncInv, NEW s \in Session, TakeRow(s) PROVE SyncInv'
<1> DEFINE fingerprint == RowAt(s).fingerprint
           known == fingerprint \in sync[s].seen
           last == Max2(sync[s].lastProcessedRow, sync[s].position)
           state == [sync[s] EXCEPT
              !.rawRecordCount = @ + 1,
              !.lastProcessedRow = last,
              !.pc = IF known THEN @ ELSE "normalizing",
              !.position = IF known THEN @ + 1 ELSE @,
              !.seen = @ \cup {fingerprint}]
<1>1. /\ Reading(s) /\ RowAt(s).kind # "malformed"
      /\ sync[s].position > sync[s].startAfterRow
      /\ Become(s, state) /\ UNCHANGED <<file, database, transaction, dirty>>
  BY DEF TakeRow
<1>2. /\ sync[s] \in Syncing /\ Active(s) /\ sync[s].pc = "reading"
      /\ GoodSync(database[s], transaction[s], sync[s])
  BY <1>1, AtRow, ActiveSession DEF Reading
<1>3. /\ sync[s].position \in Nat \ {0} /\ sync[s].startAfterRow \in Nat
      /\ RowAt(s) \in Row /\ fingerprint \in Fingerprint
      /\ sync[s].position <= Len(sync[s].content)
  BY <1>1, <1>2, AtRow DEF Syncing, Row
<1>4. /\ sync[s].lastProcessedRow = sync[s].position - 1
      /\ last = sync[s].position
  BY <1>1, <1>3, AtRow, LastRow
<1>5. /\ state \in Syncing /\ state.run = sync[s].run
      /\ state.pc = (IF known THEN "reading" ELSE "normalizing")
      /\ state.content = sync[s].content /\ state.resumable = sync[s].resumable
      /\ state.startAfterRow = sync[s].startAfterRow
      /\ state.position = (IF known THEN sync[s].position + 1 ELSE sync[s].position)
      /\ state.lastProcessedRow = sync[s].position
      /\ state.rawRecordCount = sync[s].rawRecordCount + 1
      /\ state.seen = sync[s].seen \cup {fingerprint} /\ state.before = sync[s].before
  <2> DEFINE pc == IF known THEN sync[s].pc ELSE "normalizing"
             position == IF known THEN sync[s].position + 1 ELSE sync[s].position
             raw == sync[s].rawRecordCount + 1
             seen == sync[s].seen \cup {fingerprint}
  <2>1. /\ pc \in {"reading", "normalizing"} /\ position \in Nat /\ raw \in Nat
        /\ seen \in SUBSET Fingerprint /\ last \in Nat
    BY <1>2, <1>3, <1>4 DEF Syncing
  <2>2. state = [sync[s] EXCEPT !.rawRecordCount = raw, !.lastProcessedRow = last, !.pc = pc,
                                !.position = position, !.seen = seen]
    OBVIOUS
  <2> HIDE DEF last, state, pc, position, raw, seen
  <2>3. state \in Syncing
    BY <1>2, <2>1, <2>2 DEF Syncing
  <2>4. /\ state.run = sync[s].run /\ state.pc = pc
        /\ state.content = sync[s].content /\ state.resumable = sync[s].resumable
        /\ state.startAfterRow = sync[s].startAfterRow
        /\ state.position = position /\ state.lastProcessedRow = last
        /\ state.rawRecordCount = raw /\ state.seen = seen /\ state.before = sync[s].before
    BY <1>2, <2>1, <2>2 DEF Syncing
  <2>5. QED
    BY <1>2, <1>4, <2>3, <2>4 DEF pc, position, raw, seen
<1>6. CASE known
  <2>1. state.seen = sync[s].seen
    BY <1>5, <1>6
  <2>2. RowAt(s).kind = "good" => fingerprint \in Committed(s).records
    <3>1. sync[s].position \in DOMAIN sync[s].content
      BY <1>1, <1>2, AtRow, ContentAssumption DEF Syncing
    <3>2. QED
      BY <1>1, <1>2, <1>6, <3>1, AtRow DEF SeenIsImported, RowAt
  <2> HIDE DEF state, known, fingerprint
  <2>3. GoodSync(database[s], transaction[s], state)
    <3>1. /\ state.lastProcessedRow = Max2(sync[s].lastProcessedRow, sync[s].position)
          /\ state.pc = "reading" /\ state.position = sync[s].position + 1
      BY <1>4, <1>5, <1>6
    <3> USE DEF fingerprint
    <3>2. QED
      BY <1>1, <1>5, <2>1, <2>2, <3>1, NextRow
  <2>4. QED
    BY <1>1, <1>2, <1>5, <2>3, SyncMoves
<1>7. CASE ~known
  <2> HIDE DEF state, known
  <2>1. state.pc = "normalizing" /\ state.position = sync[s].position
    BY <1>5, <1>7
  <2>2. InPlace(state)
    <3>1. sync[s].startAfterRow <= Len(sync[s].content)
      BY <1>2 DEF GoodSync, InPlace
    <3>2. state.position \in 1..(Len(state.content) + 1)
      BY <1>2, <1>5, <2>1 DEF GoodSync, InPlace
    <3>3. state.content[state.position].kind # "malformed"
      BY <1>1, <1>5, <2>1 DEF RowAt
    <3>4. QED
      BY <1>1, <1>3, <1>5, <2>1, <3>1, <3>2, <3>3 DEF InPlace
  <2>3. Counted(state)
    <3>1. /\ sync[s].content \in Content /\ sync[s].lastProcessedRow \in Nat
          /\ sync[s].lastProcessedRow + 1 = sync[s].position
      BY <1>2, <1>3, <1>4 DEF Syncing
    <3>2. CountUpTo(sync[s].content, sync[s].lastProcessedRow + 1) =
            CountUpTo(sync[s].content, sync[s].lastProcessedRow) + 1
      BY <1>1, <3>1, CountsEveryRow DEF RowAt
    <3>3. sync[s].rawRecordCount = CountUpTo(sync[s].content, sync[s].lastProcessedRow)
      BY <1>2 DEF GoodSync, Counted
    <3>4. QED
      BY <1>3, <1>5, <3>1, <3>2, <3>3 DEF Counted
  <2>4. Covers(Committed(s), state.content, Settled(state))
    BY <1>1, <1>4, <1>5, <2>1, AtRow DEF Settled
  <2>5. SeenIsImported(Committed(s), state)
    <3>1. SeenIsImported(Committed(s), sync[s])
      BY <1>1, AtRow
    <3>2. QED
      BY <1>2, <1>5, <2>1, <3>1 DEF SeenIsImported, RowAt
  <2>6. KeepsRecords(database[s], state)
    BY <1>2, <1>5, <2>1 DEF GoodSync, KeepsRecords, Importing
  <2>7. GoodSync(database[s], transaction[s], state)
    BY <1>2, <1>5, <2>1, <2>2, <2>3, <2>4, <2>5, <2>6, CommittedIsMerged
       DEF GoodSync, Importing
  <2>8. QED
    BY <1>1, <1>2, <1>5, <2>7, SyncMoves
<1>8. QED
  BY <1>6, <1>7

\* What the invariant says of a sync that is at work on a row.
LEMMA AtWorkOnRow ==
    ASSUME SyncInv, NEW s \in Session, sync[s].pc \in {"normalizing", "delivering"}
    PROVE  /\ Active(s) /\ sync[s] \in Syncing
           /\ GoodSync(database[s], transaction[s], sync[s])
           /\ sync[s].content \in Content /\ Len(sync[s].content) \in Nat
           /\ DOMAIN sync[s].content = 1..Len(sync[s].content)
           /\ sync[s].position \in Nat \ {0} /\ sync[s].position <= Len(sync[s].content)
           /\ sync[s].startAfterRow \in Nat /\ sync[s].startAfterRow < sync[s].position
           /\ sync[s].lastProcessedRow = sync[s].position
           /\ RowAt(s) \in Row /\ RowAt(s).kind # "malformed"
           /\ transaction[s] \in SUBSET Fingerprint
           /\ Covers(Committed(s), sync[s].content, Settled(sync[s]))
           /\ SeenIsImported(Committed(s), sync[s])
<1>1. Active(s)
  BY DEF Active
<1>2. sync[s] \in Syncing /\ GoodSync(database[s], transaction[s], sync[s])
  BY <1>1, ActiveSession
<1>3. /\ sync[s].content \in Content /\ sync[s].content \in Seq(Row)
      /\ sync[s].position \in Nat /\ sync[s].startAfterRow \in Nat
  BY <1>2, ContentAssumption DEF Syncing
<1>4. Len(sync[s].content) \in Nat /\ DOMAIN sync[s].content = 1..Len(sync[s].content)
  BY <1>3
<1>5. InPlace(sync[s])
  BY <1>2 DEF GoodSync
<1>6. /\ sync[s].position \in Nat \ {0} /\ sync[s].position <= Len(sync[s].content)
      /\ sync[s].startAfterRow < sync[s].position
      /\ sync[s].lastProcessedRow = sync[s].position /\ RowAt(s).kind # "malformed"
  BY <1>3, <1>5 DEF InPlace, RowAt
<1>7. RowAt(s) \in Row
  BY <1>3, <1>4, <1>6 DEF RowAt
<1>8. QED
  BY <1>1, <1>2, <1>3, <1>4, <1>6, <1>7, CommittedIsMerged DEF GoodSync, Importing

LEMMA NormalizeInvalidPreserves ==
    ASSUME SyncInv, NEW s \in Session, NormalizeInvalid(s) PROVE SyncInv'
<1> DEFINE content == sync[s].content
           position == sync[s].position
           next == position + 1
           state == [sync[s] EXCEPT !.pc = "reading", !.position = next]
<1>1. /\ sync[s].pc = "normalizing" /\ RowAt(s).kind = "invalid"
      /\ \/ Catch(s, state)
         \/ Become(s, state) /\ UNCHANGED <<file, database, transaction, dirty>>
  BY DEF NormalizeInvalid
<1>2. /\ Active(s) /\ sync[s] \in Syncing
      /\ GoodSync(database[s], transaction[s], sync[s])
      /\ content \in Content /\ Len(content) \in Nat /\ DOMAIN content = 1..Len(content)
      /\ position \in Nat \ {0} /\ position <= Len(content)
      /\ sync[s].startAfterRow \in Nat /\ sync[s].startAfterRow < position
      /\ sync[s].lastProcessedRow = position /\ RowAt(s) \in Row
      /\ Covers(Committed(s), content, Settled(sync[s]))
      /\ SeenIsImported(Committed(s), sync[s])
  BY <1>1, AtWorkOnRow
<1>3. /\ state \in Syncing /\ state.pc = "reading" /\ state.run = sync[s].run
      /\ state.content = content /\ state.resumable = sync[s].resumable
      /\ state.startAfterRow = sync[s].startAfterRow
      /\ state.position = next /\ state.lastProcessedRow = position
      /\ state.rawRecordCount = sync[s].rawRecordCount
      /\ state.seen = sync[s].seen /\ state.before = sync[s].before
  <2>1. next \in Nat
    BY <1>2
  <2> HIDE DEF next
  <2>2. QED
    BY <1>2, <2>1 DEF Syncing
<1> HIDE DEF state
<1>4. InPlace(state)
  <2>1. state.position - 1 = position /\ state.position \in 1..(Len(content) + 1)
    BY <1>2, <1>3
  <2>2. position = Max2(sync[s].startAfterRow, position)
    BY <1>2 DEF Max2
  <2>3. QED
    BY <1>2, <1>3, <2>1, <2>2 DEF InPlace
<1>5. Counted(state)
  BY <1>2, <1>3 DEF GoodSync, Counted
<1>6. Covers(Committed(s), content, position)
  <2>1. Covers(Committed(s), content, position - 1)
    BY <1>1, <1>2 DEF Settled
  <2>2. position - 1 \in Nat /\ position - 1 + 1 = position
    BY <1>2
  <2>3. content[position].kind # "good"
    BY <1>1 DEF RowAt
  <2>4. QED
    BY <2>1, <2>2, <2>3, CoversNext
<1>7. SeenIsImported(Committed(s), state)
  <2>1. SUFFICES ASSUME NEW i \in DOMAIN content,
                        content[i].kind = "good", content[i].fingerprint \in sync[s].seen
                 PROVE  content[i].fingerprint \in Committed(s).records
    BY <1>3 DEF SeenIsImported
  <2>2. position \in DOMAIN content /\ content[position].kind = "invalid"
    BY <1>1, <1>2 DEF RowAt
  <2>3. content[i].fingerprint # content[position].fingerprint
    BY <1>2, <2>1, <2>2, FingerprintAssumption
  <2>4. QED
    BY <1>2, <2>1, <2>3 DEF SeenIsImported
<1>8. KeepsRecords(database[s], state)
  BY <1>1, <1>2, <1>3 DEF GoodSync, KeepsRecords, Importing
<1>9. CASE Catch(s, state)
  <2>1. ~state.resumable => database[s].records = state.before
    BY <1>3, <1>8 DEF KeepsRecords, Importing
  <2>2. QED
    BY <1>2, <1>3, <1>4, <1>5, <1>6, <1>9, <2>1, CatchIsGood DEF InPlace
<1>10. CASE Become(s, state) /\ UNCHANGED <<file, database, transaction, dirty>>
  <2>1. GoodSync(database[s], transaction[s], state)
    BY <1>1, <1>2, <1>3, <1>4, <1>5, <1>6, <1>7, <1>8, CommittedIsMerged
       DEF GoodSync, Importing, Settled
  <2>2. QED
    BY <1>2, <1>3, <1>10, <2>1, SyncMoves
<1>11. QED
  BY <1>1, <1>9, <1>10

LEMMA ImportRecordPreserves ==
    ASSUME SyncInv, NEW s \in Session, ImportRecord(s) PROVE SyncInv'
<1> DEFINE content == sync[s].content
           position == sync[s].position
           state == [sync[s] EXCEPT !.pc = "delivering"]
           written == transaction[s] \cup {RowAt(s).fingerprint}
<1>1. /\ sync[s].pc = "normalizing" /\ RowAt(s).kind = "good"
      /\ transaction' = [transaction EXCEPT ![s] = written]
      /\ sync' = [sync EXCEPT ![s] = state]
      /\ UNCHANGED <<file, database, dirty>>
  BY DEF ImportRecord, Become
<1>2. /\ Active(s) /\ sync[s] \in Syncing
      /\ GoodSync(database[s], transaction[s], sync[s])
      /\ content \in Content /\ Len(content) \in Nat
      /\ position \in Nat \ {0} /\ position <= Len(content)
      /\ sync[s].startAfterRow \in Nat /\ sync[s].startAfterRow < position
      /\ sync[s].lastProcessedRow = position /\ RowAt(s) \in Row
      /\ transaction[s] \in SUBSET Fingerprint
      /\ Covers(Committed(s), content, Settled(sync[s]))
      /\ SeenIsImported(Committed(s), sync[s])
  BY <1>1, AtWorkOnRow
<1>3. /\ state \in Syncing /\ state.pc = "delivering" /\ state.run = sync[s].run
      /\ state.content = content /\ state.resumable = sync[s].resumable
      /\ state.startAfterRow = sync[s].startAfterRow
      /\ state.position = position /\ state.lastProcessedRow = position
      /\ state.rawRecordCount = sync[s].rawRecordCount
      /\ state.seen = sync[s].seen /\ state.before = sync[s].before
  BY <1>2 DEF Syncing
<1>4. /\ written \in SUBSET Fingerprint /\ written # Nothing /\ transaction[s] # Nothing
      /\ transaction[s] \subseteq written /\ RowAt(s).fingerprint \in written
  BY <1>2, NothingAssumption DEF Row
<1>5. /\ database[s] \in Image
      /\ Merged(database[s], written) \in Image /\ Committed(s) \in Image
      /\ Committed(s).runs = Merged(database[s], written).runs
      /\ Committed(s).records \subseteq Merged(database[s], written).records
      /\ RowAt(s).fingerprint \in Merged(database[s], written).records
  <2>1. database[s] \in Image
    BY <1>2 DEF GoodSync
  <2>2. /\ Committed(s) = Merged(database[s], transaction[s])
        /\ Committed(s).records = database[s].records \cup transaction[s]
        /\ Merged(database[s], written).records = database[s].records \cup written
    BY <1>4, <1>2, <2>1, CommittedIsMerged, MergedImage
  <2>3. QED
    BY <1>2, <1>4, <2>1, <2>2, MergedImage
<1> HIDE DEF state, written
<1>6. InPlace(state)
  BY <1>1, <1>2, <1>3 DEF GoodSync, InPlace, RowAt
<1>7. Counted(state) /\ KeepsRecords(database[s], state)
  BY <1>1, <1>2, <1>3 DEF GoodSync, Counted, KeepsRecords, Importing
<1>8. Covers(Merged(database[s], written), content, position)
  <2>1. Covers(Committed(s), content, position - 1)
    BY <1>1, <1>2 DEF Settled
  <2>2. position - 1 \in Nat /\ position - 1 + 1 = position
    BY <1>2
  <2>3. Covers(Merged(database[s], written), content, position - 1)
    BY <1>2, <1>5, <2>1, <2>2, MoreRecords
  <2>4. content[position] = RowAt(s)
    BY DEF RowAt
  <2>5. QED
    BY <1>5, <2>2, <2>3, <2>4, CoversNext
<1>9. SeenIsImported(Merged(database[s], written), state)
  BY <1>1, <1>2, <1>3, <1>5 DEF SeenIsImported, RowAt
<1>10. GoodSync(database[s], written, state)
  BY <1>2, <1>3, <1>4, <1>5, <1>6, <1>7, <1>8, <1>9 DEF GoodSync, Importing, Settled
<1>11. SyncTypeOK'
  BY <1>1, <1>3, <1>4 DEF SyncInv, SyncTypeOK
<1>12. /\ transaction'[s] = written /\ sync'[s] = state
       /\ \A t \in Session \ {s} : transaction'[t] = transaction[t] /\ sync'[t] = sync[t]
  BY <1>1 DEF SyncInv, SyncTypeOK
<1>13. QED
  BY <1>1, <1>10, <1>11, <1>12, OneSession DEF SyncInv

LEMMA DeliveryFailsPreserves ==
    ASSUME SyncInv, NEW s \in Session, DeliveryFails(s) PROVE SyncInv'
<1>1. sync[s].pc = "delivering" /\ Catch(s, sync[s])
  BY DEF DeliveryFails
<1>2. /\ Active(s) /\ sync[s] \in Syncing
      /\ GoodSync(database[s], transaction[s], sync[s])
      /\ Covers(Committed(s), sync[s].content, sync[s].lastProcessedRow)
  BY <1>1, AtWorkOnRow DEF Settled
<1>3. ~sync[s].resumable => database[s].records = sync[s].before
  BY <1>1, <1>2 DEF GoodSync, KeepsRecords, Importing
<1>4. QED
  BY <1>1, <1>2, <1>3, CatchIsGood DEF GoodSync, InPlace

-----------------------------------------------------------------------------
(* Checkpoints, the end of the file, and saves.                            *)

\* The commit of what a sync has written, together with its counters.
LEMMA CheckpointIsGood ==
    ASSUME SyncInv, NEW s \in Session, Active(s), sync[s].pc \in {"reading", "delivering"},
           NEW status \in {"running", "completed"}, NEW state \in Syncing,
           state.pc \in {"saving", "completing"}, state.run = sync[s].run,
           state.content = sync[s].content, state.resumable = sync[s].resumable,
           state.lastProcessedRow = sync[s].lastProcessedRow,
           state.rawRecordCount = sync[s].rawRecordCount, state.seen = sync[s].seen,
           InPlace(state), state.pc = "saving" => state.resumable,
           status = "completed" => state.lastProcessedRow = Len(state.content),
           database' = [database EXCEPT ![s] = Recorded(Committed(s), sync[s], status)],
           transaction' = [transaction EXCEPT ![s] = Nothing],
           dirty' = [dirty EXCEPT ![s] = TRUE], file' = file, Become(s, state)
    PROVE  SyncInv'
<1> DEFINE next == Recorded(Committed(s), sync[s], status)
<1>1. /\ sync[s] \in Syncing /\ database[s] \in Image /\ GoodImage(database[s])
      /\ transaction[s] \in (SUBSET Fingerprint) \cup {Nothing}
      /\ GoodSync(database[s], transaction[s], sync[s])
  BY ActiveSession
<1>2. /\ Committed(s) \in Image /\ GoodImage(Committed(s))
      /\ Committed(s).runs = database[s].runs
  BY <1>1, CommittedIsMerged, MergedImage, MergedIsGood
<1>3. /\ Covers(Committed(s), sync[s].content, sync[s].lastProcessedRow)
      /\ SeenIsImported(Committed(s), sync[s]) /\ Counted(sync[s])
      /\ Committed(s).runs[sync[s].run] \in RunRow
      /\ Committed(s).runs[sync[s].run].content = sync[s].content
  BY <1>1, <1>2, CommittedIsMerged DEF GoodSync, Settled
<1>4. /\ next \in Image /\ GoodImage(next) /\ next.records = Committed(s).records
      /\ next.runs[sync[s].run] \in RunRow /\ next.runs[sync[s].run].content = sync[s].content
  <2>1. /\ status \in {"running", "completed", "failed", "interrupted"} /\ status # "failed"
        /\ status = "completed" => sync[s].lastProcessedRow = Len(sync[s].content)
    OBVIOUS
  <2>2. QED
    BY <1>1, <1>2, <1>3, <2>1, RecordedIsGood
<1>5. Merged(next, Nothing) = next
  BY DEF Merged
<1>6. sync' = [sync EXCEPT ![s] = state]
  BY DEF Become
<1> HIDE DEF next
<1>7. GoodSync(next, Nothing, state)
  <2>1. Covers(next, state.content, state.lastProcessedRow)
    BY <1>3, <1>4 DEF Covers
  <2>2. SeenIsImported(next, state)
    BY <1>3, <1>4 DEF SeenIsImported
  <2>3. Counted(state) /\ KeepsRecords(next, state)
    BY <1>3 DEF Counted, KeepsRecords, Importing
  <2>4. QED
    BY <1>4, <1>5, <2>1, <2>2, <2>3 DEF GoodSync, Importing, Settled
<1>8. SyncTypeOK'
  BY <1>4, <1>6 DEF SyncInv, SyncTypeOK, next
<1>9. /\ database'[s] = next /\ transaction'[s] = Nothing /\ sync'[s] = state
      /\ \A t \in Session \ {s} :
            /\ database'[t] = database[t] /\ transaction'[t] = transaction[t]
            /\ sync'[t] = sync[t]
  BY <1>6 DEF SyncInv, SyncTypeOK, next
<1>10. QED
  BY <1>4, <1>7, <1>8, <1>9, OneSession DEF SyncInv

LEMMA DeliveredPreserves ==
    ASSUME SyncInv, NEW s \in Session, Delivered(s) PROVE SyncInv'
<1> DEFINE count == sync[s].sinceCheckpoint + 1
           due == sync[s].resumable /\ count >= sync[s].interval
           pc == IF due THEN "saving" ELSE "reading"
           next == sync[s].position + 1
           state == [sync[s] EXCEPT !.pc = pc, !.position = next, !.sinceCheckpoint = count]
<1>1. /\ sync[s].pc = "delivering" /\ Become(s, state) /\ file' = file
      /\ IF due
         THEN /\ database' = [database EXCEPT ![s] = Recorded(Committed(s), sync[s], "running")]
              /\ transaction' = [transaction EXCEPT ![s] = Nothing]
              /\ dirty' = [dirty EXCEPT ![s] = TRUE]
         ELSE UNCHANGED <<database, transaction, dirty>>
  BY DEF Delivered
<1>2. /\ Active(s) /\ sync[s] \in Syncing
      /\ GoodSync(database[s], transaction[s], sync[s])
      /\ Len(sync[s].content) \in Nat
      /\ sync[s].position \in Nat \ {0} /\ sync[s].position <= Len(sync[s].content)
      /\ sync[s].startAfterRow \in Nat /\ sync[s].startAfterRow < sync[s].position
      /\ sync[s].lastProcessedRow = sync[s].position
      /\ Covers(Committed(s), sync[s].content, sync[s].lastProcessedRow)
      /\ SeenIsImported(Committed(s), sync[s])
  BY <1>1, AtWorkOnRow DEF Settled
<1>3. /\ state \in Syncing /\ state.pc = pc /\ state.run = sync[s].run
      /\ state.content = sync[s].content /\ state.resumable = sync[s].resumable
      /\ state.startAfterRow = sync[s].startAfterRow
      /\ state.position = next /\ state.lastProcessedRow = sync[s].lastProcessedRow
      /\ state.rawRecordCount = sync[s].rawRecordCount
      /\ state.seen = sync[s].seen /\ state.before = sync[s].before
  <2>1. next \in Nat /\ count \in Nat /\ pc \in {"saving", "reading"}
    BY <1>2 DEF Syncing
  <2> HIDE DEF next, count, pc
  <2>2. QED
    BY <1>2, <2>1 DEF Syncing
<1>4. InPlace(state)
  <2>1. state.position - 1 = sync[s].position /\ next \in 1..(Len(sync[s].content) + 1)
    BY <1>2, <1>3
  <2>2. sync[s].position = Max2(sync[s].startAfterRow, sync[s].position)
    BY <1>2 DEF Max2
  <2> HIDE DEF next, state
  <2>3. QED
    BY <1>2, <1>3, <2>1, <2>2 DEF InPlace
<1> HIDE DEF state, next, count
<1>5. CASE due
  <2>1. state.pc = "saving" /\ state.resumable
    BY <1>3, <1>5
  <2>2. QED
    BY <1>1, <1>2, <1>3, <1>4, <1>5, <2>1, CheckpointIsGood
<1>6. CASE ~due
  <2>1. state.pc = "reading"
    BY <1>3, <1>6
  <2>2. Counted(state) /\ KeepsRecords(database[s], state)
    BY <1>1, <1>2, <1>3, <2>1 DEF GoodSync, Counted, KeepsRecords, Importing
  <2>3. SeenIsImported(Committed(s), state)
    BY <1>1, <1>2, <1>3 DEF SeenIsImported
  <2>4. GoodSync(database[s], transaction[s], state)
    BY <1>1, <1>2, <1>3, <1>4, <2>1, <2>2, <2>3, CommittedIsMerged
       DEF GoodSync, Importing, Settled
  <2>5. QED
    BY <1>1, <1>2, <1>3, <1>6, <2>4, SyncMoves
<1>7. QED
  BY <1>5, <1>6

LEMMA EndOfRowsPreserves ==
    ASSUME SyncInv, NEW s \in Session, EndOfRows(s) PROVE SyncInv'
<1> DEFINE state == [sync[s] EXCEPT !.pc = "completing"]
<1>1. /\ sync[s].pc = "reading" /\ sync[s].position > Len(sync[s].content)
      /\ database' = [database EXCEPT ![s] = Recorded(Committed(s), sync[s], "completed")]
      /\ transaction' = [transaction EXCEPT ![s] = Nothing]
      /\ dirty' = [dirty EXCEPT ![s] = TRUE] /\ file' = file
      /\ Become(s, state)
  BY DEF EndOfRows
<1>2. /\ Active(s) /\ sync[s] \in Syncing
      /\ GoodSync(database[s], transaction[s], sync[s])
  BY <1>1, ActiveSession DEF Active
<1>3. Len(sync[s].content) \in Nat /\ sync[s].startAfterRow \in Nat
  BY <1>2, ContentAssumption DEF Syncing
<1>4. /\ sync[s].position = Len(sync[s].content) + 1
      /\ sync[s].startAfterRow <= Len(sync[s].content)
      /\ sync[s].lastProcessedRow = Max2(sync[s].startAfterRow, sync[s].position - 1)
  BY <1>1, <1>2, <1>3 DEF GoodSync, InPlace
<1>5. sync[s].lastProcessedRow = Len(sync[s].content)
  BY <1>3, <1>4 DEF Max2
<1>6. /\ state \in Syncing /\ state.pc = "completing" /\ state.run = sync[s].run
      /\ state.content = sync[s].content /\ state.resumable = sync[s].resumable
      /\ state.startAfterRow = sync[s].startAfterRow
      /\ state.position = sync[s].position
      /\ state.lastProcessedRow = sync[s].lastProcessedRow
      /\ state.rawRecordCount = sync[s].rawRecordCount /\ state.seen = sync[s].seen
  BY <1>2 DEF Syncing
<1> HIDE DEF state
<1>7. InPlace(state)
  BY <1>2, <1>4, <1>6 DEF GoodSync, InPlace
<1>8. QED
  BY <1>1, <1>2, <1>5, <1>6, <1>7, CheckpointIsGood

LEMMA SavePreserves ==
    ASSUME SyncInv, NEW s \in Session, Save(s) PROVE SyncInv'
<1> DEFINE state == [sync[s] EXCEPT !.pc = "reading", !.sinceCheckpoint = 0]
<1>1. /\ sync[s].pc \in {"saving", "completing", "failing"} /\ file' = database[s]
      /\ dirty' = [dirty EXCEPT ![s] = FALSE] /\ database' = database
      /\ IF sync[s].pc = "saving"
         THEN transaction' = [transaction EXCEPT ![s] = {}] /\ Become(s, state)
         ELSE transaction' = transaction /\ Become(s, Idle)
  BY DEF Save
<1>2. /\ sync[s] \in Syncing /\ database[s] \in Image /\ GoodImage(database[s])
      /\ GoodSync(database[s], transaction[s], sync[s])
  BY <1>1, ActiveSession DEF Active
<1>3. CASE sync[s].pc = "saving"
  <2>1. /\ state \in Syncing /\ state.pc = "reading" /\ state.run = sync[s].run
        /\ state.content = sync[s].content /\ state.resumable = sync[s].resumable
        /\ state.startAfterRow = sync[s].startAfterRow
        /\ state.position = sync[s].position
        /\ state.lastProcessedRow = sync[s].lastProcessedRow
        /\ state.rawRecordCount = sync[s].rawRecordCount
        /\ state.seen = sync[s].seen
    BY <1>2 DEF Syncing
  <2>2. sync' = [sync EXCEPT ![s] = state] /\ transaction' = [transaction EXCEPT ![s] = {}]
    BY <1>1, <1>3 DEF Become
  <2>3. SyncTypeOK'
    BY <1>1, <1>2, <2>1, <2>2 DEF SyncInv, SyncTypeOK
  <2>4. /\ transaction'[s] = {} /\ sync'[s] = state
        /\ \A t \in Session \ {s} : transaction'[t] = transaction[t] /\ sync'[t] = sync[t]
    BY <2>2 DEF SyncInv, SyncTypeOK
  <2> HIDE DEF state
  <2>5. /\ InPlace(state) /\ Counted(state) /\ KeepsRecords(database[s], state)
    BY <1>2, <1>3, <2>1 DEF GoodSync, InPlace, Counted, KeepsRecords, Importing
  <2>6. /\ Covers(database[s], state.content, state.lastProcessedRow)
        /\ SeenIsImported(database[s], state)
    <3>1. Merged(database[s], transaction[s]) = database[s]
      BY <1>2, <1>3 DEF GoodSync, Importing, Merged
    <3>2. QED
      BY <1>2, <1>3, <2>1, <3>1 DEF GoodSync, SeenIsImported, Settled
  <2>7. /\ Covers(Merged(database[s], {}), state.content, state.lastProcessedRow)
        /\ SeenIsImported(Merged(database[s], {}), state)
    <3>1. database[s].records \subseteq Merged(database[s], {}).records
      BY <1>2, MergedImage
    <3>2. QED
      BY <2>6, <3>1 DEF Covers, SeenIsImported
  <2>8. GoodSync(database[s], {}, state)
    BY <1>2, <2>1, <2>5, <2>7 DEF GoodSync, Importing, Settled
  <2>9. QED
    BY <1>1, <1>2, <2>3, <2>4, <2>8, OneSession
<1>4. CASE sync[s].pc # "saving"
  <2>1. sync' = [sync EXCEPT ![s] = Idle] /\ transaction' = transaction
    BY <1>1, <1>4 DEF Become
  <2>2. SyncTypeOK'
    BY <1>1, <1>2, <2>1 DEF SyncInv, SyncTypeOK
  <2>3. sync'[s] = Idle /\ \A t \in Session \ {s} : sync'[t] = sync[t]
    BY <2>1 DEF SyncInv, SyncTypeOK
  <2>4. QED
    BY <1>1, <1>2, <2>1, <2>2, <2>3, OneSession DEF Idle
<1>5. QED
  BY <1>3, <1>4

LEMMA SaveFailsPreserves ==
    ASSUME SyncInv, NEW s \in Session, SaveFails(s) PROVE SyncInv'
<1> DEFINE state == [sync[s] EXCEPT !.saveFailed = TRUE]
<1>1. /\ sync[s].pc \in {"saving", "completing", "failing"}
      /\ \/ sync[s].pc # "failing" /\ Catch(s, state)
         \/ Become(s, Idle) /\ UNCHANGED <<file, database, transaction, dirty>>
  BY DEF SaveFails
<1>2. /\ Active(s) /\ sync[s] \in Syncing
      /\ GoodSync(database[s], transaction[s], sync[s])
  BY <1>1, ActiveSession DEF Active
<1>3. CASE sync[s].pc # "failing" /\ Catch(s, state)
  <2>1. /\ state \in Syncing /\ state.run = sync[s].run /\ state.content = sync[s].content
        /\ state.startAfterRow = sync[s].startAfterRow
        /\ state.position = sync[s].position
        /\ state.lastProcessedRow = sync[s].lastProcessedRow
        /\ state.rawRecordCount = sync[s].rawRecordCount /\ state.saveFailed
    BY <1>2 DEF Syncing
  <2> HIDE DEF state
  <2>2. Covers(Committed(s), state.content, state.lastProcessedRow)
    BY <1>1, <1>2, <1>3, <2>1, CommittedIsMerged DEF GoodSync, Settled
  <2>3. Counted(state)
    BY <1>2, <2>1 DEF GoodSync, Counted
  <2>4. QED
    BY <1>2, <1>3, <2>1, <2>2, <2>3, CatchIsGood DEF GoodSync, InPlace
<1>4. CASE Become(s, Idle) /\ UNCHANGED <<file, database, transaction, dirty>>
  <2>1. SyncTypeOK'
    BY <1>4 DEF SyncInv, SyncTypeOK, Become
  <2>2. sync'[s] = Idle /\ \A t \in Session \ {s} : sync'[t] = sync[t]
    BY <1>4 DEF SyncInv, SyncTypeOK, Become
  <2>3. QED
    BY <1>4, <2>1, <2>2, OneSession DEF SyncInv, Idle
<1>5. QED
  BY <1>1, <1>3, <1>4

-----------------------------------------------------------------------------
(* Theorems.                                                               *)

LEMMA SyncInvInit == SyncInit => SyncInv
<1> SUFFICES ASSUME SyncInit PROVE SyncInv
  OBVIOUS
<1>1. Empty \in Image /\ GoodImage(Empty)
  BY DEF Empty, Image, GoodImage
<1>2. SyncTypeOK
  BY <1>1 DEF SyncInit, SyncTypeOK
<1>3. \A s \in Session : database[s] \notin Image /\ ~Active(s)
  BY NothingAssumption DEF SyncInit, Active, Idle
<1>4. QED
  BY <1>1, <1>2, <1>3 DEF SyncInv, SyncInit

LEMMA SyncInvNext == SyncInv /\ [SyncNext]_syncVars => SyncInv'
<1> SUFFICES ASSUME SyncInv, [SyncNext]_syncVars PROVE SyncInv'
  OBVIOUS
<1>1. ASSUME NEW s \in Session, OpenCache(s) \/ CloseCache(s) \/ Crash(s) \/ Abort(s)
      PROVE  SyncInv'
  BY <1>1, OpenPreserves, ClosePreserves, CrashPreserves, AbortPreserves
<1>2. ASSUME NEW s \in Session, Step(s) PROVE SyncInv'
  BY <1>2, StopReadingPreserves, ReadMalformedPreserves, SkipRowPreserves, TakeRowPreserves,
     NormalizeInvalidPreserves, ImportRecordPreserves, DeliveryFailsPreserves,
     DeliveredPreserves, EndOfRowsPreserves, SavePreserves, SaveFailsPreserves DEF Step
<1>3. ASSUME NEW s \in Session, NEW run \in Run, NEW content \in Content,
             NEW strict \in BOOLEAN, NEW interval \in Interval,
             ResumeSync(s, run, content, strict, interval)
      PROVE  SyncInv'
  BY <1>3, ResumePreserves
<1>4. ASSUME NEW s \in Session, NEW run \in Run, NEW content \in Content,
             NEW strict \in BOOLEAN, NEW interval \in Interval, NEW resumable \in BOOLEAN,
             StartSync(s, run, content, strict, resumable, interval)
      PROVE  SyncInv'
  BY <1>4, StartPreserves
<1>5. CASE UNCHANGED syncVars
  <2>1. SyncTypeOK'
    BY <1>5 DEF SyncInv, SyncTypeOK, syncVars
  <2>2. QED
    BY <1>5, <2>1 DEF SyncInv, syncVars, Active
<1>6. QED
  BY <1>1, <1>2, <1>3, <1>4, <1>5 DEF SyncNext

\* Whatever sessions, aborts, failed saves and crashes do, the invariant holds.
THEOREM SyncIsInductive == SyncSpec => []SyncInv
<1>1. QED
  BY SyncInvInit, SyncInvNext, PTL DEF SyncSpec

\* The state of a cache and of its syncs has its types.
THEOREM SyncTypes == SyncSpec => []SyncTypeOK
<1>1. SyncInv => SyncTypeOK
  BY DEF SyncInv
<1>2. QED
  BY <1>1, SyncIsInductive, PTL

LEMMA ImagesAreGood ==
    ASSUME SyncInv, NEW image \in Images
    PROVE  image \in Image /\ GoodImage(image)
<1>1. image = file \/ \E s \in Session : image = database[s] /\ database[s] # Nothing
  BY DEF Images
<1>2. QED
  BY <1>1 DEF SyncInv, SyncTypeOK

\* Of every run, in memory and on disk, the rows up to the point where it would
\* be resumed are in the same image as that point.
THEOREM ResumePoints == SyncSpec => []ResumePointIsCovered
<1>1. SyncInv => ResumePointIsCovered
  BY ImagesAreGood DEF ResumePointIsCovered, GoodImage, GoodRun
<1>2. QED
  BY <1>1, SyncIsInductive, PTL

\* Interrupted and resumed however often, a run has counted every row up to its
\* resume point once.
THEOREM RowCounts == SyncSpec => []RowsCountOnce
<1>1. SyncInv => RowsCountOnce
  BY ImagesAreGood DEF RowsCountOnce, GoodImage, GoodRun, Counted
<1>2. QED
  BY <1>1, SyncIsInductive, PTL

\* A sync that is not resumable and fails, but for a failed save, leaves the
\* records of its session as they were.
THEOREM FailedSyncs == SyncSpec => []FailedSyncChangesNothing
<1>1. SyncInv => FailedSyncChangesNothing
  BY DEF SyncInv, FailedSyncChangesNothing, Active, GoodSync, KeepsRecords
<1>2. QED
  BY <1>1, SyncIsInductive, PTL

=============================================================================
