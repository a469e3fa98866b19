------------------------ MODULE SnapshotIntakeProofs ------------------------
(***************************************************************************)
(* Proofs about the snapshot intake for any number of processes, sources,  *)
(* keys, files and contents.                                               *)
(*                                                                         *)
(* The argument: an object never changes once it is stored and a snapshot  *)
(* never goes away, so what a process has found in the archive stays true  *)
(* whatever the others do (lemma OthersKeepTheirs), and what it knows of   *)
(* its file is lost only by a replacement, which is counted.               *)
(***************************************************************************)
EXTENDS MCEnqueue, StoragePressureProofs, TLAPS

Checked == {"looking", "putting", "verifying", "archived", "parsing"}

\* What a process knows of its digest.
DigestKnown(p) ==
    /\ process[p].pc = "inspecting" /\ process[p].goal = "register" =>
            process[p].sha256 = None
    /\ process[p].pc \in Checked \cup {"refused", "published"} => process[p].sha256 \in Bytes
    /\ process[p].pc = "inspecting" /\ process[p].goal # "register" =>
            process[p].sha256 \in Bytes

\* What a process knows of the archive.
ObjectSeen(p) ==
    /\ process[p].pc \in {"archived", "parsing"} => ObjectMatches(p)
    /\ process[p].pc = "verifying" => object[process[p].request.key] # None

\* What an enqueue knows of its file, and why it was refused.
EnqueueSound(p) ==
    /\ process[p].pc \in {"looking", "putting"} /\ process[p].goal = "register" =>
            file[process[p].request.path] = process[p].sha256 \/ rewrites[p] > 0
    /\ process[p].pc = "refused" /\ process[p].goal = "register" =>
            Conflict(p) \/ rewrites[p] > 0

\* Where an import stands.
Phases(p) ==
    /\ process[p].pc = "inspecting" /\ process[p].goal = "parse" => process[p].parsed = {}
    /\ process[p].pc = "parsing" => process[p].goal = "parse"
    /\ process[p].pc = "published" => process[p].goal = "publish"
    /\ process[p].pc # "idle" /\ process[p].goal = "publish" => process[p].parsed # {}

\* The first inspection of an import is over, and it still reads its file.
Inspected(p) ==
    \/ process[p].pc \in Checked /\ process[p].goal \in {"parse", "publish"}
    \/ process[p].pc = "inspecting" /\ process[p].goal = "publish"

ParsedSound(p) == process[p].parsed \subseteq {process[p].sha256}

\* What an import knows of its file.
ImportSound(p) ==
    /\ Inspected(p) /\ rewrites[p] = 0 =>
            file[process[p].request.path] = process[p].sha256 /\ ParsedSound(p)
    /\ Inspected(p) /\ rewrites[p] = 1 /\ file[process[p].request.path] = process[p].sha256 =>
            ParsedSound(p)
    /\ process[p].pc \in Checked \cup {"published"} /\ process[p].goal = "publish" =>
            ParsedSound(p) \/ rewrites[p] = 2

Sound(p) ==
    DigestKnown(p) /\ ObjectSeen(p) /\ EnqueueSound(p) /\ Phases(p) /\ ImportSound(p)

\* The inductive invariant.
IntakeInv == IntakeTypeOK /\ RegisteredIsArchived /\ \A p \in Process : Sound(p)

-----------------------------------------------------------------------------
(* Frames.                                                                 *)

\* Nothing is taken from the archive or from source_snapshots.
Grows ==
    /\ \A k \in Key : object[k] # None => object'[k] = object[k]
    /\ snapshots \subseteq snapshots'

LEMMA WorkingFields ==
    ASSUME IntakeTypeOK, NEW p \in Process, process[p].pc # "idle"
    PROVE  /\ process[p] \in Working
           /\ process[p].pc \in Pc /\ process[p].goal \in Goal
           /\ process[p].request \in Request
           /\ process[p].request.key \in Key /\ process[p].request.path \in File
           /\ process[p].request.source \in Source
           /\ process[p].sha256 \in Bytes \cup {None} /\ process[p].parsed \subseteq Bytes
<1>1. process[p] \in Working
  BY DEF IntakeTypeOK, Idle
<1>2. QED
  BY <1>1 DEF Working, Request

\* An object a process compares with is no empty place.
LEMMA MatchIsObject ==
    ASSUME IntakeTypeOK, NEW p \in Process, process[p].pc # "idle", process[p].sha256 \in Bytes,
           ObjectMatches(p)
    PROVE  object[process[p].request.key] # None
BY WorkingFields, NoneAssumption DEF ObjectMatches

\* A step keeps what a process knows that takes no part in it, unless its file
\* is replaced.
LEMMA OthersKeepTheirs ==
    ASSUME IntakeTypeOK, Grows, NEW q \in Process, Sound(q),
           process'[q] = process[q], rewrites'[q] = rewrites[q], file' = file
    PROVE  Sound(q)'
<1>1. CASE process[q].pc = "idle"
  BY <1>1 DEF Sound, DigestKnown, ObjectSeen, EnqueueSound, Phases, ImportSound, Inspected,
              Checked
<1>2. CASE process[q].pc # "idle"
  <2>1. process[q].request.key \in Key
    BY <1>2, WorkingFields
  <2>2. DigestKnown(q)' /\ Phases(q)' /\ ImportSound(q)'
    BY DEF Sound, DigestKnown, Phases, ImportSound, Inspected, ParsedSound
  <2>3. ObjectSeen(q)'
    BY <1>2, <2>1, MatchIsObject
       DEF Sound, DigestKnown, ObjectSeen, ObjectMatches, Grows, Checked
  <2>4. Conflict(q) => Conflict(q)'
    BY <2>1 DEF Conflict, Grows
  <2>5. EnqueueSound(q)'
    BY <2>4 DEF Sound, EnqueueSound
  <2>6. QED
    BY <2>2, <2>3, <2>5 DEF Sound
<1>3. QED
  BY <1>1, <1>2

\* Registered snapshots stay archived as long as the archive grows.
LEMMA RegisteredStays ==
    ASSUME IntakeTypeOK, RegisteredIsArchived, Grows, snapshots' = snapshots
    PROVE  RegisteredIsArchived'
<1>1. ASSUME NEW s \in snapshots PROVE object[s.key] # None /\ s.key \in Key
  <2>1. s.key \in Key /\ s.sha256 \in Bytes /\ s.source \in Source
    BY DEF IntakeTypeOK, Snapshot
  <2>2. [sha256 |-> s.sha256, source |-> s.source] \in [sha256 : Bytes, source : Source]
    BY <2>1
  <2>3. object[s.key] = [sha256 |-> s.sha256, source |-> s.source]
    BY DEF RegisteredIsArchived
  <2>4. QED
    BY <2>1, <2>2, <2>3, NoneAssumption
<1>2. QED
  BY <1>1 DEF RegisteredIsArchived, Grows

\* The fields of a process that goes on to another pc.
LEMMA GotoFields ==
    ASSUME IntakeTypeOK, NEW p \in Process, process[p].pc # "idle", NEW to \in Pc \ {"idle"},
           Goto(p, to)
    PROVE  /\ process'[p] \in Working
           /\ process'[p].pc = to /\ process'[p].goal = process[p].goal
           /\ process'[p].request = process[p].request
           /\ process'[p].sha256 = process[p].sha256
           /\ process'[p].parsed = process[p].parsed
           /\ process' = [process EXCEPT ![p] = process'[p]]
<1>1. process[p] \in Working
  BY WorkingFields
<1>2. PICK w : w = [process[p] EXCEPT !.pc = to]
  OBVIOUS
<1>3. /\ w \in Working /\ w.pc = to /\ w.goal = process[p].goal
      /\ w.request = process[p].request /\ w.sha256 = process[p].sha256
      /\ w.parsed = process[p].parsed
  BY <1>1, <1>2 DEF Working
<1>4. process' = [process EXCEPT ![p] = w]
  BY <1>2 DEF Goto
<1>5. process'[p] = w
  BY <1>4 DEF IntakeTypeOK
<1>6. QED
  BY <1>3, <1>4, <1>5

\* A step of one process: what remains to be shown is what it knows itself.
LEMMA MoveStep ==
    ASSUME IntakeInv, NEW p \in Process, NEW w \in Working \cup {Idle},
           process' = [process EXCEPT ![p] = w], object' \in [Key -> Object \cup {None}],
           snapshots' \subseteq Snapshot, Grows, RegisteredIsArchived', Sound(p)',
           UNCHANGED <<file, rewrites>>
    PROVE  IntakeInv'
<1> USE DEF IntakeInv
<1>1. IntakeTypeOK'
  BY DEF IntakeTypeOK
<1>2. ASSUME NEW q \in Process \ {p} PROVE Sound(q)'
  <2>1. process'[q] = process[q] /\ rewrites'[q] = rewrites[q]
    BY DEF IntakeTypeOK
  <2>2. QED
    BY <2>1, OthersKeepTheirs
<1>3. QED
  BY <1>1, <1>2

\* A step that ends a process, which then knows nothing.
LEMMA EndStep ==
    ASSUME IntakeInv, NEW p \in Process, process' = [process EXCEPT ![p] = Idle],
           object' \in [Key -> Object \cup {None}], snapshots' \subseteq Snapshot,
           Grows, RegisteredIsArchived', UNCHANGED <<file, rewrites>>
    PROVE  IntakeInv'
<1>1. process'[p].pc = "idle"
  BY DEF IntakeInv, IntakeTypeOK, Idle
<1>2. Sound(p)'
  BY <1>1
     DEF Sound, DigestKnown, ObjectSeen, EnqueueSound, Phases, ImportSound, Inspected, Checked
<1>3. QED
  BY <1>2, MoveStep

\* A step that leaves archive and database alone.
LEMMA QuietStep ==
    ASSUME IntakeInv, NEW p \in Process, process'[p] \in Working \cup {Idle},
           process' = [process EXCEPT ![p] = process'[p]], Sound(p)',
           UNCHANGED <<file, object, snapshots, rewrites>>
    PROVE  IntakeInv'
<1> PICK w : w = process'[p]
  OBVIOUS
<1>1. Grows
  BY DEF Grows
<1>2. RegisteredIsArchived'
  BY <1>1, RegisteredStays DEF IntakeInv
<1>3. object' \in [Key -> Object \cup {None}] /\ snapshots' \subseteq Snapshot
  BY DEF IntakeInv, IntakeTypeOK
<1>4. QED
  BY <1>1, <1>2, <1>3, MoveStep

-----------------------------------------------------------------------------
(* The start and the end of a process.                                     *)

LEMMA IntakeInitInv == IntakeInit => IntakeInv
BY DEF IntakeInit, IntakeInv, IntakeTypeOK, RegisteredIsArchived, Sound, DigestKnown, ObjectSeen,
       EnqueueSound, Phases, ImportSound, Inspected, Checked, Idle

LEMMA StartStep ==
    ASSUME IntakeInv, NEW p \in Process, NEW goal \in Goal, NEW request \in Request,
           NEW digest \in Bytes \cup {None}, Start(p, goal, request, digest),
           \/ goal = "register" /\ digest = None
           \/ goal = "parse" /\ digest \in Bytes
    PROVE  IntakeInv'
<1> USE DEF IntakeInv
<1>1. PICK w : w = [pc |-> "inspecting", goal |-> goal, request |-> request,
                    sha256 |-> digest, parsed |-> {}]
  OBVIOUS
<1>2. /\ w \in Working /\ w.pc = "inspecting" /\ w.goal = goal /\ w.sha256 = digest
      /\ w.parsed = {}
  BY <1>1 DEF Working, Pc
<1>3. /\ process' = [process EXCEPT ![p] = w] /\ rewrites' = [rewrites EXCEPT ![p] = 0]
      /\ UNCHANGED <<file, object, snapshots>>
  BY <1>1 DEF Start
<1>4. Grows
  BY <1>3 DEF Grows
<1>5. IntakeTypeOK'
  BY <1>2, <1>3 DEF IntakeTypeOK
<1>6. process'[p] = w
  BY <1>3 DEF IntakeTypeOK
<1>7. Sound(p)'
  BY <1>2, <1>6
     DEF Sound, DigestKnown, ObjectSeen, EnqueueSound, Phases, ImportSound, Inspected, Checked
<1>8. ASSUME NEW q \in Process \ {p} PROVE Sound(q)'
  <2>1. process'[q] = process[q] /\ rewrites'[q] = rewrites[q]
    BY <1>3 DEF IntakeTypeOK
  <2>2. QED
    BY <1>3, <1>4, <2>1, OthersKeepTheirs
<1>9. RegisteredIsArchived'
  BY <1>3, <1>4, RegisteredStays
<1>10. QED
  BY <1>5, <1>7, <1>8, <1>9

LEMMA EndOrAbandonStep == ASSUME IntakeInv, NEW p \in Process, End(p) \/ Abandon(p) PROVE IntakeInv'
<1>1. /\ process' = [process EXCEPT ![p] = Idle]
      /\ UNCHANGED <<file, object, snapshots, rewrites>>
  BY DEF End, Abandon
<1>2. Grows
  BY <1>1 DEF Grows
<1>3. RegisteredIsArchived' /\ object' \in [Key -> Object \cup {None}] /\ snapshots' \subseteq Snapshot
  BY <1>1, <1>2, RegisteredStays DEF IntakeInv, IntakeTypeOK
<1>4. QED
  BY <1>1, <1>2, <1>3, EndStep

-----------------------------------------------------------------------------
(* Inspection and archiving.                                               *)

LEMMA InspectStep == ASSUME IntakeInv, NEW p \in Process, Inspect(p) PROVE IntakeInv'
<1> DEFINE expected == process[p].sha256
           content == file[process[p].request.path]
<1>1. process[p].pc = "inspecting" /\ UNCHANGED <<file, object, snapshots, rewrites>>
  BY DEF Inspect
<1>2. /\ process[p] \in Working /\ expected \in Bytes \cup {None} /\ content \in Bytes
      /\ Sound(p) /\ process[p].goal \in Goal
  BY <1>1, WorkingFields DEF IntakeInv, IntakeTypeOK
<1>3. PICK w : w = [process[p] EXCEPT
          !.pc = IF expected \in {None, content} THEN "looking" ELSE "refused",
          !.sha256 = IF expected = None THEN content ELSE expected]
  OBVIOUS
<1>4. /\ w \in Working /\ w.goal = process[p].goal /\ w.request = process[p].request
      /\ w.parsed = process[p].parsed
      /\ w.pc = IF expected \in {None, content} THEN "looking" ELSE "refused"
      /\ w.sha256 = IF expected = None THEN content ELSE expected
  BY <1>2, <1>3 DEF Working, Pc
<1>5. process' = [process EXCEPT ![p] = w] /\ process'[p] = w
  BY <1>3 DEF Inspect, IntakeInv, IntakeTypeOK
<1>6. rewrites[p] \in 0..2
  BY DEF IntakeInv, IntakeTypeOK
<1> HIDE DEF expected, content
<1>7. CASE process[p].goal = "register"
  <2>1. expected = None /\ w.pc = "looking" /\ w.sha256 = content
    BY <1>1, <1>2, <1>4, <1>7 DEF Sound, DigestKnown, expected
  <2>2. Sound(p)'
    BY <1>1, <1>2, <1>4, <1>5, <1>7, <2>1
       DEF Sound, DigestKnown, ObjectSeen, EnqueueSound, Phases, ImportSound, Inspected,
           Checked, content
  <2>3. QED
    BY <1>1, <1>4, <1>5, <2>2, QuietStep
<1>8. CASE process[p].goal # "register"
  <2>1. expected \in Bytes /\ expected # None
    BY <1>1, <1>8, NoneAssumption, <1>2 DEF Sound, DigestKnown, expected
  <2>2. /\ w.sha256 = expected
        /\ w.pc \in {"looking", "refused"} /\ (w.pc = "looking" => content = expected)
    BY <1>4, <2>1
  <2>3. process[p].goal \in {"parse", "publish"}
    BY <1>2, <1>8 DEF Goal
  <2>4. DigestKnown(p)' /\ ObjectSeen(p)' /\ EnqueueSound(p)' /\ Phases(p)'
    BY <1>1, <1>2, <1>4, <1>5, <1>8, <2>1, <2>2
       DEF Sound, DigestKnown, ObjectSeen, EnqueueSound, Phases, Checked
  <2>5. w.pc = "looking" => rewrites[p] = 2 \/ w.parsed \subseteq {w.sha256}
    <3>1. CASE process[p].goal = "parse"
      BY <1>1, <1>2, <1>4, <3>1 DEF Sound, Phases
    <3>2. CASE process[p].goal = "publish"
      <4>1. Inspected(p)
        BY <1>1, <3>2 DEF Inspected
      <4>2. w.pc = "looking" /\ rewrites[p] \in {0, 1} => process[p].parsed \subseteq {expected}
        BY <1>2, <2>2, <4>1 DEF Sound, ImportSound, ParsedSound, content, expected
      <4>3. QED
        BY <1>4, <1>6, <2>2, <4>2
    <3>3. QED
      BY <2>3, <3>1, <3>2
  <2>6. ImportSound(p)'
    BY <1>1, <1>4, <1>5, <2>2, <2>5
       DEF ImportSound, Inspected, ParsedSound, Checked, content
  <2>7. QED
    BY <1>1, <1>4, <1>5, <2>4, <2>6, QuietStep DEF Sound
<1>9. QED
  BY <1>7, <1>8

LEMMA LookStep == ASSUME IntakeInv, NEW p \in Process, Look(p) PROVE IntakeInv'
<1> DEFINE to == IF object[process[p].request.key] = None THEN "putting" ELSE "verifying"
<1>1. process[p].pc = "looking" /\ Goto(p, to) /\ UNCHANGED <<file, object, snapshots, rewrites>>
  BY DEF Look
<1>2. to \in Pc \ {"idle"} /\ to \in {"putting", "verifying"}
  BY DEF Pc
<1>3. to = "verifying" => object[process[p].request.key] # None
  OBVIOUS
<1> HIDE DEF to
<1>4. /\ process'[p] \in Working /\ process'[p].pc = to /\ process'[p].goal = process[p].goal
      /\ process'[p].request = process[p].request /\ process'[p].sha256 = process[p].sha256
      /\ process'[p].parsed = process[p].parsed
      /\ process' = [process EXCEPT ![p] = process'[p]]
  BY <1>1, <1>2, GotoFields DEF IntakeInv
<1>5. Sound(p)
  BY DEF IntakeInv
<1>6. Sound(p)'
  BY <1>1, <1>2, <1>3, <1>4, <1>5
     DEF Sound, DigestKnown, ObjectSeen, EnqueueSound, Phases, ImportSound, Inspected,
         ParsedSound, Checked
<1>7. QED
  BY <1>1, <1>4, <1>6, QuietStep

LEMMA RefusingStep ==
    ASSUME IntakeInv, NEW p \in Process, PutConflict(p) \/ PutMismatch(p) PROVE IntakeInv'
<1> DEFINE to == IF object[process[p].request.key] = None THEN "refused" ELSE "verifying"
<1>1. process[p].pc = "putting" /\ Goto(p, to) /\ UNCHANGED <<file, object, snapshots, rewrites>>
  BY DEF PutConflict, PutMismatch
<1>2. to \in Pc \ {"idle"} /\ to \in {"refused", "verifying"}
  BY DEF Pc
<1>3. /\ to = "verifying" => object[process[p].request.key] # None
      /\ to = "refused" => file[process[p].request.path] # process[p].sha256
  BY DEF PutConflict, PutMismatch
<1> HIDE DEF to
<1>4. /\ process'[p] \in Working /\ process'[p].pc = to /\ process'[p].goal = process[p].goal
      /\ process'[p].request = process[p].request /\ process'[p].sha256 = process[p].sha256
      /\ process'[p].parsed = process[p].parsed
      /\ process' = [process EXCEPT ![p] = process'[p]]
  BY <1>1, <1>2, GotoFields DEF IntakeInv
<1>5. Sound(p)
  BY DEF IntakeInv
<1>6. Sound(p)'
  BY <1>1, <1>2, <1>3, <1>4, <1>5
     DEF Sound, DigestKnown, ObjectSeen, EnqueueSound, Phases, ImportSound, Inspected,
         ParsedSound, Checked
<1>7. QED
  BY <1>1, <1>4, <1>6, QuietStep

\* The object is stored at a place that was empty.
LEMMA PutStep == ASSUME IntakeInv, NEW p \in Process, Put(p) PROVE IntakeInv'
<1> DEFINE key == process[p].request.key
           stored == [sha256 |-> process[p].sha256, source |-> process[p].request.source]
<1>1. /\ process[p].pc = "putting" /\ object[key] = None
      /\ object' = [object EXCEPT ![key] = stored]
      /\ UNCHANGED <<file, snapshots, rewrites>>
      /\ Goto(p, "verifying") \/ process' = [process EXCEPT ![p] = Idle]
  BY DEF Put, Store
<1>2. /\ key \in Key /\ stored \in Object /\ stored # None
  <2>1. process[p].sha256 \in Bytes /\ process[p].request.source \in Source /\ key \in Key
    BY <1>1, WorkingFields DEF IntakeInv, Sound, DigestKnown, Checked
  <2>2. QED
    BY <2>1, NoneAssumption DEF Object
<1> HIDE DEF key, stored
<1>3. /\ object' \in [Key -> Object \cup {None}] /\ snapshots' \subseteq Snapshot
      /\ Grows /\ object'[key] # None
  BY <1>1, <1>2 DEF IntakeInv, IntakeTypeOK, Grows
<1>4. RegisteredIsArchived'
  BY <1>1, <1>3, RegisteredStays DEF IntakeInv
<1>5. CASE process' = [process EXCEPT ![p] = Idle]
  BY <1>1, <1>3, <1>4, <1>5, EndStep
<1>6. CASE Goto(p, "verifying")
  <2>1. "verifying" \in Pc \ {"idle"}
    BY DEF Pc
  <2>2. /\ process'[p] \in Working /\ process'[p].pc = "verifying" /\ process'[p].goal = process[p].goal
      /\ process'[p].request = process[p].request /\ process'[p].sha256 = process[p].sha256
      /\ process'[p].parsed = process[p].parsed
      /\ process' = [process EXCEPT ![p] = process'[p]]
    BY <1>1, <1>6, <2>1, GotoFields DEF IntakeInv
  <2>3. Sound(p)
    BY DEF IntakeInv
  <2>4. Sound(p)'
    BY <1>1, <1>3, <2>2, <2>3
       DEF Sound, DigestKnown, ObjectSeen, EnqueueSound, Phases, ImportSound, Inspected,
           ParsedSound, Checked, key
  <2>5. PICK w : w = process'[p]
    OBVIOUS
  <2>6. QED
    BY <1>1, <1>3, <1>4, <2>2, <2>4, <2>5, MoveStep
<1>7. QED
  BY <1>1, <1>5, <1>6

LEMMA VerifyStep == ASSUME IntakeInv, NEW p \in Process, Verify(p) PROVE IntakeInv'
<1> DEFINE to == IF ObjectMatches(p) THEN "archived" ELSE "refused"
<1>1. process[p].pc = "verifying" /\ Goto(p, to) /\ UNCHANGED <<file, object, snapshots, rewrites>>
  BY DEF Verify
<1>2. to \in Pc \ {"idle"} /\ to \in {"refused", "archived"}
  BY DEF Pc
<1>3. (to = "archived" => ObjectMatches(p)) /\ (to = "refused" => ~ObjectMatches(p))
  OBVIOUS
<1> HIDE DEF to
<1>4. /\ process'[p] \in Working /\ process'[p].pc = to /\ process'[p].goal = process[p].goal
      /\ process'[p].request = process[p].request /\ process'[p].sha256 = process[p].sha256
      /\ process'[p].parsed = process[p].parsed
      /\ process' = [process EXCEPT ![p] = process'[p]]
  BY <1>1, <1>2, GotoFields DEF IntakeInv
<1>5. Sound(p)
  BY DEF IntakeInv
<1>6. DigestKnown(p)' /\ Phases(p)' /\ ImportSound(p)'
  BY <1>1, <1>2, <1>4, <1>5
     DEF Sound, DigestKnown, ObjectSeen, EnqueueSound, Phases, ImportSound, Inspected,
         ParsedSound, Checked
<1>7. ObjectSeen(p)'
  BY <1>1, <1>2, <1>3, <1>4 DEF ObjectSeen, ObjectMatches
<1>8. EnqueueSound(p)'
  <2>1. object[process[p].request.key] # None
    BY <1>1, <1>5 DEF Sound, ObjectSeen
  <2>2. ~ObjectMatches(p) => Conflict(p)'
    BY <1>1, <1>4, <2>1 DEF ObjectMatches, Conflict
  <2>3. QED
    BY <1>2, <1>3, <1>4, <2>2 DEF EnqueueSound
<1>9. QED
  BY <1>1, <1>4, <1>6, <1>7, <1>8, QuietStep DEF Sound

-----------------------------------------------------------------------------
(* Registration.                                                           *)

LEMMA RegisterStep == ASSUME IntakeInv, NEW p \in Process, Register(p) PROVE IntakeInv'
<1> DEFINE r == process[p].request
           entry == [source |-> r.source, key |-> r.key, path |-> r.path,
                     sha256 |-> process[p].sha256]
           same == {s \in snapshots : s.source = r.source /\ s.sha256 = process[p].sha256}
<1>1. /\ process[p].pc = "archived" /\ process[p].goal = "register"
      /\ UNCHANGED <<file, object, rewrites>>
  BY DEF Register
<1>2. /\ process[p] \in Working /\ r.key \in Key /\ r.path \in File /\ r.source \in Source
      /\ process[p].sha256 \in Bytes /\ ObjectMatches(p) /\ Sound(p)
  BY <1>1, WorkingFields DEF IntakeInv, Sound, DigestKnown, ObjectSeen, Checked
<1>3. object' \in [Key -> Object \cup {None}]
  BY <1>1 DEF IntakeInv, IntakeTypeOK
<1>4. CASE /\ snapshots' = snapshots \cup {entry}
           /\ process' = [process EXCEPT ![p] = Idle]
  <2>1. entry \in Snapshot
    BY <1>2 DEF Snapshot
  <2>2. snapshots' \subseteq Snapshot /\ Grows
    BY <1>1, <1>4, <2>1 DEF IntakeInv, IntakeTypeOK, Grows
  <2>3. object[entry.key] = [sha256 |-> entry.sha256, source |-> entry.source]
    BY <1>2 DEF ObjectMatches
  <2>4. RegisteredIsArchived'
    BY <1>1, <1>4, <2>3 DEF IntakeInv, RegisteredIsArchived
  <2>5. QED
    BY <1>1, <1>3, <1>4, <2>2, <2>4, EndStep
<1>5. CASE snapshots' = snapshots /\ process' = [process EXCEPT ![p] = Idle]
  <2>1. Grows
    BY <1>1, <1>5 DEF Grows
  <2>2. RegisteredIsArchived' /\ snapshots' \subseteq Snapshot
    BY <1>5, <2>1, RegisteredStays DEF IntakeInv, IntakeTypeOK
  <2>3. QED
    BY <1>1, <1>3, <1>5, <2>1, <2>2, EndStep
<1>6. CASE /\ snapshots' = snapshots /\ Goto(p, "refused")
           /\ \/ \E s \in same : s.key # r.key
              \/ same = {} /\ \E s \in snapshots : s.key = r.key
  <2>1. "refused" \in Pc \ {"idle"}
    BY DEF Pc
  <2>2. /\ process'[p] \in Working /\ process'[p].pc = "refused" /\ process'[p].goal = process[p].goal
      /\ process'[p].request = process[p].request /\ process'[p].sha256 = process[p].sha256
      /\ process'[p].parsed = process[p].parsed
      /\ process' = [process EXCEPT ![p] = process'[p]]
    BY <1>1, <1>6, <2>1, GotoFields DEF IntakeInv
  <2>3. \E s \in same : s.key # r.key
    <3>1. ASSUME NEW s \in snapshots, s.key = r.key PROVE s \in same
      <4>1. object[r.key] = [sha256 |-> s.sha256, source |-> s.source]
        BY <3>1 DEF IntakeInv, RegisteredIsArchived
      <4>2. object[r.key] = [sha256 |-> process[p].sha256, source |-> r.source]
        BY <1>2 DEF ObjectMatches
      <4>3. s.sha256 = process[p].sha256 /\ s.source = r.source
        BY <4>1, <4>2
      <4>4. QED
        BY <4>3
    <3>2. QED
      BY <1>6, <3>1
  <2>4. Conflict(p)'
    BY <1>6, <2>2, <2>3 DEF Conflict
  <2>5. Sound(p)'
    BY <1>1, <1>2, <2>2, <2>4
       DEF Sound, DigestKnown, ObjectSeen, EnqueueSound, Phases, ImportSound, Inspected,
           Checked
  <2>6. QED
    BY <1>1, <1>6, <2>2, <2>5, QuietStep
<1>7. QED
  BY <1>4, <1>5, <1>6 DEF Register

-----------------------------------------------------------------------------
(* The import.                                                             *)

LEMMA AdvanceStep ==
    ASSUME IntakeInv, NEW p \in Process, StartParsing(p) \/ Publish(p) PROVE IntakeInv'
<1> DEFINE to == IF process[p].goal = "parse" THEN "parsing" ELSE "published"
<1>1. /\ process[p].pc = "archived" /\ process[p].goal \in {"parse", "publish"} /\ Goto(p, to)
      /\ UNCHANGED <<file, object, snapshots, rewrites>>
  BY DEF StartParsing, Publish
<1>2. /\ to \in Pc \ {"idle"} /\ to \in {"parsing", "published"}
      /\ (to = "parsing" <=> process[p].goal = "parse")
  BY DEF Pc
<1> HIDE DEF to
<1>3. /\ process'[p] \in Working /\ process'[p].pc = to /\ process'[p].goal = process[p].goal
      /\ process'[p].request = process[p].request /\ process'[p].sha256 = process[p].sha256
      /\ process'[p].parsed = process[p].parsed
      /\ process' = [process EXCEPT ![p] = process'[p]]
  BY <1>1, <1>2, GotoFields DEF IntakeInv
<1>4. Sound(p)
  BY DEF IntakeInv
<1>5. DigestKnown(p)' /\ EnqueueSound(p)' /\ Phases(p)' /\ ImportSound(p)'
  BY <1>1, <1>2, <1>3, <1>4
     DEF Sound, DigestKnown, EnqueueSound, Phases, ImportSound, Inspected, ParsedSound, Checked
<1>6. ObjectSeen(p)'
  BY <1>1, <1>2, <1>3, <1>4 DEF Sound, ObjectSeen, ObjectMatches
<1>7. QED
  BY <1>1, <1>3, <1>5, <1>6, QuietStep DEF Sound

LEMMA ParseStep == ASSUME IntakeInv, NEW p \in Process, Parse(p) PROVE IntakeInv'
<1> DEFINE content == file[process[p].request.path]
<1>1. process[p].pc = "parsing" /\ UNCHANGED <<file, object, snapshots, rewrites>>
  BY DEF Parse
<1>2. /\ process[p] \in Working /\ process[p].parsed \subseteq Bytes /\ content \in Bytes
      /\ Sound(p) /\ process[p].goal = "parse"
  BY <1>1, WorkingFields DEF IntakeInv, IntakeTypeOK, Sound, Phases
<1>3. PICK w : w = [process[p] EXCEPT !.parsed = @ \cup {content}]
  OBVIOUS
<1>4. /\ w \in Working /\ w.goal = process[p].goal /\ w.request = process[p].request
      /\ w.pc = process[p].pc /\ w.sha256 = process[p].sha256
      /\ w.parsed = process[p].parsed \cup {content}
  BY <1>2, <1>3 DEF Working
<1>5. process' = [process EXCEPT ![p] = w] /\ process'[p] = w
  BY <1>3 DEF Parse, IntakeInv, IntakeTypeOK
<1>6. Inspected(p)
  BY <1>1, <1>2 DEF Inspected, Checked
<1>7. ImportSound(p)'
  BY <1>1, <1>2, <1>4, <1>5, <1>6 DEF Sound, ImportSound, ParsedSound
<1>8. DigestKnown(p)' /\ ObjectSeen(p)' /\ EnqueueSound(p)' /\ Phases(p)'
  BY <1>1, <1>2, <1>4, <1>5
     DEF Sound, DigestKnown, ObjectSeen, ObjectMatches, EnqueueSound, Phases, Checked
<1>9. QED
  BY <1>1, <1>4, <1>5, <1>7, <1>8, QuietStep DEF Sound

LEMMA EndOfStreamStep == ASSUME IntakeInv, NEW p \in Process, EndOfStream(p) PROVE IntakeInv'
<1>1. /\ process[p].pc = "parsing" /\ process[p].parsed # {}
      /\ UNCHANGED <<file, object, snapshots, rewrites>>
  BY DEF EndOfStream
<1>2. process[p] \in Working /\ Sound(p) /\ process[p].goal = "parse"
  BY <1>1, WorkingFields DEF IntakeInv, Sound, Phases
<1>3. PICK w : w = [process[p] EXCEPT !.pc = "inspecting", !.goal = "publish"]
  OBVIOUS
<1>4. /\ w \in Working /\ w.goal = "publish" /\ w.request = process[p].request
      /\ w.pc = "inspecting" /\ w.sha256 = process[p].sha256 /\ w.parsed = process[p].parsed
  BY <1>2, <1>3 DEF Working, Pc, Goal
<1>5. process' = [process EXCEPT ![p] = w] /\ process'[p] = w
  BY <1>3 DEF EndOfStream, IntakeInv, IntakeTypeOK
<1>6. Sound(p)'
  BY <1>1, <1>2, <1>4, <1>5
     DEF Sound, DigestKnown, ObjectSeen, EnqueueSound, Phases, ImportSound, Inspected,
         ParsedSound, Checked
<1>7. QED
  BY <1>1, <1>4, <1>5, <1>6, QuietStep

\* A replacement is counted by every process that still reads the file.
LEMMA ReplaceStep ==
    ASSUME IntakeInv, NEW f \in File, NEW content \in Bytes, Replace(f, content) PROVE IntakeInv'
<1>1. /\ content # file[f] /\ file' = [file EXCEPT ![f] = content]
      /\ rewrites' = [p \in Process |->
            IF Active(p) /\ process[p].request.path = f /\ rewrites[p] < 2
            THEN rewrites[p] + 1 ELSE rewrites[p]]
      /\ UNCHANGED <<object, snapshots, process>>
  BY DEF Replace
<1>2. IntakeTypeOK'
  BY <1>1 DEF IntakeInv, IntakeTypeOK
<1>3. RegisteredIsArchived'
  BY <1>1 DEF IntakeInv, RegisteredIsArchived
<1>4. ASSUME NEW p \in Process PROVE Sound(p)'
  <2>1. Sound(p) /\ rewrites[p] \in 0..2
    BY DEF IntakeInv, IntakeTypeOK
  <2>2. process'[p] = process[p] /\ (Conflict(p) => Conflict(p)')
    BY <1>1 DEF Conflict
  <2>3. CASE Active(p) /\ process[p].request.path = f
    <3>1. IF rewrites[p] = 2 THEN rewrites'[p] = 2 ELSE rewrites'[p] = rewrites[p] + 1
      BY <1>1, <2>1, <2>3
    <3>2. process[p].request.path \in File /\ file'[process[p].request.path] = content
      BY <1>1, <2>3, WorkingFields DEF Active, IntakeInv, IntakeTypeOK
    <3>3. rewrites'[p] \in {1, 2} /\ (rewrites'[p] = 1 => rewrites[p] = 0)
      BY <2>1, <3>1
    <3>4. DigestKnown(p)' /\ ObjectSeen(p)' /\ Phases(p)'
      BY <1>1, <2>1 DEF Sound, DigestKnown, ObjectSeen, ObjectMatches, Phases
    <3>5. EnqueueSound(p)'
      BY <3>3 DEF EnqueueSound
    <3>6. ImportSound(p)'
      <4>1. rewrites'[p] = 1 /\ Inspected(p) => file'[process[p].request.path] # process[p].sha256
        BY <1>1, <2>1, <2>3, <3>2, <3>3 DEF Sound, ImportSound
      <4>2. process[p].pc \in Checked /\ process[p].goal = "publish" /\ rewrites[p] \in {0, 1} =>
              ParsedSound(p)
        BY <2>1 DEF Sound, ImportSound
      <4>3. process[p].pc # "published"
        BY <2>3 DEF Active
      <4>4. rewrites[p] \in {0, 1} \/ rewrites'[p] = 2
        BY <2>1, <3>1
      <4>5. Inspected(p)' <=> Inspected(p)
        BY <2>2 DEF Inspected
      <4>6. ParsedSound(p)' <=> ParsedSound(p)
        BY <2>2 DEF ParsedSound
      <4>7. QED
        BY <2>2, <3>3, <4>1, <4>2, <4>3, <4>4, <4>5, <4>6 DEF ImportSound
    <3>7. QED
      BY <3>4, <3>5, <3>6 DEF Sound
  <2>4. CASE ~(Active(p) /\ process[p].request.path = f)
    <3>1. rewrites'[p] = rewrites[p]
      BY <1>1, <2>4
    <3>2. CASE Active(p)
      <4>1. file'[process[p].request.path] = file[process[p].request.path]
        BY <1>1, <2>4, <3>2, WorkingFields DEF Active, IntakeInv, IntakeTypeOK
      <4>2. QED
        BY <1>1, <2>1, <2>2, <3>1, <4>1
           DEF Sound, DigestKnown, ObjectSeen, ObjectMatches, EnqueueSound, Phases,
               ImportSound, Inspected, ParsedSound
    <3>3. CASE ~Active(p)
      BY <1>1, <2>1, <2>2, <3>1, <3>3
         DEF Active, Sound, DigestKnown, ObjectSeen, ObjectMatches, EnqueueSound, Phases,
             ImportSound, Inspected, ParsedSound, Checked
    <3>4. QED
      BY <3>2, <3>3
  <2>5. QED
    BY <2>3, <2>4
<1>5. QED
  BY <1>2, <1>3, <1>4 DEF IntakeInv

LEMMA IntakeStepInv == IntakeInv /\ [IntakeNext]_intakeVars => IntakeInv'
<1> SUFFICES ASSUME IntakeInv, [IntakeNext]_intakeVars PROVE IntakeInv'
  OBVIOUS
<1>1. ASSUME NEW p \in Process, NEW request \in Request, StartEnqueue(p, request) PROVE IntakeInv'
  <2>1. PICK goal, digest : goal = "register" /\ digest = None
    OBVIOUS
  <2>2. goal \in Goal /\ digest \in Bytes \cup {None}
    BY <2>1 DEF Goal
  <2>3. Start(p, goal, request, digest)
    BY <1>1, <2>1 DEF StartEnqueue
  <2>4. QED
    BY <2>1, <2>2, <2>3, StartStep
<1>2. ASSUME NEW p \in Process, NEW s \in snapshots, StartImport(p, s) PROVE IntakeInv'
  <2>1. PICK goal, request, digest :
            /\ goal = "parse" /\ digest = s.sha256
            /\ request = [source |-> s.source, key |-> s.key, path |-> s.path]
    OBVIOUS
  <2>2. goal \in Goal /\ request \in Request /\ digest \in Bytes
    BY <2>1 DEF IntakeInv, IntakeTypeOK, Snapshot, Request, Goal
  <2>3. Start(p, goal, request, digest)
    BY <1>2, <2>1 DEF StartImport
  <2>4. QED
    BY <2>1, <2>2, <2>3, StartStep
<1>3. ASSUME NEW p \in Process, Step(p) PROVE IntakeInv'
  BY <1>3, InspectStep, LookStep, PutStep, RefusingStep, VerifyStep, RegisterStep, AdvanceStep,
     ParseStep, EndOfStreamStep DEF Step
<1>4. ASSUME NEW p \in Process, End(p) \/ Abandon(p) PROVE IntakeInv'
  BY <1>4, EndOrAbandonStep
<1>5. ASSUME NEW f \in File, NEW content \in Bytes, Replace(f, content) PROVE IntakeInv'
  BY <1>5, ReplaceStep
<1>6. CASE UNCHANGED intakeVars
  <2>1. IntakeTypeOK' /\ RegisteredIsArchived' /\ Grows /\ UNCHANGED <<file, process, rewrites>>
    BY <1>6 DEF intakeVars, IntakeInv, IntakeTypeOK, RegisteredIsArchived, Grows
  <2>2. ASSUME NEW p \in Process PROVE Sound(p)'
    BY <2>1, OthersKeepTheirs DEF IntakeInv
  <2>3. QED
    BY <2>1, <2>2 DEF IntakeInv
<1>7. QED
  BY <1>1, <1>2, <1>3, <1>4, <1>5, <1>6 DEF IntakeNext

LEMMA IntakeInvHolds == IntakeSpec => []IntakeInv
BY IntakeInitInv, IntakeStepInv, PTL DEF IntakeSpec

-----------------------------------------------------------------------------
(* Theorems.                                                               *)

\* Files, objects, snapshots and processes keep their types.
THEOREM IntakeTypeCorrect == IntakeSpec => []IntakeTypeOK
<1>1. IntakeInv => IntakeTypeOK
  BY DEF IntakeInv
<1>2. QED
  BY <1>1, IntakeInvHolds, PTL

\* enqueue_snapshot_import registers only what the archive holds, and archive.ts
\* never overwrites it.
THEOREM RegistrationIsBacked == IntakeSpec => []RegisteredIsArchived
<1>1. IntakeInv => RegisteredIsArchived
  BY DEF IntakeInv
<1>2. QED
  BY <1>1, IntakeInvHolds, PTL

\* The two verifications around the parsing of an import catch every single
\* replacement of its file.
THEOREM PublicationIsVerified == IntakeSpec => []PublishedIsRegistered
<1>1. IntakeInv => PublishedIsRegistered
  <2> SUFFICES ASSUME IntakeInv, NEW p \in Process, process[p].pc = "published"
               PROVE  process[p].parsed = {process[p].sha256} \/ rewrites[p] = 2
    BY DEF PublishedIsRegistered
  <2>1. process[p].goal = "publish" /\ process[p].parsed # {}
    BY DEF IntakeInv, Sound, Phases
  <2>2. ParsedSound(p) \/ rewrites[p] = 2
    BY <2>1 DEF IntakeInv, Sound, ImportSound
  <2>3. QED
    BY <2>1, <2>2 DEF ParsedSound
<1>2. QED
  BY <1>1, IntakeInvHolds, PTL

\* Lost answers, races and repetitions never turn an enqueue away.
THEOREM RefusalsAreConflicts == IntakeSpec => []OnlyConflictsAreRefused
<1>1. IntakeInv => OnlyConflictsAreRefused
  BY DEF IntakeInv, Sound, EnqueueSound, OnlyConflictsAreRefused
<1>2. QED
  BY <1>1, IntakeInvHolds, PTL

-----------------------------------------------------------------------------
(* The gate and the intake.                                                *)

\* They keep no state in common: a behaviour of both together is one of each,
\* if the values that the gate rests with are among those it may start with.
THEOREM EnqueueImplementsItsParts ==
    ASSUME 12 \in Free, [warn |-> 15, stop |-> 10] \in Thresholds
    PROVE  Spec => PressureSpec /\ IntakeSpec
<1>1. PressureRests => PressureInit
  BY DEF PressureRests, PressureInit
<1>2. Init => PressureInit /\ IntakeInit
  BY <1>1 DEF Init
<1>3. [Next]_<<part, pressureVars, intakeVars>> =>
        [PressureNext]_pressureVars /\ [IntakeNext]_intakeVars
  BY DEF Next
<1>4. QED
  BY <1>2, <1>3, PTL DEF Spec, PressureSpec, IntakeSpec

\* Documents, the monitor, callers, snapshots and processes have their types.
THEOREM EnqueueTypeCorrect ==
    ASSUME 12 \in Free, [warn |-> 15, stop |-> 10] \in Thresholds
    PROVE  Spec => []TypeOK
<1>1. PressureTypeOK /\ IntakeTypeOK => TypeOK
  BY DEF TypeOK
<1>2. QED
  BY <1>1, EnqueueImplementsItsParts, PressureTypeCorrect, IntakeTypeCorrect, PTL

=============================================================================
