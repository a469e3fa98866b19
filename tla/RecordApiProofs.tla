--------------------------- MODULE RecordApiProofs ---------------------------
(***************************************************************************)
(* Proofs about the record API for any number of clients, keys, requests   *)
(* and days, and any limit, window and quota.                              *)
(***************************************************************************)
EXTENDS MCRecordApi, FiniteSetTheorems, WellFoundedInduction, TLAPS

-----------------------------------------------------------------------------
(* The anonymous rate limiter.                                             *)

\* A running window is as old as the history says and has counted every
\* search since; a client without one may start afresh.
WindowIsCurrent(c) ==
    IF windows[c] = NoWindow \/ windows[c].left = 0
    THEN started[c] = WindowTime
    ELSE /\ started[c] + windows[c].left = WindowTime
         /\ granted[c] = windows[c].count

\* The inductive invariant of the limiter.
LimiterInv ==
    /\ LimiterTypeOK /\ IsFiniteSet(Entries(windows)) /\ WindowHolds
    /\ \A c \in Client : WindowIsCurrent(c)

LEMMA LimiterNumbers == Limit \in Nat \ {0} /\ WindowTime \in Nat \ {0} /\ MaxClients \in Nat \ {0}
BY LimiterAssumption

LEMMA WindowIsNoGap == \A w \in Window : w # NoWindow
<1> SUFFICES ASSUME NEW w \in Window PROVE w # NoWindow
  OBVIOUS
<1>1. w \in [count : Nat, left : Nat]
  BY LimiterNumbers DEF Window
<1>2. QED
  BY <1>1, LimiterAssumption

\* Pruning keeps running windows and forgets the others.
LEMMA SweptWindows ==
    ASSUME LimiterInv, NEW c \in Client
    PROVE  /\ Swept(c) \in [Client -> Window \cup {NoWindow}]
           /\ \A d \in Client :
                \/ Swept(c)[d] = windows[d]
                \/ Swept(c)[d] = NoWindow /\ windows[d] # NoWindow /\ windows[d].left = 0
           /\ Entries(Swept(c)) \subseteq Entries(windows)
<1>1. CASE Swept(c) = windows
  BY <1>1 DEF LimiterInv, LimiterTypeOK
<1>2. CASE Swept(c) = Pruned(windows)
  <2>1. \A d \in Client :
            \/ Pruned(windows)[d] = windows[d]
            \/ Pruned(windows)[d] = NoWindow /\ windows[d] # NoWindow /\ windows[d].left = 0
    BY DEF Pruned
  <2>2. Pruned(windows) \in [Client -> Window \cup {NoWindow}]
    BY DEF Pruned, LimiterInv, LimiterTypeOK
  <2>3. QED
    BY <1>2, <2>1, <2>2 DEF Entries
<1>3. QED
  BY <1>1, <1>2 DEF Swept

\* A smaller map keeps its bound.
LEMMA FewerEntries ==
    ASSUME LimiterInv, NEW map, Entries(map) \subseteq Entries(windows)
    PROVE  IsFiniteSet(Entries(map)) /\ Cardinality(Entries(map)) <= MaxClients
                                     /\ Cardinality(Entries(map)) \in Nat
<1>1. IsFiniteSet(Entries(windows)) /\ Cardinality(Entries(windows)) <= MaxClients
  BY DEF LimiterInv, LimiterTypeOK
<1>2. /\ IsFiniteSet(Entries(map))
      /\ Cardinality(Entries(map)) <= Cardinality(Entries(windows))
  BY <1>1, FS_Subset
<1>3. Cardinality(Entries(map)) \in Nat /\ Cardinality(Entries(windows)) \in Nat
  BY <1>1, <1>2, FS_CardinalityType
<1>4. QED
  BY <1>1, <1>2, <1>3, LimiterNumbers

LEMMA LimiterInitInv == LimiterInit => LimiterInv
<1> SUFFICES ASSUME LimiterInit PROVE LimiterInv
  OBVIOUS
<1>1. Entries(windows) = {}
  BY DEF LimiterInit, Entries
<1>2. IsFiniteSet(Entries(windows)) /\ Cardinality(Entries(windows)) = 0
  BY <1>1, FS_EmptySet
<1>3. QED
  BY <1>2, LimiterNumbers
     DEF LimiterInit, LimiterInv, LimiterTypeOK, WindowHolds, WindowIsCurrent

LEMMA AllowStep == ASSUME LimiterInv, NEW c \in Client, Allow(c) PROVE LimiterInv'
<1> DEFINE base == WindowFor(c)
<1>1. base \in Window /\ base.count < Limit /\ base.count \in Nat /\ base.left \in Nat
  BY LimiterNumbers DEF Allow, WindowFor, Window, LimiterInv, LimiterTypeOK
<1>2. PICK w : w = [base EXCEPT !.count = @ + 1]
  OBVIOUS
<1>3. w \in Window /\ w.count = base.count + 1 /\ w.left = base.left /\ w # NoWindow
  BY <1>1, <1>2, LimiterNumbers, WindowIsNoGap DEF Window
<1>4. windows' = [Swept(c) EXCEPT ![c] = w]
  BY <1>2 DEF Allow
<1> HIDE DEF base
<1>5. windows' \in [Client -> Window \cup {NoWindow}] /\ windows'[c] = w
      /\ \A d \in Client \ {c} : windows'[d] = Swept(c)[d]
  BY <1>3, <1>4, SweptWindows
<1>6. Entries(windows') = Entries(Swept(c)) \cup {c}
  BY <1>3, <1>5 DEF Entries
<1>7. IsFiniteSet(Entries(windows')) /\ Cardinality(Entries(windows')) <= MaxClients
  <2>1. /\ IsFiniteSet(Entries(Swept(c))) /\ Cardinality(Entries(Swept(c))) <= MaxClients
        /\ Cardinality(Entries(Swept(c))) \in Nat
    BY SweptWindows, FewerEntries
  <2>2. CASE c \in Entries(Swept(c))
    BY <1>6, <2>1, <2>2
  <2>3. CASE c \notin Entries(Swept(c))
    <3>1. windows[c] = NoWindow
      <4>1. CASE windows[c] # NoWindow
        BY <2>3, <4>1 DEF Swept, Entries
      <4>2. QED
        BY <4>1
    <3>2. Cardinality(Entries(Swept(c))) < MaxClients
      BY <2>1, <3>1, LimiterNumbers DEF Allow, NoRoom, Full
    <3>3. Cardinality(Entries(windows')) = Cardinality(Entries(Swept(c))) + 1
      BY <1>6, <2>1, <2>3, FS_AddElement
    <3>4. IsFiniteSet(Entries(windows'))
      BY <1>6, <2>1, FS_AddElement
    <3>5. QED
      BY <2>1, <3>2, <3>3, <3>4, LimiterNumbers
  <2>4. QED
    BY <2>2, <2>3
<1>8. /\ granted'[c] = IF started[c] = WindowTime THEN 1 ELSE granted[c] + 1
      /\ started'[c] = IF started[c] = WindowTime THEN 0 ELSE started[c]
      /\ granted[c] \in Nat /\ started[c] \in 0..WindowTime
      /\ \A d \in Client \ {c} : granted'[d] = granted[d] /\ started'[d] = started[d]
      /\ granted' \in [Client -> Nat] /\ started' \in [Client -> 0..WindowTime]
  BY LimiterNumbers DEF Allow, LimiterInv, LimiterTypeOK
<1>9. WindowIsCurrent(c)' /\ granted'[c] <= Limit
  <2>1. CASE windows[c] = NoWindow \/ windows[c].left = 0
    <3>1. base.count = 0 /\ base.left = WindowTime
      BY <2>1 DEF base, WindowFor
    <3>2. started[c] = WindowTime
      BY <2>1 DEF LimiterInv, WindowIsCurrent
    <3>3. QED
      BY <1>3, <1>5, <1>8, <3>1, <3>2, LimiterNumbers DEF WindowIsCurrent
  <2>2. CASE ~(windows[c] = NoWindow \/ windows[c].left = 0)
    <3>1. base = windows[c]
      BY <2>2 DEF base, WindowFor
    <3>2. started[c] + windows[c].left = WindowTime /\ granted[c] = windows[c].count
      BY <2>2 DEF LimiterInv, WindowIsCurrent
    <3>3. started[c] # WindowTime /\ base.left # 0
      BY <1>1, <1>8, <2>2, <3>1, <3>2, LimiterNumbers
    <3>4. QED
      BY <1>1, <1>3, <1>5, <1>8, <3>1, <3>2, <3>3, LimiterNumbers DEF WindowIsCurrent
  <2>3. QED
    BY <2>1, <2>2
<1>10. ASSUME NEW d \in Client \ {c} PROVE WindowIsCurrent(d)' /\ granted'[d] <= Limit
  <2>1. WindowIsCurrent(d) /\ granted[d] <= Limit
    BY DEF LimiterInv, WindowHolds
  <2>2. QED
    BY <1>5, <1>8, <2>1, SweptWindows DEF WindowIsCurrent
<1>11. QED
  BY <1>5, <1>7, <1>8, <1>9, <1>10 DEF LimiterInv, LimiterTypeOK, WindowHolds

LEMMA RefuseStep == ASSUME LimiterInv, NEW c \in Client, Refuse(c) PROVE LimiterInv'
<1>1. windows' = Swept(c) /\ granted' = granted /\ started' = started
  BY DEF Refuse
<1>2. /\ windows' \in [Client -> Window \cup {NoWindow}]
      /\ Entries(windows') \subseteq Entries(windows)
  BY <1>1, SweptWindows
<1>3. IsFiniteSet(Entries(windows')) /\ Cardinality(Entries(windows')) <= MaxClients
  BY <1>2, FewerEntries
<1>4. ASSUME NEW d \in Client PROVE WindowIsCurrent(d)'
  <2>1. WindowIsCurrent(d)
    BY DEF LimiterInv
  <2>2. QED
    BY <1>1, <2>1, SweptWindows DEF WindowIsCurrent
<1>5. QED
  BY <1>1, <1>2, <1>3, <1>4 DEF LimiterInv, LimiterTypeOK, WindowHolds

LEMMA LimiterTickStep == ASSUME LimiterInv, LimiterTick PROVE LimiterInv'
<1> DEFINE Aged(w) == [w EXCEPT !.left = @ - 1]
<1>1. ASSUME NEW w \in Window, w.left > 0
      PROVE  /\ Aged(w) \in Window /\ Aged(w) # NoWindow
             /\ Aged(w).count = w.count /\ Aged(w).left = w.left - 1
  <2>1. w.count \in 0..Limit /\ w.left \in 0..WindowTime
    BY DEF Window
  <2>2. PICK l : l = w.left - 1
    OBVIOUS
  <2>3. l \in 0..WindowTime
    BY <1>1, <2>1, <2>2, LimiterNumbers
  <2>4. Aged(w) \in Window /\ Aged(w).count = w.count /\ Aged(w).left = l
    BY <2>2, <2>3 DEF Window
  <2>5. QED
    BY <2>2, <2>4, WindowIsNoGap
<1>2. ASSUME NEW c \in Client
      PROVE  IF windows[c] # NoWindow /\ windows[c].left > 0
             THEN windows[c] \in Window /\ windows'[c] = Aged(windows[c])
             ELSE windows'[c] = windows[c]
  BY DEF LimiterTick, LimiterInv, LimiterTypeOK
<1> HIDE DEF Aged
<1>3. ASSUME NEW c \in Client
      PROVE  /\ windows'[c] \in Window \cup {NoWindow}
             /\ windows'[c] = NoWindow <=> windows[c] = NoWindow
  BY <1>1, <1>2 DEF LimiterInv, LimiterTypeOK
<1>4. windows' \in [Client -> Window \cup {NoWindow}]
  <2>1. windows' = [c \in Client |-> windows'[c]]
    BY DEF LimiterTick
  <2>2. QED
    BY <1>3, <2>1
<1>5. Entries(windows') = Entries(windows)
  BY <1>3 DEF Entries
<1>6. IsFiniteSet(Entries(windows')) /\ Cardinality(Entries(windows')) <= MaxClients
  BY <1>5 DEF LimiterInv, LimiterTypeOK
<1>7. /\ started' \in [Client -> 0..WindowTime] /\ granted' = granted
      /\ \A c \in Client :
            /\ started[c] \in 0..WindowTime
            /\ started'[c] = IF started[c] < WindowTime THEN started[c] + 1 ELSE started[c]
  BY LimiterNumbers DEF LimiterTick, LimiterInv, LimiterTypeOK
<1>8. ASSUME NEW c \in Client PROVE WindowIsCurrent(c)'
  <2>1. WindowIsCurrent(c)
    BY DEF LimiterInv
  <2>2. CASE windows[c] = NoWindow
    BY <1>2, <1>7, <2>1, <2>2, LimiterNumbers DEF WindowIsCurrent
  <2>3. CASE windows[c] # NoWindow /\ windows[c].left = 0
    BY <1>2, <1>7, <2>1, <2>3, LimiterNumbers DEF WindowIsCurrent
  <2>4. CASE windows[c] # NoWindow /\ windows[c].left # 0
    <3>1. windows[c] \in Window /\ windows[c].left \in 0..WindowTime
      BY <2>4 DEF LimiterInv, LimiterTypeOK, Window
    <3>2. windows[c].left > 0
      BY <2>4, <3>1, LimiterNumbers
    <3>3. /\ windows'[c] # NoWindow /\ windows'[c].count = windows[c].count
          /\ windows'[c].left = windows[c].left - 1
      BY <1>1, <1>2, <2>4, <3>1, <3>2
    <3>4. started[c] + windows[c].left = WindowTime /\ granted[c] = windows[c].count
      BY <2>1, <2>4 DEF WindowIsCurrent
    <3>5. started'[c] + windows'[c].left = WindowTime /\ granted'[c] = windows'[c].count
      BY <1>7, <3>1, <3>2, <3>3, <3>4, LimiterNumbers
    <3>6. windows'[c].left = 0 => started'[c] = WindowTime
      BY <1>7, <3>5, LimiterNumbers
    <3>7. QED
      BY <3>3, <3>5, <3>6 DEF WindowIsCurrent
  <2>5. QED
    BY <2>2, <2>3, <2>4
<1>9. granted' \in [Client -> Nat] /\ WindowHolds'
  BY <1>7 DEF LimiterInv, LimiterTypeOK, WindowHolds
<1>10. QED
  BY <1>4, <1>6, <1>7, <1>8, <1>9 DEF LimiterInv, LimiterTypeOK

LEMMA LimiterStep == LimiterInv /\ [LimiterNext]_limiterVars => LimiterInv'
<1> SUFFICES ASSUME LimiterInv, [LimiterNext]_limiterVars PROVE LimiterInv'
  OBVIOUS
<1>1. ASSUME NEW c \in Client, Allow(c) PROVE LimiterInv'
  BY <1>1, AllowStep
<1>2. ASSUME NEW c \in Client, Refuse(c) PROVE LimiterInv'
  BY <1>2, RefuseStep
<1>3. CASE LimiterTick
  BY <1>3, LimiterTickStep
<1>4. CASE UNCHANGED limiterVars
  BY <1>4 DEF limiterVars, LimiterInv, LimiterTypeOK, WindowHolds, WindowIsCurrent, Entries
<1>5. QED
  BY <1>1, <1>2, <1>3, <1>4 DEF LimiterNext

\* Whatever the number of clients, the size of the map and the length of a
\* window: nobody gets more than the limit out of one window.
THEOREM WindowsHold == LimiterSpec => []WindowHolds
<1>1. LimiterInv => WindowHolds
  BY DEF LimiterInv
<1>2. QED
  BY LimiterInitInv, LimiterStep, <1>1, PTL DEF LimiterSpec

\* The map never outgrows maxClients.
THEOREM LimiterTypeCorrect == LimiterSpec => []LimiterTypeOK
<1>1. LimiterInv => LimiterTypeOK
  BY DEF LimiterInv
<1>2. QED
  BY LimiterInitInv, LimiterStep, <1>1, PTL DEF LimiterSpec

-----------------------------------------------------------------------------
(* Developer keys.                                                         *)

\* A request that came after the key died finds it dead.
DeadIsRefused(r) ==
    request[r].dead =>
        /\ keyStatus[request[r].key] = "dead"
        /\ request[r].at \in {"arrived", "401", "failed"}

\* A request that has arrived names a key.
NamesKey(r) == request[r].at # "away" => request[r].key \in ApiKey

\* Answers that follow the quota statement, and those that may.
CountedWhen(q) ==
    /\ q.at \in {"counted", "200", "400"} => q.counted
    /\ q.counted => q.at \in {"counted", "200", "400", "failed"}

\* The inductive invariant of the keys.
KeysInv ==
    /\ KeysTypeOK /\ QuotaIsExact
    /\ \A r \in Request : DeadIsRefused(r) /\ NamesKey(r) /\ CountedWhen(request[r])

LEMMA KeysNumbers == Quota \in Nat \ {0} /\ LastDay \in Nat /\ NoKey \notin ApiKey
BY QuotaAssumption, LastDayAssumption, NoKeyAssumption

LEMMA KeysInitInv == KeysInit => KeysInv
<1> SUFFICES ASSUME KeysInit PROVE KeysInv
  OBVIOUS
<1>1. KeysTypeOK
  BY KeysNumbers DEF KeysInit, KeysTypeOK, RequestState
<1>2. QuotaIsExact
  <2>1. \A k \in ApiKey, d \in 0..LastDay : Counted(k, d) = {} /\ usage[k][d] = 0
    BY DEF KeysInit, Counted
  <2>2. \A r \in Request : request[r].at = "away"
    BY DEF KeysInit
  <2>3. 1..0 = {}
    OBVIOUS
  <2>4. QED
    BY <2>1, <2>2, <2>3 DEF QuotaIsExact
<1>3. QED
  BY <1>1, <1>2 DEF KeysInit, KeysInv, DeadIsRefused, NamesKey, CountedWhen

\* A step that counts nobody keeps the quota exact.
LEMMA SameCounted ==
    ASSUME QuotaIsExact, usage' = usage, KeysTypeOK,
           \A r \in Request :
               /\ request'[r].counted <=> request[r].counted
               /\ request[r].counted => /\ request'[r].key = request[r].key
                                        /\ request'[r].date = request[r].date
                                        /\ request'[r].count = request[r].count
               /\ request'[r].at = "200" => request'[r].counted
    PROVE  QuotaIsExact'
<1>1. ASSUME NEW k \in ApiKey, NEW d \in 0..LastDay
      PROVE  /\ Counted(k, d)' = Counted(k, d)
             /\ \A r \in Counted(k, d) : request'[r].count = request[r].count
  BY DEF Counted
<1> SUFFICES ASSUME NEW k \in ApiKey, NEW d \in 0..LastDay
             PROVE  /\ \A r \in Counted(k, d)' : request'[r].count \in 1..usage'[k][d]
                    /\ \A n \in 1..usage'[k][d] : \E r \in Counted(k, d)' : request'[r].count = n
                    /\ \A r, s \in Counted(k, d)' : request'[r].count = request'[s].count => r = s
  BY DEF QuotaIsExact
<1>2. /\ \A r \in Counted(k, d) : request[r].count \in 1..usage[k][d]
      /\ \A n \in 1..usage[k][d] : \E r \in Counted(k, d) : request[r].count = n
      /\ \A r, s \in Counted(k, d) : request[r].count = request[s].count => r = s
  BY DEF QuotaIsExact
<1>3. QED
  BY <1>1, <1>2

\* A step of one request that is not counted by it.
LEMMA OneRequest ==
    ASSUME KeysInv, NEW r \in Request, NEW q \in RequestState,
           request' = [request EXCEPT ![r] = q],
           UNCHANGED <<keyStatus, usage, day>>,
           q.counted <=> request[r].counted, CountedWhen(q),
           q.counted => /\ q.key = request[r].key /\ q.date = request[r].date
                        /\ q.count = request[r].count,
           q.dead => keyStatus[q.key] = "dead" /\ q.at \in {"arrived", "401", "failed"},
           q.at # "away" => q.key \in ApiKey
    PROVE  KeysInv'
<1>1. request \in [Request -> RequestState]
  BY DEF KeysInv, KeysTypeOK
<1>2. /\ request' \in [Request -> RequestState] /\ request'[r] = q
      /\ \A s \in Request \ {r} : request'[s] = request[s]
  BY <1>1
<1>3. KeysTypeOK'
  BY <1>2 DEF KeysInv, KeysTypeOK
<1>4. QuotaIsExact'
  <2>1. \A s \in Request : request'[s].at = "200" => request'[s].counted
    BY <1>2 DEF KeysInv, CountedWhen
  <2>2. QED
    BY <1>2, <2>1, SameCounted DEF KeysInv
<1>5. ASSUME NEW s \in Request
      PROVE  (DeadIsRefused(s) /\ NamesKey(s) /\ CountedWhen(request[s]))'
  <2>1. CASE s = r
    BY <1>2, <2>1 DEF DeadIsRefused, NamesKey, CountedWhen
  <2>2. CASE s # r
    BY <1>2, <2>2 DEF KeysInv, DeadIsRefused, NamesKey, CountedWhen
  <2>3. QED
    BY <2>1, <2>2
<1>6. QED
  BY <1>3, <1>4, <1>5 DEF KeysInv

LEMMA CreateKeyStep == ASSUME KeysInv, NEW k \in ApiKey, CreateKey(k) PROVE KeysInv'
<1>1. KeysTypeOK'
  BY DEF CreateKey, KeysInv, KeysTypeOK
<1>2. usage' = usage /\ request' = request /\ keyStatus[k] = "absent"
      /\ \A j \in ApiKey \ {k} : keyStatus'[j] = keyStatus[j]
  BY DEF CreateKey, KeysInv, KeysTypeOK
<1>3. QuotaIsExact'
  BY <1>2, SameCounted DEF KeysInv, QuotaIsExact
<1>4. ASSUME NEW r \in Request
      PROVE  (DeadIsRefused(r) /\ NamesKey(r) /\ CountedWhen(request[r]))'
  BY <1>2 DEF KeysInv, DeadIsRefused, NamesKey, CountedWhen
<1>5. QED
  BY <1>1, <1>3, <1>4 DEF KeysInv

LEMMA RevokeKeyStep == ASSUME KeysInv, NEW k \in ApiKey, RevokeKey(k) PROVE KeysInv'
<1>1. KeysTypeOK'
  BY DEF RevokeKey, KeysInv, KeysTypeOK
<1>2. usage' = usage /\ request' = request /\ keyStatus[k] = "active"
      /\ \A j \in ApiKey \ {k} : keyStatus'[j] = keyStatus[j]
  BY DEF RevokeKey, KeysInv, KeysTypeOK
<1>3. QuotaIsExact'
  BY <1>2, SameCounted DEF KeysInv, QuotaIsExact
<1>4. ASSUME NEW r \in Request
      PROVE  (DeadIsRefused(r) /\ NamesKey(r) /\ CountedWhen(request[r]))'
  BY <1>2 DEF KeysInv, DeadIsRefused, NamesKey, CountedWhen
<1>5. QED
  BY <1>1, <1>3, <1>4 DEF KeysInv

LEMMA NextDayStep == ASSUME KeysInv, NextDay PROVE KeysInv'
<1>1. KeysTypeOK'
  BY KeysNumbers DEF NextDay, KeysInv, KeysTypeOK
<1>2. usage' = usage /\ request' = request /\ keyStatus' = keyStatus
  BY DEF NextDay
<1>3. QuotaIsExact'
  BY <1>2, SameCounted DEF KeysInv, QuotaIsExact
<1>4. QED
  BY <1>1, <1>2, <1>3 DEF KeysInv, DeadIsRefused, NamesKey, CountedWhen

LEMMA ArriveStep ==
    ASSUME KeysInv, NEW r \in Request, NEW k \in ApiKey, Arrive(r, k) PROVE KeysInv'
<1>1. PICK q : q = [request[r] EXCEPT !.at = "arrived", !.key = k,
                                      !.dead = keyStatus[k] = "dead"]
  OBVIOUS
<1>2. request[r] \in RequestState /\ request[r].at = "away" /\ ~request[r].counted
  BY DEF KeysInv, KeysTypeOK, Arrive, CountedWhen
<1>3. /\ q \in RequestState /\ q.at = "arrived" /\ q.key = k /\ ~q.counted
      /\ q.dead <=> keyStatus[k] = "dead"
  BY <1>1, <1>2 DEF RequestState
<1>4. request' = [request EXCEPT ![r] = q] /\ UNCHANGED <<keyStatus, usage, day>>
  BY <1>1 DEF Arrive
<1>5. QED
  BY <1>2, <1>3, <1>4, OneRequest DEF CountedWhen

LEMMA FindKeyStep == ASSUME KeysInv, NEW r \in Request, FindKey(r) PROVE KeysInv'
<1>1. request[r] \in RequestState /\ request[r].at = "arrived" /\ request[r].key \in ApiKey
      /\ day \in 0..LastDay /\ DeadIsRefused(r) /\ ~request[r].counted
  BY DEF KeysInv, KeysTypeOK, FindKey, NamesKey, CountedWhen
<1>2. CASE IsActive(request[r].key)
  <2>1. PICK q : q = [request[r] EXCEPT !.at = "found", !.date = day]
    OBVIOUS
  <2>2. q \in RequestState /\ q.at = "found" /\ q.key = request[r].key
        /\ (q.dead <=> request[r].dead) /\ ~q.counted
    BY <1>1, <2>1 DEF RequestState
  <2>3. ~q.dead
    BY <1>1, <1>2, <2>2 DEF DeadIsRefused, IsActive
  <2>4. request' = [request EXCEPT ![r] = q] /\ UNCHANGED <<keyStatus, usage, day>>
    BY <1>2, <2>1 DEF FindKey
  <2>5. QED
    BY <1>1, <2>2, <2>3, <2>4, OneRequest DEF CountedWhen
<1>3. CASE ~IsActive(request[r].key)
  <2>1. PICK q : q = [request[r] EXCEPT !.at = "401"]
    OBVIOUS
  <2>2. q \in RequestState /\ q.at = "401" /\ q.key = request[r].key
        /\ (q.dead <=> request[r].dead) /\ ~q.counted
    BY <1>1, <2>1 DEF RequestState
  <2>3. request' = [request EXCEPT ![r] = q] /\ UNCHANGED <<keyStatus, usage, day>>
    BY <1>3, <2>1 DEF FindKey, Go
  <2>4. QED
    BY <1>1, <2>2, <2>3, OneRequest DEF DeadIsRefused, CountedWhen
<1>4. QED
  BY <1>2, <1>3

LEMMA ReadKeyRowStep == ASSUME KeysInv, NEW r \in Request, ReadKeyRow(r) PROVE KeysInv'
<1>1. request[r] \in RequestState /\ request[r].at = "found" /\ request[r].key \in ApiKey
      /\ ~request[r].dead /\ ~request[r].counted
  BY DEF KeysInv, KeysTypeOK, ReadKeyRow, NamesKey, DeadIsRefused, CountedWhen
<1>2. CASE IsActive(request[r].key)
  <2>1. PICK n : n = usage[request[r].key][request[r].date]
    OBVIOUS
  <2>2. n \in 0..Quota
    <3>1. request[r].date \in 0..LastDay
      BY <1>1 DEF RequestState
    <3>2. usage \in [ApiKey -> [0..LastDay -> 0..Quota]]
      BY DEF KeysInv, KeysTypeOK
    <3>3. QED
      BY <1>1, <2>1, <3>1, <3>2
  <2>3. PICK q : q = [request[r] EXCEPT !.at = "counting", !.count = n]
    OBVIOUS
  <2>4. q \in RequestState /\ q.at = "counting" /\ q.key = request[r].key
        /\ ~q.dead /\ ~q.counted
    BY <1>1, <2>2, <2>3 DEF RequestState
  <2>5. request' = [request EXCEPT ![r] = q] /\ UNCHANGED <<keyStatus, usage, day>>
    BY <1>2, <2>1, <2>3 DEF ReadKeyRow
  <2>6. QED
    BY <1>1, <2>4, <2>5, OneRequest DEF CountedWhen
<1>3. CASE ~IsActive(request[r].key)
  <2>1. PICK q : q = [request[r] EXCEPT !.at = "500"]
    OBVIOUS
  <2>2. q \in RequestState /\ q.at = "500" /\ q.key = request[r].key
        /\ ~q.dead /\ ~q.counted
    BY <1>1, <2>1 DEF RequestState
  <2>3. request' = [request EXCEPT ![r] = q] /\ UNCHANGED <<keyStatus, usage, day>>
    BY <1>3, <2>1 DEF ReadKeyRow, Go
  <2>4. QED
    BY <1>1, <2>2, <2>3, OneRequest DEF CountedWhen
<1>4. QED
  BY <1>2, <1>3

\* Counting one more request hands it the next number.
LEMMA CountUpStep == ASSUME KeysInv, NEW r \in Request, CountUp(r) PROVE KeysInv'
<1>1. PICK k, d : k = request[r].key /\ d = request[r].date
  OBVIOUS
<1>2. /\ request[r] \in RequestState /\ request[r].at = "counting"
      /\ k \in ApiKey /\ d \in 0..LastDay /\ ~request[r].dead /\ ~request[r].counted
  BY <1>1 DEF KeysInv, KeysTypeOK, CountUp, NamesKey, DeadIsRefused, CountedWhen, RequestState
<1>3. PICK n : n = usage[k][d]
  OBVIOUS
<1>4. usage \in [ApiKey -> [0..LastDay -> 0..Quota]] /\ n \in 0..Quota
  <2>1. usage \in [ApiKey -> [0..LastDay -> 0..Quota]]
    BY DEF KeysInv, KeysTypeOK
  <2>2. QED
    BY <1>2, <1>3, <2>1
<1>5. CASE n >= Quota
  <2>1. PICK q : q = [request[r] EXCEPT !.at = "429"]
    OBVIOUS
  <2>2. q \in RequestState /\ q.at = "429" /\ q.key = k /\ ~q.dead /\ ~q.counted
    BY <1>1, <1>2, <2>1 DEF RequestState
  <2>3. ~(n < Quota)
    BY <1>4, <1>5, KeysNumbers
  <2>4. request' = [request EXCEPT ![r] = q] /\ UNCHANGED <<keyStatus, usage, day>>
    BY <1>1, <1>3, <2>1, <2>3 DEF CountUp, Go
  <2>5. QED
    BY <1>1, <1>2, <2>2, <2>4, OneRequest DEF CountedWhen
<1>6. CASE n < Quota
  <2>1. PICK m : m = n + 1
    OBVIOUS
  <2>2. m \in 0..Quota /\ m \in Nat /\ n \in Nat /\ m > n
    BY <1>4, <1>6, <2>1, KeysNumbers
  <2>3. PICK q : q = [request[r] EXCEPT !.at = "counted", !.count = m, !.counted = TRUE]
    OBVIOUS
  <2>4. /\ q \in RequestState /\ q.at = "counted" /\ q.key = k /\ q.date = d
        /\ q.count = m /\ q.counted /\ ~q.dead
    BY <1>1, <1>2, <2>2, <2>3 DEF RequestState
  <2>5. /\ usage' = [usage EXCEPT ![k][d] = m] /\ request' = [request EXCEPT ![r] = q]
        /\ keyStatus' = keyStatus /\ day' = day
    BY <1>1, <1>3, <1>6, <2>1, <2>3 DEF CountUp
  <2>6. /\ usage' \in [ApiKey -> [0..LastDay -> 0..Quota]]
        /\ usage'[k][d] = m
        /\ \A j \in ApiKey, e \in 0..LastDay :
              ~(j = k /\ e = d) => usage'[j][e] = usage[j][e]
    BY <1>2, <1>4, <2>2, <2>5
  <2>7. request \in [Request -> RequestState]
    BY DEF KeysInv, KeysTypeOK
  <2>8. /\ request' \in [Request -> RequestState] /\ request'[r] = q
        /\ \A s \in Request \ {r} : request'[s] = request[s]
    BY <2>4, <2>5, <2>7
  <2>9. KeysTypeOK'
    BY <2>5, <2>6, <2>8 DEF KeysInv, KeysTypeOK
  <2>10. ASSUME NEW s \in Request
         PROVE  (DeadIsRefused(s) /\ NamesKey(s) /\ CountedWhen(request[s]))'
    <3>1. CASE s = r
      BY <1>2, <2>4, <2>8, <3>1 DEF DeadIsRefused, NamesKey, CountedWhen
    <3>2. CASE s # r
      BY <2>5, <2>8, <3>2 DEF KeysInv, DeadIsRefused, NamesKey, CountedWhen
    <3>3. QED
      BY <3>1, <3>2
  <2>11. /\ Counted(k, d)' = Counted(k, d) \cup {r} /\ r \notin Counted(k, d)
         /\ \A s \in Counted(k, d) : request'[s] = request[s]
    BY <1>2, <2>4, <2>8 DEF Counted
  <2>12. ASSUME NEW j \in ApiKey, NEW e \in 0..LastDay, ~(j = k /\ e = d)
         PROVE  /\ Counted(j, e)' = Counted(j, e)
                /\ \A s \in Counted(j, e) : request'[s] = request[s]
    BY <1>2, <2>4, <2>8, <2>12 DEF Counted
  <2>13. ASSUME NEW j \in ApiKey, NEW e \in 0..LastDay
         PROVE  /\ \A s \in Counted(j, e) : request[s].count \in 1..usage[j][e]
                /\ \A i \in 1..usage[j][e] : \E s \in Counted(j, e) : request[s].count = i
                /\ \A s, u \in Counted(j, e) : request[s].count = request[u].count => s = u
    BY DEF KeysInv, QuotaIsExact
  <2>14. ASSUME NEW j \in ApiKey, NEW e \in 0..LastDay
         PROVE  /\ \A s \in Counted(j, e)' : request'[s].count \in 1..usage'[j][e]
                /\ \A i \in 1..usage'[j][e] : \E s \in Counted(j, e)' : request'[s].count = i
                /\ \A s, u \in Counted(j, e)' : request'[s].count = request'[u].count => s = u
    <3>1. CASE j = k /\ e = d
      <4>1. /\ \A s \in Counted(k, d) : request[s].count \in 1..n
            /\ \A i \in 1..n : \E s \in Counted(k, d) : request[s].count = i
            /\ \A s, u \in Counted(k, d) : request[s].count = request[u].count => s = u
        BY <1>2, <1>3, <2>13
      <4>2. 1..m = (1..n) \cup {m} /\ m \notin 1..n
        BY <2>1, <2>2
      <4>3. request'[r].count = m /\ usage'[k][d] = m
        BY <2>4, <2>6, <2>8
      <4>4. \A s \in Counted(k, d)' : request'[s].count \in 1..m
        BY <2>11, <4>1, <4>2, <4>3
      <4>5. \A i \in 1..m : \E s \in Counted(k, d)' : request'[s].count = i
        BY <2>11, <4>1, <4>2, <4>3
      <4>6. \A s, u \in Counted(k, d)' : request'[s].count = request'[u].count => s = u
        BY <2>11, <4>1, <4>2, <4>3
      <4>7. QED
        BY <3>1, <4>3, <4>4, <4>5, <4>6
    <3>2. CASE ~(j = k /\ e = d)
      BY <2>6, <2>12, <2>13, <3>2
    <3>3. QED
      BY <3>1, <3>2
  <2>15. \A s \in Request : request'[s].at = "200" => request'[s].counted
    BY <2>10 DEF CountedWhen
  <2>16. QuotaIsExact'
    BY <2>14, <2>15 DEF QuotaIsExact
  <2>17. QED
    BY <2>9, <2>10, <2>16 DEF KeysInv
<1>7. QED
  BY <1>4, <1>5, <1>6, KeysNumbers

\* What happens behind the door changes no count.
LEMMA AnswerStep ==
    ASSUME KeysInv, NEW r \in Request, Serve(r) \/ RejectQuery(r) \/ RequestFails(r)
    PROVE  KeysInv'
<1>1. PICK a \in {"200", "400", "failed"} :
         /\ Go(r, a) /\ UNCHANGED <<keyStatus, usage, day>>
         /\ request[r].at = "counted" \/ a = "failed"
  BY DEF Serve, RejectQuery, RequestFails
<1>2. /\ request[r] \in RequestState /\ CountedWhen(request[r]) /\ DeadIsRefused(r)
      /\ request[r].at # "away" /\ NamesKey(r)
  BY DEF KeysInv, KeysTypeOK, Serve, RejectQuery, RequestFails
<1>3. PICK q : q = [request[r] EXCEPT !.at = a]
  OBVIOUS
<1>4. /\ q \in RequestState /\ q.at = a /\ q.key = request[r].key /\ q.date = request[r].date
      /\ q.count = request[r].count /\ (q.counted <=> request[r].counted)
      /\ (q.dead <=> request[r].dead)
  BY <1>2, <1>3 DEF RequestState
<1>5. request' = [request EXCEPT ![r] = q]
  BY <1>1, <1>3 DEF Go
<1>6. CountedWhen(q) /\ q.key \in ApiKey
  BY <1>1, <1>2, <1>4 DEF CountedWhen, NamesKey
<1>7. q.dead => keyStatus[q.key] = "dead" /\ q.at \in {"arrived", "401", "failed"}
  BY <1>1, <1>2, <1>4 DEF DeadIsRefused
<1>8. QED
  BY <1>1, <1>4, <1>5, <1>6, <1>7, OneRequest

LEMMA KeysStep == KeysInv /\ [KeysNext]_keyVars => KeysInv'
<1> SUFFICES ASSUME KeysInv, [KeysNext]_keyVars PROVE KeysInv'
  OBVIOUS
<1>1. ASSUME NEW k \in ApiKey, CreateKey(k) \/ RevokeKey(k) PROVE KeysInv'
  BY <1>1, CreateKeyStep, RevokeKeyStep
<1>2. CASE NextDay
  BY <1>2, NextDayStep
<1>3. ASSUME NEW r \in Request, NEW k \in ApiKey, Arrive(r, k) PROVE KeysInv'
  BY <1>3, ArriveStep
<1>4. ASSUME NEW r \in Request,
             \/ FindKey(r) \/ ReadKeyRow(r) \/ CountUp(r)
             \/ Serve(r) \/ RejectQuery(r) \/ RequestFails(r)
      PROVE  KeysInv'
  BY <1>4, FindKeyStep, ReadKeyRowStep, CountUpStep, AnswerStep
<1>5. CASE UNCHANGED keyVars
  BY <1>5 DEF keyVars, KeysInv, KeysTypeOK, QuotaIsExact, Counted, DeadIsRefused, NamesKey,
              CountedWhen
<1>6. QED
  BY <1>1, <1>2, <1>3, <1>4, <1>5 DEF KeysNext

\* For any number of concurrent requests on any number of keys, over any number
\* of days: counted requests and units of quota correspond one to one, and no
\* request is served without one.
THEOREM QuotasAreExact == KeysSpec => []QuotaIsExact
<1>1. KeysInv => QuotaIsExact
  BY DEF KeysInv
<1>2. QED
  BY KeysInitInv, KeysStep, <1>1, PTL DEF KeysSpec

\* A request that arrives after its key died is never served.
THEOREM RevocationsAreImmediate == KeysSpec => []RevocationIsImmediate
<1>1. KeysInv => RevocationIsImmediate
  BY DEF KeysInv, DeadIsRefused, RevocationIsImmediate
<1>2. QED
  BY KeysInitInv, KeysStep, <1>1, PTL DEF KeysSpec

-----------------------------------------------------------------------------
(* Keyset pagination: the pages of one query result.                       *)

LEMMA SearchNumbers == MaxId \in Nat /\ PageLimit \in Nat \ {0} /\ NoCursor \notin Nat
BY SearchAssumption

LEMMA IdsAreNumbers == Id \subseteq Nat /\ \A i \in Id : 1 <= i /\ i <= MaxId
BY SearchNumbers DEF Id

LEMMA LeastElement ==
    ASSUME NEW S, S \subseteq Nat, S # {}
    PROVE  \E x \in S : \A y \in S : x <= y
<1>1. PICK R : R = OpToRel(<, Nat)
  OBVIOUS
<1>2. IsWellFoundedOn(R, Nat)
  BY <1>1, NatLessThanWellFounded
<1>3. R = {ss \in Nat \X Nat : ss[1] < ss[2]}
  BY <1>1 DEF OpToRel
<1>4. PICK x \in S : \A y \in S : ~ (<<y, x>> \in R)
  BY <1>2, WFMin
<1>5. ASSUME NEW y \in S PROVE x <= y
  <2>1. x \in Nat /\ y \in Nat
    OBVIOUS
  <2>2. <<y, x>> \in Nat \X Nat /\ ~ (<<y, x>> \in R)
    BY <1>4, <2>1
  <2>3. ~ (y < x)
    BY <1>3, <2>2
  <2>4. QED
    BY <2>1, <2>3
<1>6. QED
  BY <1>4, <1>5

LEMMA GreatestElement ==
    ASSUME NEW S, S \subseteq Id, S # {}
    PROVE  \E x \in S : \A y \in S : y <= x
<1> DEFINE mirror == {n \in Nat : \E i \in S : n = MaxId - i}
<1>1. mirror # {}
  <2>1. PICK i \in S : TRUE
    OBVIOUS
  <2>2. i \in Nat /\ i <= MaxId
    BY IdsAreNumbers
  <2>3. MaxId - i \in Nat
    BY <2>2, SearchNumbers
  <2>4. QED
    BY <2>1, <2>3
<1>2. PICK n \in mirror : \A k \in mirror : n <= k
  <2>1. mirror \subseteq Nat
    OBVIOUS
  <2> HIDE DEF mirror
  <2>2. QED
    BY <1>1, <2>1, LeastElement
<1>3. PICK x \in S : n = MaxId - x
  BY <1>2
<1>4. ASSUME NEW y \in S PROVE y <= x
  <2>1. MaxId - y \in mirror
    BY SearchNumbers DEF Id
  <2>2. n <= MaxId - y
    BY <1>2, <2>1
  <2>3. x \in Int /\ y \in Int
    BY DEF Id
  <2>4. QED
    BY <1>3, <2>2, <2>3, SearchNumbers
<1>5. QED
  BY <1>3, <1>4

Below(S, i) == {j \in S : j < i}

\* What a query fetches of the matching ids.
Taken(S) == {i \in S : Cardinality(Below(S, i)) <= PageLimit}

LEMMA IdsAreFinite ==
    ASSUME NEW S, S \subseteq Id
    PROVE  IsFiniteSet(S) /\ Cardinality(S) \in Nat
<1>1. IsFiniteSet(Id)
  BY SearchNumbers, FS_Interval DEF Id
<1>2. QED
  BY <1>1, FS_Subset, FS_CardinalityType

LEMMA SmallerIds ==
    ASSUME NEW S, S \subseteq Id, NEW T, T \subseteq S
    PROVE  /\ Cardinality(T) <= Cardinality(S)
           /\ Cardinality(T) \in Nat /\ Cardinality(S) \in Nat
BY IdsAreFinite, FS_Subset

\* The rows of a page are the first of the matching ids.
LEMMA PageIsPrefix ==
    ASSUME NEW S, S \subseteq Id,
           NEW i \in FirstRows(Taken(S)), NEW k \in S, k <= i
    PROVE  k \in FirstRows(Taken(S))
<1>1. CASE k = i
  BY <1>1
<1>2. CASE k # i
  <2>1. k < i /\ i \in S /\ i \in Int /\ k \in Int
    BY <1>2 DEF FirstRows, Taken, Id
  <2>2. Below(S, k) \subseteq Below(S, i) /\ Below(S, i) \subseteq Id
    <3>1. i \in Nat /\ k \in Nat
      BY <2>1, IdsAreNumbers
    <3>2. ASSUME NEW j \in Below(S, k) PROVE j \in Below(S, i)
      <4>1. j \in S /\ j \in Nat /\ j < k
        BY IdsAreNumbers DEF Below
      <4>2. j < i
        BY <2>1, <3>1, <4>1
      <4>3. QED
        BY <4>1, <4>2 DEF Below
    <3>3. QED
      BY <3>2 DEF Below
  <2>3. Cardinality(Below(S, k)) <= PageLimit
    <3>1. Cardinality(Below(S, i)) <= PageLimit
      BY DEF FirstRows, Taken
    <3>2. QED
      BY <2>2, <3>1, SmallerIds, SearchNumbers
  <2>4. k \in Taken(S)
    BY <2>3 DEF Taken
  <2>5. Below(Taken(S), k) \subseteq Below(Taken(S), i) /\ Below(Taken(S), i) \subseteq Id
    BY <2>2 DEF Below, Taken
  <2>6. Cardinality(Below(Taken(S), i)) < PageLimit
    BY DEF FirstRows, Below
  <2>7. Cardinality(Below(Taken(S), k)) < PageLimit
    BY <2>5, <2>6, SmallerIds, SearchNumbers
  <2>8. QED
    BY <2>4, <2>7 DEF FirstRows, Below
<1>3. QED
  BY <1>1, <1>2

\* While more rows follow, the cursor is the last id of the page.
LEMMA CursorIsLastRow ==
    ASSUME NEW S, S \subseteq Id, Cardinality(Taken(S)) > PageLimit
    PROVE  /\ CursorAfter(Taken(S)) \in FirstRows(Taken(S))
           /\ \A j \in FirstRows(Taken(S)) : j <= CursorAfter(Taken(S))
<1>1. Taken(S) \subseteq Id /\ FirstRows(Taken(S)) \subseteq Id
  BY DEF Taken, FirstRows
<1>2. Taken(S) # {}
  <2>1. Cardinality({}) = 0
    BY FS_EmptySet
  <2>2. QED
    BY <2>1, SearchNumbers
<1>3. PICK least \in Taken(S) : \A j \in Taken(S) : least <= j
  <2>1. Taken(S) \subseteq Nat
    BY <1>1 DEF Id
  <2>2. QED
    BY <1>2, <2>1, LeastElement
<1>4. Below(Taken(S), least) = {}
  BY <1>1, <1>3 DEF Below, Id
<1>5. least \in FirstRows(Taken(S))
  <2>1. Cardinality(Below(Taken(S), least)) = 0
    BY <1>4, FS_EmptySet
  <2>2. QED
    BY <2>1, SearchNumbers DEF FirstRows, Below
<1>6. \E x \in FirstRows(Taken(S)) : \A j \in FirstRows(Taken(S)) : j <= x
  BY <1>1, <1>5, GreatestElement
<1>7. CursorAfter(Taken(S)) =
          CHOOSE i \in FirstRows(Taken(S)) : \A j \in FirstRows(Taken(S)) : j <= i
  BY DEF CursorAfter
<1>8. QED
  BY <1>6, <1>7

\* The last page holds everything that is left.
LEMMA LastPageIsWhole ==
    ASSUME NEW S, S \subseteq Id, ~(Cardinality(Taken(S)) > PageLimit)
    PROVE  S \subseteq FirstRows(Taken(S))
<1>1. Taken(S) \subseteq S /\ Taken(S) \subseteq Id
  BY DEF Taken
<1>2. Cardinality(Taken(S)) <= PageLimit /\ IsFiniteSet(Taken(S))
      /\ Cardinality(Taken(S)) \in Nat
  BY <1>1, IdsAreFinite, SearchNumbers
<1>3. S \subseteq Taken(S)
  <2> SUFFICES ASSUME S \ Taken(S) # {} PROVE FALSE
    OBVIOUS
  <2>1. PICK least \in S \ Taken(S) : \A j \in S \ Taken(S) : least <= j
    <3>1. S \ Taken(S) \subseteq Nat
      BY IdsAreNumbers
    <3>2. QED
      BY <3>1, LeastElement
  <2>2. Below(S, least) \subseteq Taken(S)
    <3>1. ASSUME NEW j \in Below(S, least), j \notin Taken(S) PROVE FALSE
      <4>1. j \in S \ Taken(S) /\ j < least /\ j \in Nat /\ least \in Nat
        BY <2>1, <3>1, IdsAreNumbers DEF Below
      <4>2. QED
        BY <2>1, <4>1
    <3>2. QED
      BY <3>1
  <2>3. Cardinality(Below(S, least)) <= PageLimit
    BY <1>1, <1>2, <2>2, SmallerIds, SearchNumbers
  <2>4. QED
    BY <2>1, <2>3 DEF Taken
<1>4. ASSUME NEW i \in S PROVE i \in FirstRows(Taken(S))
  <2>1. i \in Taken(S)
    BY <1>3
  <2>2. /\ Cardinality(Taken(S) \ {i}) = Cardinality(Taken(S)) - 1
        /\ Taken(S) \ {i} \subseteq Id
    BY <1>1, <1>2, <2>1, FS_RemoveElement
  <2>3. Below(Taken(S), i) \subseteq Taken(S) \ {i}
    BY <1>1 DEF Below, Id
  <2>4. Cardinality(Below(Taken(S), i)) < PageLimit
    BY <1>2, <2>2, <2>3, SmallerIds, SearchNumbers
  <2>5. QED
    BY <2>1, <2>4 DEF FirstRows, Below
<1>5. QED
  BY <1>4

-----------------------------------------------------------------------------
(* Keyset pagination: pages while datasets are replaced.                   *)

\* Up to the cursor the client has every steady row, and nothing beyond it.
PagesSoFar ==
    /\ steady \subseteq VisibleIds(rows)
    /\ cursor # NoCursor => \A i \in returned : i <= cursor
    /\ cursor # NoCursor => \A i \in steady : i <= cursor => i \in returned
    /\ cursor = NoCursor => steady \subseteq returned

\* The inductive invariant of the search.
SearchInv == SearchTypeOK /\ PagesSoFar

LEMMA SearchInitInv == SearchInit => SearchInv
<1> SUFFICES ASSUME SearchInit PROVE SearchInv
  OBVIOUS
<1>1. Present(rows) = {}
  BY DEF SearchInit, Present
<1>2. 0 # NoCursor
  BY SearchNumbers
<1>3. QED
  BY <1>1, <1>2, SearchNumbers DEF SearchInit, SearchInv, SearchTypeOK, PagesSoFar

LEMMA RowIds ==
    ASSUME NEW table \in [License -> Row \cup {NoRow}]
    PROVE  IdsOf(table) \subseteq Id /\ VisibleIds(table) \subseteq IdsOf(table)
BY DEF IdsOf, VisibleIds, Present, Row

\* The ids that are left behind the cursor.
Behind == {i \in VisibleIds(rows) : i > cursor}

\* What a page contains, and where it leaves the cursor.
LEMMA PageFacts ==
    ASSUME SearchInv, FetchPage
    PROVE  /\ cursor \in 0..MaxId /\ Behind \subseteq Id /\ page' \subseteq Behind
           /\ cursor' \in Id \cup {NoCursor}
           /\ cursor' # NoCursor =>
                 /\ cursor' > cursor
                 /\ \A i \in page' : i <= cursor'
                 /\ \A i \in Behind : i <= cursor' => i \in page'
           /\ cursor' = NoCursor => Behind \subseteq page'
<1>1. cursor \in 0..MaxId
  BY DEF SearchInv, SearchTypeOK, FetchPage
<1>2. Behind \subseteq Id
  BY RowIds DEF SearchInv, SearchTypeOK, Behind
<1>3. PICK S : S = Behind
  OBVIOUS
<1>4. Fetched(cursor) = Taken(S)
  BY <1>3 DEF Fetched, Behind, Taken, Below
<1>5. page' = FirstRows(Taken(S)) /\ cursor' = CursorAfter(Taken(S))
  BY <1>4 DEF FetchPage
<1>6. FirstRows(Taken(S)) \subseteq S
  BY DEF FirstRows, Taken
<1>7. CASE Cardinality(Taken(S)) > PageLimit
  <2>1. /\ cursor' \in FirstRows(Taken(S))
        /\ \A j \in FirstRows(Taken(S)) : j <= cursor'
    BY <1>2, <1>3, <1>5, <1>7, CursorIsLastRow
  <2>2. cursor' \in Behind /\ cursor' \in Id
    BY <1>2, <1>3, <1>6, <2>1
  <2>3. cursor' > cursor
    BY <2>2 DEF Behind
  <2>4. cursor' # NoCursor
    BY <2>2, IdsAreNumbers, SearchNumbers
  <2>5. \A i \in S : i <= cursor' => i \in FirstRows(Taken(S))
    BY <1>2, <1>3, <2>1, PageIsPrefix
  <2>6. QED
    BY <1>1, <1>2, <1>3, <1>5, <1>6, <2>1, <2>2, <2>3, <2>4, <2>5
<1>8. CASE ~(Cardinality(Taken(S)) > PageLimit)
  <2>1. cursor' = NoCursor
    BY <1>5, <1>8 DEF CursorAfter
  <2>2. S \subseteq FirstRows(Taken(S))
    BY <1>2, <1>3, <1>8, LastPageIsWhole
  <2>3. QED
    BY <1>1, <1>2, <1>3, <1>5, <1>6, <2>1, <2>2
<1>9. QED
  BY <1>7, <1>8

LEMMA FetchPageStep == ASSUME SearchInv, FetchPage PROVE SearchInv'
<1>1. /\ cursor \in 0..MaxId /\ Behind \subseteq Id /\ page' \subseteq Behind
      /\ cursor' \in Id \cup {NoCursor}
      /\ cursor' # NoCursor =>
            /\ cursor' > cursor
            /\ \A i \in page' : i <= cursor'
            /\ \A i \in Behind : i <= cursor' => i \in page'
      /\ cursor' = NoCursor => Behind \subseteq page'
  BY PageFacts
<1>2. /\ rows' = rows /\ used' = used /\ returned' = returned \cup page' /\ cursor # NoCursor
      /\ steady' = IF cursor = 0 THEN VisibleIds(rows) ELSE steady
  BY DEF FetchPage
<1>3. VisibleIds(rows) \subseteq Id
  BY RowIds DEF SearchInv, SearchTypeOK
<1>4. steady' \subseteq VisibleIds(rows)
  BY <1>2 DEF SearchInv, PagesSoFar
<1>5. SearchTypeOK'
  <2>1. Id \subseteq 0..MaxId
    BY SearchNumbers DEF Id
  <2>2. cursor' \in (0..MaxId) \cup {NoCursor}
    BY <1>1, <2>1
  <2>3. returned' \subseteq Id /\ page' \subseteq Id /\ steady' \subseteq Id
    BY <1>1, <1>2, <1>3, <1>4 DEF SearchInv, SearchTypeOK
  <2>4. \A k, l \in Present(rows)' : rows'[k].id = rows'[l].id => k = l
    BY <1>2 DEF SearchInv, SearchTypeOK, Present
  <2>5. QED
    BY <1>2, <2>2, <2>3, <2>4 DEF SearchInv, SearchTypeOK
<1>6. \A i \in steady' : i \in Behind \/ i \in returned
  <2>1. ASSUME NEW i \in steady' PROVE i \in Behind \/ i \in returned
    <3>0. cursor \in Nat
      BY <1>1, SearchNumbers
    <3>1. i \in VisibleIds(rows) /\ i \in Nat /\ 1 <= i /\ cursor \in Nat
      BY <1>3, <1>4, <3>0, IdsAreNumbers
    <3>2. CASE i > cursor
      BY <3>1, <3>2 DEF Behind
    <3>3. CASE i <= cursor
      <4>1. cursor # 0
        BY <3>1, <3>3
      <4>2. i \in steady
        BY <1>2, <4>1
      <4>3. QED
        BY <1>2, <3>3, <4>2 DEF SearchInv, PagesSoFar
    <3>4. QED
      BY <3>1, <3>2, <3>3
  <2>2. QED
    BY <2>1
<1>7. cursor' # NoCursor => \A i \in returned' : i <= cursor'
  <2> SUFFICES ASSUME cursor' # NoCursor, NEW i \in returned' PROVE i <= cursor'
    OBVIOUS
  <2>1. CASE i \in page'
    BY <1>1, <2>1
  <2>2. CASE i \in returned
    <3>1. i <= cursor /\ i \in Nat
      BY <1>2, <2>2, IdsAreNumbers DEF SearchInv, PagesSoFar, SearchTypeOK
    <3>2. cursor' > cursor /\ cursor' \in Nat /\ cursor \in Nat
      BY <1>1, IdsAreNumbers
    <3>3. QED
      BY <3>1, <3>2
  <2>3. QED
    BY <1>2, <2>1, <2>2
<1>8. VisibleIds(rows)' = VisibleIds(rows)
  BY <1>2 DEF VisibleIds, Present
<1>9. PagesSoFar'
  BY <1>1, <1>2, <1>4, <1>6, <1>7, <1>8 DEF PagesSoFar
<1>10. QED
  BY <1>5, <1>9 DEF SearchInv

LEMMA PromoteDatasetStep ==
    ASSUME SearchInv, NEW table \in [License -> Row \cup {NoRow}], PromoteDataset(table)
    PROVE  SearchInv'
<1>1. /\ rows' = table /\ used' = used \cup IdsOf(table)
      /\ steady' = steady \cap VisibleIds(table)
      /\ cursor' = cursor /\ returned' = returned /\ page' = page
      /\ RightIds(rows, table)
  BY DEF PromoteDataset
<1>2. SearchTypeOK'
  <2>1. \A k, l \in Present(table) : table[k].id = table[l].id => k = l
    BY <1>1 DEF RightIds
  <2>2. Present(rows)' = Present(table)
    BY <1>1 DEF Present
  <2>3. IdsOf(table) \subseteq Id
    BY RowIds
  <2>4. QED
    BY <1>1, <2>1, <2>2, <2>3 DEF SearchInv, SearchTypeOK
<1>3. VisibleIds(rows)' = VisibleIds(table)
  BY <1>1 DEF VisibleIds, Present
<1>4. PagesSoFar'
  BY <1>1, <1>3 DEF SearchInv, PagesSoFar
<1>5. QED
  BY <1>2, <1>4 DEF SearchInv

LEMMA SearchStep == SearchInv /\ [SearchNext]_searchVars => SearchInv'
<1> SUFFICES ASSUME SearchInv, [SearchNext]_searchVars PROVE SearchInv'
  OBVIOUS
<1>1. CASE FetchPage
  BY <1>1, FetchPageStep
<1>2. ASSUME NEW table \in [License -> Row \cup {NoRow}], PromoteDataset(table)
      PROVE  SearchInv'
  BY <1>2, PromoteDatasetStep
<1>3. CASE UNCHANGED searchVars
  BY <1>3 DEF searchVars, SearchInv, SearchTypeOK, PagesSoFar, VisibleIds, Present
<1>4. QED
  BY <1>1, <1>2, <1>3 DEF SearchNext

\* For any number of records, page size and sequence of promotions between the
\* pages: who follows the cursors to the end misses no record that stayed.
THEOREM NoSteadyRowIsMissed == SearchSpec => []SteadyRowsAreReturned
<1>1. SearchInv => SteadyRowsAreReturned
  BY DEF SearchInv, PagesSoFar, SteadyRowsAreReturned
<1>2. QED
  BY SearchInitInv, SearchStep, <1>1, PTL DEF SearchSpec

LEMMA PageStep == SearchInv /\ [SearchNext]_searchVars => [NoRepetition]_searchVars
<1> SUFFICES ASSUME SearchInv, SearchNext, cursor' # cursor
             PROVE  page' \cap returned = {}
  BY DEF searchVars, NoRepetition
<1>1. FetchPage
  BY DEF SearchNext, PromoteDataset
<1>2. cursor \in 0..MaxId /\ page' \subseteq Behind /\ cursor # NoCursor
  BY <1>1, PageFacts DEF FetchPage
<1>3. ASSUME NEW i \in page', i \in returned PROVE FALSE
  <2>1. i \in Nat /\ cursor \in Nat
    BY <1>2, <1>3, IdsAreNumbers DEF SearchInv, SearchTypeOK
  <2>2. i <= cursor
    BY <1>2, <1>3 DEF SearchInv, PagesSoFar
  <2>3. i > cursor
    BY <1>2, <1>3 DEF Behind
  <2>4. QED
    BY <2>1, <2>2, <2>3
<1>4. QED
  BY <1>3

\* And no record is returned twice.
THEOREM NoRowIsRepeated == SearchSpec => PagesAreDisjoint
BY SearchInitInv, SearchStep, PageStep, PTL DEF SearchSpec, PagesAreDisjoint

\* GET /licenses pages through the records without losing or repeating one,
\* whatever imports are promoted between two pages.
THEOREM PaginationHolds == SearchSpec => PaginationIsExact
<1>1. SearchInv /\ SearchInv' /\ [SearchNext]_searchVars =>
        [SteadyRowsAreReturned' /\ NoRepetition]_searchVars
  BY PageStep DEF SearchInv, PagesSoFar, SteadyRowsAreReturned
<1>2. QED
  BY <1>1, SearchInitInv, SearchStep, PTL DEF SearchSpec, PaginationIsExact

-----------------------------------------------------------------------------
(* The record API.                                                         *)

\* Its three parts keep no state in common: whatever the API does is a
\* behaviour of each, so the theorems about them hold of it.
THEOREM ApiImplementsItsParts == Spec => LimiterSpec /\ KeysSpec /\ SearchSpec
<1>1. Init => LimiterInit /\ KeysInit /\ SearchInit
  BY DEF Init
<1>2. [Next]_<<part, limiterVars, keyVars, searchVars>> =>
        [LimiterNext]_limiterVars /\ [KeysNext]_keyVars /\ [SearchNext]_searchVars
  BY DEF Next
<1>3. QED
  BY <1>1, <1>2, PTL DEF Spec, LimiterSpec, KeysSpec, SearchSpec

\* The limiter, the keys and the pages have their types.
THEOREM ApiTypeCorrect == Spec => []TypeOK
<1>1. LimiterInv /\ KeysInv /\ SearchInv => TypeOK
  BY DEF LimiterInv, KeysInv, SearchInv, TypeOK
<1>2. QED
  BY <1>1, ApiImplementsItsParts, LimiterInitInv, LimiterStep, KeysInitInv, KeysStep,
     SearchInitInv, SearchStep, PTL DEF LimiterSpec, KeysSpec, SearchSpec

=============================================================================
