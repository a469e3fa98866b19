---------------------------- MODULE DeveloperKeys ----------------------------
(***************************************************************************)
(* Developer API keys and their daily quota: authenticate() of             *)
(* services/record-api/src/api-keys.ts over the statements of              *)
(* postgres-api-keys.ts.                                                   *)
(*                                                                         *)
(* A request looks its key up, then counts itself with one SQL statement,  *)
(* which reads the key in its snapshot and only then locks the usage row.  *)
(* Keys are revoked, expire, and the day changes at any time.  The query   *)
(* is parsed and the search runs when the request has been counted, so     *)
(* what fails there has spent its unit.  Secrets are left out: a request   *)
(* presents the right one or, with an unknown key, none that exists.       *)
(***************************************************************************)
EXTENDS Naturals

CONSTANTS
    ApiKey,   \* rows of developer_api_keys
    Request,  \* requests with an X-API-Key header
    Quota,    \* column quota_per_day
    LastDay,  \* bound: days are 0..LastDay
    NoKey     \* a request that has not arrived

ASSUME QuotaAssumption == Quota \in Nat \ {0}
ASSUME LastDayAssumption == LastDay \in Nat
ASSUME NoKeyAssumption == NoKey \notin ApiKey

VARIABLES
    keyStatus,  \* whether the key exists and is neither revoked nor expired
    usage,      \* api_usage_daily.request_count per key and day; 0: no row
    day,        \* the current UTC date
    request     \* per request: where it stands and what it read

keyVars == <<keyStatus, usage, day, request>>

\* "found": findActiveByPrefix returned the key; "counting": the statement of
\* consumeDailyQuota has its snapshot; "counted": it took a unit.  The rest are
\* HTTP statuses; "failed" is a 500 for which the key is not the reason.  The
\* field counted is history: the request has taken a unit.
RequestState == [at : {"away", "arrived", "found", "counting", "counted",
                       "200", "400", "401", "429", "500", "failed"},
                 key : ApiKey \cup {NoKey}, date : 0..LastDay, count : 0..Quota,
                 counted : BOOLEAN, dead : BOOLEAN]

KeysInit ==
    /\ keyStatus = [k \in ApiKey |-> "absent"]
    /\ usage = [k \in ApiKey |-> [d \in 0..LastDay |-> 0]]
    /\ day = 0
    /\ request = [r \in Request |->
          [at |-> "away", key |-> NoKey, date |-> 0, count |-> 0,
           counted |-> FALSE, dead |-> FALSE]]

FaultyIsActive(k) == keyStatus[k] # "absent"

\* revoked_at is null and (expires_at is null or expires_at > now()).
IsActive(k) == keyStatus[k] = "active"

Go(r, at) == request' = [request EXCEPT ![r].at = at]

-----------------------------------------------------------------------------
(* Keys.                                                                   *)

CreateKey(k) ==
    /\ keyStatus[k] = "absent"
    /\ keyStatus' = [keyStatus EXCEPT ![k] = "active"]
    /\ UNCHANGED <<usage, day, request>>

\* The owner revokes the key, or it expires.
RevokeKey(k) ==
    /\ keyStatus[k] = "active"
    /\ keyStatus' = [keyStatus EXCEPT ![k] = "dead"]
    /\ UNCHANGED <<usage, day, request>>

NextDay ==
    /\ day < LastDay
    /\ day' = day + 1
    /\ UNCHANGED <<keyStatus, usage, request>>

-----------------------------------------------------------------------------
(* A request.                                                              *)

\* The field dead is history: the key was dead before the request arrived.
Arrive(r, k) ==
    /\ request[r].at = "away"
    /\ request' = [request EXCEPT ![r].at = "arrived", ![r].key = k,
                                  ![r].dead = keyStatus[k] = "dead"]
    /\ UNCHANGED <<keyStatus, usage, day>>

\* findActiveByPrefix; the date is taken when the key came back.
FindKey(r) ==
    /\ request[r].at = "arrived"
    /\ IF IsActive(request[r].key)
       THEN request' = [request EXCEPT ![r].at = "found", ![r].date = day]
       ELSE Go(r, "401")
    /\ UNCHANGED <<keyStatus, usage, day>>

\* consumeDailyQuota: the statement takes its snapshot.  Without a key row it
\* returns no row and requiredRow throws.  count holds what the snapshot shows.
ReadKeyRow(r) ==
    LET k == request[r].key IN
    /\ request[r].at = "found"
    /\ IF IsActive(k)
       THEN request' = [request EXCEPT ![r].at = "counting",
                                       ![r].count = usage[k][request[r].date]]
       ELSE Go(r, "500")
    /\ UNCHANGED <<keyStatus, usage, day>>

FaultyCountUp(r) ==
    LET k == request[r].key  d == request[r].date  n == request[r].count IN
    /\ request[r].at = "counting"
    /\ IF n < Quota
       THEN /\ usage' = [usage EXCEPT ![k][d] = n + 1]
            /\ request' = [request EXCEPT ![r].at = "counted", ![r].count = n + 1,
                                          ![r].counted = TRUE]
       ELSE UNCHANGED usage /\ Go(r, "429")
    /\ UNCHANGED <<keyStatus, day>>

FaultyCountPastQuota(r) ==
    LET k == request[r].key  d == request[r].date  n == usage[k][d] IN
    /\ request[r].at = "counting"
    /\ IF n <= Quota
       THEN /\ usage' = [usage EXCEPT ![k][d] = n + 1]
            /\ request' = [request EXCEPT ![r].at = "counted", ![r].count = n + 1,
                                          ![r].counted = TRUE]
       ELSE UNCHANGED usage /\ Go(r, "429")
    /\ UNCHANGED <<keyStatus, day>>

\* insert ... on conflict do update ... where request_count < quota: the filter
\* sees the locked, latest row.
CountUp(r) ==
    LET k == request[r].key  d == request[r].date  n == usage[k][d] IN
    /\ request[r].at = "counting"
    /\ IF n < Quota
       THEN /\ usage' = [usage EXCEPT ![k][d] = n + 1]
            /\ request' = [request EXCEPT ![r].at = "counted", ![r].count = n + 1,
                                          ![r].counted = TRUE]
       ELSE UNCHANGED usage /\ Go(r, "429")
    /\ UNCHANGED <<keyStatus, day>>

\* The query is valid and searchLicenses, which only reads, answers.
Serve(r) ==
    /\ request[r].at = "counted"
    /\ Go(r, "200")
    /\ UNCHANGED <<keyStatus, usage, day>>

\* parseSearchQuery throws an InvalidRequestError.
RejectQuery(r) ==
    /\ request[r].at = "counted"
    /\ Go(r, "400")
    /\ UNCHANGED <<keyStatus, usage, day>>

\* A statement of the key store or of the search rejects, or its answer is lost,
\* or searchLicenses throws because it cannot decode the cursor.
RequestFails(r) ==
    /\ request[r].at \in {"arrived", "found", "counting", "counted"}
    /\ Go(r, "failed")
    /\ UNCHANGED <<keyStatus, usage, day>>

KeysNext ==
    \/ \E k \in ApiKey : CreateKey(k) \/ RevokeKey(k)
    \/ NextDay
    \/ \E r \in Request :
        \/ \E k \in ApiKey : Arrive(r, k)
        \/ FindKey(r) \/ ReadKeyRow(r) \/ CountUp(r)
        \/ Serve(r) \/ RejectQuery(r) \/ RequestFails(r)

KeysSpec == KeysInit /\ [][KeysNext]_keyVars

-----------------------------------------------------------------------------
(* Properties.                                                             *)

KeysTypeOK ==
    /\ keyStatus \in [ApiKey -> {"absent", "active", "dead"}]
    /\ usage \in [ApiKey -> [0..LastDay -> 0..Quota]]
    /\ day \in 0..LastDay
    /\ request \in [Request -> RequestState]

\* The requests that a key's count of one day stands for.
Counted(k, d) ==
    {r \in Request : request[r].counted /\ request[r].key = k /\ request[r].date = d}

\* Every request that was counted has a number of its own, from 1 up to the
\* day's count, which never passes the quota, and only counted requests are
\* served: concurrent requests neither share a unit of quota nor are told the
\* same remaining amount, and no unit is spent on nobody.  A counted request
\* may still be answered 400 or 500, its unit being spent.
QuotaIsExact ==
    /\ \A r \in Request : request[r].at = "200" => request[r].counted
    /\ \A k \in ApiKey, d \in 0..LastDay :
        /\ \A r \in Counted(k, d) : request[r].count \in 1..usage[k][d]
        /\ \A n \in 1..usage[k][d] : \E r \in Counted(k, d) : request[r].count = n
        /\ \A r, s \in Counted(k, d) : request[r].count = request[s].count => r = s

\* docs/hosted-v2-api.md: "Revocation is immediate": no request that arrives
\* after the revocation is served.
RevocationIsImmediate ==
    \A r \in Request : request[r].dead => request[r].at # "200"

\* docs/hosted-v2-api.md: "API-key failures return `401`": with a working
\* database no key, however it changes, yields an internal error.
KeyFailureIs401 == \A r \in Request : request[r].at # "500"

=============================================================================
