------------------------------ MODULE JobQueue ------------------------------
(***************************************************************************)
(* The Postgres job queue of the ingestion service and the worker loop     *)
(* that drives it: table worker_jobs, the SQL functions of migration 0003  *)
(* (claim, heartbeat, cancel, complete, fail, requeue) and                 *)
(* services/ingestion-worker/src/worker.ts.                                *)
(*                                                                         *)
(* Each SQL function is one atomic UPDATE.  A worker process runs at most  *)
(* one job; between its claim and its complete/fail the handler runs for   *)
(* an arbitrary time, and a process may die at any point.  A process that  *)
(* restarts keeps its worker id (infra/compose.yaml configures it).        *)
(* Worker ids are assumed distinct between concurrent processes.           *)
(***************************************************************************)
EXTENDS Naturals

CONSTANTS
    Job,          \* rows of worker_jobs of one queue
    Worker,       \* configured worker ids (OPENTRADE_WORKER_ID)
    Nobody,       \* locked_by is null
    NoJob,        \* a worker process between two jobs
    MaxAttempts,  \* column max_attempts
    StaleAfter    \* the 5 minute heartbeat limit, in clock ticks

ASSUME NobodyAssumption == Nobody \notin Worker
ASSUME NoJobAssumption == NoJob \notin Job
ASSUME MaxAttemptsAssumption == MaxAttempts \in Nat \ {0}
ASSUME StaleAfterAssumption == StaleAfter \in Nat

VARIABLES
    status,           \* column status; "absent" before the row exists
    attempts,         \* column attempts
    lockedBy,         \* column locked_by
    scheduledAt,      \* column scheduled_at, as a ticket: only its order is read
    ticket,           \* the next value now() gives to scheduled_at
    silence,          \* now() - heartbeat_at, saturated one tick past the limit
    cancelRequested,  \* cancel_requested_at is not null
    running,          \* the job in the hands of each worker process
    runAttempt,       \* job.attempts as returned by the claim of that job
    aborted           \* controller.signal.aborted in that runOnce

rowVars == <<status, attempts, lockedBy, scheduledAt, ticket, silence,
             cancelRequested>>
workerVars == <<running, runAttempt, aborted>>
vars == <<rowVars, workerVars>>

Status == {"absent", "pending", "processing", "completed", "failed",
           "cancelled", "dead_letter"}

\* Statuses no SQL function ever leaves.
Final == {"completed", "cancelled", "dead_letter"}

Lapsed(j) == silence[j] > StaleAfter

\* Faulty variants (here and below, marked "Faulty"): forms the definition
\* after them must not have.  They are used only to show that a property fails.
FaultyClaimableNoLimit(j) ==
    status[j] = "pending" \/ (status[j] = "processing" /\ Lapsed(j))
FaultyClaimableNoRecovery(j) ==
    attempts[j] < MaxAttempts /\ status[j] = "pending"

Claimable(j) ==
    /\ attempts[j] < MaxAttempts
    /\ \/ status[j] = "pending"
       \/ status[j] = "processing" /\ Lapsed(j)

FaultyOwnsAnyWorker(w, j) == status[j] = "processing"

\* The row filter shared by complete_worker_job and fail_worker_job.
Owns(w, j) == status[j] = "processing" /\ lockedBy[j] = w

FaultyCanHeartbeatCancelled(w, j) == Owns(w, j)

CanHeartbeat(w, j) == Owns(w, j) /\ ~cancelRequested[j]

Init ==
    /\ status = [j \in Job |-> "absent"]
    /\ attempts = [j \in Job |-> 0]
    /\ lockedBy = [j \in Job |-> Nobody]
    /\ scheduledAt = [j \in Job |-> 0]
    /\ ticket = 1
    /\ silence = [j \in Job |-> 0]
    /\ cancelRequested = [j \in Job |-> FALSE]
    /\ running = [w \in Worker |-> NoJob]
    /\ runAttempt = [w \in Worker |-> 0]
    /\ aborted = [w \in Worker |-> FALSE]

-----------------------------------------------------------------------------
(* Rows: what each SQL function does to worker_jobs.                       *)

\* The insert of enqueue_snapshot_import; the unique job index makes a second
\* insert of the same job a no-op, so a row is created once.
Enqueue(j) ==
    /\ status[j] = "absent"
    /\ status' = [status EXCEPT ![j] = "pending"]
    /\ scheduledAt' = [scheduledAt EXCEPT ![j] = ticket]
    /\ ticket' = ticket + 1
    /\ UNCHANGED <<attempts, lockedBy, silence, cancelRequested, workerVars>>

\* claim_worker_job.  "skip locked" passes over rows that a concurrent
\* statement holds; among the rest the earliest schedule wins (no caller sets
\* priority).  A pending cancellation request does not stop a claim.
ClaimWorkerJob(w, j, skipped) ==
    /\ Claimable(j) /\ j \notin skipped
    /\ \A k \in Job \ skipped : Claimable(k) => scheduledAt[j] <= scheduledAt[k]
    /\ status' = [status EXCEPT ![j] = "processing"]
    /\ attempts' = [attempts EXCEPT ![j] = @ + 1]
    /\ lockedBy' = [lockedBy EXCEPT ![j] = w]
    /\ silence' = [silence EXCEPT ![j] = 0]
    /\ UNCHANGED <<scheduledAt, ticket, cancelRequested>>

\* heartbeat_worker_job, when it updates the row.
HeartbeatWorkerJob(w, j) ==
    /\ CanHeartbeat(w, j)
    /\ silence' = [silence EXCEPT ![j] = 0]
    /\ UNCHANGED <<status, attempts, lockedBy, scheduledAt, ticket, cancelRequested>>

FaultyCompleteIgnoresCancel(w, j) ==
    /\ status' = [status EXCEPT ![j] = IF Owns(w, j) THEN "completed" ELSE @]
    /\ UNCHANGED <<attempts, lockedBy, scheduledAt, ticket, silence, cancelRequested>>

\* complete_worker_job; zero rows match when the worker lost the job.
CompleteWorkerJob(w, j) ==
    /\ status' = [status EXCEPT ![j] =
            IF ~Owns(w, j) THEN @
            ELSE IF cancelRequested[j] THEN "cancelled" ELSE "completed"]
    /\ UNCHANGED <<attempts, lockedBy, scheduledAt, ticket, silence, cancelRequested>>

FaultyFailOffByOne(w, j) ==
    /\ status' = [status EXCEPT ![j] =
            IF ~Owns(w, j) THEN @
            ELSE IF attempts[j] > MaxAttempts THEN "dead_letter" ELSE "failed"]
    /\ UNCHANGED <<attempts, lockedBy, scheduledAt, ticket, silence, cancelRequested>>

\* fail_worker_job; zero rows match when the worker lost the job.
FailWorkerJob(w, j) ==
    /\ status' = [status EXCEPT ![j] =
            IF ~Owns(w, j) THEN @
            ELSE IF attempts[j] >= MaxAttempts THEN "dead_letter" ELSE "failed"]
    /\ UNCHANGED <<attempts, lockedBy, scheduledAt, ticket, silence, cancelRequested>>

\* request_worker_job_cancel, called by an operator.
RequestCancel(j) ==
    /\ status[j] \in {"pending", "processing"}
    /\ cancelRequested' = [cancelRequested EXCEPT ![j] = TRUE]
    /\ UNCHANGED <<status, attempts, lockedBy, scheduledAt, ticket, silence, workerVars>>

\* requeue_failed_worker_job, called by an operator.  heartbeat_at becomes
\* null; no status but "processing" reads it.
RequeueFailed(j) ==
    /\ status[j] = "failed" /\ attempts[j] < MaxAttempts
    /\ status' = [status EXCEPT ![j] = "pending"]
    /\ scheduledAt' = [scheduledAt EXCEPT ![j] = ticket]
    /\ ticket' = ticket + 1
    /\ lockedBy' = [lockedBy EXCEPT ![j] = Nobody]
    /\ silence' = [silence EXCEPT ![j] = 0]
    /\ UNCHANGED <<attempts, cancelRequested, workerVars>>

-----------------------------------------------------------------------------
(* The worker loop.                                                        *)

\* runOnce up to the handler call: the claim hands over the row it updated.
Claim(w, skipped) ==
    /\ running[w] = NoJob
    /\ \E j \in Job :
        /\ ClaimWorkerJob(w, j, skipped)
        /\ running' = [running EXCEPT ![w] = j]
        /\ runAttempt' = [runAttempt EXCEPT ![w] = attempts[j] + 1]
    /\ aborted' = [aborted EXCEPT ![w] = FALSE]

\* A heartbeat, from the interval timer or from the handler: it renews the
\* lease, or the controller is aborted.
Heartbeat(w) ==
    /\ running[w] # NoJob
    /\ \/ /\ HeartbeatWorkerJob(w, running[w])
          /\ UNCHANGED workerVars
       \/ /\ ~CanHeartbeat(w, running[w])
          /\ aborted' = [aborted EXCEPT ![w] = TRUE]
          /\ UNCHANGED <<rowVars, running, runAttempt>>

\* The controller is aborted for another reason: the heartbeat query rejected,
\* or the process received SIGTERM while the handler runs.
Abort(w) ==
    /\ running[w] # NoJob
    /\ aborted' = [aborted EXCEPT ![w] = TRUE]
    /\ UNCHANGED <<rowVars, running, runAttempt>>

\* runOnce ends, whatever the number of rows the last statement updated.
Release(w) ==
    /\ running' = [running EXCEPT ![w] = NoJob]
    /\ runAttempt' = [runAttempt EXCEPT ![w] = 0]
    /\ aborted' = [aborted EXCEPT ![w] = FALSE]

\* The handler returned (it may not have looked at the signal) and the
\* completion is recorded.
Complete(w) ==
    /\ running[w] # NoJob
    /\ CompleteWorkerJob(w, running[w])
    /\ Release(w)

\* complete_worker_job commits but its answer is lost: the row is decided
\* while the process is about to enter the catch block.
CompleteUnheard(w) ==
    /\ running[w] # NoJob
    /\ CompleteWorkerJob(w, running[w])
    /\ UNCHANGED workerVars

\* The handler threw, or the complete statement failed: both reach the catch
\* block, which records the failure.
Fail(w) ==
    /\ running[w] # NoJob
    /\ FailWorkerJob(w, running[w])
    /\ Release(w)

\* The process dies, or fail_worker_job rejects and the error leaves runOnce:
\* the row keeps its lock, and the restarted process knows nothing of it.
Crash(w) ==
    /\ running[w] # NoJob
    /\ Release(w)
    /\ UNCHANGED rowVars

\* The clock.  heartbeat_at is only read while the job is processing.
Tick ==
    /\ silence' = [j \in Job |->
            IF status[j] = "processing" /\ ~Lapsed(j) THEN silence[j] + 1
                                                      ELSE silence[j]]
    /\ UNCHANGED <<status, attempts, lockedBy, scheduledAt, ticket,
                   cancelRequested, workerVars>>

Next ==
    \/ \E j \in Job : Enqueue(j) \/ RequestCancel(j) \/ RequeueFailed(j)
    \/ \E w \in Worker :
        \/ \E skipped \in SUBSET Job : Claim(w, skipped)
        \/ Heartbeat(w) \/ Abort(w)
        \/ Complete(w) \/ CompleteUnheard(w) \/ Fail(w) \/ Crash(w)
    \/ Tick

Spec == Init /\ [][Next]_vars

\* Recovery of abandoned jobs: the clock runs, some worker process keeps
\* polling, a poll that meets no locked row eventually happens, and a handler
\* ends (its stream and its archive calls are finite).
RecoveryFairness ==
    /\ WF_vars(Tick)
    /\ WF_vars(\E w \in Worker : Claim(w, {}))
    /\ \A w \in Worker : WF_vars(Complete(w) \/ Fail(w))

RecoverySpec == Spec /\ RecoveryFairness

\* Revocation: the heartbeat timer fires, and a handler whose signal is
\* aborted throws.  Nothing else is assumed to happen.
RevocationFairness ==
    \A w \in Worker : WF_vars(Heartbeat(w)) /\ WF_vars(aborted[w] /\ Fail(w))

-----------------------------------------------------------------------------
(* Properties.                                                             *)

\* Every column and every local of the worker loop stays in its domain; in
\* particular no job is ever claimed more than max_attempts times.
TypeOK ==
    /\ status \in [Job -> Status]
    /\ attempts \in [Job -> 0..MaxAttempts]
    /\ lockedBy \in [Job -> Worker \cup {Nobody}]
    /\ scheduledAt \in [Job -> Nat]
    /\ ticket \in Nat
    /\ silence \in [Job -> 0..(StaleAfter + 1)]
    /\ cancelRequested \in [Job -> BOOLEAN]
    /\ running \in [Worker -> Job \cup {NoJob}]
    /\ runAttempt \in [Worker -> 0..MaxAttempts]
    /\ aborted \in [Worker -> BOOLEAN]

\* A failed job can always be replayed by requeue_failed_worker_job, and a job
\* is dead-lettered exactly when its attempts are spent: fail_worker_job and
\* the requeue filter draw the line at the same attempt.
RetryBudget ==
    \A j \in Job :
        /\ status[j] = "failed" => attempts[j] < MaxAttempts
        /\ status[j] = "dead_letter" => attempts[j] = MaxAttempts

\* A job whose cancellation was requested is never reported completed: the
\* request and the completion race, and the completion notices.
CancelNotLost ==
    \A j \in Job : status[j] = "completed" => ~cancelRequested[j]

\* Only the process of the latest claim decides the outcome of a job: when a
\* lapsed job was taken over, the complete or fail of the former owner changes
\* nothing, even if that worker later claims the same job again.
LatestAttemptDecides ==
    [][\A j \in Job :
        status[j] = "processing" /\ status'[j] # "processing" =>
            \E w \in Worker : /\ running[w] = j
                              /\ runAttempt[w] = attempts[j]
                              /\ \A v \in Worker \ {w} : running'[v] = running[v]]_vars

\* The fence behind LatestAttemptDecides: while a worker process owns the row
\* of the job it runs, the attempt it runs is the one the row counts.  With
\* the two budgets above it is inductive.
OwnerRunsLatestAttempt ==
    \A w \in Worker :
        running[w] # NoJob /\ Owns(w, running[w]) =>
            runAttempt[w] = attempts[running[w]]

QueueInvariant ==
    TypeOK /\ RetryBudget /\ CancelNotLost /\ OwnerRunsLatestAttempt

\* A job that reached a final status keeps it, and keeps its attempt count:
\* no late complete, fail, heartbeat or claim revives it.
FinalIsFinal ==
    [][\A j \in Job : status[j] \in Final =>
            status'[j] = status[j] /\ attempts'[j] = attempts[j]]_vars

\* A job whose worker went silent while attempts remain does not stay that
\* way: another claim takes it over (or its owner is heard from again).
LapsedLeaseRecovers ==
    RecoveryFairness => \A j \in Job :
        (status[j] = "processing" /\ Lapsed(j) /\ attempts[j] < MaxAttempts)
            ~> ~(status[j] = "processing" /\ Lapsed(j) /\ attempts[j] < MaxAttempts)

\* A worker whose right to the job was revoked, by a cancellation or by
\* another worker's claim, stops working on it.
RevokedWorkerStops ==
    RevocationFairness => \A w \in Worker :
        (running[w] # NoJob /\ (cancelRequested[running[w]] \/ lockedBy[running[w]] # w))
            ~> running[w] = NoJob

\* docs/ingestion.md: the queue has "stale-job recovery" and a "dead-letter
\* state".  A job left processing by a dead worker should leave that state.
AbandonedJobIsSettled ==
    \A j \in Job :
        (status[j] = "processing" /\ \A w \in Worker : running[w] # j)
            ~> (status[j] # "processing" \/ \E w \in Worker : running[w] = j)

=============================================================================
