--------------------------- MODULE JobQueueProofs ---------------------------
(***************************************************************************)
(* Proofs about the job queue for any number of jobs, workers and attempts *)
(* and any lease duration.                                                 *)
(***************************************************************************)
EXTENDS JobQueue, TLAPS

-----------------------------------------------------------------------------
(* Type correctness.                                                       *)

LEMMA InitTypeOK == Init => TypeOK
BY MaxAttemptsAssumption, StaleAfterAssumption DEF Init, TypeOK, Status

LEMMA NextTypeOK == TypeOK /\ [Next]_vars => TypeOK'
<1> SUFFICES ASSUME TypeOK, [Next]_vars PROVE TypeOK'
  OBVIOUS
<1> USE MaxAttemptsAssumption, StaleAfterAssumption
<1>1. ASSUME NEW j \in Job, Enqueue(j) PROVE TypeOK'
  BY <1>1 DEF TypeOK, Enqueue, Status, workerVars
<1>2. ASSUME NEW j \in Job, RequestCancel(j) PROVE TypeOK'
  BY <1>2 DEF TypeOK, RequestCancel, workerVars
<1>3. ASSUME NEW j \in Job, RequeueFailed(j) PROVE TypeOK'
  BY <1>3 DEF TypeOK, RequeueFailed, Status, workerVars
<1>4. ASSUME NEW w \in Worker, NEW skipped \in SUBSET Job, Claim(w, skipped)
      PROVE TypeOK'
  <2>1. PICK j \in Job :
            /\ ClaimWorkerJob(w, j, skipped)
            /\ running' = [running EXCEPT ![w] = j]
            /\ runAttempt' = [runAttempt EXCEPT ![w] = attempts[j] + 1]
    BY <1>4 DEF Claim
  <2>2. attempts[j] + 1 \in 0..MaxAttempts
    BY <2>1 DEF ClaimWorkerJob, Claimable, TypeOK
  <2>3. QED
    BY <1>4, <2>1, <2>2 DEF TypeOK, Claim, ClaimWorkerJob, Status
<1>5. ASSUME NEW w \in Worker, Heartbeat(w) PROVE TypeOK'
  <2>1. running[w] \in Job
    BY <1>5 DEF Heartbeat, TypeOK
  <2>2. CASE HeartbeatWorkerJob(w, running[w]) /\ UNCHANGED workerVars
    BY <2>1, <2>2 DEF TypeOK, HeartbeatWorkerJob, workerVars
  <2>3. CASE /\ aborted' = [aborted EXCEPT ![w] = TRUE]
             /\ UNCHANGED <<rowVars, running, runAttempt>>
    BY <2>3 DEF TypeOK, rowVars
  <2>4. QED
    BY <1>5, <2>2, <2>3 DEF Heartbeat
<1>6. ASSUME NEW w \in Worker, Abort(w) PROVE TypeOK'
  BY <1>6 DEF TypeOK, Abort, rowVars
<1>7. ASSUME NEW w \in Worker, Complete(w) PROVE TypeOK'
  BY <1>7 DEF TypeOK, Complete, CompleteWorkerJob, Release, Status
<1>7a. ASSUME NEW w \in Worker, CompleteUnheard(w) PROVE TypeOK'
  BY <1>7a DEF TypeOK, CompleteUnheard, CompleteWorkerJob, workerVars, Status
<1>8. ASSUME NEW w \in Worker, Fail(w) PROVE TypeOK'
  BY <1>8 DEF TypeOK, Fail, FailWorkerJob, Release, Status
<1>9. ASSUME NEW w \in Worker, Crash(w) PROVE TypeOK'
  BY <1>9 DEF TypeOK, Crash, Release, rowVars
<1>10. CASE Tick
  BY <1>10 DEF TypeOK, Tick, Lapsed, workerVars
<1>11. CASE UNCHANGED vars
  BY <1>11 DEF TypeOK, vars, rowVars, workerVars
<1>12. QED
  BY <1>1, <1>2, <1>3, <1>4, <1>5, <1>6, <1>7, <1>7a, <1>8, <1>9, <1>10, <1>11 DEF Next

\* Columns and worker locals keep their domains; in particular claim_worker_job
\* never raises attempts above max_attempts.
THEOREM TypeCorrect == Spec => []TypeOK
BY InitTypeOK, NextTypeOK, PTL DEF Spec

-----------------------------------------------------------------------------
(* The inductive invariant.  One lemma per kind of step: a step of a job's  *)
(* row by an operator, a claim, and the end of a run.                       *)

LEMMA InitQueueInvariant == Init => QueueInvariant
BY InitTypeOK DEF Init, QueueInvariant, RetryBudget, CancelNotLost,
                  OwnerRunsLatestAttempt, Owns

LEMMA OperatorStep ==
    ASSUME QueueInvariant, NEW j \in Job,
           Enqueue(j) \/ RequestCancel(j) \/ RequeueFailed(j)
    PROVE  RetryBudget' /\ CancelNotLost' /\ OwnerRunsLatestAttempt'
<1>1. CASE Enqueue(j)
  BY <1>1 DEF QueueInvariant, TypeOK, Enqueue, RetryBudget, CancelNotLost,
              OwnerRunsLatestAttempt, Owns, workerVars
<1>2. CASE RequestCancel(j)
  BY <1>2 DEF QueueInvariant, TypeOK, RequestCancel, RetryBudget, CancelNotLost,
              OwnerRunsLatestAttempt, Owns, workerVars
<1>3. CASE RequeueFailed(j)
  BY <1>3 DEF QueueInvariant, TypeOK, RequeueFailed, RetryBudget, CancelNotLost,
              OwnerRunsLatestAttempt, Owns, workerVars
<1>4. QED
  BY <1>1, <1>2, <1>3

LEMMA ClaimStep ==
    ASSUME QueueInvariant, NEW w \in Worker, NEW skipped \in SUBSET Job,
           Claim(w, skipped)
    PROVE  RetryBudget' /\ CancelNotLost' /\ OwnerRunsLatestAttempt'
<1>1. PICK j \in Job :
          /\ ClaimWorkerJob(w, j, skipped)
          /\ running' = [running EXCEPT ![w] = j]
          /\ runAttempt' = [runAttempt EXCEPT ![w] = attempts[j] + 1]
  BY DEF Claim
<1>2. RetryBudget' /\ CancelNotLost'
  BY <1>1 DEF QueueInvariant, TypeOK, ClaimWorkerJob, RetryBudget, CancelNotLost
<1>3. OwnerRunsLatestAttempt'
  <2>1. SUFFICES ASSUME NEW v \in Worker, running'[v] # NoJob, Owns(v, running[v])'
                 PROVE  runAttempt'[v] = attempts'[running'[v]]
    BY DEF OwnerRunsLatestAttempt
  <2>2. CASE v = w
    BY <1>1, <2>1, <2>2 DEF QueueInvariant, TypeOK, ClaimWorkerJob
  <2>3. CASE v # w
    BY <1>1, <2>1, <2>3 DEF QueueInvariant, TypeOK, ClaimWorkerJob, Owns,
                            OwnerRunsLatestAttempt
  <2>4. QED
    BY <2>2, <2>3
<1>4. QED
  BY <1>2, <1>3

LEMMA EndOfRunStep ==
    ASSUME QueueInvariant, NEW w \in Worker,
           Complete(w) \/ CompleteUnheard(w) \/ Fail(w) \/ Crash(w)
    PROVE  RetryBudget' /\ CancelNotLost' /\ OwnerRunsLatestAttempt'
<1>1. CASE Complete(w) \/ CompleteUnheard(w)
  BY <1>1 DEF QueueInvariant, TypeOK, Complete, CompleteUnheard, CompleteWorkerJob,
              Release, workerVars, RetryBudget, CancelNotLost,
              OwnerRunsLatestAttempt, Owns
<1>2. CASE Fail(w)
  <2>1. RetryBudget'
    BY <1>2, MaxAttemptsAssumption
       DEF QueueInvariant, TypeOK, Fail, FailWorkerJob, RetryBudget
  <2>2. CancelNotLost' /\ OwnerRunsLatestAttempt'
    BY <1>2 DEF QueueInvariant, TypeOK, Fail, FailWorkerJob, Release,
                CancelNotLost, OwnerRunsLatestAttempt, Owns
  <2>3. QED
    BY <2>1, <2>2
<1>3. CASE Crash(w)
  BY <1>3 DEF QueueInvariant, TypeOK, Crash, Release, rowVars,
              RetryBudget, CancelNotLost, OwnerRunsLatestAttempt, Owns
<1>4. QED
  BY <1>1, <1>2, <1>3

LEMMA NextQueueInvariant == QueueInvariant /\ [Next]_vars => QueueInvariant'
<1> SUFFICES ASSUME QueueInvariant, [Next]_vars PROVE QueueInvariant'
  OBVIOUS
<1>1. TypeOK'
  BY NextTypeOK DEF QueueInvariant
<1>2. RetryBudget' /\ CancelNotLost' /\ OwnerRunsLatestAttempt'
  <2>1. ASSUME NEW w \in Worker, Heartbeat(w)
        PROVE  RetryBudget' /\ CancelNotLost' /\ OwnerRunsLatestAttempt'
    BY <2>1 DEF QueueInvariant, Heartbeat, HeartbeatWorkerJob, RetryBudget,
                CancelNotLost, OwnerRunsLatestAttempt, Owns, rowVars, workerVars
  <2>2. ASSUME NEW w \in Worker, Abort(w)
        PROVE  RetryBudget' /\ CancelNotLost' /\ OwnerRunsLatestAttempt'
    BY <2>2 DEF QueueInvariant, Abort, RetryBudget, CancelNotLost,
                OwnerRunsLatestAttempt, Owns, rowVars
  <2>3. CASE Tick
    BY <2>3 DEF QueueInvariant, Tick, RetryBudget, CancelNotLost,
                OwnerRunsLatestAttempt, Owns, workerVars
  <2>4. CASE UNCHANGED vars
    BY <2>4 DEF QueueInvariant, RetryBudget, CancelNotLost,
                OwnerRunsLatestAttempt, Owns, vars, rowVars, workerVars
  <2>5. QED
    BY <2>1, <2>2, <2>3, <2>4, OperatorStep, ClaimStep, EndOfRunStep DEF Next
<1>3. QED
  BY <1>1, <1>2 DEF QueueInvariant

THEOREM QueueInvariantHolds == Spec => []QueueInvariant
BY InitQueueInvariant, NextQueueInvariant, PTL DEF Spec

\* failed <=> replayable, dead_letter <=> budget spent, for every max_attempts.
THEOREM RetryBudgetHolds == Spec => []RetryBudget
BY QueueInvariantHolds, PTL DEF QueueInvariant

\* No interleaving of cancel requests and completions reports "completed" for
\* a job whose cancellation was requested.
THEOREM CancelNotLostHolds == Spec => []CancelNotLost
BY QueueInvariantHolds, PTL DEF QueueInvariant

-----------------------------------------------------------------------------
(* Action properties.                                                      *)

LEMMA LatestAttemptStep ==
    ASSUME QueueInvariant, [Next]_vars, NEW j \in Job,
           status[j] = "processing", status'[j] # "processing"
    PROVE  \E w \in Worker : /\ running[w] = j
                             /\ runAttempt[w] = attempts[j]
                             /\ \A v \in Worker \ {w} : running'[v] = running[v]
<1>1. PICK w \in Worker : Complete(w) \/ CompleteUnheard(w) \/ Fail(w)
  <2>1. ASSUME NEW k \in Job, Enqueue(k) \/ RequestCancel(k) \/ RequeueFailed(k)
        PROVE  FALSE
    BY <2>1 DEF QueueInvariant, TypeOK, Enqueue, RequestCancel, RequeueFailed
  <2>2. ASSUME NEW w \in Worker, NEW skipped \in SUBSET Job, Claim(w, skipped)
        PROVE  FALSE
    BY <2>2 DEF QueueInvariant, TypeOK, Claim, ClaimWorkerJob
  <2>3. ASSUME NEW w \in Worker, Heartbeat(w) \/ Abort(w) \/ Crash(w)
        PROVE  FALSE
    BY <2>3 DEF Heartbeat, HeartbeatWorkerJob, Abort, Crash, rowVars
  <2>4. ~Tick /\ ~UNCHANGED vars
    BY DEF Tick, vars, rowVars
  <2>5. QED
    BY <2>1, <2>2, <2>3, <2>4 DEF Next
<1>2. running[w] = j /\ Owns(w, j)
  BY <1>1 DEF QueueInvariant, TypeOK, Complete, CompleteUnheard, Fail,
              CompleteWorkerJob, FailWorkerJob, Owns
<1>3. \A v \in Worker \ {w} : running'[v] = running[v]
  BY <1>1 DEF QueueInvariant, TypeOK, Complete, CompleteUnheard, Fail, Release, workerVars
<1>4. QED
  BY <1>2, <1>3, NoJobAssumption DEF QueueInvariant, OwnerRunsLatestAttempt

\* The outcome of a job is recorded by the process of its latest claim only,
\* however many former owners are still at work.
THEOREM LatestAttemptDecidesHolds == Spec => LatestAttemptDecides
<1>1. QueueInvariant /\ [Next]_vars =>
        [\A j \in Job :
            status[j] = "processing" /\ status'[j] # "processing" =>
                \E w \in Worker : /\ running[w] = j
                                  /\ runAttempt[w] = attempts[j]
                                  /\ \A v \in Worker \ {w} : running'[v] = running[v]]_vars
  BY LatestAttemptStep
<1>2. QED
  BY <1>1, QueueInvariantHolds, PTL DEF Spec, LatestAttemptDecides

LEMMA FinalStep ==
    ASSUME QueueInvariant, [Next]_vars, NEW j \in Job, status[j] \in Final
    PROVE  status'[j] = status[j] /\ attempts'[j] = attempts[j]
<1>1. ASSUME NEW k \in Job, Enqueue(k) \/ RequestCancel(k) \/ RequeueFailed(k)
      PROVE  status'[j] = status[j] /\ attempts'[j] = attempts[j]
  BY <1>1 DEF QueueInvariant, TypeOK, Enqueue, RequestCancel, RequeueFailed, Final
<1>2. ASSUME NEW w \in Worker, NEW skipped \in SUBSET Job, Claim(w, skipped)
      PROVE  status'[j] = status[j] /\ attempts'[j] = attempts[j]
  BY <1>2 DEF QueueInvariant, TypeOK, Claim, ClaimWorkerJob, Claimable, Final
<1>3. ASSUME NEW w \in Worker, Heartbeat(w) \/ Abort(w) \/ Crash(w)
      PROVE  status'[j] = status[j] /\ attempts'[j] = attempts[j]
  BY <1>3 DEF Heartbeat, HeartbeatWorkerJob, Abort, Crash, rowVars
<1>4. ASSUME NEW w \in Worker, Complete(w) \/ CompleteUnheard(w) \/ Fail(w)
      PROVE  status'[j] = status[j] /\ attempts'[j] = attempts[j]
  BY <1>4 DEF QueueInvariant, TypeOK, Complete, CompleteUnheard, Fail,
              CompleteWorkerJob, FailWorkerJob, Owns, Final
<1>5. CASE Tick \/ UNCHANGED vars
  BY <1>5 DEF Tick, vars, rowVars
<1>6. QED
  BY <1>1, <1>2, <1>3, <1>4, <1>5 DEF Next

\* completed, cancelled and dead_letter are left by no step.
THEOREM FinalIsFinalHolds == Spec => FinalIsFinal
<1>1. QueueInvariant /\ [Next]_vars =>
        [\A j \in Job : status[j] \in Final =>
            status'[j] = status[j] /\ attempts'[j] = attempts[j]]_vars
  BY FinalStep
<1>2. QED
  BY <1>1, QueueInvariantHolds, PTL DEF Spec, FinalIsFinal

=============================================================================
