------------------------------ MODULE Delivery ------------------------------
(* The delivery of one-time schedules: claiming due runs, the one Discord   *)
(* request each attempt may make, saving its result, finalizing the         *)
(* schedule, and the startup recovery of a later (or a concurrent) process. *)
(*                                                                          *)
(* A PostgreSQL transaction is one action.  What lies between two           *)
(* transactions of the same asyncio task (application/worker.py) is the     *)
(* task's "step", which a crash loses.  Every schedule here has one run, so *)
(* both are keyed by the run; rescheduling and recurrence are not part of   *)
(* this module.                                                             *)
EXTENDS Integers, FiniteSets

CONSTANTS
    Runs,           \* one-time occurrences, one per schedule
    Workers,        \* process incarnations: worker_id is a fresh UUID per start
    NoWorker,       \* claimed_by IS NULL
    MaxAttempts,    \* MAX_ATTEMPTS (4)
    ScheduledFor,   \* [Runs -> time] scheduled_for
    LeaseTimeout,   \* processing lease
    RetryDelay,     \* RETRY_DELAYS by attempt number
    MaxRetryAfter,  \* longest Retry-After Discord answers
    GracePeriod,    \* the 15 minutes of a delayed one-time post
    EditLead,       \* the 5 minutes an edit must precede the run
    BatchSize,      \* scheduler_batch_size
    MaxBatches,     \* MAX_STARTUP_RECOVERY_BATCHES (25)
    Contention,     \* may another transaction hold rows a SKIP LOCKED scan wants?
    MaxTime         \* bound of the clock, for TLC only

ASSUME RunsAssumption == IsFiniteSet(Runs)
ASSUME WorkerAssumption == NoWorker \notin Workers
ASSUME AttemptAssumption == MaxAttempts \in Nat \ {0}
ASSUME BatchAssumption == BatchSize \in Nat \ {0} /\ MaxBatches \in Nat \ {0}
ASSUME TimeAssumption ==
    /\ {LeaseTimeout, MaxRetryAfter} \subseteq Nat \ {0}
    /\ {GracePeriod, EditLead, MaxTime} \subseteq Nat
    /\ ScheduledFor \in [Runs -> Nat \ {0}]
    /\ RetryDelay \in [1..MaxAttempts -> Nat \ {0}]
ASSUME ContentionAssumption == Contention \in BOOLEAN

VARIABLES
    now,        \* the clock all processes read
    proc,       \* per process incarnation: startup phase, cutoff, batches done
    schedule,   \* schedules.status
    run,        \* schedule_runs
    attempt,    \* delivery_attempts, by attempt number
    outbox,     \* notification_logs: <<run, notification_type>>
    task,       \* volatile: where the asyncio task of an attempt stands
    post        \* Discord's side of an attempt's request

db   == <<schedule, run, attempt, outbox>>
vars == <<now, proc, db, task, post>>

Attempts == 1..MaxAttempts
Phases   == {"new", "recover_processing", "recover_pending", "recover_rest",
             "polling", "inert", "stopped"}
RunStatuses      == {"pending", "processing", "succeeded", "failed", "skipped"}
TerminalStatuses == {"succeeded", "failed", "skipped"}
ScheduleStatuses == {"draft", "active", "completed", "failed", "deleted"}
AttemptStatuses  == {"none", "claimed", "sending", "succeeded", "failed",
                     "unknown"}
EventTypes == {"run_failed", "run_skipped", "run_delayed", "recovery"}
Steps == {"none", "prepare", "send", "awaiting", "success", "unknown",
          "permanent", "transient", "finalize"}
Posts == {"none", "wire", "accepted", "refused"}

Process(phase, cutoff) == [phase |-> phase, cutoff |-> cutoff, batches |-> 0]
NoTask == [step |-> "none", retry_at |-> 0]

Init ==
    /\ now = 0
    /\ proc = [w \in Workers |-> Process("new", 0)]
    /\ schedule \in [Runs -> {"draft", "active"}]
    /\ run = [r \in Runs |->
                [status |-> "pending", attempt_count |-> 0,
                 next_attempt_at |-> ScheduledFor[r],
                 claimed_by |-> NoWorker, lease_expires_at |-> 0]]
    /\ attempt = [r \in Runs |-> [n \in Attempts |->
                    [status |-> "none", claimed_by |-> NoWorker]]]
    /\ outbox = {}
    /\ task = [r \in Runs |-> [n \in Attempts |-> NoTask]]
    /\ post = [r \in Runs |-> [n \in Attempts |-> "none"]]

-----------------------------------------------------------------------------
(* Helpers *)

Owner(r, n) == attempt[r][n].claimed_by
Step(r, n)  == task[r][n].step

(* poll_once gathers all tasks of a batch before the loop polls again. *)
Idle(w) == \A r \in Runs, n \in Attempts :
               Owner(r, n) = w => Step(r, n) = "none"

(* The columns _finish writes when a run leaves "processing". *)
Finished(r, status, retryAt) ==
    [run[r] EXCEPT !.status = status, !.next_attempt_at = retryAt,
                   !.claimed_by = NoWorker, !.lease_expires_at = 0]

(* Mutant: the run's own status is written into the schedule. *)
TargetAsRunStatus(runStatus) == runStatus

(* once_target_status *)
Target(runStatus) == IF runStatus = "succeeded" THEN "completed" ELSE "failed"

(* ScheduleExecutionService._finalize_once: the new schedule status.  Every *)
(* result but "applied" leaves the schedule as it is.                       *)
FinalizedSchedule(r, runStatus) ==
    IF schedule[r] = "active" THEN Target(runStatus) ELSE schedule[r]

(* ... and when it raises RepositoryStateConflictError. *)
FinalizeConflicts(r, runStatus) ==
    /\ schedule[r] \notin {"active", "deleted", Target(runStatus)}
    /\ ~(schedule[r] = "draft" /\ runStatus = "skipped")

(* next_run_at: a one-time schedule keeps it while it is draft or active. *)
PointsAtRun(r) == schedule[r] \in {"draft", "active"}

SetTask(r, n, step, retryAt) ==
    task' = [task EXCEPT ![r][n] = [step |-> step, retry_at |-> retryAt]]

SetAttempt(r, n, status) ==
    attempt' = [attempt EXCEPT ![r][n].status = status]

SetRun(r, status, retryAt) ==
    run' = [run EXCEPT ![r] = Finished(r, status, retryAt)]

-----------------------------------------------------------------------------
(* Time and processes *)

Tick == /\ now < MaxTime
        /\ now' = now + 1
        /\ UNCHANGED <<proc, db, task, post>>

(* on_ready: one recovery cutoff is read for the whole startup. *)
Start(w) ==
    /\ proc[w].phase = "new"
    /\ proc' = [proc EXCEPT ![w] = Process("recover_processing", now)]
    /\ UNCHANGED <<now, db, task, post>>

(* The process dies, or close() cancels its loops: its tasks are gone, the  *)
(* database and requests already on the wire are not.                       *)
Crash(w) ==
    /\ proc[w].phase \notin {"new", "stopped"}
    /\ proc' = [proc EXCEPT ![w] = Process("stopped", 0)]
    /\ task' = [r \in Runs |-> [n \in Attempts |->
                   IF Owner(r, n) = w THEN NoTask ELSE task[r][n]]]
    /\ UNCHANGED <<now, db, post>>

(* Any exception ends startup for good: _startup_attempted stays set, the   *)
(* process stays connected and its loops never start.                       *)
StartupFails(w) ==
    /\ proc[w].phase \in {"recover_processing", "recover_pending",
                            "recover_rest"}
    /\ proc' = [proc EXCEPT ![w] = Process("inert", 0)]
    /\ UNCHANGED <<now, db, task, post>>

-----------------------------------------------------------------------------
(* Startup recovery: one transaction per batch, at the fixed cutoff *)

(* What a LIMIT BatchSize ... FOR UPDATE SKIP LOCKED scan can return. *)
Selections(candidates) ==
    {S \in SUBSET candidates :
        /\ Cardinality(S) <= BatchSize
        /\ \/ Contention
           \/ Cardinality(S) = BatchSize
           \/ S = candidates}

(* Mutant: the batch is compared with its limit in the wrong direction. *)
AfterOversizedBatch(p, size, next) ==
    IF size > BatchSize THEN Process(next, p.cutoff) ELSE p

(* A short batch ends the phase; the last batch allowed must be short. *)
AfterBatch(p, size, next) ==
    CASE size < BatchSize ->
            Process(next, p.cutoff)
      [] size >= BatchSize /\ p.batches + 1 < MaxBatches ->
            [p EXCEPT !.batches = p.batches + 1]
      [] OTHER ->
            Process("inert", 0)

(* Mutant: every processing run is taken for a dead worker's. *)
AnyProcessing(cutoff) == {r \in Runs : run[r].status = "processing"}

ExpiredProcessing(cutoff) ==
    {r \in Runs : run[r].status = "processing"
                    /\ run[r].lease_expires_at <= cutoff}

(* _is_consistent: the latest attempt is the counted one, of the same       *)
(* worker, and still open (or already unknown).                             *)
IsConsistent(r) ==
    \E n \in Attempts :
        /\ n = run[r].attempt_count
        /\ attempt[r][n].status \in {"claimed", "sending", "unknown"}
        /\ attempt[r][n].claimed_by = run[r].claimed_by
        /\ \A m \in Attempts : m > n => attempt[r][m].status = "none"

(* Mutant: an attempt being sent is taken for one not yet sent. *)
InterruptedWhileOpen(r) ==
    /\ IsConsistent(r)
    /\ attempt[r][run[r].attempt_count].status \in {"claimed", "sending"}

InterruptedBeforeSend(r) ==
    IsConsistent(r) /\ attempt[r][run[r].attempt_count].status = "claimed"

ReturnsToPending(r) ==
    InterruptedBeforeSend(r) /\ run[r].attempt_count < MaxAttempts

RecoveredRun(r, cutoff) ==
    IF ReturnsToPending(r)
    THEN Finished(r, "pending", cutoff + RetryDelay[run[r].attempt_count])
    ELSE Finished(r, "failed", 0)

(* Mutant: only the attempts of runs given up are closed. *)
RecoveredAttemptsOfFailed(r) ==
    IF IsConsistent(r) /\ ~ReturnsToPending(r)
    THEN [attempt[r] EXCEPT ![run[r].attempt_count].status = "unknown"]
    ELSE attempt[r]

RecoveredAttempts(r) ==
    IF IsConsistent(r)
    THEN [attempt[r] EXCEPT ![run[r].attempt_count].status =
              IF InterruptedBeforeSend(r) THEN "failed" ELSE "unknown"]
    ELSE attempt[r]

(* Mutant: only an inconsistency is reported. *)
RecoveryEventsIfBroken(r) ==
    IF ReturnsToPending(r) \/ IsConsistent(r) THEN {} ELSE {<<r, "recovery">>}

RecoveryEvents(r) ==
    IF ReturnsToPending(r) THEN {}
    ELSE {<<r, IF IsConsistent(r) THEN "run_failed" ELSE "recovery">>}

(* recover_expired: the whole batch commits, or (StartupFails) none of it. *)
RecoverProcessing(w) ==
    LET cutoff == proc[w].cutoff IN
    /\ proc[w].phase = "recover_processing"
    /\ \E S \in Selections(ExpiredProcessing(cutoff)) :
          /\ \A r \in S : ReturnsToPending(r) \/ ~FinalizeConflicts(r, "failed")
          /\ run' = [r \in Runs |->
                IF r \in S THEN RecoveredRun(r, cutoff) ELSE run[r]]
          /\ attempt' = [r \in Runs |->
                IF r \in S THEN RecoveredAttempts(r) ELSE attempt[r]]
          /\ schedule' = [r \in Runs |->
                IF r \in S /\ ~ReturnsToPending(r)
                THEN FinalizedSchedule(r, "failed") ELSE schedule[r]]
          /\ outbox' = outbox \cup (UNION {RecoveryEvents(r) : r \in S})
          /\ proc' = [proc EXCEPT ![w] =
                AfterBatch(proc[w], Cardinality(S), "recover_pending")]
    /\ UNCHANGED <<now, task, post>>

(* The attempts of a pending run, when counted and all failed. *)
AttemptsAllFailed(r) ==
    \A n \in Attempts :
        attempt[r][n].status = IF n <= run[r].attempt_count THEN "failed"
                               ELSE "none"

HealthyRetry(r) ==
    /\ run[r].attempt_count \in 1..(MaxAttempts - 1)
    /\ AttemptsAllFailed(r)
    /\ PointsAtRun(r)

(* Mutant: no grace period limits a late first attempt. *)
HealthyHoweverLate(r, cutoff) ==
    run[r].attempt_count = 0 /\ AttemptsAllFailed(r) /\ schedule[r] = "active"

HealthyDelayedOnce(r, cutoff) ==
    /\ run[r].attempt_count = 0 /\ AttemptsAllFailed(r)
    /\ ScheduledFor[r] + GracePeriod >= cutoff
    /\ schedule[r] = "active"

StartupPending(cutoff) ==
    {r \in Runs : /\ run[r].status = "pending"
                  /\ ScheduledFor[r] <= cutoff
                  /\ ~HealthyRetry(r)
                  /\ ~HealthyDelayedOnce(r, cutoff)}

StartupDelayed(cutoff) ==
    {r \in Runs : /\ run[r].status = "pending"
                  /\ ScheduledFor[r] <= cutoff
                  /\ HealthyDelayedOnce(r, cutoff)
                  /\ <<r, "run_delayed">> \notin outbox}

(* _inconsistent *)
PendingInconsistent(r) ==
    run[r].attempt_count = MaxAttempts \/ ~AttemptsAllFailed(r)

(* PendingStartupRecoveryService._recover_one, for a selected one-time run: *)
(* only a healthy delayed run stays pending.                                *)
PendingOutcome(r) ==
    IF PointsAtRun(r) /\ PendingInconsistent(r) THEN "failed" ELSE "skipped"

PendingEvents(r) ==
    CASE ~PointsAtRun(r)        -> {}
      [] PointsAtRun(r) /\ PendingInconsistent(r) -> {<<r, "recovery">>}
      [] OTHER -> {<<r, IF schedule[r] = "draft" THEN "run_skipped"
                                                 ELSE "run_failed">>}

RecoverPending(w) ==
    LET cutoff == proc[w].cutoff IN
    /\ proc[w].phase = "recover_pending"
    /\ \E S \in Selections(StartupPending(cutoff)),
          D \in SUBSET StartupDelayed(cutoff) :
          /\ Cardinality(S) + Cardinality(D) <= BatchSize
          /\ \/ Contention
             \/ Cardinality(S) + Cardinality(D) = BatchSize
             \/ D = StartupDelayed(cutoff)
          /\ run' = [r \in Runs |->
                IF r \in S THEN Finished(r, PendingOutcome(r), 0) ELSE run[r]]
          /\ schedule' = [r \in Runs |->
                IF r \in S /\ schedule[r] = "active" THEN "failed"
                ELSE schedule[r]]
          /\ outbox' = outbox \cup (UNION {PendingEvents(r) : r \in S})
                              \cup {<<r, "run_delayed">> : r \in D}
          /\ proc' = [proc EXCEPT ![w] =
                AfterBatch(proc[w], Cardinality(S) + Cardinality(D),
                           "recover_rest")]
    /\ UNCHANGED <<now, attempt, task, post>>

(* What is left of startup touches none of these rows (notifications and    *)
(* name generation); then the loops start.                                  *)
StartLoops(w) ==
    /\ proc[w].phase = "recover_rest"
    /\ proc' = [proc EXCEPT ![w] = Process("polling", proc[w].cutoff)]
    /\ UNCHANGED <<now, db, task, post>>

-----------------------------------------------------------------------------
(* The polling worker *)

(* Mutant: off by one, the last attempt is never taken. *)
DueButLast == {r \in Runs : /\ run[r].status = "pending"
                            /\ ScheduledFor[r] <= now
                            /\ run[r].next_attempt_at <= now
                            /\ run[r].attempt_count + 1 < MaxAttempts
                            /\ PointsAtRun(r)}

Due == {r \in Runs : /\ run[r].status = "pending"
                     /\ ScheduledFor[r] <= now
                     /\ run[r].next_attempt_at <= now
                     /\ run[r].attempt_count < MaxAttempts
                     /\ PointsAtRun(r)}

(* claim_due; an empty claim changes nothing. *)
Claim(w) ==
    /\ proc[w].phase = "polling"
    /\ Idle(w)
    /\ \E S \in Selections(Due) \ {{}} :
          /\ run' = [r \in Runs |->
                IF r \in S
                THEN [status |-> "processing",
                      attempt_count |-> run[r].attempt_count + 1,
                      next_attempt_at |-> 0, claimed_by |-> w,
                      lease_expires_at |-> now + LeaseTimeout]
                ELSE run[r]]
          /\ attempt' = [r \in Runs |-> [n \in Attempts |->
                IF r \in S /\ n = run[r].attempt_count + 1
                THEN [status |-> "claimed", claimed_by |-> w]
                ELSE attempt[r][n]]]
          /\ task' = [r \in Runs |-> [n \in Attempts |->
                IF r \in S /\ n = run[r].attempt_count + 1
                THEN [step |-> "prepare", retry_at |-> 0]
                ELSE task[r][n]]]
    /\ UNCHANGED <<now, proc, schedule, outbox, post>>

(* The conditional UPDATEs: the run is processing and claimed by this       *)
(* attempt's worker, the attempt is in an expected status.                  *)
Holds(r, n, expected) ==
    /\ run[r].status = "processing"
    /\ run[r].claimed_by = Owner(r, n)
    /\ attempt[r][n].status \in expected

(* _prepare reads the clock before it waits for the row locks, so the time  *)
(* it compares with the lease may be any since the claim.                   *)
LeaseHeld(r) ==
    \E readAt \in (run[r].lease_expires_at - LeaseTimeout)..now :
        run[r].lease_expires_at >= readAt

(* Mutant: the claim is not checked again before the attempt is opened. *)
PrepareSendUnchecked(r, n) ==
    /\ Step(r, n) = "prepare"
    /\ schedule[r] = "active"
    /\ SetAttempt(r, n, "sending")
    /\ SetTask(r, n, "send", 0)
    /\ UNCHANGED <<now, proc, schedule, run, outbox, post>>

PrepareSend(r, n) ==
    /\ Step(r, n) = "prepare"
    /\ Holds(r, n, {"claimed"}) /\ LeaseHeld(r)
    /\ schedule[r] = "active"
    /\ SetAttempt(r, n, "sending")
    /\ SetTask(r, n, "send", 0)
    /\ UNCHANGED <<now, proc, schedule, run, outbox, post>>

PrepareSkip(r, n) ==
    /\ Step(r, n) = "prepare"
    /\ Holds(r, n, {"claimed"}) /\ LeaseHeld(r)
    /\ schedule[r] \in {"draft", "deleted"}
    /\ SetAttempt(r, n, "failed")
    /\ SetRun(r, "skipped", 0)
    /\ outbox' = outbox \cup (IF schedule[r] = "draft"
                              THEN {<<r, "run_skipped">>} ELSE {})
    /\ SetTask(r, n, "finalize", 0)
    /\ UNCHANGED <<now, proc, schedule, post>>

(* The one HTTP request of the attempt. *)
Send(r, n) ==
    /\ Step(r, n) = "send"
    /\ post' = [post EXCEPT ![r][n] = "wire"]
    /\ SetTask(r, n, "awaiting", 0)
    /\ UNCHANGED <<now, proc, db>>

(* The gateway refuses from its cache, or discord.RateLimited is raised,     *)
(* without a request.                                                        *)
SendRefusedLocally(r, n) ==
    /\ Step(r, n) = "send"
    /\ \/ SetTask(r, n, "permanent", 0)
       \/ \E delay \in 1..MaxRetryAfter :
             SetTask(r, n, "transient", now + delay)
    /\ UNCHANGED <<now, proc, db, post>>

(* Discord decides, whether or not anybody still waits for the answer. *)
Discord(r, n) ==
    /\ post[r][n] = "wire"
    /\ \E verdict \in {"accepted", "refused"} :
          post' = [post EXCEPT ![r][n] = verdict]
    /\ UNCHANGED <<now, proc, db, task>>

ReplyAccepted(r, n) ==
    /\ Step(r, n) = "awaiting" /\ post[r][n] = "accepted"
    /\ SetTask(r, n, "success", 0)
    /\ UNCHANGED <<now, proc, db, post>>

(* 4xx, or 429 with a Retry-After; the gateway makes retry_at from its clock. *)
ReplyRefused(r, n) ==
    /\ Step(r, n) = "awaiting" /\ post[r][n] = "refused"
    /\ \/ SetTask(r, n, "permanent", 0)
       \/ \E delay \in 1..MaxRetryAfter :
             SetTask(r, n, "transient", now + delay)
    /\ UNCHANGED <<now, proc, db, post>>

(* Mutant: a 5xx or a broken connection counts as a temporary failure. *)
ReplyTransient(r, n) ==
    /\ Step(r, n) = "awaiting"
    /\ SetTask(r, n, "transient", now + 1)
    /\ UNCHANGED <<now, proc, db, post>>

(* 5xx, a broken connection, an unusable message id: nobody can tell. *)
ReplyUnknown(r, n) ==
    /\ Step(r, n) = "awaiting"
    /\ SetTask(r, n, "unknown", 0)
    /\ UNCHANGED <<now, proc, db, post>>

SaveSuccess(r, n) ==
    /\ Step(r, n) = "success"
    /\ Holds(r, n, {"sending"})
    /\ SetAttempt(r, n, "succeeded")
    /\ SetRun(r, "succeeded", 0)
    /\ SetTask(r, n, "finalize", 0)
    /\ UNCHANGED <<now, proc, schedule, outbox, post>>

(* _save_failure with a transient error before the last attempt; decide_retry *)
(* raises when retry_at has passed by the time it looks (see Raise).          *)
SaveRetry(r, n) ==
    /\ Step(r, n) = "transient" /\ n < MaxAttempts
    /\ task[r][n].retry_at > now
    /\ Holds(r, n, {"claimed", "sending"})
    /\ SetAttempt(r, n, "failed")
    /\ SetRun(r, "pending", task[r][n].retry_at)
    /\ SetTask(r, n, "none", 0)
    /\ UNCHANGED <<now, proc, schedule, outbox, post>>

(* _save_failure, final: permanent, the last attempt, or a retry_at that had *)
(* passed already when _process looked ("invalid_rate_limit").               *)
SaveFailure(r, n) ==
    /\ \/ Step(r, n) = "permanent"
       \/ Step(r, n) = "transient" /\ n = MaxAttempts
       \/ Step(r, n) = "transient" /\ task[r][n].retry_at <= now
    /\ Holds(r, n, {"claimed", "sending"})
    /\ SetAttempt(r, n, "failed")
    /\ SetRun(r, "failed", 0)
    /\ outbox' = outbox \cup {<<r, "run_failed">>}
    /\ SetTask(r, n, "finalize", 0)
    /\ UNCHANGED <<now, proc, schedule, post>>

(* Mutant: the attempt with an unknown result is saved as failed. *)
SaveUnknownAsFailed(r, n) ==
    /\ Step(r, n) = "unknown"
    /\ Holds(r, n, {"sending"})
    /\ SetAttempt(r, n, "failed")
    /\ SetRun(r, "failed", 0)
    /\ outbox' = outbox \cup {<<r, "run_failed">>}
    /\ SetTask(r, n, "finalize", 0)
    /\ UNCHANGED <<now, proc, schedule, post>>

SaveUnknown(r, n) ==
    /\ Step(r, n) = "unknown"
    /\ Holds(r, n, {"sending"})
    /\ SetAttempt(r, n, "unknown")
    /\ SetRun(r, "failed", 0)
    /\ outbox' = outbox \cup {<<r, "run_failed">>}
    /\ SetTask(r, n, "finalize", 0)
    /\ UNCHANGED <<now, proc, schedule, post>>

(* _finalize, in a transaction of its own. *)
Finalize(r, n) ==
    /\ Step(r, n) = "finalize"
    /\ run[r].status \in TerminalStatuses
    /\ schedule' = [schedule EXCEPT ![r] =
                       FinalizedSchedule(r, run[r].status)]
    /\ SetTask(r, n, "none", 0)
    /\ UNCHANGED <<now, proc, run, attempt, outbox, post>>

(* _guarded_process: a transaction that is refused (stale claim, expired    *)
(* lease, past retry_at) or fails with the database ends the task and       *)
(* leaves every row as it was.                                              *)
Raise(r, n) ==
    /\ Step(r, n) \notin {"none", "awaiting"}
    /\ SetTask(r, n, "none", 0)
    /\ UNCHANGED <<now, proc, db, post>>

-----------------------------------------------------------------------------
(* User commands; they do not wait for startup recovery *)

(* ScheduleEditingService.edit of the content: setting it activates a draft, *)
(* clearing it makes a draft.                                                *)
CanEdit(r) ==
    /\ PointsAtRun(r)
    /\ ScheduledFor[r] >= now + EditLead
    /\ run[r].status = "pending"
    /\ \A n \in Attempts : attempt[r][n].status \notin {"claimed", "sending"}

EditContent(r) ==
    /\ CanEdit(r)
    /\ schedule' = [schedule EXCEPT ![r] =
                       IF schedule[r] = "draft" THEN "active" ELSE "draft"]
    /\ UNCHANGED <<now, proc, run, attempt, outbox, task, post>>

(* Mutant: the runs are not looked at. *)
CanDeleteAnyRun(r) == schedule[r] \in {"draft", "active", "failed"}

(* ScheduleDeletionService._validate *)
CanDelete(r) ==
    /\ schedule[r] \in {"draft", "active", "failed"}
    /\ run[r].status # "processing"
    /\ PointsAtRun(r) => run[r].status = "pending"

(* Mutant: every run is skipped, not only the pending one. *)
DeleteSkippingAll(r) ==
    /\ CanDelete(r)
    /\ schedule' = [schedule EXCEPT ![r] = "deleted"]
    /\ SetRun(r, "skipped", 0)
    /\ UNCHANGED <<now, proc, attempt, outbox, task, post>>

Delete(r) ==
    /\ CanDelete(r)
    /\ schedule' = [schedule EXCEPT ![r] = "deleted"]
    /\ run' = [run EXCEPT ![r] = IF run[r].status = "pending"
                                 THEN Finished(r, "skipped", 0) ELSE run[r]]
    /\ UNCHANGED <<now, proc, attempt, outbox, task, post>>

-----------------------------------------------------------------------------
(* _recover_and_start: its next batch commits or raises. *)
StartupStep(w) == \/ RecoverProcessing(w) \/ RecoverPending(w)
                  \/ StartLoops(w) \/ StartupFails(w)

TaskStep(r, n) ==
    \/ PrepareSend(r, n) \/ PrepareSkip(r, n)
    \/ Send(r, n) \/ SendRefusedLocally(r, n)
    \/ ReplyAccepted(r, n) \/ ReplyRefused(r, n) \/ ReplyUnknown(r, n)
    \/ SaveSuccess(r, n) \/ SaveRetry(r, n) \/ SaveFailure(r, n)
    \/ SaveUnknown(r, n) \/ Finalize(r, n) \/ Raise(r, n)

Next ==
    \/ Tick
    \/ \E w \in Workers :
          Start(w) \/ Crash(w) \/ StartupStep(w) \/ Claim(w)
    \/ \E r \in Runs, n \in Attempts : TaskStep(r, n) \/ Discord(r, n)
    \/ \E r \in Runs : EditContent(r) \/ Delete(r)

Spec == Init /\ [][Next]_vars

-----------------------------------------------------------------------------
(* Fairness.  The asyncio loop runs every ready task and the tasks.loop      *)
(* timer fires again and again; the HTTP client gives up on a request in     *)
(* finite time.  A startup batch commits, or raises when it would finalize a *)
(* conflicting schedule.  Nothing promises that a process is started, that   *)
(* Discord decides, that a user acts, or that the database ever fails.       *)
StartupRaises(w) ==
    /\ proc[w].phase = "recover_processing"
    /\ \E r \in ExpiredProcessing(proc[w].cutoff) :
          ~ReturnsToPending(r) /\ FinalizeConflicts(r, "failed")
    /\ StartupFails(w)

Fairness ==
    /\ WF_vars(Tick)
    /\ \A w \in Workers :
          /\ WF_vars(RecoverProcessing(w) \/ RecoverPending(w) \/ StartLoops(w))
          /\ WF_vars(StartupRaises(w))
          /\ WF_vars(Claim(w))
    /\ \A r \in Runs, n \in Attempts : WF_vars(TaskStep(r, n))

FairSpec == Spec /\ Fairness

-----------------------------------------------------------------------------
(* Properties *)

ProcessRecord == [phase : Phases, cutoff : Nat, batches : Nat]
RunRow == [status : RunStatuses, attempt_count : 0..MaxAttempts,
           next_attempt_at : Nat, claimed_by : Workers \cup {NoWorker},
           lease_expires_at : Nat]
AttemptRow == [status : AttemptStatuses, claimed_by : Workers \cup {NoWorker}]
TaskRecord == [step : Steps, retry_at : Nat]

(* Every variable keeps the shape of its tables, tasks and processes. *)
TypeOK ==
    /\ now \in Nat
    /\ proc \in [Workers -> ProcessRecord]
    /\ schedule \in [Runs -> ScheduleStatuses]
    /\ run \in [Runs -> RunRow]
    /\ attempt \in [Runs -> [Attempts -> AttemptRow]]
    /\ outbox \subseteq Runs \X EventTypes
    /\ task \in [Runs -> [Attempts -> TaskRecord]]
    /\ post \in [Runs -> [Attempts -> Posts]]

(* Discord holds, or may still come to hold, the request of this attempt. *)
MayBePosted(r, n) == post[r][n] \in {"wire", "accepted"}

(* No occurrence is posted twice: whatever crashes, stale workers, retries  *)
(* and concurrent processes do, at most one attempt of a run has a request  *)
(* that Discord accepted or still may accept.                               *)
AtMostOncePost ==
    \A r \in Runs : \A m, n \in Attempts :
        MayBePosted(r, m) /\ MayBePosted(r, n) => m = n

(* A run that waits for an attempt was not posted, and no task, not even of *)
(* a process whose lease was taken away, is about to post it.               *)
WaitingMeansUnsent ==
    \A r \in Runs : run[r].status = "pending" =>
        \A n \in Attempts : /\ ~MayBePosted(r, n)
                             /\ Step(r, n) \notin {"send", "awaiting", "success"}

(* What the record says of a settled run is what happened on Discord: a     *)
(* success was accepted, a skipped run was never sent, and a failure all of *)
(* whose attempts are "failed" (none "unknown") did not reach the channel.  *)
OutcomeMatchesDiscord ==
    \A r \in Runs :
        /\ run[r].status = "succeeded" =>
              \E n \in Attempts : post[r][n] = "accepted"
        /\ run[r].status = "skipped" =>
              \A n \in Attempts : ~MayBePosted(r, n)
        /\ run[r].status = "failed" =>
              \/ \E n \in Attempts : attempt[r][n].status = "unknown"
              \/ \A n \in Attempts : ~MayBePosted(r, n)

(* The sanity checks of both startup recoveries are never what decides: in  *)
(* every state a crash can leave, a processing run and its latest attempt   *)
(* agree, and a pending run has exactly its counted, failed attempts.       *)
RecoveryFindsNoInconsistency ==
    \A r \in Runs :
        /\ run[r].status = "processing" => IsConsistent(r)
        /\ run[r].status = "pending" /\ PointsAtRun(r) =>
              ~PendingInconsistent(r)

(* Whoever settles a run also records, in the same transaction, the event   *)
(* the operator is told by: a failed run, the skipped run of a draft, and a *)
(* schedule given up at startup each have theirs.                           *)
EverySettlementReported ==
    \A r \in Runs :
        /\ run[r].status = "failed" => <<r, "run_failed">> \in outbox
        /\ run[r].status = "skipped" /\ schedule[r] = "draft" =>
              <<r, "run_skipped">> \in outbox
        /\ schedule[r] = "failed" => <<r, "run_failed">> \in outbox

(* Schedules and runs are written by different transactions of different    *)
(* actors (finalization, recovery, edit, delete) and still never disagree:  *)
(* a final schedule has the run that made it so, an open run has a schedule *)
(* that still points at it, and only an active schedule's run is sent.      *)
ScheduleAgreesWithRun ==
    \A r \in Runs :
        /\ schedule[r] = "completed" => run[r].status = "succeeded"
        /\ schedule[r] = "failed" => run[r].status \in {"failed", "skipped"}
        /\ run[r].status \in {"pending", "processing"} => PointsAtRun(r)
        /\ \A n \in Attempts :
              attempt[r][n].status = "sending" => schedule[r] = "active"

(* A settled run stays settled: no stale worker, late answer or recovery    *)
(* rewrites its result.                                                     *)
TerminalIsFinal ==
    [][\A r \in Runs : run[r].status \in TerminalStatuses =>
                          run'[r].status = run[r].status]_vars

(* Until its lease expires, a claimed run is changed only by the task that  *)
(* claimed it.                                                              *)
LiveLeaseRespected ==
    [][\A r \in Runs :
         run[r].status = "processing" /\ run'[r] # run[r] =>
            \/ run[r].lease_expires_at <= now
            \/ \E n \in Attempts : /\ Owner(r, n) = run[r].claimed_by
                                    /\ task'[r][n] # task[r][n]]_vars

(* The promise of PublishOnce, kept: what the rows and Discord show of a run *)
(* is one of its occurrences, and every step of any actor one of its steps.  *)
RecordedState(r) ==
    CASE run[r].status = "pending"    -> "waiting"
      [] run[r].status = "processing" -> "owned"
      [] run[r].status = "succeeded"  -> "delivered"
      [] run[r].status = "skipped"    -> "undelivered"
      [] run[r].status = "failed"     ->
            IF \E n \in Attempts : attempt[r][n].status = "unknown"
            THEN "undetermined" ELSE "undelivered"

Publication(r) ==
    IF \E n \in Attempts : post[r][n] = "accepted" THEN "done"
    ELSE IF \E n \in Attempts : post[r][n] = "wire" THEN "possible"
    ELSE "never"

Occurrences == INSTANCE PublishOnce
    WITH state <- [r \in Runs |-> RecordedState(r)],
         publication <- [r \in Runs |-> Publication(r)]

(* Delivery implements PublishOnce. *)
PublishesOnce == Occurrences!Spec

(* A process that starts polling has left nothing behind: no claim that had *)
(* expired when it started is still open, and no one-time run is pending    *)
(* that was overdue beyond the grace period (retries excepted).  Holds only *)
(* when no other transaction holds a row while it is scanned.               *)
RecoveryIsComplete ==
    \A w \in Workers, r \in Runs : proc[w].phase = "polling" =>
        /\ run[r].status = "processing" =>
              run[r].lease_expires_at > proc[w].cutoff
        /\ run[r].status = "pending" /\ run[r].attempt_count = 0 =>
              ScheduledFor[r] + GracePeriod >= proc[w].cutoff

(* Startup comes to an end: the loops run, or startup failed for good. *)
StartupEnds ==
    \A w \in Workers :
        proc[w].phase \in {"recover_processing", "recover_pending",
                           "recover_rest"} ~>
            proc[w].phase \in {"polling", "inert", "stopped"}

(* While some process keeps polling, a due run is not left waiting: a hung  *)
(* or failing sibling of the same batch delays it, but not for ever.        *)
DueRunIsTaken ==
    \A r \in Runs :
        /\ run[r].status = "pending" /\ run[r].next_attempt_at <= now
        /\ \E w \in Workers : proc[w].phase = "polling"
        ~> \/ run[r].status # "pending"
           \/ \A w \in Workers : proc[w].phase # "polling"

(* docs/technical-design-beta.md:656 and docs/requirements-beta.md:296: the  *)
(* final result of a one-time run makes its schedule failed or completed,    *)
(* and (:303) startup reads unfinished work back.  So a settled run that no  *)
(* task is finalizing any more, found by a process that is starting, has its *)
(* schedule finalized, unless that startup fails or the process stops.       *)
StartupFinalizesSettledRuns ==
    \A w \in Workers, r \in Runs :
        /\ proc[w].phase = "recover_processing"
        /\ run[r].status \in TerminalStatuses
        /\ \A n \in Attempts : Step(r, n) = "none"
        /\ schedule[r] = "active"
        ~> \/ schedule[r] # "active"
           \/ proc[w].phase \in {"inert", "stopped"}

(* docs/requirements-beta.md:149 and :247: a draft can be deleted; a        *)
(* one-time draft whose time has passed is kept for its creator to edit or  *)
(* delete.  Only a run being processed may stand in the way.                *)
OverdueDraftCanBeDeleted ==
    \A r \in Runs :
        schedule[r] = "draft" /\ run[r].status # "processing" => CanDelete(r)

-----------------------------------------------------------------------------
(* The inductive invariant of DeliveryProofs *)

(* Attempts are numbered without gaps; all but the latest have failed. *)
NumberingInv(r, n) ==
    /\ n > run[r].attempt_count => attempt[r][n].status = "none"
    /\ n < run[r].attempt_count => attempt[r][n].status = "failed"

(* The status of a run determines what its latest attempt may be. *)
LatestInv(r, n) ==
    n = run[r].attempt_count =>
        /\ run[r].status \in {"pending", "skipped"} =>
              attempt[r][n].status = "failed"
        /\ run[r].status = "processing" =>
              /\ attempt[r][n].status \in {"claimed", "sending"}
              /\ attempt[r][n].claimed_by = run[r].claimed_by
        /\ run[r].status = "succeeded" => attempt[r][n].status = "succeeded"
        /\ run[r].status = "failed" =>
              attempt[r][n].status \in {"failed", "unknown"}

(* The status of an attempt bounds what its task may still do and what      *)
(* Discord may hold, also when the task's claim was taken from it.          *)
RequestInv(r, n) ==
    /\ attempt[r][n].status = "none" =>
          Step(r, n) = "none" /\ post[r][n] = "none"
    /\ attempt[r][n].status = "claimed" =>
          Step(r, n) \in {"none", "prepare"} /\ post[r][n] = "none"
    /\ attempt[r][n].status = "succeeded" =>
          Step(r, n) \in {"none", "finalize"} /\ post[r][n] = "accepted"
    /\ attempt[r][n].status = "failed" =>
          /\ Step(r, n) \in {"none", "prepare", "finalize"}
          /\ post[r][n] \in {"none", "refused"}
    /\ attempt[r][n].status \in {"sending", "unknown"} =>
          Step(r, n) # "prepare"

StepInv(r, n) ==
    /\ Step(r, n) = "send" => post[r][n] = "none"
    /\ Step(r, n) = "success" => post[r][n] = "accepted"
    /\ Step(r, n) \in {"permanent", "transient"} =>
          post[r][n] \in {"none", "refused"}

(* A run without attempts was never taken; a waiting one has attempts left. *)
CountInv(r) ==
    /\ run[r].attempt_count = 0 => run[r].status \in {"pending", "skipped"}
    /\ run[r].status = "pending" => run[r].attempt_count < MaxAttempts

(* A draft or active schedule's run is skipped only in the transaction that *)
(* leaves the schedule draft, failed or deleted.                            *)
SkipInv(r) == run[r].status = "skipped" => schedule[r] # "active"

DeliveryInv ==
    \A r \in Runs :
        /\ CountInv(r) /\ SkipInv(r)
        /\ \A n \in Attempts : /\ NumberingInv(r, n) /\ LatestInv(r, n)
                                /\ RequestInv(r, n) /\ StepInv(r, n)
=============================================================================
