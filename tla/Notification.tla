---------------------------- MODULE Notification ----------------------------
(* The notification outbox: reminders about drafts and reports about runs,   *)
(* the worker that claims and sends them, the fallback from route to route,  *)
(* and what startup does with the notices an earlier process left.           *)
(*                                                                           *)
(* As in Delivery, a PostgreSQL transaction is one action, and the place of  *)
(* an asyncio task between two of them is its "step", which a crash loses.   *)
(* Of a schedule only the occurrence it points at is modelled (Recurring has *)
(* the rest); its runs end as Delivery says, here in one step each.  Notices *)
(* of kind "recovery" need rows that contradict each other, which Delivery   *)
(* shows do not arise; notices without a run are outside this module.        *)
EXTENDS Integers, FiniteSets

CONSTANTS
    Runs,           \* occurrences, one per schedule
    Kinds,          \* [Runs -> notification types] raised in this instance
    Workers,        \* process incarnations
    NoWorker,       \* claimed_by IS NULL
    MaxAttempts,    \* MAX_NOTIFICATION_ATTEMPTS (3)
    ScheduledFor,   \* [Runs -> time] scheduled_for
    Day, Hour,      \* the two reminder thresholds
    EditLead,       \* the 5 minutes an edit must precede the run
    GracePeriod,    \* the 15 minutes of a delayed one-time post
    LeaseTimeout,   \* processing lease
    RetryDelay,     \* NOTIFICATION_RETRY_DELAYS by attempt number
    MaxRetryAfter,  \* longest Retry-After Discord answers
    BatchSize,      \* notification_batch_size
    MaxBatches,     \* MAX_STARTUP_RECOVERY_BATCHES (25)
    Contention,     \* may another transaction hold rows a SKIP LOCKED scan wants?
    MaxTime,        \* bound of the clock, for TLC only
    MaxClaims,      \* [Runs -> bound of the claims ever made], for TLC only
    MaxSchedules    \* bound of the schedules created, for TLC only

DraftKinds == {"draft_24h", "draft_1h", "draft_immediate"}
EventKinds == {"run_failed", "run_delayed", "run_skipped"}

ASSUME WorkerAssumption == NoWorker \notin Workers
(* Whoever follows the notice of a run's delay follows that of its failure,  *)
(* which takes its place.                                                    *)
ASSUME KindAssumption ==
    /\ Kinds \in [Runs -> SUBSET (DraftKinds \cup EventKinds)]
    /\ \A r \in Runs : "run_delayed" \in Kinds[r] => "run_failed" \in Kinds[r]
ASSUME AttemptAssumption == MaxAttempts \in Nat \ {0}
ASSUME BatchAssumption == BatchSize \in Nat \ {0} /\ MaxBatches \in Nat \ {0}
ASSUME TimeAssumption ==
    /\ {LeaseTimeout, MaxRetryAfter, Day, Hour} \subseteq Nat \ {0}
    /\ {GracePeriod, EditLead, MaxTime} \subseteq Nat
    /\ Hour <= Day
    /\ ScheduledFor \in [Runs -> Nat \ {0}]
    /\ RetryDelay \in [1..MaxAttempts -> Nat \ {0}]
ASSUME ContentionAssumption == Contention \in BOOLEAN

VARIABLES
    now,        \* the clock all processes read
    proc,       \* per process incarnation: startup phase, cutoff, batches done
    schedule,   \* schedules: status, and whether there is content
    run,        \* schedule_runs.status and result_code
    log,        \* notification_logs: the rows there are, by deduplication key
    attempt,    \* notification_attempts: by key and attempt number
    task,       \* volatile: where the asyncio task of each attempt stands
    wire        \* Discord's side of each attempt's request

db   == <<schedule, run, log, attempt>>
vars == <<now, proc, db, task, wire>>

Attempts == 1..MaxAttempts
Phases   == {"new", "runs", "notifications", "bootstrap", "polling", "over"}
ScheduleStatuses == {"absent", "draft", "active", "paused", "closed"}
RunStatuses == {"pending", "processing", "succeeded", "failed",
                "startup_overdue", "draft_without_content", "skipped"}
LogStatuses == {"pending", "processing", "succeeded", "failed",
                "unknown", "cancelled"}
ErrorCodes  == {"none", "schedule_paused", "stale", "elapsed"}
AttemptStatuses == {"claimed", "sending", "succeeded", "failed", "unknown"}
Steps == {"none", "prepare", "send"}
Wires == {"none", "wire", "accepted", "refused"}

Routes == {"creator_dm", "operator_channel", "operator_dm", "log"}
FirstRoute(kind) ==
    IF kind \in DraftKinds THEN "creator_dm" ELSE "operator_channel"

(* Mutant: reports nobody took in the operators' channel go to the creator. *)
NextRouteViaCreator == [creator_dm |-> "operator_dm",
                        operator_channel |-> "creator_dm", operator_dm |-> "log"]

(* _FALLBACK_ROUTES *)
NextRoute == [creator_dm |-> "operator_channel",
              operator_channel |-> "operator_dm", operator_dm |-> "log"]

(* The deduplication key: one row per occurrence, type and route. *)
Notices == {n \in [run : Runs, kind : DraftKinds \cup EventKinds] :
               n.kind \in Kinds[n.run]}
Keys == {k \in [run : Runs, kind : DraftKinds \cup EventKinds, route : Routes] :
            /\ k.kind \in Kinds[k.run]
            /\ k.kind \in EventKinds => k.route # "creator_dm"}
Of(notice, k) == k.run = notice.run /\ k.kind = notice.kind
KeyOf(r, kind, route) == [run |-> r, kind |-> kind, route |-> route]

Process(phase, cutoff) ==
    [phase |-> phase, cutoff |-> cutoff, batches |-> 0, bootstrapped |-> {}]

(* A row as it is inserted: due at a time, never claimed. *)
NewRow(scheduledAt, dueAt) ==
    [status |-> "pending", scheduled_at |-> scheduledAt,
     next_attempt_at |-> dueAt, attempt_count |-> 0,
     claimed_by |-> NoWorker, lease_expires_at |-> 0, error_code |-> "none"]

Init ==
    /\ now = 0
    /\ proc = [w \in Workers |-> Process("new", 0)]
    /\ schedule = [r \in Runs |-> [status |-> "absent", content |-> FALSE]]
    /\ run = [r \in Runs |-> "pending"]
    /\ log = [k \in {} |-> NewRow(0, 0)]
    /\ attempt = [a \in {} |-> [status |-> "claimed", claimed_by |-> NoWorker]]
    /\ task = [a \in {} |-> "none"]
    /\ wire = [a \in {} |-> "none"]

-----------------------------------------------------------------------------
(* Helpers *)

Rows  == DOMAIN log
Tries == DOMAIN attempt     \* pairs <<key, attempt number>>

(* poll_once gathers all tasks of a batch before the loop polls again. *)
Idle(w) == \A a \in Tries : attempt[a].claimed_by = w => task[a] = "none"

(* The columns _finish (and cancel) write. *)
Closed(k, status, error) ==
    [status |-> status, scheduled_at |-> log[k].scheduled_at,
     next_attempt_at |-> 0, attempt_count |-> log[k].attempt_count,
     claimed_by |-> NoWorker, lease_expires_at |-> 0, error_code |-> error]
BackToPending(k, retryAt) ==
    [Closed(k, "pending", "none") EXCEPT !.next_attempt_at = retryAt]

SetTask(k, n, step) == task' = [task EXCEPT ![<<k, n>>] = step]
SetAttempt(k, n, status) ==
    attempt' = [attempt EXCEPT ![<<k, n>>].status = status]
SetLog(k, row) == log' = [log EXCEPT ![k] = row]

Fallback(k) == [k EXCEPT !.route = NextRoute[k.route]]
WithFallback(failed) == {k \in failed : k.route # "log"}

(* add_fallback_notification: the row of the next route, unless it exists. *)
WithFallbacks(rows, failed, at) ==
    [j \in DOMAIN rows \cup {Fallback(k) : k \in WithFallback(failed)} |->
        IF j \in DOMAIN rows THEN rows[j]
        ELSE LET k == CHOOSE i \in WithFallback(failed) : j = Fallback(i)
             IN  NewRow(rows[k].scheduled_at, at)]

(* Mutant: a route that failed for good is not followed by the next. *)
FailedAlone(k, at) == [log EXCEPT ![k] = Closed(k, "failed", "none")]

(* The final failure of a route, with its fallback. *)
FailedOver(k, at) ==
    WithFallbacks([log EXCEPT ![k] = Closed(k, "failed", "none")], {k}, at)

(* add_run_event *)
WithEvent(r, kind, at) ==
    [k \in Rows \cup ({KeyOf(r, kind, "operator_channel")} \cap Keys) |->
        IF k \in Rows THEN log[k] ELSE NewRow(at, at)]

(* plan_draft_notifications: the reminders still ahead of the run. *)
PlannedKinds(r, at) ==
    LET remaining == ScheduledFor[r] - at IN
    CASE remaining >= Day                        -> {"draft_24h", "draft_1h"}
      [] remaining >= Hour /\ remaining < Day    -> {"draft_1h"}
      [] remaining > 0 /\ remaining < Hour       -> {"draft_immediate"}
      [] OTHER                                   -> {}

PlanTime(r, kind, at) ==
    CASE kind = "draft_24h"       -> ScheduledFor[r] - Day
      [] kind = "draft_1h"        -> ScheduledFor[r] - Hour
      [] kind = "draft_immediate" -> at

Reminders(r, at) ==
    {k \in Keys : /\ k.run = r /\ k.route = "creator_dm"
                  /\ k.kind \in PlannedKinds(r, at)}

(* Mutant: every cancelled reminder is taken up again. *)
Withdrawn(row) == row.status = "cancelled"

(* A reminder that a pause cancelled before anybody claimed it. *)
WithdrawnByPause(row) ==
    /\ row.status = "cancelled" /\ row.error_code = "schedule_paused"
    /\ row.attempt_count = 0

(* plan_for_run: insert the rows, or take withdrawn ones up again; any other *)
(* row there is stays.                                                       *)
WithPlanned(rows, planned, at) ==
    [k \in DOMAIN rows \cup planned |->
        IF k \in planned /\ (k \in DOMAIN rows => WithdrawnByPause(rows[k]))
        THEN NewRow(PlanTime(k.run, k.kind, at), PlanTime(k.run, k.kind, at))
        ELSE rows[k]]

-----------------------------------------------------------------------------
(* Time and processes *)

Tick == /\ now < MaxTime
        /\ now' = now + 1
        /\ UNCHANGED <<proc, db, task, wire>>

Start(w) ==
    /\ proc[w].phase = "new"
    /\ proc' = [proc EXCEPT ![w] = Process("runs", now)]
    /\ UNCHANGED <<now, db, task, wire>>

(* The process dies, close() cancels its loops, or its startup fails and     *)
(* leaves it without any.                                                    *)
Crash(w) ==
    /\ proc[w].phase \notin {"new", "over"}
    /\ proc' = [proc EXCEPT ![w] = Process("over", 0)]
    /\ task' = [a \in Tries |->
                   IF attempt[a].claimed_by = w THEN "none" ELSE task[a]]
    /\ UNCHANGED <<now, db, wire>>

(* What a LIMIT BatchSize ... FOR UPDATE SKIP LOCKED scan can return. *)
Selections(candidates) ==
    {S \in SUBSET candidates :
        /\ Cardinality(S) <= BatchSize
        /\ \/ Contention
           \/ Cardinality(S) = BatchSize
           \/ S = candidates}

(* A short batch ends the phase; the last batch allowed must be short.  The  *)
(* loops no longer use the cutoff.                                           *)
AfterBatch(p, size, next) ==
    CASE size < BatchSize ->
            Process(next, IF next = "polling" THEN 0 ELSE p.cutoff)
      [] size >= BatchSize /\ p.batches + 1 < MaxBatches ->
            [p EXCEPT !.batches = p.batches + 1]
      [] OTHER ->
            Process("over", 0)

-----------------------------------------------------------------------------
(* Runs as the rest of the system settles them, with the notice each         *)
(* settlement enqueues in its transaction                                    *)

SettleRun(r, status, kind, at) ==
    /\ run' = [run EXCEPT ![r] = status]
    /\ log' = WithEvent(r, kind, at)

CloseSchedule(r) ==
    schedule' = [schedule EXCEPT ![r] = [status |-> "closed", content |-> FALSE]]

Polling == \E w \in Workers : proc[w].phase = "polling"

DeliveryClaims(r) ==
    /\ Polling
    /\ schedule[r].status = "active" /\ run[r] = "pending"
    /\ ScheduledFor[r] <= now
    /\ run' = [run EXCEPT ![r] = "processing"]
    /\ UNCHANGED <<now, proc, schedule, log, attempt, task, wire>>

DeliverySucceeds(r) ==
    /\ run[r] = "processing"
    /\ run' = [run EXCEPT ![r] = "succeeded"]
    /\ CloseSchedule(r)
    /\ UNCHANGED <<now, proc, log, attempt, task, wire>>

DeliveryFails(r) ==
    /\ run[r] = "processing"
    /\ SettleRun(r, "failed", "run_failed", now)
    /\ CloseSchedule(r)
    /\ UNCHANGED <<now, proc, attempt, task, wire>>

DeliverySkipsDraft(r) ==
    /\ Polling
    /\ schedule[r].status = "draft" /\ run[r] = "pending"
    /\ ScheduledFor[r] <= now
    /\ SettleRun(r, "draft_without_content", "run_skipped", now)
    /\ UNCHANGED <<now, proc, schedule, attempt, task, wire>>

(* Startup, at its cutoff: a claim of a dead worker fails with an unknown    *)
(* result, an overdue draft is skipped, an overdue post is announced as      *)
(* delayed or given up, and a paused schedule's run is kept.                 *)
RecoverRun(w, r) ==
    LET cutoff == proc[w].cutoff
        overdue == run[r] = "pending" /\ ScheduledFor[r] <= cutoff
        late == ScheduledFor[r] + GracePeriod < cutoff
    IN
    /\ proc[w].phase = "runs"
    /\ \/ /\ run[r] = "processing"
          /\ SettleRun(r, "failed", "run_failed", cutoff)
          /\ CloseSchedule(r)
       \/ /\ overdue /\ schedule[r].status = "draft"
          /\ SettleRun(r, "draft_without_content", "run_skipped", cutoff)
          /\ UNCHANGED schedule
       \/ /\ overdue /\ schedule[r].status = "active" /\ ~late
          /\ log' = WithEvent(r, "run_delayed", cutoff)
          /\ UNCHANGED <<schedule, run>>
       \/ /\ overdue /\ schedule[r].status = "active" /\ late
          /\ SettleRun(r, "startup_overdue", "run_failed", cutoff)
          /\ CloseSchedule(r)
    /\ UNCHANGED <<now, proc, attempt, task, wire>>

(* Runs that others hold locked are left for later. *)
RunsRecovered(w) ==
    /\ proc[w].phase = "runs"
    /\ proc' = [proc EXCEPT ![w] = Process("notifications", proc[w].cutoff)]
    /\ UNCHANGED <<now, db, task, wire>>

-----------------------------------------------------------------------------
(* User commands *)

SetSchedule(r, status, content) ==
    schedule' = [schedule EXCEPT ![r] =
                    [status |-> status, content |-> content]]

CanCreate(r) ==
    /\ schedule[r].status = "absent" /\ ScheduledFor[r] > now
    /\ Cardinality({q \in Runs : schedule[q].status # "absent"}) < MaxSchedules

CreateActive(r) ==
    /\ CanCreate(r)
    /\ SetSchedule(r, "active", TRUE)
    /\ UNCHANGED <<now, proc, run, log, attempt, task, wire>>

(* An instance that leaves the reminders of a run out has no draft of it. *)
MayBeDraft(r) == DraftKinds \subseteq Kinds[r]

CreateDraft(r) ==
    /\ CanCreate(r) /\ MayBeDraft(r)
    /\ SetSchedule(r, "draft", FALSE)
    /\ log' = WithPlanned(log, Reminders(r, now), now)
    /\ UNCHANGED <<now, proc, run, attempt, task, wire>>

CanEdit(r) == run[r] = "pending" /\ ScheduledFor[r] >= now + EditLead

(* Setting the content activates a draft; its reminders stay in the outbox. *)
FillContent(r) ==
    /\ CanEdit(r)
    /\ schedule[r].status \in {"draft", "paused"}
    /\ SetSchedule(r, IF schedule[r].status = "draft" THEN "active"
                      ELSE "paused", TRUE)
    /\ UNCHANGED <<now, proc, run, log, attempt, task, wire>>

ClearContent(r) ==
    /\ CanEdit(r) /\ MayBeDraft(r)
    /\ schedule[r].status = "active"
    /\ SetSchedule(r, "draft", FALSE)
    /\ log' = WithPlanned(log, Reminders(r, now), now)
    /\ UNCHANGED <<now, proc, run, attempt, task, wire>>

ClearPausedContent(r) ==
    /\ CanEdit(r) /\ MayBeDraft(r)
    /\ schedule[r].status = "paused"
    /\ SetSchedule(r, "paused", FALSE)
    /\ UNCHANGED <<now, proc, run, log, attempt, task, wire>>

(* cancel_pristine_draft_notifications_for_pause *)
PausedRow(k) ==
    IF log[k].status = "pending" /\ log[k].attempt_count = 0
    THEN [Closed(k, "cancelled", "schedule_paused")
             EXCEPT !.scheduled_at = now]
    ELSE log[k]

(* SchedulePauseService.pause: the run is held, its reminders withdrawn. *)
Pause(r) ==
    /\ schedule[r].status = "active" /\ run[r] = "pending"
    /\ SetSchedule(r, "paused", TRUE)
    /\ log' = [k \in Rows |-> IF k.run = r /\ k.kind \in DraftKinds
                              THEN PausedRow(k) ELSE log[k]]
    /\ UNCHANGED <<now, proc, run, attempt, task, wire>>

(* SchedulePauseService.resume of a held run still ahead. *)
Resume(r) ==
    /\ schedule[r].status = "paused" /\ run[r] = "pending"
    /\ ScheduledFor[r] > now
    /\ SetSchedule(r, IF schedule[r].content THEN "active" ELSE "draft",
                   schedule[r].content)
    /\ log' = IF schedule[r].content THEN log
              ELSE WithPlanned(log, Reminders(r, now), now)
    /\ UNCHANGED <<now, proc, run, attempt, task, wire>>

(* ... or of one that has passed: it is skipped, and the schedule goes on to *)
(* an occurrence outside this module.                                        *)
ResumeAfterwards(r) ==
    /\ schedule[r].status = "paused" /\ run[r] = "pending"
    /\ ScheduledFor[r] <= now
    /\ run' = [run EXCEPT ![r] = "skipped"]
    /\ CloseSchedule(r)
    /\ UNCHANGED <<now, proc, log, attempt, task, wire>>

Delete(r) ==
    /\ schedule[r].status \in {"draft", "active", "paused"}
    /\ run[r] = "pending"
    /\ run' = [run EXCEPT ![r] = "skipped"]
    /\ CloseSchedule(r)
    /\ UNCHANGED <<now, proc, log, attempt, task, wire>>

-----------------------------------------------------------------------------
(* Startup: the notices a dead worker had claimed, then the draft reminders *)

ExpiredNotices(cutoff) ==
    {k \in Rows : log[k].status = "processing"
                     /\ log[k].lease_expires_at <= cutoff}

(* get_latest: the pair of the row's latest attempt, which _consistent wants *)
(* to be the counted one, of the row's worker, and still open.               *)
Latest(k) == <<k, log[k].attempt_count>>
IsConsistent(k) ==
    /\ Latest(k) \in Tries /\ <<k, log[k].attempt_count + 1>> \notin Tries
    /\ attempt[Latest(k)].status \in {"claimed", "sending"}
    /\ attempt[Latest(k)].claimed_by = log[k].claimed_by

(* Mutant: an attempt being sent is taken for one not yet sent. *)
InterruptedWhileOpen(k) == IsConsistent(k)

InterruptedBeforeSend(k) ==
    IsConsistent(k) /\ attempt[Latest(k)].status = "claimed"

GivenUp(k) == InterruptedBeforeSend(k) /\ log[k].attempt_count = MaxAttempts

RecoveredRow(k, cutoff) ==
    CASE GivenUp(k) -> Closed(k, "failed", "none")
      [] InterruptedBeforeSend(k) /\ ~GivenUp(k) ->
            BackToPending(k, cutoff + RetryDelay[log[k].attempt_count])
      [] ~InterruptedBeforeSend(k) -> Closed(k, "unknown", "none")

RecoveredStatus(k) == IF InterruptedBeforeSend(k) THEN "failed" ELSE "unknown"

(* NotificationRecoveryService.recover_expired, one batch. *)
RecoverNotifications(w) ==
    LET cutoff == proc[w].cutoff IN
    /\ proc[w].phase = "notifications"
    /\ \E S \in Selections(ExpiredNotices(cutoff)) :
          /\ log' = WithFallbacks(
                [k \in Rows |-> IF k \in S THEN RecoveredRow(k, cutoff)
                                ELSE log[k]],
                {k \in S : GivenUp(k)}, cutoff)
          /\ attempt' = [a \in Tries |->
                IF \E k \in S : a = Latest(k) /\ IsConsistent(k)
                THEN [attempt[a] EXCEPT !.status = RecoveredStatus(a[1])]
                ELSE attempt[a]]
          /\ proc' = [proc EXCEPT ![w] =
                AfterBatch(proc[w], Cardinality(S), "bootstrap")]
    /\ UNCHANGED <<now, schedule, run, task, wire>>

DraftRows(r) == {k \in Rows : k.run = r /\ k.kind \in DraftKinds}

Elapsed(k, cutoff) ==
    log[k].status = "pending" /\ log[k].scheduled_at < cutoff

(* Mutant: reminders to come do not stop the selection. *)
BootstrapAllDrafts(cutoff) ==
    {r \in Runs : /\ schedule[r].status = "draft" /\ run[r] = "pending"
                  /\ ScheduledFor[r] > cutoff}

(* lock_draft_notification_bootstrap: drafts with an elapsed reminder, or    *)
(* with none (of any status) at or after the cutoff.                         *)
BootstrapCandidates(cutoff) ==
    {r \in Runs :
        /\ schedule[r].status = "draft" /\ run[r] = "pending"
        /\ ScheduledFor[r] > cutoff
        /\ \/ \E k \in DraftRows(r) : Elapsed(k, cutoff)
           \/ \A k \in DraftRows(r) : log[k].scheduled_at < cutoff}

(* An immediate reminder that exists, on any route and in any status, is not *)
(* planned again.                                                            *)
ToBootstrap(r, cutoff) ==
    {k \in Reminders(r, cutoff) :
        k.kind = "draft_immediate" =>
            \A j \in DraftRows(r) : j.kind # "draft_immediate"}

(* bootstrap, one batch: elapsed reminders are cancelled, those to come      *)
(* planned.                                                                  *)
Bootstrap(w) ==
    LET cutoff == proc[w].cutoff IN
    /\ proc[w].phase = "bootstrap"
    /\ \E S \in Selections(BootstrapCandidates(cutoff)) :
          /\ log' = WithPlanned(
                [k \in Rows |->
                    IF k.run \in S /\ k.kind \in DraftKinds /\ Elapsed(k, cutoff)
                    THEN Closed(k, "cancelled", "elapsed") ELSE log[k]],
                UNION {ToBootstrap(r, cutoff) : r \in S}, cutoff)
          /\ proc' = [proc EXCEPT ![w] =
                AfterBatch([proc[w] EXCEPT !.bootstrapped = @ \cup S],
                           Cardinality(S), "polling")]
    /\ UNCHANGED <<now, schedule, run, attempt, task, wire>>

-----------------------------------------------------------------------------
(* The notification worker *)

Due == {k \in Rows : /\ log[k].status = "pending"
                     /\ log[k].next_attempt_at <= now
                     /\ log[k].scheduled_at <= now
                     /\ log[k].attempt_count < MaxAttempts}

ClaimedRow(k, w) ==
    [status |-> "processing", scheduled_at |-> log[k].scheduled_at,
     next_attempt_at |-> 0, attempt_count |-> log[k].attempt_count + 1,
     claimed_by |-> w, lease_expires_at |-> now + LeaseTimeout,
     error_code |-> log[k].error_code]

(* claim_due; an empty claim changes nothing. *)
Claim(w) ==
    /\ proc[w].phase = "polling"
    /\ Idle(w)
    /\ \E S \in Selections(Due) \ {{}} :
          /\ \A r \in Runs :
                Cardinality({a \in Tries : a[1].run = r})
                    + Cardinality({k \in S : k.run = r}) <= MaxClaims[r]
          /\ log' = [k \in Rows |-> IF k \in S THEN ClaimedRow(k, w) ELSE log[k]]
          /\ LET new == {<<k, log[k].attempt_count + 1>> : k \in S} IN
             /\ attempt' = [a \in Tries \cup new |->
                   IF a \in new THEN [status |-> "claimed", claimed_by |-> w]
                   ELSE attempt[a]]
             /\ task' = [a \in Tries \cup new |->
                   IF a \in new THEN "prepare"
                   ELSE task[a]]
             /\ wire' = [a \in Tries \cup new |->
                   IF a \in new THEN "none" ELSE wire[a]]
    /\ UNCHANGED <<now, proc, schedule, run>>

(* The conditional UPDATEs: the row is processing and claimed by this        *)
(* attempt's worker, the attempt is in an expected status.                   *)
Holds(k, n, expected) ==
    /\ log[k].status = "processing"
    /\ log[k].claimed_by = attempt[<<k, n>>].claimed_by
    /\ attempt[<<k, n>>].status \in expected

(* _owned_claim, at the time read before the row locks were waited for. *)
OwnedClaim(k, n, readAt) ==
    /\ Holds(k, n, {"claimed"}) /\ log[k].attempt_count = n
    /\ log[k].lease_expires_at >= readAt

ReadTimes(k) == (log[k].lease_expires_at - LeaseTimeout)..now

TimingIsValid(k) ==
    LET lead == ScheduledFor[k.run] - log[k].scheduled_at IN
    CASE k.kind = "draft_24h"       -> lead = Day
      [] k.kind = "draft_1h"        -> lead = Hour
      [] k.kind = "draft_immediate" -> lead > 0 /\ lead < Hour

FailureReported(r) ==
    \E k \in Rows : /\ k.run = r /\ k.kind = "run_failed"
                    /\ log[k].status # "cancelled"

(* Mutant: a post given up at startup is not among the failures. *)
AppliesToFailedRunsOnly(k, at) ==
    CASE k.kind \in DraftKinds -> TRUE
      [] k.kind = "run_skipped" -> run[k.run] = "draft_without_content"
      [] k.kind = "run_failed"  -> run[k.run] = "failed"
      [] k.kind = "run_delayed" ->
            /\ run[k.run] \in {"pending", "processing", "succeeded"}
            /\ ~FailureReported(k.run)

(* _validate_context: is the notice still true? *)
Applies(k, at) ==
    CASE k.kind \in DraftKinds ->
            /\ schedule[k.run].status = "draft" /\ run[k.run] = "pending"
            /\ ScheduledFor[k.run] > at
            /\ TimingIsValid(k)
      [] k.kind = "run_skipped" -> run[k.run] = "draft_without_content"
      [] k.kind = "run_failed"  -> run[k.run] \in {"failed", "startup_overdue"}
      [] k.kind = "run_delayed" ->
            /\ run[k.run] \in {"pending", "processing", "succeeded"}
            /\ ~FailureReported(k.run)

PrepareSend(k, n) ==
    /\ task[<<k, n>>] = "prepare"
    /\ \E readAt \in ReadTimes(k) :
          OwnedClaim(k, n, readAt) /\ Applies(k, readAt)
    /\ SetAttempt(k, n, "sending")
    /\ SetTask(k, n, "send")
    /\ UNCHANGED <<now, proc, schedule, run, log, wire>>

PrepareCancel(k, n) ==
    /\ task[<<k, n>>] = "prepare"
    /\ \E readAt \in ReadTimes(k) :
          OwnedClaim(k, n, readAt) /\ ~Applies(k, readAt)
    /\ SetAttempt(k, n, "failed")
    /\ SetLog(k, Closed(k, "cancelled", "stale"))
    /\ SetTask(k, n, "none")
    /\ UNCHANGED <<now, proc, schedule, run, wire>>

(* The one message request of the attempt; the log route makes none. *)
Send(k, n) ==
    /\ task[<<k, n>>] = "send" /\ wire[<<k, n>>] = "none" /\ k.route # "log"
    /\ wire' = [wire EXCEPT ![<<k, n>>] = "wire"]
    /\ UNCHANGED <<now, proc, db, task>>

Discord(k, n) ==
    /\ wire[<<k, n>>] = "wire"
    /\ \E verdict \in {"accepted", "refused"} :
          wire' = [wire EXCEPT ![<<k, n>>] = verdict]
    /\ UNCHANGED <<now, proc, db, task>>

(* The transaction that saves what became of the request.  The reply itself  *)
(* is read in the same step: nobody else sees a worker hold it.              *)
Saves(k, n, expected, attemptStatus) ==
    /\ task[<<k, n>>] = "send"
    /\ Holds(k, n, expected)
    /\ SetAttempt(k, n, attemptStatus)
    /\ SetTask(k, n, "none")
    /\ UNCHANGED <<now, proc, schedule, run, wire>>

SaveSuccess(k, n) ==
    /\ wire[<<k, n>>] = "accepted"
    /\ Saves(k, n, {"sending"}, "succeeded")
    /\ SetLog(k, Closed(k, "succeeded", "none"))

(* Mutant: a 5xx or a broken connection counts as a refusal. *)
NotSentAnyway(k, n) == wire[<<k, n>>] # "accepted"

(* A 4xx answer, or no request yet: the gateway's checks or its request for  *)
(* the user failed, or the route is the log, which ends as failed.           *)
NotSent(k, n) == wire[<<k, n>>] \in {"none", "refused"}

(* _save_failure of a rate limit before the last attempt: the row waits as   *)
(* long as Discord asked when it answered; if that time has passed already,  *)
(* decide_notification_result raises (see Raise).                            *)
SaveRetry(k, n) ==
    /\ NotSent(k, n) /\ k.route # "log" /\ n < MaxAttempts
    /\ Saves(k, n, {"claimed", "sending"}, "failed")
    /\ \E retryAt \in now + 1..now + MaxRetryAfter :
          SetLog(k, BackToPending(k, retryAt))

(* ... of a permanent failure, or of a rate limit at the last attempt. *)
SaveFailure(k, n) ==
    /\ NotSent(k, n)
    /\ Saves(k, n, {"claimed", "sending"}, "failed")
    /\ log' = FailedOver(k, now)

(* A 5xx, a broken connection, 429 without Retry-After: nobody can tell. *)
SaveUnknown(k, n) ==
    /\ k.route # "log"
    /\ Saves(k, n, {"sending"}, "unknown")
    /\ SetLog(k, Closed(k, "unknown", "none"))

(* _guarded_process: a refused or failed transaction ends the task and       *)
(* leaves every row as it was, the claim for the next startup to resolve.    *)
Raise(k, n) ==
    /\ task[<<k, n>>] # "none"
    /\ SetTask(k, n, "none")
    /\ UNCHANGED <<now, proc, db, wire>>

-----------------------------------------------------------------------------
RunStep(r) ==
    \/ DeliveryClaims(r) \/ DeliverySucceeds(r) \/ DeliveryFails(r)
    \/ DeliverySkipsDraft(r)

Command(r) ==
    \/ CreateActive(r) \/ CreateDraft(r) \/ FillContent(r) \/ ClearContent(r)
    \/ ClearPausedContent(r) \/ Pause(r) \/ Resume(r) \/ ResumeAfterwards(r)
    \/ Delete(r)

TaskStep(k, n) ==
    \/ PrepareSend(k, n) \/ PrepareCancel(k, n)
    \/ Send(k, n) \/ SaveSuccess(k, n) \/ SaveRetry(k, n)
    \/ SaveFailure(k, n) \/ SaveUnknown(k, n) \/ Raise(k, n)

Next ==
    \/ Tick
    \/ \E w \in Workers :
          \/ Start(w) \/ Crash(w)
          \/ \E r \in Runs : RecoverRun(w, r)
          \/ RunsRecovered(w) \/ RecoverNotifications(w) \/ Bootstrap(w)
          \/ Claim(w)
    \/ \E r \in Runs : RunStep(r) \/ Command(r)
    \/ \E a \in Tries : TaskStep(a[1], a[2]) \/ Discord(a[1], a[2])

Spec == Init /\ [][Next]_vars

-----------------------------------------------------------------------------
(* Properties *)

ProcessRecord == [phase : Phases, cutoff : Nat, batches : Nat,
                  bootstrapped : SUBSET Runs]
ScheduleRow == [status : ScheduleStatuses, content : BOOLEAN]
LogRow == [status : LogStatuses, scheduled_at : Int, next_attempt_at : Int,
           attempt_count : 0..MaxAttempts,
           claimed_by : Workers \cup {NoWorker}, lease_expires_at : Nat,
           error_code : ErrorCodes]
AttemptRow == [status : AttemptStatuses, claimed_by : Workers \cup {NoWorker}]

(* Every variable keeps the shape of its tables, tasks and processes. *)
TypeOK ==
    /\ now \in Nat
    /\ proc \in [Workers -> ProcessRecord]
    /\ schedule \in [Runs -> ScheduleRow]
    /\ run \in [Runs -> RunStatuses]
    /\ Rows \subseteq Keys /\ log \in [Rows -> LogRow]
    /\ Tries \subseteq Rows \X Attempts /\ attempt \in [Tries -> AttemptRow]
    /\ task \in [Tries -> Steps]
    /\ wire \in [Tries -> Wires]

MayBeTold(a) == wire[a] \in {"wire", "accepted"}

(* Nobody is told twice: over all routes and all attempts of a notice, at    *)
(* most one request was accepted by Discord or may still be, whatever is     *)
(* retried, recovered or handed to the next route.                           *)
ToldAtMostOnce ==
    \A a, b \in Tries :
        MayBeTold(a) /\ MayBeTold(b) /\ Of(a[1], b[1])
        => a = b

(* A notice is at every moment the business of exactly one route: those      *)
(* before it have failed for good, those after it have no row, and it has    *)
(* itself failed only if it is the last.  So no failure, however it came     *)
(* about (a refusal, the last attempt, a claim given up at startup), leaves  *)
(* a notice without a next step.                                             *)
OneRouteAtATime ==
    \A k \in Rows :
        /\ k.route # "log" =>
              (Fallback(k) \in Rows <=> log[k].status = "failed")
        /\ k.route # FirstRoute(k.kind) =>
              \E j \in Rows : j.route # "log" /\ k = Fallback(j)

(* What became of a run is reported, however late: the notice of a failed or *)
(* skipped run is never withdrawn, and that a run is delayed is withdrawn    *)
(* only when its failure is reported or it was not delivered at all.         *)
ReportsAreKept ==
    \A k \in Rows : log[k].status = "cancelled" =>
        /\ k.kind \notin {"run_failed", "run_skipped"}
        /\ k.kind = "run_delayed" =>
              \/ FailureReported(k.run)
              \/ run[k.run] \in {"draft_without_content", "skipped"}

(* A notice that was told, logged or written off stays so; a cancelled one   *)
(* comes back only if a pause withdrew it before any worker saw it.          *)
SettledIsFinal ==
    [][\A k \in Rows :
         /\ log[k].status \in {"succeeded", "failed", "unknown"} =>
               log'[k] = log[k]
         /\ log[k].status = "cancelled" /\ log'[k].status # "cancelled" =>
               /\ log[k].error_code = "schedule_paused"
               /\ \A a \in Tries : a[1] # k]_vars

(* What one batch of a startup has bootstrapped the next does not select:    *)
(* batches run out of drafts and the loops start, however many drafts there  *)
(* are in room for them.  The code does not keep this: see below.            *)
BootstrapSelectsOnce ==
    \A w \in Workers : proc[w].phase = "bootstrap" =>
        proc[w].bootstrapped \cap BootstrapCandidates(proc[w].cutoff) = {}

(* A draft comes up again for one of two reasons only.  It has an immediate  *)
(* reminder older than the cutoff, which is not planned twice: nothing keeps *)
(* it from being selected in every batch.  Or a reminder from before the     *)
(* cutoff waits again, since another process, still running, had tried one   *)
(* and gave it back meanwhile.  All others are left alone by the next batch. *)
BootstrapRepeatsOnlyImmediate ==
    \A w \in Workers : \A r \in proc[w].bootstrapped :
        LET old == {k \in DraftRows(r) : log[k].scheduled_at < proc[w].cutoff} IN
        /\ proc[w].phase = "bootstrap"
        /\ r \in BootstrapCandidates(proc[w].cutoff)
        => \/ \E k \in old : k.kind = "draft_immediate"
           \/ /\ \E k \in old : log[k].status = "pending"
              /\ \E k \in old : log[k].attempt_count > 0

(* The rows of a notice, over all its routes, show one of its outcomes. *)
Outcome(notice) ==
    LET statuses == {log[k].status : k \in {j \in Rows : Of(notice, j)}} IN
    CASE statuses = {}              -> "none"
      [] "succeeded" \in statuses   -> "told"
      [] "unknown" \in statuses     -> "undetermined"
      [] "cancelled" \in statuses   -> "dropped"
      [] statuses = {"failed"}      -> "logged"
      [] OTHER                      -> "open"

Telling(notice) ==
    LET wires == {wire[a] : a \in {b \in Tries : Of(notice, b[1])}} IN
    CASE "accepted" \in wires -> "done"
      [] "accepted" \notin wires /\ "wire" \in wires -> "possible"
      [] OTHER -> "never"

Promise(notice) == INSTANCE TellOnce
    WITH outcome <- Outcome(notice), telling <- Telling(notice)

(* A notice without a row, before and after a step, is none and untold. *)
Raised == {[run |-> k.run, kind |-> k.kind] : k \in Rows}

(* Notification implements TellOnce: whatever any actor does is, for each    *)
(* notice, one of its steps or none, so that what the outbox records of a    *)
(* notice agrees with what its readers saw.                                  *)
TellsOnce ==
    /\ \A notice \in Notices : Promise(notice)!Init
    /\ [][\/ UNCHANGED <<log, attempt, wire>>
          \/ \A notice \in Raised \cup Raised' :
                \/ /\ Outcome(notice)' = Outcome(notice)
                   /\ Telling(notice)' = Telling(notice)
                \/ Promise(notice)!Next]_vars
=============================================================================
