# Formal models of yoyaku-honpo

`discord-ai-reminder-bot` is a Discord bot that posts scheduled messages. Users create one-time,
daily and weekly schedules; a polling worker posts each occurrence, at most once, and records what
became of it in PostgreSQL. The process may die at any moment and a replacement may overlap with it.
This directory holds TLA+ models of that system, TLC configurations and TLAPS proofs. Paths below are
relative to `src/discord_ai_reminder_bot/` unless they start with `docs/`.

## 1. Inventory

### Components, their state and operations

| Component | State it keeps | Operations | Model |
| --- | --- | --- | --- |
| Delivery worker (`application/worker.py`, `delivery.py`) | nothing durable: tasks of one batch | `poll_once`, `_process`, `_prepare`, `_save_*`, `_finalize` | Delivery |
| Delivery tables (`infrastructure/database/repositories.py`, `models.py`) | `schedules`, `schedule_runs`, `delivery_attempts` | `claim_due`, conditional updates, startup scans (`FOR UPDATE SKIP LOCKED`) | Delivery (one-time), Recurring |
| Discord gateway (`infrastructure/discord/gateway.py`) | none | one request per attempt, classification of its answer | Delivery |
| Processing recovery (`application/recovery.py`) | – | `recover_expired`: claims whose lease expired | Delivery |
| Pending recovery (`application/pending_recovery.py`) | – | `recover_pending`: overdue runs at startup | Delivery (one-time), Recurring |
| Finalization (`application/schedule_execution.py`) | – | `finalize_run`: schedule result, next recurring run | Delivery (one-time), Recurring |
| Startup and loops (`bot/client.py`) | `_startup_attempted`, `_recovery_complete` | `on_ready`, `_recover_and_start`, four loops, `close` | each module has its own phases and its own loop |
| Create, edit, pause, resume, delete (`application/schedule_*.py`) | rows above, `version`, `operation_logs` | one transaction per command | content edit and delete: Delivery; rest: Recurring; their reminders: Notification; their name jobs: NameGeneration |
| Recurrence (`domain/recurrence.py`) | – | `next_daily_run`, `next_weekly_run` | Recurrence |
| Notification outbox (`application/notification_*.py`) | `notification_logs`, `notification_attempts` | enqueue, claim, send, fallback routes, recovery, bootstrap for drafts | events enqueued: Delivery; rest: Notification |
| AI names (`application/name_generation*.py`, `schedule_naming.py`) | `name_generation_jobs`, budgets | claim and reserve, save, abandon, maintenance | NameGeneration, Cleanup |
| Cleanup (`application/cleanup.py`) | – | physical deletion of old rows | Cleanup |
| Commands and views (`bot/posts.py`), queries | open forms with a schedule version, their `action_lock`s | a click, a submission, a timeout, closing; each makes at most one service call | Forms |
| Row locks of all services | PostgreSQL's | `SELECT ... FOR UPDATE` in a fixed order | LockOrder |
| Configuration, migrations, AI client and acceptance harness | – | – | not modelled |

### How they interact

Everything durable goes through PostgreSQL transactions; the loops of one process and the processes of
one deployment share nothing else. A run is `pending`, then `processing` (claimed by a worker id, a
fresh UUID per process start, until a lease expires), then `succeeded`, `failed` or `skipped`. Each
claim opens a numbered attempt: `claimed`, then `sending` just before the request, then its result.
Delivery reads the schedule (its status, its content) before it sends, and finalizes it in a second
transaction after the run's result. User commands change schedules at any time and do not wait for
startup recovery. Settling transactions insert notification rows (an outbox) for the operator.

### What is hard

* a request whose result is unknown (5xx, broken connection, crash) and which Discord may still accept
  after the database says so;
* a worker that outlives its lease while another process recovers its run;
* the gap between the transaction that settles a run and the one that finalizes its schedule;
* users deleting or editing between any two of these transactions;
* names: one provider request, billed whether or not its answer arrives, for a content that may change
  while it is out; at most one job at a time, over all processes;
* a form that was opened minutes ago, clicked twice, expiring while its click is handled, on two devices;
* transactions that lock the same rows in different orders;
* a fixed startup cutoff, batches with a limit, scans that skip locked rows, boundaries of 15 and 5
  minutes;
* retries at a time Discord chose, that may already have passed.

`PROJECT.json` lists each hazard at its line with the properties that cover it.

### What makes each component correct

* Delivery: at most one post per occurrence; a truthful record; a claim only its owner uses; settled
  runs final; every failure reported; due runs taken.
* Startup: nothing overdue or expired is left behind; it ends; it agrees with what crashed.
* Schedule commands: schedule and runs never disagree; one open run per recurring schedule; nothing is
  lost or posted twice by pause, resume and edit; every state can be left by a legal command.
* Notifications: each event reaches one route of the chain creator, operator channel, operator DM, log;
  no second notification after an unknown result; bootstrap makes progress.
* Names: a stale result is never saved, a manual name never overwritten, the budget never exceeded.
* Cleanup: nothing in flight or referenced is deleted; what is due goes, whatever cannot.
* Forms: one effect per form, a truthful answer, nothing applied to a schedule other than the one shown,
  and no handler waits for ever.

## 2. Plan

1. **Delivery** (done): one-time schedules end to end with crashes and overlap; `PublishOnce` as its
   abstract specification; proofs of safety and refinement.
2. **Recurrence** and **Recurring** (done): the rule of a daily or weekly schedule; its life through
   create, edit, pause, resume, delete, finalization and startup recovery; proofs of every safety
   property, and that the loops stepping over taken occurrences find the first unused one.
3. **Notification** (done): claim, send, retry, fallback, unknown, recovery, bootstrap; `TellOnce` as its
   abstract specification. Left: the `recovery` notices, which need contradictory rows, and notices that
   belong to no run.
4. **NameGeneration** and **Cleanup** (done): names with the budget, manual names, stale versions and
   retention.
5. **LockOrder** and **Forms** (done). Left: turning the pages of a list.
6. Left: one Startup module that runs every recovery phase of `_recover_and_start` over shared rows
   (today each module has the phases that touch its rows), and moving a one-time schedule to another time.

Runs stay small (minutes on two workers): two processes, one or two schedules, two attempts. No module
has a `RECURSIVE` operator, so that each can be proved about.

## 3. Modules

| Module | Role |
| --- | --- |
| `Delivery.tla` | model of the delivery of one-time schedules |
| `PublishOnce.tla` | abstract specification of one occurrence's publication |
| `MCDelivery.tla`, `MCDelivery*.cfg` | instances for TLC |
| `DeliveryProofs.tla` | type correctness, inductive invariant, safety theorems, completeness of startup recovery, leases, the refinement of `PublishOnce` |
| `Recurrence.tla` | when a daily or weekly schedule occurs |
| `Recurring.tla` | the life of one recurring schedule |
| `Notification.tla` | the outbox: reminders, reports, routes, retries, recovery, bootstrap |
| `TellOnce.tla` | abstract specification of one notice |
| `NameGeneration.tla` | name jobs, their budget and the edits they race with |
| `Cleanup.tla` | `NameGeneration` with the retention cycle: deletion of old schedules and jobs |
| `LockOrder.tla` | the row locks of all transactions about one schedule |
| `Forms.tla` | views, modals and the handlers behind them |
| `MCRecurrence.tla`, `MCRecurring.tla`, `MCNotification.tla`, `MCCleanup.tla`, `MCForms.tla` and the `.cfg` files | instances for TLC |
| `RecurrenceProofs.tla` | division; the occurrence functions return the first occurrence, the stepping loops the first unused one |
| `MCRecurrenceProofs.tla` | the invariants of `MCRecurrence` |
| `RecurringProofs.tla` | inductive invariant and safety theorems of `Recurring` |
| `NotificationProofs.tla` | inductive invariant and safety theorems of `Notification` |
| `NotificationRefinement.tla` | the refinement of `TellOnce` |
| `CleanupProofs.tla` | the same of `NameGeneration` and `Cleanup` |
| `FormsProofs.tla` | the same of `Forms` |

### Delivery

A transaction is one action; a task is at a `step` between transactions, and a crash loses the step but
neither the rows nor a request on the wire. Every one-time schedule has one run (the tables' unique
`scheduled_for` and the fact that a one-time schedule is never rescheduled by the operations modelled
here), so both are keyed by the run.

| Variable | Code |
| --- | --- |
| `now` | the clock every process reads |
| `proc[w]` | a process incarnation: phase of `_recover_and_start`, its `recovery_cutoff`, batches done |
| `schedule[r]` | `schedules.status` (`next_run_at` is kept exactly while draft or active) |
| `run[r]` | `schedule_runs`: status, attempt count, next attempt, claim and lease |
| `attempt[r][n]` | `delivery_attempts` by attempt number |
| `outbox` | `notification_logs`, as the pairs their deduplication key identifies |
| `task[r][n]` | volatile: where `_process` stands for this attempt |
| `post[r][n]` | Discord's side of the request: none, on the wire, accepted, refused |

Actions: `Start`, `RecoverProcessing`, `RecoverPending`, `StartLoops`, `StartupFails`, `Crash`
(`client.py`); `Claim` (`claim_due`); `PrepareSend`, `PrepareSkip`, `Send`, `SendRefusedLocally`,
`ReplyAccepted`, `ReplyRefused`, `ReplyUnknown`, `SaveSuccess`, `SaveRetry`, `SaveFailure`,
`SaveUnknown`, `Finalize`, `Raise` (`worker.py`, `delivery.py`, `gateway.py`); `EditContent`, `Delete`
(commands); `Discord` and `Tick` (environment). `Raise` stands for every transaction that is refused or
fails with the database: it changes no row.

Bounds, all constants: `MaxTime` stops the clock (only for TLC); `MaxAttempts`, `BatchSize`,
`MaxBatches`, the delays and the two windows are the code's constants scaled down. `Contention` says
whether rows may be locked by others during a `SKIP LOCKED` scan.

### Recurrence and Recurring

An instant is a number of minutes of Tokyo time, so the date and the weekday are quotients; Tokyo has no
daylight saving, and the code's checks for ambiguous and missing local times never fire. `NextDaily`,
`NextWeekly`, `FirstRun` follow `domain/recurrence.py`; `Occurs` says what an occurrence is without an
algorithm. `FirstUnused` stands for the loops that step over taken occurrences; `SteppedUnused` is such a
loop, and the two are checked to agree.

`Recurring` is one recurring schedule. Commands are transactions that lock the runs and the schedule; one
that meets another version than it read changes nothing.

| Variable | Code |
| --- | --- |
| `schedule` | the row of `schedules`: status, whether it has a content, `next_run_at`, the rule (local time, weekday, end date), version |
| `runs` | its rows of `schedule_runs`, by `scheduled_for` (unique per schedule), with the state of the latest attempt |
| `tasks` | volatile: `<<run, step>>`, where the worker stands with a claim |
| `startup` | one process in startup recovery: which of the two recoveries, and its cutoff |
| `rescued`, `edited` | history, read by the properties only: runs made by the "once" modes of a resume; dates on which the rule was changed or set |

Actions: `Create`, `Edit`, `Pause`, `ResumeHeld`, `ResumeRegular`, `ResumeOnce`, `Delete` (commands);
`Claim`, `PrepareSend`, `PrepareSkip`, `SaveResult`, `SaveRetry`, `Finalize`, `Lose` (worker, of which only
what the schedule sees is kept; `Delivery` has the rest, and its theorems justify that the task of a
claim taken away by recovery is gone here); `Start`, `RecoverExpired`, `ExpiredDone`, `RecoverRecurring`,
`EndStartup` (startup, which may fail at any time); `Tick`. The branches of pending recovery for runs that
contradict their schedule (`Orphaned`, `Inconsistent`) are no actions because `RecoveryIsPossible` shows
that they are never taken.

Bounds: `MaxTime`; `MaxVersion` bounds user commands (finalization and recovery may still raise the
version). `Lead`, `LeaseTimeout`, `RetryDelay`, `MaxAttempts`, `MissedLimit`, `Day`, `Week` are the code's
constants scaled down; every retry waits the same `RetryDelay`.

### Notification

Rows are identified by their deduplication key, a run, a type and a route. Of a schedule only the
occurrence it points at is kept; its run ends in one step, as `Delivery` says in many.

| Variable | Code |
| --- | --- |
| `now`, `proc[w]` | as in Delivery; the phases are those of `_recover_and_start` that touch notices |
| `schedule[r]`, `run[r]` | status and whether there is content; status and result code |
| `log[k]` | `notification_logs`, the rows there are |
| `attempt[k, n]`, `task[k, n]` | `notification_attempts`; volatile: where the worker stands with it |
| `wire[k, n]` | Discord's side of the request |

Actions: `Start`, `RecoverRun`, `RunsRecovered`, `RecoverNotifications`, `Bootstrap`, `Crash`
(`client.py`, `notification_recovery.py`, `draft_notification_bootstrap.py`); `Claim`, `PrepareSend`,
`PrepareCancel`, `Send`, `SaveSuccess`, `SaveRetry`, `SaveFailure`, `SaveUnknown`, `Raise`
(`notification_worker.py`, `notification_repositories.py`); `Delivery*` and the commands, which raise,
withdraw and give back notices in their own transactions; `Discord`, `Tick`. A conditional update looks
at a lease with the time its task read before it waited for the locks (`ReadTimes`). The reply of a
request is read in the step that saves it, since no other actor sees a worker hold it.

### NameGeneration and Cleanup

A content is represented by the schedule version that brought it and a generated name by the content it
was generated from, so that "the name fits" is an equation.

| Variable | Code |
| --- | --- |
| `schedule[s]` | status, version, content, name and its source, time of its end |
| `job[s, v]` | `name_generation_jobs` by schedule and expected version |
| `bucket[p]` | `name_generation_budget_buckets`, by day or month |
| `task[w]` | volatile: the worker's job, and the content it read |
| `asked[j]` | external: the requests the provider received and bills, and the day they were reserved for |
| `cycle[w]`, `inflight` | Cleanup: the cycle of a process; ended schedules with a delivery or notice in flight |

`NameGeneration` has the commands as far as they touch versions, contents and names, the worker
(`Skip`, `Claim`, `Ask`, `SaveSuccess`, `SaveFailure`, `SaveRaises`), `Start` with its abandonment of
expired jobs, `Close` and `Crash`. `Cleanup` EXTENDS it and adds `StartCycle` (job and bucket retention),
`DeleteSchedule`, `DeleteFails`, `EndCycle`, `BreakCycle`; it is the module TLC checks. `Stubborn`
schedules are those whose deletion fails every time.

### Forms

Every handler of `posts.py` is cut at the awaits that matter: before an `action_lock`, between the
unlocked read of a schedule and the row locks of its transaction, and before the answer. Showing what was
just read is one step, because a form never changes once it is shown.

| Variable | Code |
| --- | --- |
| `row` | the schedule: version, status, and a count of the changes a form would show |
| `form[f]` | a view or modal: kind, parent view, version and picture it was built with, `finished`, `action_lock` |
| `task[t]` | one interaction in progress: position, operation, form, first-read version, verdict |
| `closing` | `close_confirmation_views` has run |
| `effects`, `told` | history: changes committed through a form, and what its user was told |

Forms opened by a slash command carry no version (`docs/technical-design-beta.md:1006`). The saving of an
AI name changes no version and is not shown as a change (`:1072`). A refreshed detail past `MaxForms` is
not followed further.

### LockOrder

Each `SELECT ... FOR UPDATE` is a step, in the order the code takes them (`Orders`); everywhere else a
transaction is one action.

### Taken from outside the repository

* discord.py sends one request per `send` call (its own retries on 5xx and 429 are off or precede the
  answer the gateway sees);
* READ COMMITTED PostgreSQL with the row locks the code takes: a transaction is atomic;
* one guild is configured, with an operator channel, so `add_run_event` writes a row each time;
* the creator and administrator checks of commands pass (a refused command changes nothing).

## 4. Runs

| Run | Instance | What it shows |
| --- | --- | --- |
| `delivery_safety` | 1 run, 3 processes, 2 attempts, lease 1, time to 4, no contention | the safety and action properties below, refinement of `PublishOnce` |
| `delivery_backlog` | 2 runs due at once, 1 process, batches of 1, at most 2, time to 3, contention, fair | `StartupEnds` at the batch limit, `DueRunIsTaken` with a sibling |
| `delivery_stranded` | 1 run, 2 processes, time to 4, no contention, fair | finding: a settled run whose schedule no startup finalizes |
| `delivery_overdue_draft` | 1 run, 2 processes | finding: an overdue one-time draft that cannot be deleted |
| `recurrence` | all rules of a calendar with days of 4 and weeks of 3, 25 instants | the three properties of `MCRecurrence` |
| `recurring_safety` | days of 3 ticks, three times of day, end date or none, 2 attempts, time to 5, 4 commands | the properties of `Recurring` |
| `recurring_conflict` | as before, time to 2, 5 commands | finding: finalization refuses and strands the schedule |
| `notification` | an early draft, a late one, a failing or a delayed run (one schedule at a time), 2 processes, 2 attempts, 1 to 3 claims, batches of 1, at most 2, time to 3 | the properties of `Notification`, refinement of `TellOnce` |
| `notification_bootstrap` | the late draft alone | finding: the next batch of a startup selects the same draft again |
| `cleanup` | one schedule to be named, one old one that cannot be deleted; 2 processes; 2 versions; days of a tick, months of two; 1 request a day, 2 a month | the properties of `NameGeneration` and `Cleanup` |
| `forms` | 2 interactions at a time on up to 3 forms, 1 slash command, 1 change elsewhere | the properties of `Forms` |
| `lock_order` | one transaction of each kind | finding: transactions that wait for each other |

Properties of `delivery_safety`: `AtMostOncePost` (no occurrence posted twice), `WaitingMeansUnsent` (a
waiting run has no request that may be accepted), `OutcomeMatchesDiscord` (the record is true),
`RecoveryFindsNoInconsistency` (recovery's inconsistency branches are never taken),
`EverySettlementReported` (the operator is told), `ScheduleAgreesWithRun` (two tables, many writers),
`TerminalIsFinal`, `LiveLeaseRespected`, `RecoveryIsComplete` (a startup that begins to poll has left
nothing behind), `PublishesOnce` (the refinement), and the type invariant `TypeOK`.

Why the bounds are enough to be interesting: three incarnations give a stale worker, the process that
recovered its run, and one that starts while the second still works; a lease of one tick expires while a
request is out; two attempts give a retry that crosses a recovery and a last attempt; time 4 lets a run
scheduled at 1 be retried, expire and pass the grace period. Runs of different schedules share only
processes and batches, so one run suffices for the safety properties (each speaks of one run, and the
theorems hold for any number); the batch limit and a hanging sibling need two. `RecoveryIsComplete` holds
only while no other transaction holds rows that a startup scans, so `delivery_safety` has no contention; the
theorems about its other properties do not assume that, and `delivery_backlog` has it. Symmetry is used only for
the process incarnations, and only where no liveness property is checked.

`recurring_safety`: `OpenRunIsCurrent` (never a second open run, and the open one is the one shown),
`OpenRunMatchesRule` (it follows the rule of now), `OncePerDay`, `PausedCanResume`, `RecoveryIsPossible`,
`SettledIsFinal`. Two days of three ticks give a run that is late, retried, held over midnight, made up
for, and a regular run of the next day after it; four commands give create, pause, an edit while paused
and a resume, or two edits around a pause. `recurring_conflict` needs five commands and no more than the
first day. Weekly rules differ from daily ones only in `NextRun`, which `recurrence` covers.

`notification`: `ToldAtMostOnce` (over all routes and attempts), `OneRouteAtATime` (no notice without a
next step, none with two), `ReportsAreKept` (a report is not withdrawn while it is true),
`SettledIsFinal`, `BootstrapRepeatsOnlyImmediate` (a draft a startup has dealt with comes up again only
for an immediate reminder from before the cutoff, or for one that waits again because another process
tried it meanwhile), and
`TellsOnce`, the refinement. Two attempts of each of three routes, with a second process that recovers what
the first one left, let a notice be refused, retried, given up, taken to the next route and logged. Four
kinds of schedules, of which a behaviour creates one, keep reports and reminders in one run of TLC without
their product:

* the late draft (`tight`) is due at 2 with `Hour` 3, so that it only ever has the immediate reminder. If
  planned at 0, a cutoff of 1 lies between the reminder and the run (the first reason of
  `BootstrapRepeatsOnlyImmediate`), and a reminder that failed, or whose sender crashed, is sent a second
  time before the run;
* the early draft (`early`) is due at `Day`, 4: if made at 0 it has both reminders (for 0 and for 1), later
  that of the hour or the immediate one. Startups find each of them elapsed, to come or given back by
  another process (the second reason). Its run lies behind the last tick and it has one claim, so that the
  reminders alone are at issue;
* the failing and the delayed run (`failing`, `delayed`) have reports only, with three and two claims.

Runs share only batches, which are bounded by one so that the limit is met.

`cleanup`: `NameFitsContent`, `SpendingIsCapped`, `JobsAreSettled`, `DueIsErased`. Three days cross a
month, exhaust the day's limit and the month's cost, and let a lease and every retention end. Of two
versions the first has a job and the second makes it stale, gives it a manual name, or another content. That
nothing in flight is deleted is the condition of the deletion itself (`Deletable`, checked under the locks of
the transaction that deletes), so no property repeats it.

`forms`: `OneVerdict` (one effect per form, and a true answer), `ActsOnWhatWasShown`, `NoEndlessWait` (no
handlers wait for each other's `action_lock`). Three forms are a detail, a choice or confirmation, and a
modal on it; two interactions are a double click, or a click beside a submission or a timeout.

`CHECK_DEADLOCK FALSE`: the clock is bounded, and when every incarnation has stopped and every run is
settled nothing is left to do; once forms are closed nobody clicks.

Fairness (`FairSpec`): the clock advances; the next batch of a startup commits, or raises when it would
finalize a conflicting schedule; a polling loop claims again and again; a ready task takes its next
step, since the event loop runs ready tasks and the HTTP client times out. Nothing is assumed of
Discord, users, crashes, starts or the database failing.

Fairness of `Cleanup`: the clock advances, the name worker of a polling process takes its next step, and
cycles start and end, in whichever process, which the loops of `client.py` guarantee (weak fairness); a
deletion that gets
its turn again and again does not fail each time for a reason outside the model (strong fairness:
`BreakCycle` may end any one cycle). `Notification` and `Forms` have no liveness property: Discord may
never answer, and a notice whose claim was lost waits for a restart nobody promises.

### Findings

* `lock_order`: transaction B of the notification worker locks the schedule and then its run
  (`application/notification_worker.py:287`), all others the run first. The design writes both orders down:
  `docs/technical-design-beta.md:313` for deletion and `:561` for pause and resume forbid to lock a run
  after its schedule, `:671` has the notification worker lock the schedule and then the run. Each
  transaction keeps the order written for it; together they close a cycle. Without the transaction
  `notification` the property holds.

* `recurring_conflict`: `_finalize_recurring` computes the next instant by the rule alone and raises when
  a skipped or settled run has it (`application/schedule_execution.py:258`). The run creates a schedule,
  pauses it, changes its time while paused, resumes it (the next day's run is open), and changes its end
  date: the edit goes back to today's unused occurrence and skips the next day's run, which finalization
  of today's run then meets. The transaction rolls back and the schedule stays on a settled run, which no
  command accepts and no startup repairs, against `docs/technical-design-beta.md:657` and `:667`.
* `delivery_stranded`: the run's result is committed before the schedule is finalized
  (`application/worker.py:209`). After a crash in between, every later startup looks only at pending and
  processing runs, and the schedule stays `active`, against `docs/requirements-beta.md:303` and
  `docs/technical-design-beta.md:656`.
* `delivery_overdue_draft`: `docs/requirements-beta.md:149` and `:247` let a creator delete a draft whose
  time has passed; its run is `skipped` by then, and `application/schedule_deletion.py:219` wants it
  `pending`.
* `notification_bootstrap`: a draft in its last hour with an immediate reminder from before the cutoff is
  selected in every batch (`infrastructure/database/repositories.py:1170`): no reminder of it is at or after
  the cutoff, and none is planned, since it has an immediate one
  (`application/draft_notification_bootstrap.py:53`). `tests/integration/test_draft_notification_planning_integration.py:81`
  wants the second selection to be empty, and `docs/operations.md:242` the next start to go on with what a
  full last batch left. A batch full of such drafts makes every batch full: startup fails
  (`bot/client.py:384`), again at each restart until their runs are due. The theorem
  `BootstrappedStaysOut` says that this is the only way to come up twice, unless another process that still
  runs tries a reminder and gives it back between the batches.

## 5. Proofs

### Delivery

These proofs hold for every value of the constants that satisfies the assumptions `RunsAssumption`,
`WorkerAssumption`, `AttemptAssumption`, `BatchAssumption`, `TimeAssumption` and `ContentionAssumption`:
any finite set of runs, any set of processes, any delays, any number of attempts.

* `TypeCorrect`: `TypeOK`, from lemmas on what the row updates preserve.
* `DeliveryInvariant`: `TypeOK /\ DeliveryInv` is inductive. `AtMostOncePost` alone is not: that two
  attempts are never both out follows only because attempts are numbered without gaps and all but the
  latest have failed (`NumberingInv`), because the run's status fixes what its latest attempt may be
  (`LatestInv`), and because an attempt's status bounds its task's step and its request even after the
  claim was taken away (`RequestInv`, `StepInv`): a retry is recorded only for an attempt whose status is
  `claimed` (nothing sent yet, and the stale worker's `PrepareSend` will be refused), or whose request was
  refused.
* `AtMostOnce`, `WaitingUnsent`, `OutcomeIsTrue`, `RecoveryConsistent`, `SettledIsFinal`,
  `SchedulesAgree`, `SettlementsReported`: the properties of `delivery_safety` as theorems of `Spec`.
  `SchedulesAgree` and `SettlementsReported` strengthen the invariant by what they state.
* `RecoveryComplete` assumes `~Contention`, as the run `delivery_safety` does: with another transaction on
  a row, `SKIP LOCKED` passes it over and a startup does leave it behind. A scan ends with a batch that is
  not full, and such a batch held every candidate (`ShortBatch`, by counting). What the scans have removed
  does not come back (`ScannedInv`): whatever is claimed later has a lease that ends after the cutoff,
  which was the time once, and a run comes back to waiting only with an attempt behind it.
* `LeasesRespected` needs in addition that no startup cutoff lies in the future (`CutoffInv`).
* `Implements`: every step of `Delivery` is, for each run, a step of `PublishOnce` or leaves it alone;
  `LatestDecides` reduces the publication of a run to its latest attempt.

### Recurring schedules

From `CalendarAssumption` and `LifeAssumption`: a day and a week of any length, any set of times of day,
weekdays and end dates, any delays and limits. `MaxTime` and `MaxVersion` are arbitrary too, so the
bounds of the runs are no bounds of the theorems.

* `NextRunIsFirst`, `FirstRunIsFirst` (module `RecurrenceProofs`): the code's arithmetic returns the first
  occurrence after (from) the reference, and nothing only if the end date leaves none. `DivisionUnique`
  (date and time of day determine an instant) gives the time of day, `WeekdayReached` the weekday, and
  `WeeksAhead` that no earlier date of that weekday was skipped.
* `SteppingIsFirstUnused`: the loops that step over taken occurrences (an edit, startup recovery) end within
  as many steps as instants are taken, at the first free occurrence, or with nothing only where the rule
  ends before any is free; and that is what `FirstUnused`, which `Recurring` uses, defines. After `n` steps
  either a free occurrence is reached or `n + 1` taken ones lie behind (`Reached`), so that the bound of the
  loop suffices by counting. The library's induction theorems cannot be used, as they take an operator; the
  proof looks at the least number that would be an exception instead (`LeastNumber`, from the library's
  `WFMin`), and so does the one that the recursive function of the loop exists (`IterationExists`).
* `NextAlwaysFirst`, `FirstAlwaysInclusive`, `SteppingAlwaysFindsUnused` (module `MCRecurrenceProofs`): the
  invariants of the run `recurrence`, for every calendar, every set of end dates and every start.
* `IInv == TypeOK /\ OpenRunIsCurrent /\ TasksAgree` is inductive; `RecurringTypeCorrect` and
  `OpenRunCurrent` follow. `OpenRunIsCurrent` alone is not inductive: a task whose run is not in the state
  its step expects could open a settled run again or settle one it does not hold. `TasksAgree` ties each
  task to the status of its run; `_validate_runs`, which lets a command act only when nothing is
  processing and the shown run is pending, is what makes commands keep it.
* `SettledRunsAreFinal`: every step keeps settled rows (`SettledStays`).
* `PausedSchedulesCanResume`: from `IInv` and `NextRunIsFirst`, since the resume asks for an instant after
  the latest run there ever was.
* `OpenRunsMatchRule`: a step that keeps the rule answers only for the run it adds, which comes from the
  occurrence functions; an edit that changes the rule leaves open at most the run it computed.
* `PostsOncePerDay`: `OncePerDay` speaks of settled runs of any age. `OnceInv` adds to `IInv` that a posted
  run was due and nothing is open behind it (`PostedInv`, `ClaimedInv`); that a posted run shares its day
  with another posted or open one only if the recurrence was changed on that day (`DayInv`); and that no
  run of today or later comes before the regular occurrence of its day, unless it was changed then
  (`ShiftInv`): the "once" modes of a resume may post later in the day than the rule says and never earlier,
  or the regular occurrence of the same day would follow. Every step that opens a run opens one that fits
  (`FitsDay`), by `NextRunIsFirst`.
* `StartupRecoveryIsPossible`: in addition, a waiting run has attempts left (`PendingCanBeTried`). It is
  why the branches of pending recovery for contradictory runs may be left out of the model.

### Notification

From `WorkerAssumption`, `KindAssumption`, `AttemptAssumption`, `BatchAssumption`, `TimeAssumption` and
`ContentionAssumption`: any runs, any processes, any number of attempts, any delays. `KindAssumption` says
that whoever follows the notice of a run's delay follows that of its failure; the code has both for every
run, so it only restricts which kinds an instance may leave out.

* `IInv == TypeOK /\ RoutesInv /\ NumberingInv /\ LatestInv /\ StepInv` is inductive, and
  `NotificationTypeCorrect`, `OneRoute` and `ToldOnce` follow. `ToldAtMostOnce` speaks of all attempts of
  all routes of a notice: a route has a row exactly if the one before it failed for good (`RoutesInv`; a transaction that
  fails a row adds the next route, and only it does), and of that route's attempts all but the latest have
  failed (`NumberingInv`), while the row's status bounds the latest (`LatestInv`) and an attempt's status
  bounds its task and its request even after recovery took the claim away (`StepInv`). So a fallback route
  is opened only when no request of the former one was or can be accepted.
* The proof splits the steps in those of users, `Delivery` and bootstrap, which only add rows, cancel
  waiting ones or give back untouched ones (`LogGrows`), and those of workers and recovery (`Handled`).
* `SettledStays`: from `IInv` and that split, `SettledIsFinal`.
* `ReportsKept`: `IInv` with `ReportInv`: every failed run has the notice of its failure, what a row
  reports is so, and only a notice that has lost its object is ever cancelled.
* `BootstrappedStaysOut`: the next batch can only hold a draft again for the reasons the property names. The
  times of reminders are fixed by their kinds as long as they wait (`TimesInv`: an immediate one was planned
  within the last hour before its run and not ahead of the clock, one of an hour is at its threshold unless
  a pause withdrew it), only runs with reminders are without content (`ContentInv`), and a draft a batch has
  dealt with has an immediate reminder or one of an hour that is to come (`Covered`, and stays so), and no
  reminder that waits from before the cutoff unless one from before it was tried (`BootstrappedOK`).
  The cutoff of another process may be earlier; such a
  bootstrap finds nothing to withdraw or plan for this draft.
* `ImplementsTellOnce` (module `NotificationRefinement`): every step of `Notification` is, for each
  notice, a step of `TellOnce` or leaves it alone. Of a notice's routes the only one that has not failed
  decides its outcome, and of its requests the only one that may tell somebody decides its telling
  (`AllDecided`, from `IInv`, `ToldAtMostOnce` and `SuccessInv`); a notice that is told, dropped or only
  logged has a certain telling (`Certain`). What remains is which statuses of a row follow which.

### Names and forms

* `NamesTypeCorrect`, `NamesFit` (module `CleanupProofs`), for any schedules, workers, versions, limits and
  retention. `NameFitsContent` is not inductive, since the answer to a request outlives every change of the
  schedule: `TaskInv` says that the content a worker holds is that of the version its job was made for, as
  long as the schedule has that version. Saving a name compares versions and not contents
  (`application/name_generation.py:256`); this is why that suffices.
* `SpendingCapped` (module `CleanupProofs`), beside retention. Requests are counted over all jobs there ever
  were, deleted ones too. The limits hold of the jobs that got a reservation (`BudgetInv`): the buckets of
  the present day and month count all of them, and retention deletes only buckets that are past. A job with
  a reservation never waits again, and its version is never registered anew (`UsedInv`), so that it gets no
  second one; a worker about to ask is the only one for its job and nobody has asked before (`ClaimedInv`),
  so that there are no more requests than reservations.
* `FormsTypeCorrect`, `OneVerdictEach`, `ActsOnShown`, `ClicksAreAnswered` (module `FormsProofs`), for any number of
  interactions and forms. The invariant says that a handler at work on a form
  holds that form's `action_lock` and one that only waits holds none (`LocksOK`); that a form with an effect
  has an outdated version and is finished, unless it is a detail or its handler still has to answer
  (`EffectOK`); what a handler knows of the effects of its form (`KnowsOK`); that nothing is done with a
  form whose user was told it is over (`ToldOK`); and that a form shows the schedule of its version as long
  as the schedule has that version (`OpenedOK`). That no set of handlers waits for each other for ever
  (`NoEndlessWait`) follows from the order of the locks, which is part of `LocksOK`: who waits for a modal
  holds nothing, and who waits for a view holds only modals.

Liveness is outside of what TLAPS proves; the theorems say nothing of whether a run is ever delivered.

### Only model-checked

Every invariant, every action property and both refinements of the passing runs are theorems. What stays
with TLC is the liveness properties `StartupEnds`, `DueRunIsTaken`, `JobsAreSettled` and `DueIsErased`,
which rest on fairness, and the violation runs, which are counterexamples.

## 6. Not modelled

* Notices without a run (`recurring_missed`), `recovery` notices (their rows contradict each other, which
  the theorems of `Delivery` and `Recurring` exclude), and the cleanup loop over notices without a
  schedule, which is built like the one over schedules.
* A name generator that is disabled or has no price (every job is skipped, or none registered); the
  generator itself is an external choice, its acceptance harness an offline tool.
* Failed schedules in `Cleanup`: they are not among the statuses it deletes.
* Of recurring schedules, the channel and the duplicate warning of a creation; of one-time schedules,
  moving them to another time.
* Turning the pages of a list, filters, autocompletion, presenters: they read and format. The text of
  messages, names and error summaries.
* Configuration, sessions and migrations: no interaction with the running system.

Seen while modelling, and stated by no document, so without a run: a modal submitted late on a second
device can leave two live views on one message; a handler that is in flight when the views are closed may
register a view after `close_confirmation_views` cleared its sets (`bot/posts.py:2753`); the form for a
manual name may overwrite a generated name its user has not seen, because a generated name does not change
the version; any change of a schedule makes its pending name job stale, and unless the content changes no
other job is registered, so that it stays nameless; an immediate reminder that bootstrap cancelled unsent
is not planned again.
