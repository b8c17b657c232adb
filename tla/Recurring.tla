------------------------------ MODULE Recurring ------------------------------
(* The life of one recurring schedule: creation, editing, pause, the three  *)
(* kinds of resume, deletion, the delivery of its runs, the finalization     *)
(* that creates the next run, and startup recovery.                          *)
(*                                                                           *)
(* A run is keyed by its instant (schedule_id, scheduled_for is unique).  Of *)
(* delivery only what the schedule sees is kept; that the task of a claim    *)
(* which was taken away can no longer write is proved in DeliveryProofs, so  *)
(* such a task is gone here.                                                 *)
EXTENDS Recurrence

CONSTANTS
    Lead,          \* EDIT_LEAD_TIME, and of a creation: 5 minutes
    LeaseTimeout,  \* processing lease
    RetryDelay,    \* delay of every retry
    MaxAttempts,   \* MAX_ATTEMPTS
    MissedLimit,   \* MAX_MISSED_OCCURRENCES_PER_SCHEDULE (500)
    Locals, Weekdays, Ends,  \* what users may choose
    MaxTime,       \* bound of the clock, for TLC only
    MaxVersion     \* bound of the user commands, for TLC only

ASSUME LifeAssumption ==
    /\ {Lead, LeaseTimeout, RetryDelay, MaxAttempts} \subseteq Nat \ {0}
    /\ {MissedLimit, MaxTime, MaxVersion} \subseteq Nat
    /\ Locals \subseteq 0..(Day - 1) /\ Locals # {}
    /\ Weekdays \subseteq (0..(Week - 1)) \cup {None} /\ Weekdays # {}
    /\ Ends \subseteq Nat \cup {None} /\ Ends # {}

VARIABLES
    now,
    schedule,   \* schedules: the row, or its absence
    runs,       \* schedule_runs of the schedule, by scheduled_for
    tasks,      \* volatile: <<run, step>> of the worker's tasks
    startup,    \* a process in startup recovery, and its cutoff
    rescued,    \* history: runs made by resume "immediate" or "rescheduled"
    edited      \* history: dates on which the recurrence was changed

vars == <<now, schedule, runs, tasks, startup, rescued, edited>>

RunStatuses == {"pending", "processing", "succeeded", "failed", "skipped"}
OpenStatuses == {"pending", "processing"}
Statuses == {"absent", "draft", "active", "paused", "ended", "deleted"}
Steps == {"prepare", "awaiting", "finalize"}
ChosenRules == [local : Locals, weekday : Weekdays, end : Ends]

NewRun(t) == [status |-> "pending", attempt_count |-> 0, next_attempt_at |-> t,
              attempt |-> "none", lease_expires_at |-> None]

Terminal(run, status) ==
    [run EXCEPT !.status = status, !.next_attempt_at = None,
                !.attempt = "none", !.lease_expires_at = None]

Waiting(run, at) ==
    [run EXCEPT !.status = "pending", !.next_attempt_at = at,
                !.attempt = "none", !.lease_expires_at = None]

Init ==
    /\ now = 0
    /\ schedule = [status |-> "absent", content |-> FALSE, next_run_at |-> None,
                   rule |-> CHOOSE rule \in ChosenRules : TRUE, version |-> 0]
    /\ runs = <<>>
    /\ tasks = {}
    /\ startup = [phase |-> "none", cutoff |-> None]
    /\ rescued = {}
    /\ edited = {}

-----------------------------------------------------------------------------
(* Helpers *)

With(t, row) == [u \in DOMAIN runs \cup {t} |-> IF u = t THEN row ELSE runs[u]]

Pending == {t \in DOMAIN runs : runs[t].status = "pending"}

(* Mutant: settled runs are skipped too. *)
SkipEvery(kept) ==
    [t \in DOMAIN runs |-> IF t \notin kept
                           THEN Terminal(runs[t], "skipped") ELSE runs[t]]

(* Mutant: only runs still ahead are skipped. *)
SkipAhead(kept) ==
    [t \in DOMAIN runs |-> IF t \in Pending \ kept /\ t > now
                           THEN Terminal(runs[t], "skipped") ELSE runs[t]]

(* skip_pending_for_..._schedule *)
SkipPending(kept) ==
    [t \in DOMAIN runs |-> IF t \in Pending \ kept
                           THEN Terminal(runs[t], "skipped") ELSE runs[t]]

(* Mutant: the run it replaces is left pending. *)
AddOnly(t) == With(t, NewRun(t))

(* ... and a new run, in the same transaction. *)
SkipPendingThenAdd(t) ==
    [u \in DOMAIN runs \cup {t} |->
        IF u = t THEN NewRun(t) ELSE SkipPending({})[u]]

Pristine(t) == runs[t].attempt_count = 0 /\ runs[t].next_attempt_at = t

StatusFor(content) == IF content THEN "active" ELSE "draft"

(* _validate_runs: nothing is processing, nothing waits for finalization. *)
RunsAreSettled ==
    /\ \A t \in DOMAIN runs : runs[t].status # "processing"
    /\ schedule.next_run_at # None => schedule.next_run_at \in Pending

Command == schedule.version < MaxVersion

-----------------------------------------------------------------------------
(* Time *)

Tick == /\ now < MaxTime
        /\ now' = now + 1
        /\ UNCHANGED <<schedule, runs, tasks, startup, rescued, edited>>

-----------------------------------------------------------------------------
(* User commands.  Each is one transaction; a command that meets another     *)
(* version than the one it was based on changes nothing.                     *)

(* RecurringScheduleCreationService.create *)
Create(content, rule) ==
    LET first == FirstRun(rule, now + Lead) IN
    /\ Command /\ schedule.status = "absent"
    /\ first # None
    /\ schedule' = [status |-> StatusFor(content), content |-> content,
                    next_run_at |-> first, rule |-> rule, version |-> 1]
    /\ runs' = With(first, NewRun(first))
    /\ edited' = {Date(now)}
    /\ UNCHANGED <<now, tasks, startup, rescued>>

(* validate_edit_target *)
CanEdit == \/ schedule.status = "paused"
           \/ /\ schedule.status \in {"draft", "active"}
              /\ schedule.next_run_at >= now + Lead

(* Mutant: the occurrence is chosen by the rule the schedule had. *)
EditedRunStale(rule) ==
    FirstUnused(schedule.rule, now + Lead, DOMAIN runs \ {schedule.next_run_at})

(* first_unused_recurring_edit_run: the current pending run may be kept. *)
EditedRun(rule) ==
    FirstUnused(rule, now + Lead, DOMAIN runs \ {schedule.next_run_at})

Edit(content, rule) ==
    LET changed == rule # schedule.rule
        next    == IF changed THEN EditedRun(rule) ELSE schedule.next_run_at
        replace == next # schedule.next_run_at
        Apply(status, nextRun) ==
            schedule' = [status |-> status, content |-> content,
                         next_run_at |-> nextRun, rule |-> rule,
                         version |-> schedule.version + 1]
    IN
    /\ Command /\ CanEdit /\ RunsAreSettled
    /\ (rule.weekday = None) <=> (schedule.rule.weekday = None)
    /\ changed \/ content # schedule.content
    /\ edited' = IF changed THEN edited \cup {Date(now)} ELSE edited
    /\ \/ /\ schedule.status = "paused"
          /\ Apply("paused", None)
          /\ runs' = IF changed THEN SkipPending({}) ELSE runs
       \/ /\ schedule.status # "paused" /\ ~replace
          /\ Apply(StatusFor(content), next)
          /\ runs' = runs
       \/ /\ schedule.status # "paused" /\ replace /\ next # None
          /\ next \notin DOMAIN runs
          /\ Apply(StatusFor(content), next)
          /\ runs' = SkipPendingThenAdd(next)
       \/ /\ schedule.status # "paused" /\ replace /\ next = None /\ content
          /\ Apply("ended", None)
          /\ runs' = SkipPending({})
    /\ UNCHANGED <<now, tasks, startup, rescued>>

(* _held_candidate *)
Held == {t \in Pending : t > now /\ Pristine(t)}

Pause ==
    /\ Command /\ schedule.status = "active" /\ RunsAreSettled
    /\ Held \subseteq {schedule.next_run_at}
    /\ runs' = SkipPending(Held)
    /\ schedule' = [schedule EXCEPT !.status = "paused", !.next_run_at = None,
                                    !.version = schedule.version + 1]
    /\ UNCHANGED <<now, tasks, startup, rescued, edited>>

(* _paused_held_run: at most one pending run, and that one untouched. *)
CanResume ==
    /\ Command /\ schedule.status = "paused" /\ RunsAreSettled
    /\ Cardinality(Pending) <= 1
    /\ \A t \in Pending : Pristine(t)

Resumed(next) ==
    schedule' = [schedule EXCEPT !.status = StatusFor(schedule.content),
                                 !.next_run_at = next,
                                 !.version = schedule.version + 1]

(* Before its time the held run is used again. *)
ResumeHeld ==
    /\ CanResume
    /\ \E held \in Pending : held > now /\ Resumed(held)
    /\ UNCHANGED <<now, runs, tasks, startup, rescued, edited>>

(* Mutant: the occurrences already used are not looked at. *)
FromNow(boundary) == boundary = now

(* latest_scheduled_for: the latest run there ever was, or now. *)
IsResumeBoundary(boundary) ==
    /\ boundary \in DOMAIN runs \cup {now}
    /\ \A t \in DOMAIN runs \cup {now} : t <= boundary

(* ResumeMode.NEXT_REGULAR *)
ResumeRegular(boundary) ==
    LET next == NextRun(schedule.rule, boundary) IN
    /\ CanResume /\ IsResumeBoundary(boundary)
    /\ \A held \in Pending : held <= now
    /\ \/ /\ next = None /\ schedule.content
          /\ runs' = SkipPending({})
          /\ schedule' = [schedule EXCEPT !.status = "ended",
                                          !.version = schedule.version + 1]
       \/ /\ next # None /\ next \notin DOMAIN runs
          /\ runs' = SkipPendingThenAdd(next)
          /\ Resumed(next)
    /\ UNCHANGED <<now, tasks, startup, rescued, edited>>

(* Mutant: a run held since an earlier day may be made up for as well. *)
ResumeOnceAnyDay(replacement) ==
    /\ CanResume
    /\ \E held \in Pending : held <= now
    /\ replacement >= now /\ Date(replacement) = Date(now)
    /\ WithinEnd(schedule.rule, now)
    /\ replacement \notin DOMAIN runs
    /\ runs' = SkipPendingThenAdd(replacement)
    /\ rescued' = rescued \cup {replacement}
    /\ Resumed(replacement)
    /\ UNCHANGED <<now, tasks, startup, edited>>

(* IMMEDIATE_ONCE (replacement = now) and RESCHEDULED_ONCE, for a run held   *)
(* since earlier the same day.                                               *)
ResumeOnce(replacement) ==
    /\ CanResume
    /\ \E held \in Pending : held <= now /\ Date(held) = Date(now)
    /\ replacement >= now /\ Date(replacement) = Date(now)
    /\ WithinEnd(schedule.rule, now)
    /\ replacement \notin DOMAIN runs
    /\ runs' = SkipPendingThenAdd(replacement)
    /\ rescued' = rescued \cup {replacement}
    /\ Resumed(replacement)
    /\ UNCHANGED <<now, tasks, startup, edited>>

Delete ==
    /\ Command /\ schedule.status \in {"draft", "active", "paused"}
    /\ RunsAreSettled
    /\ runs' = SkipPending({})
    /\ schedule' = [schedule EXCEPT !.status = "deleted", !.next_run_at = None,
                                    !.version = schedule.version + 1]
    /\ UNCHANGED <<now, tasks, startup, rescued, edited>>

-----------------------------------------------------------------------------
(* Finalization *)

(* _finalize_recurring raises RepositoryStateConflictError, for a run that    *)
(* is or becomes terminal with this status.                                  *)
FinalizeConflicts(t, status, at) ==
    LET later == {u \in DOMAIN runs : u > t}
        next  == NextRun(schedule.rule, at)
    IN
    /\ schedule.status \in {"draft", "active"}
    /\ \/ schedule.status = "draft" /\ status # "skipped"
       \/ schedule.content # (schedule.status = "active")
       \/ /\ schedule.next_run_at # t
          /\ ~\E u \in later : /\ u = schedule.next_run_at
                                /\ \A v \in later : u <= v
       \/ /\ schedule.next_run_at = t
          /\ next \in DOMAIN runs
          /\ ~(next \in Pending /\ next # t /\ Pristine(next))

(* Mutant: past the end date the schedule stays active. *)
FinalizedUnended(t, at) ==
    IF schedule.status \notin {"draft", "active"} \/ schedule.next_run_at # t
    THEN schedule
    ELSE [schedule EXCEPT !.next_run_at = NextRun(schedule.rule, at),
                          !.version = schedule.version + 1]

(* What it writes otherwise; "settled" is the runs with t terminal. *)
FinalizedSchedule(t, at) ==
    LET next == NextRun(schedule.rule, at) IN
    IF schedule.status \notin {"draft", "active"} \/ schedule.next_run_at # t
    THEN schedule
    ELSE CASE next # None ->
                 [schedule EXCEPT !.next_run_at = next,
                                  !.version = schedule.version + 1]
           [] next = None /\ schedule.status = "active" ->
                 [schedule EXCEPT !.status = "ended", !.next_run_at = None,
                                  !.version = schedule.version + 1]
           [] OTHER -> schedule

FinalizedRuns(t, settled, at) ==
    LET next == FinalizedSchedule(t, at).next_run_at IN
    IF next = None \/ next \in DOMAIN settled THEN settled
    ELSE [u \in DOMAIN settled \cup {next} |->
             IF u = next THEN NewRun(next) ELSE settled[u]]

-----------------------------------------------------------------------------
(* The worker *)

(* claim_due *)
Claim(t) ==
    /\ t \in Pending /\ t <= now
    /\ runs[t].next_attempt_at <= now
    /\ runs[t].attempt_count < MaxAttempts
    /\ schedule.status \in {"draft", "active"}
    /\ runs' = [runs EXCEPT ![t] =
                  [status |-> "processing",
                   attempt_count |-> runs[t].attempt_count + 1,
                   next_attempt_at |-> None, attempt |-> "claimed",
                   lease_expires_at |-> now + LeaseTimeout]]
    /\ tasks' = tasks \cup {<<t, "prepare">>}
    /\ UNCHANGED <<now, schedule, startup, rescued, edited>>

Advance(t, from, to) ==
    /\ <<t, from>> \in tasks
    /\ tasks' = (tasks \ {<<t, from>>}) \cup to
    /\ UNCHANGED <<now, startup, rescued, edited>>

(* _prepare: start_sending, or skip_before_send.  The lease is compared with *)
(* a time read any while before, so it does not hold a late task back.       *)
PrepareSend(t) ==
    /\ Advance(t, "prepare", {<<t, "awaiting">>})
    /\ schedule.status = "active" /\ schedule.next_run_at = t
    /\ runs' = [runs EXCEPT ![t].attempt = "sending"]
    /\ UNCHANGED schedule

PrepareSkip(t) ==
    /\ Advance(t, "prepare", {<<t, "finalize">>})
    /\ schedule.status \in {"draft", "paused", "deleted", "ended"}
    /\ runs' = [runs EXCEPT ![t] = Terminal(runs[t], "skipped")]
    /\ UNCHANGED schedule

(* complete_success, complete_unknown, and a final complete_failure. *)
SaveResult(t) ==
    /\ Advance(t, "awaiting", {<<t, "finalize">>})
    /\ \E status \in {"succeeded", "failed"} :
          runs' = [runs EXCEPT ![t] = Terminal(runs[t], status)]
    /\ UNCHANGED schedule

SaveRetry(t) ==
    /\ Advance(t, "awaiting", {})
    /\ runs[t].attempt_count < MaxAttempts
    /\ runs' = [runs EXCEPT ![t] = Waiting(runs[t], now + RetryDelay)]
    /\ UNCHANGED schedule

Finalize(t) ==
    /\ Advance(t, "finalize", {})
    /\ ~FinalizeConflicts(t, runs[t].status, now)
    /\ schedule' = FinalizedSchedule(t, now)
    /\ runs' = FinalizedRuns(t, runs, now)

(* A transaction is refused or fails, or the process dies. *)
Lose(t) ==
    /\ \E step \in Steps : Advance(t, step, {})
    /\ UNCHANGED <<schedule, runs>>

-----------------------------------------------------------------------------
(* Startup recovery, at a fixed cutoff; other processes may still be working *)

Start ==
    /\ startup.phase = "none"
    /\ startup' = [phase |-> "processing", cutoff |-> now]
    /\ UNCHANGED <<now, schedule, runs, tasks, rescued, edited>>

Expired == {t \in DOMAIN runs : /\ runs[t].status = "processing"
                                /\ runs[t].lease_expires_at <= startup.cutoff}

(* ProcessingRecoveryService._recover_one *)
RecoverExpired(t) ==
    LET cutoff  == startup.cutoff
        settled == [runs EXCEPT ![t] = Terminal(runs[t], "failed")]
    IN
    /\ startup.phase = "processing" /\ t \in Expired
    /\ tasks' = tasks \ ({t} \X Steps)
    /\ \/ /\ runs[t].attempt = "claimed" /\ runs[t].attempt_count < MaxAttempts
          /\ runs' = [runs EXCEPT ![t] = Waiting(runs[t], cutoff + RetryDelay)]
          /\ UNCHANGED schedule
       \/ /\ runs[t].attempt = "sending" \/ runs[t].attempt_count = MaxAttempts
          /\ ~FinalizeConflicts(t, "failed", cutoff)
          /\ schedule' = FinalizedSchedule(t, cutoff)
          /\ runs' = FinalizedRuns(t, settled, cutoff)
    /\ UNCHANGED <<now, startup, rescued, edited>>

ExpiredDone ==
    /\ startup.phase = "processing" /\ Expired = {}
    /\ startup' = [startup EXCEPT !.phase = "pending"]
    /\ UNCHANGED <<now, schedule, runs, tasks, rescued, edited>>

(* build_startup_pending_statement: healthy retries and the run a paused     *)
(* schedule holds are left alone.                                            *)
Overdue ==
    {t \in Pending :
        /\ t <= startup.cutoff
        /\ ~(/\ runs[t].attempt_count \in 1..(MaxAttempts - 1)
             /\ schedule.status \in {"draft", "active"})
        /\ ~(schedule.status = "paused" /\ Pristine(t))}

(* _recover_one skips a run nobody should run any more and fails one that    *)
(* disagrees with its schedule (_inconsistent).  RecoveryIsPossible shows    *)
(* that no overdue run is such a run, so those branches are no actions.      *)
Orphaned == schedule.status \in {"paused", "deleted", "ended"}

Inconsistent(t) ==
    \/ runs[t].attempt_count = MaxAttempts
    \/ schedule.content # (schedule.status = "active")
    \/ schedule.next_run_at # t

(* _recover_recurring: every occurrence from next_run_at up to the cutoff is *)
(* recorded as skipped, then comes the first unused one.                     *)
Missed == {t \in schedule.next_run_at..startup.cutoff :
              t = schedule.next_run_at \/ Occurs(schedule.rule, t)}

RecoveredNext == FirstUnused(schedule.rule, startup.cutoff + 1,
                             DOMAIN runs \cup Missed)

MissedRecorded ==
    [t \in DOMAIN runs \cup Missed |->
        IF t \in Missed \ DOMAIN runs THEN Terminal(NewRun(t), "skipped")
        ELSE IF t \in Missed \cap Pending THEN Terminal(runs[t], "skipped")
        ELSE runs[t]]

RecoverRecurring(t) ==
    LET next == RecoveredNext IN
    /\ startup.phase = "pending" /\ t \in Overdue
    /\ ~Orphaned /\ ~Inconsistent(t)
    /\ Cardinality(Missed) <= MissedLimit
    /\ next \notin DOMAIN MissedRecorded
    /\ runs' = IF next = None THEN MissedRecorded
               ELSE [u \in DOMAIN MissedRecorded \cup {next} |->
                        IF u = next THEN NewRun(next) ELSE MissedRecorded[u]]
    /\ schedule' =
          CASE next # None ->
                  [schedule EXCEPT !.next_run_at = next,
                                   !.version = schedule.version + 1]
            [] next = None /\ schedule.status = "active" ->
                  [schedule EXCEPT !.status = "ended", !.next_run_at = None,
                                   !.version = schedule.version + 1]
            [] OTHER -> schedule
    /\ UNCHANGED <<now, tasks, startup, rescued, edited>>

(* The last batch is short, or startup failed (and may be started again). *)
EndStartup ==
    /\ startup.phase # "none"
    /\ startup' = [phase |-> "none", cutoff |-> None]
    /\ UNCHANGED <<now, schedule, runs, tasks, rescued, edited>>

-----------------------------------------------------------------------------
UserCommand ==
    \/ \E content \in BOOLEAN, rule \in ChosenRules :
          Create(content, rule) \/ Edit(content, rule)
    \/ Pause \/ ResumeHeld \/ Delete
    \/ \E boundary \in DOMAIN runs \cup {now} : ResumeRegular(boundary)
    \/ \E replacement \in now..(now + Day) : ResumeOnce(replacement)

WorkerStep(t) ==
    \/ Claim(t) \/ PrepareSend(t) \/ PrepareSkip(t) \/ SaveResult(t)
    \/ SaveRetry(t) \/ Finalize(t) \/ Lose(t)

RecoveryStep(t) == RecoverExpired(t) \/ RecoverRecurring(t)

Next ==
    \/ Tick \/ UserCommand
    \/ \E t \in DOMAIN runs : WorkerStep(t) \/ RecoveryStep(t)
    \/ Start \/ ExpiredDone \/ EndStartup

Spec == Init /\ [][Next]_vars

-----------------------------------------------------------------------------
(* Properties *)

Row == [status : RunStatuses, attempt_count : 0..MaxAttempts,
        next_attempt_at : Int \cup {None}, attempt : {"none", "claimed", "sending"},
        lease_expires_at : Int \cup {None}]

RowOK(run) ==
    /\ run \in Row
    /\ run.status = "pending" <=> run.next_attempt_at # None
    /\ run.status = "processing" <=> run.lease_expires_at # None
    /\ run.status = "processing" <=> run.attempt # "none"

(* Values have their types; a schedule points at a run exactly in the two    *)
(* states in which it is delivered, and is active exactly with a content     *)
(* (the table's check constraints, and the reads of schedule_execution.py).  *)
TypeOK ==
    /\ now \in Nat
    /\ schedule \in [status : Statuses, content : BOOLEAN,
                     next_run_at : Int \cup {None}, rule : ChosenRules,
                     version : Nat]
    /\ schedule.next_run_at # None <=> schedule.status \in {"draft", "active"}
    /\ schedule.status \in {"draft", "active"}
         => schedule.content = (schedule.status = "active")
    /\ DOMAIN runs \subseteq Int
    /\ \A t \in DOMAIN runs : RowOK(runs[t])
    /\ tasks \subseteq (DOMAIN runs) \X Steps
    /\ startup \in [phase : {"none", "processing", "pending"},
                    cutoff : Nat \cup {None}]
    /\ startup.phase = "none" <=> startup.cutoff = None
    /\ rescued \subseteq DOMAIN runs
    /\ edited \subseteq Int

OpenRuns == {t \in DOMAIN runs : runs[t].status \in OpenStatuses}

(* No run is ever sent but the one the schedule shows: at most one run is    *)
(* open, it is the one next_run_at names, and where nothing may be delivered *)
(* the only open run is the untouched one a paused schedule holds.           *)
OpenRunIsCurrent ==
    /\ schedule.status \in {"draft", "active"} =>
          /\ schedule.next_run_at \in DOMAIN runs
          /\ OpenRuns \subseteq {schedule.next_run_at}
    /\ schedule.status = "paused" =>
          /\ \A t, u \in OpenRuns : t = u
          /\ \A t \in OpenRuns : runs[t].status = "pending" /\ Pristine(t)
    /\ schedule.status \in {"absent", "ended", "deleted"} => OpenRuns = {}

(* What will be posted follows the rule the schedule has now, however often  *)
(* it was edited, paused, recovered; only the run a user asked for with one  *)
(* of the two "once" modes of a resume need not.                             *)
OpenRunMatchesRule ==
    \A t \in OpenRuns : t \in rescued \/ Occurs(schedule.rule, t)

(* A recurring schedule posts at most once for a day, through pauses,        *)
(* make-up runs, retries and restarts, unless it was edited on that day.     *)
OncePerDay ==
    \A t, u \in DOMAIN runs :
        /\ runs[t].status = "succeeded" /\ runs[u].status = "succeeded"
        /\ t # u /\ Date(t) = Date(u)
        => Date(t) \in edited

(* A paused schedule can be resumed: at most one run waits, untouched, and   *)
(* the occurrence the resume computes was not used before (the insertion of  *)
(* a second run for it would be refused).                                    *)
PausedCanResume ==
    schedule.status = "paused" =>
        /\ RunsAreSettled
        /\ Cardinality(Pending) <= 1 /\ \A t \in Pending : Pristine(t)
        /\ \A boundary \in DOMAIN runs \cup {now} :
              IsResumeBoundary(boundary)
              => NextRun(schedule.rule, boundary) \notin DOMAIN runs

(* Startup recovery, meeting an overdue run while users and workers go on,   *)
(* never finds one that contradicts its schedule, and never fails by making  *)
(* a run for an instant that has one.                                        *)
RecoveryIsPossible ==
    startup.phase = "pending" =>
        \A t \in Overdue :
            /\ ~Orphaned /\ ~Inconsistent(t)
            /\ RecoveredNext \notin DOMAIN runs \cup Missed

(* What happened to a run stays: no edit, pause, resume, deletion or         *)
(* recovery reopens a settled run, changes its result or forgets it.         *)
SettledIsFinal ==
    [][\A t \in DOMAIN runs :
          /\ t \in DOMAIN runs'
          /\ runs[t].status \notin OpenStatuses
             => runs'[t].status = runs[t].status]_vars

(* Said of every final result (docs/technical-design-beta.md:657, :667): the *)
(* schedule stays active and its next run is generated, or a healthy one     *)
(* used.  Finalization would refuse exactly where this does not hold.        *)
FinalizeNeverConflicts ==
    \A t \in DOMAIN runs :
        <<t, "finalize">> \in tasks => ~FinalizeConflicts(t, runs[t].status, now)
=============================================================================
