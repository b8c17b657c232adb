--------------------------- MODULE NameGeneration ---------------------------
(* Names for schedules: the jobs that content registers, the worker that     *)
(* claims one, reserves budget for it, asks the provider once and saves the  *)
(* answer, and the edits, manual names and process ends that race with it.   *)
(*                                                                           *)
(* A PostgreSQL transaction is one action; between two of them the worker    *)
(* holds a "task", which dies with its process.  "asked" is the provider's   *)
(* side: the requests it has received, and bills.  A content is represented  *)
(* by the version of its schedule that brought it, a generated name by the   *)
(* content it was generated from.                                            *)
EXTENDS Integers, FiniteSets

CONSTANTS
    Schedules,
    Concluded,              \* those that ended, nameless, before the model starts
    Workers,                \* process incarnations
    DailyLimit,             \* daily_request_limit
    MonthlyLimit,           \* monthly_request_limit
    MonthlyCostLimit,       \* monthly_cost_limit_microunits
    Cost,                   \* maximum_cost_microunits of one request
    LeaseTimeout,           \* processing_lease_seconds
    DayLength, MonthLength, \* of the clock, in ticks; all months as long
    MaxVersion,             \* [Schedules -> bound of its version], for TLC only
    MaxTime                 \* bound of the clock, for TLC only

ASSUME ScheduleAssumption == Concluded \subseteq Schedules
ASSUME BudgetAssumption ==
    /\ {DailyLimit, MonthlyLimit, MonthlyCostLimit, Cost} \subseteq Nat \ {0}
    /\ DailyLimit <= MonthlyLimit
ASSUME ClockAssumption ==
    /\ {LeaseTimeout, DayLength, MonthLength} \subseteq Nat \ {0}
    /\ MaxVersion \in [Schedules -> Nat] /\ MaxTime \in Nat

VARIABLES
    now,        \* the clock all processes read
    proc,       \* per process incarnation: "new", "polling" or "over"
    schedule,   \* schedules: status, version, content, name and its source
    job,        \* name_generation_jobs by schedule and expected version: the
                \* status, and its time (created_at, lease_expires_at, finished_at)
    bucket,     \* name_generation_budget_buckets: requests reserved, by period
    task,       \* volatile: the worker's claimed job and what it holds of it
    asked       \* external: per job, the day reserved for and the requests got

nameVars == <<now, proc, schedule, job, bucket, task, asked>>

Jobs == Schedules \X (Nat \ {0})
Statuses == {"absent", "live", "done", "erased"}
Sources == {"unset", "ai", "manual"}
Settled == {"succeeded", "failed", "skipped", "abandoned"}
NoContent == 0
NoName == 0
Manual == -1
NoTask == [step |-> "none", job |-> <<>>, content |-> NoContent]

DayOf(t) == t \div DayLength
MonthOf(day) == day \div MonthLength
Day(t) == <<"day", DayOf(t)>>
Month(t) == <<"month", MonthOf(DayOf(t))>>

Blank == [status |-> "absent", version |-> 0, content |-> NoContent,
          name |-> NoName, source |-> "unset", terminal_at |-> 0]

Init ==
    /\ now = 0
    /\ proc = [w \in Workers |-> "new"]
    /\ schedule = [s \in Schedules |->
          IF s \in Concluded THEN [Blank EXCEPT !.status = "done"] ELSE Blank]
    /\ job = [j \in {} |-> 0]
    /\ bucket = [p \in {} |-> 0]
    /\ task = [w \in Workers |-> NoTask]
    /\ asked = [j \in {} |-> 0]

-----------------------------------------------------------------------------
(* Time and processes *)

Tick == /\ now < MaxTime
        /\ now' = now + 1
        /\ UNCHANGED <<proc, schedule, job, bucket, task, asked>>

Finished(status) == [status |-> status, at |-> now]

(* Mutant: the jobs of a dead worker are taken up again. *)
AbandonedForRetry(expired) ==
    [j \in DOMAIN job |-> IF j \in expired THEN [status |-> "pending", at |-> now]
                          ELSE job[j]]

Abandoned(expired) ==
    [j \in DOMAIN job |-> IF j \in expired THEN Finished("abandoned") ELSE job[j]]

(* recover_name_generation, once per process, before its loops start. *)
Start(w) ==
    /\ proc[w] = "new"
    /\ proc' = [proc EXCEPT ![w] = "polling"]
    /\ job' = Abandoned({j \in DOMAIN job : /\ job[j].status = "processing"
                                            /\ job[j].at <= now})
    /\ UNCHANGED <<now, schedule, bucket, task, asked>>

(* The process dies, or the transaction of its shutdown fails. *)
Crash(w) ==
    /\ proc[w] = "polling"
    /\ proc' = [proc EXCEPT ![w] = "over"]
    /\ task' = [task EXCEPT ![w] = NoTask]
    /\ UNCHANGED <<now, schedule, job, bucket, asked>>

Processing(j) == j \in DOMAIN job /\ job[j].status = "processing"

(* NameGenerationWorker.shutdown: the job it was last active on is given up, *)
(* whatever the provider makes of a request that has left.                   *)
Close(w) ==
    /\ proc[w] = "polling"
    /\ proc' = [proc EXCEPT ![w] = "over"]
    /\ task' = [task EXCEPT ![w] = NoTask]
    /\ job' = Abandoned({task[w].job} \cap {j \in DOMAIN job : Processing(j)})
    /\ UNCHANGED <<now, schedule, bucket, asked>>

-----------------------------------------------------------------------------
(* User commands and the other transactions that change a schedule *)

(* Mutant: the job is registered for the version before the edit. *)
JobBefore(s, version) == <<s, version - 1>>

JobFor(s, version) == <<s, version>>

(* Registration is idempotent, and fails without failing its transaction. *)
Registers(s, version) ==
    \/ UNCHANGED job
    \/ job' = [j \in DOMAIN job \cup {JobFor(s, version)} |->
                  IF j \in DOMAIN job THEN job[j]
                  ELSE [status |-> "pending", at |-> now]]

Create(s, filled) ==
    /\ schedule[s].status = "absent"
    /\ schedule' = [schedule EXCEPT ![s] =
          [Blank EXCEPT !.status = "live", !.version = 1,
                           !.content = IF filled THEN 1 ELSE NoContent]]
    /\ IF filled THEN Registers(s, 1) ELSE UNCHANGED job
    /\ UNCHANGED <<now, proc, bucket, task, asked>>

Bumped(s) == [schedule[s] EXCEPT !.version = @ + 1]
CanChange(s) == schedule[s].status = "live" /\ schedule[s].version < MaxVersion[s]

(* A changed content makes a generated name void. *)
Renamed(row) ==
    IF row.source = "ai" THEN [row EXCEPT !.name = NoName, !.source = "unset"]
    ELSE row

EditContent(s, filled) ==
    LET row == [Renamed(Bumped(s)) EXCEPT
                   !.content = IF filled THEN schedule[s].version + 1 ELSE NoContent]
    IN
    /\ CanChange(s) /\ (filled \/ schedule[s].content # NoContent)
    /\ schedule' = [schedule EXCEPT ![s] = row]
    /\ IF filled /\ row.source = "unset" THEN Registers(s, row.version)
       ELSE UNCHANGED job
    /\ UNCHANGED <<now, proc, bucket, task, asked>>

(* edit_manual_name; an empty name unsets it and registers no job. *)
EditName(s, source) ==
    /\ CanChange(s) /\ source \in {"manual", "unset"}
    /\ source = "unset" => schedule[s].source # "unset"
    /\ schedule' = [schedule EXCEPT ![s] =
          [Bumped(s) EXCEPT !.name = IF source = "manual" THEN Manual ELSE NoName,
                            !.source = source]]
    /\ UNCHANGED <<now, proc, job, bucket, task, asked>>

(* Any other edit, a pause, a resume, or a step of its recurrence. *)
Advance(s) ==
    /\ CanChange(s)
    /\ schedule' = [schedule EXCEPT ![s] = Bumped(s)]
    /\ UNCHANGED <<now, proc, job, bucket, task, asked>>

(* Completion, its end date, or deletion; a failed schedule is never deleted *)
(* and left out.  The name and content of a concluded schedule do not change *)
(* any more and are left out too.                                            *)
Conclude(s) ==
    /\ schedule[s].status = "live"
    /\ schedule' = [schedule EXCEPT ![s] =
          [Blank EXCEPT !.status = "done", !.terminal_at = now]]
    /\ UNCHANGED <<now, proc, job, bucket, task, asked>>

-----------------------------------------------------------------------------
(* The worker *)

(* lock_schedule_then_pending *)
Oldest == {j \in DOMAIN job :
              /\ job[j].status = "pending"
              /\ \A i \in DOMAIN job : job[i].status = "pending" =>
                    job[j].at <= job[i].at}

(* Mutant: the result of a schedule that has changed meanwhile is welcome. *)
WelcomeThoughStale(j) ==
    /\ schedule[j[1]].source = "unset" /\ schedule[j[1]].content # NoContent
    /\ schedule[j[1]].status = "live"

(* The schedule still wants the name of the version the job was made for. *)
Welcome(j) ==
    /\ schedule[j[1]].version = j[2]
    /\ schedule[j[1]].source = "unset" /\ schedule[j[1]].content # NoContent
    /\ schedule[j[1]].status = "live"

Reserved(p) == IF p \in DOMAIN bucket THEN bucket[p] ELSE 0

(* OperatorBudgetService.reserve *)
Affordable ==
    /\ Reserved(Day(now)) + 1 <= DailyLimit
    /\ Reserved(Month(now)) + 1 <= MonthlyLimit
    /\ (Reserved(Month(now)) + 1) * Cost <= MonthlyCostLimit

Free(w) == proc[w] = "polling" /\ task[w].step \in {"none", "lost"}

(* Mutant: a job that cannot be paid for today waits for tomorrow. *)
UnwelcomeOnly(j) == ~Welcome(j)

MustSkip(j) == ~Welcome(j) \/ ~Affordable

(* claim_and_reserve of a job that must not run, or cannot be paid for. *)
Skip(w) ==
    /\ Free(w)
    /\ \E j \in Oldest :
          /\ MustSkip(j)
          /\ job' = [job EXCEPT ![j] = Finished("skipped")]
    /\ UNCHANGED <<now, proc, schedule, bucket, task, asked>>

(* ... of one that may.  A job already processing, whoever's, makes the      *)
(* unique index refuse the whole transaction.                                *)
Claim(w) ==
    /\ Free(w)
    /\ ~\E i \in DOMAIN job : job[i].status = "processing"
    /\ \E j \in Oldest :
          /\ Welcome(j) /\ Affordable
          /\ job' = [job EXCEPT ![j] =
                [status |-> "processing", at |-> now + LeaseTimeout]]
          /\ bucket' = [p \in DOMAIN bucket \cup {Day(now), Month(now)} |->
                IF p \in {Day(now), Month(now)} THEN Reserved(p) + 1
                ELSE bucket[p]]
          /\ task' = [task EXCEPT ![w] =
                [step |-> "claimed", job |-> j, content |-> schedule[j[1]].content]]
          /\ asked' = [i \in DOMAIN asked \cup {j} |->
                IF i = j /\ j \notin DOMAIN asked
                THEN [day |-> DayOf(now), requests |-> 0] ELSE asked[i]]
    /\ UNCHANGED <<now, proc, schedule>>

Ask(w) ==
    /\ task[w].step = "claimed"
    /\ task' = [task EXCEPT ![w].step = "asked"]
    /\ asked' = [asked EXCEPT ![task[w].job].requests = @ + 1]
    /\ UNCHANGED <<now, proc, schedule, job, bucket>>

(* save_success: the name is kept only if the schedule has not changed, the  *)
(* version is not touched.                                                   *)
SaveSuccess(w) ==
    LET j == task[w].job IN
    /\ task[w].step = "asked"
    /\ \/ ~Processing(j) /\ UNCHANGED <<schedule, job>>
       \/ /\ Processing(j) /\ ~Welcome(j)
          /\ job' = [job EXCEPT ![j] = Finished("skipped")]
          /\ UNCHANGED schedule
       \/ /\ Processing(j) /\ Welcome(j)
          /\ job' = [job EXCEPT ![j] = Finished("succeeded")]
          /\ schedule' = [schedule EXCEPT ![j[1]] =
                [@ EXCEPT !.name = task[w].content, !.source = "ai"]]
    /\ task' = [task EXCEPT ![w] = NoTask]
    /\ UNCHANGED <<now, proc, bucket, asked>>

(* A timeout, a refusal, an invalid answer: failed, and never tried again. *)
SaveFailure(w) ==
    LET j == task[w].job IN
    /\ task[w].step = "asked"
    /\ job' = IF Processing(j) THEN [job EXCEPT ![j] = Finished("failed")]
              ELSE job
    /\ task' = [task EXCEPT ![w] = NoTask]
    /\ UNCHANGED <<now, proc, schedule, bucket, asked>>

(* The saving transaction fails: the row stays processing.  The process has  *)
(* no further use of the job but to give it up when it closes.               *)
SaveRaises(w) ==
    /\ task[w].step = "asked"
    /\ task' = [task EXCEPT ![w].step = "lost"]
    /\ UNCHANGED <<now, proc, schedule, job, bucket, asked>>

-----------------------------------------------------------------------------
Command(s) ==
    \/ \E filled \in BOOLEAN : Create(s, filled) \/ EditContent(s, filled)
    \/ EditName(s, "manual") \/ EditName(s, "unset") \/ Advance(s)

WorkerStep(w) ==
    \/ Skip(w) \/ Claim(w) \/ Ask(w)
    \/ SaveSuccess(w) \/ SaveFailure(w) \/ SaveRaises(w)

ProcessEnds(w) == Crash(w) \/ Close(w)

NameStep ==
    \/ Tick
    \/ \E w \in Workers : Start(w) \/ WorkerStep(w)
    \/ \E s \in Schedules : Command(s)

-----------------------------------------------------------------------------
(* Properties *)

(* A name that was generated is the name of the content the schedule has     *)
(* now, however edits, manual names, late answers and restarts interleave.   *)
NameFitsContent ==
    \A s \in Schedules : schedule[s].source = "ai" =>
        schedule[s].name = schedule[s].content /\ schedule[s].content # NoContent

ProcessStates == {"new", "polling", "over"}
ScheduleRow == [status : Statuses, version : Nat, content : Nat,
                name : Nat \cup {Manual}, source : Sources, terminal_at : Nat]
JobRow == [status : {"pending", "processing"} \cup Settled, at : Nat]
TaskRecord == [step : {"none", "claimed", "asked", "lost"},
               job : Jobs \cup {<<>>}, content : Nat]
Periods == {"day", "month"} \X Nat

(* Every variable keeps the shape of its tables, tasks and processes. *)
TypeOK ==
    /\ now \in Nat
    /\ proc \in [Workers -> ProcessStates]
    /\ schedule \in [Schedules -> ScheduleRow]
    /\ DOMAIN job \subseteq Jobs /\ job \in [DOMAIN job -> JobRow]
    /\ DOMAIN bucket \subseteq Periods /\ bucket \in [DOMAIN bucket -> Nat]
    /\ task \in [Workers -> TaskRecord]
    /\ DOMAIN asked \subseteq Jobs
    /\ asked \in [DOMAIN asked -> [day : Nat, requests : Nat]]

(* The periods a request of this day counts for, and how many requests the   *)
(* provider got that count for a period.                                     *)
PeriodsOf(day) == {<<"day", day>>, <<"month", MonthOf(day)>>}
Requested(p) == Cardinality({j \in DOMAIN asked : /\ asked[j].requests > 0
                                                  /\ p \in PeriodsOf(asked[j].day)})

(* The provider gets at most one request for a version of a schedule, and    *)
(* no more requests than the limits allow on any day and in any month they   *)
(* were reserved for, in number and in money: a crash, an abandoned job or a *)
(* late answer never spends a reservation twice.                             *)
SpendingIsCapped ==
    \A j \in DOMAIN asked :
        LET month == <<"month", MonthOf(asked[j].day)>> IN
        /\ asked[j].requests <= 1
        /\ Requested(<<"day", asked[j].day>>) <= DailyLimit
        /\ Requested(month) <= MonthlyLimit
        /\ Requested(month) * Cost <= MonthlyCostLimit
=============================================================================
