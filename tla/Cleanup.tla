------------------------------- MODULE Cleanup -------------------------------
(* Retention: the daily cycle that deletes old schedules with all their rows *)
(* and old name jobs, beside the name generation of the same schedules       *)
(* (module NameGeneration) and the runs and notifications they still have    *)
(* (modules Delivery and Notification, here only whether any is in flight).  *)
EXTENDS NameGeneration, FiniteSetsExt

CONSTANTS
    Retention,       \* RETENTION_PERIOD, 30 days, in ticks
    JobRetention,    \* name_generation_job_retention_days
    BudgetRetention, \* name_generation_budget_retention_days, in days
    BatchSize,       \* schedule_batch_size (100)
    Stubborn,        \* schedules whose deletion always fails
    MaxCycles        \* bound of the cycles of several processes at a time

ASSUME RetentionAssumption ==
    /\ {Retention, JobRetention, BudgetRetention, BatchSize} \subseteq Nat \ {0}
    /\ Stubborn \subseteq Schedules

VARIABLES
    cycle,     \* per process: the maintenance cycle it is in
    inflight   \* concluded schedules with a delivery or a notice in flight

cleanupVars == <<cycle, inflight>>
vars == <<nameVars, cleanupVars>>

NoCycle == [step |-> "none", cutoff |-> 0, excluded |-> {}, tried |-> 0]

CleanupInit ==
    /\ Init
    /\ cycle = [w \in Workers |-> NoCycle]
    /\ inflight = {}

-----------------------------------------------------------------------------
(* run_cycle takes the cutoff once.  Its first transaction deletes the name  *)
(* jobs and buckets that are due; if it fails the cycle goes on.             *)
DueJobs == {j \in DOMAIN job : /\ job[j].status \in Settled
                               /\ job[j].at <= now - JobRetention}

(* Mutant: the month that the retention ends in goes too. *)
DueBucketsWithMonth ==
    {p \in DOMAIN bucket :
        \/ p[1] = "day" /\ p[2] < DayOf(now) - BudgetRetention
        \/ p[1] = "month" /\ p[2] <= MonthOf(DayOf(now) - BudgetRetention)}

DueBuckets ==
    {p \in DOMAIN bucket :
        \/ p[1] = "day" /\ p[2] < DayOf(now) - BudgetRetention
        \/ p[1] = "month" /\ p[2] < MonthOf(DayOf(now) - BudgetRetention)}

StartCycle(w) ==
    /\ proc[w] = "polling" /\ cycle[w].step = "none"
    /\ Cardinality({v \in Workers : cycle[v].step # "none"}) < MaxCycles
    /\ cycle' = [cycle EXCEPT ![w] = [NoCycle EXCEPT !.step = "schedules",
                                                     !.cutoff = now - Retention]]
    /\ \/ /\ job' = [j \in DOMAIN job \ DueJobs |-> job[j]]
          /\ bucket' = [p \in DOMAIN bucket \ DueBuckets |-> bucket[p]]
       \/ UNCHANGED <<job, bucket>>
    /\ UNCHANGED <<now, proc, schedule, task, asked, inflight>>

(* lock_next_schedule and schedule_is_still_deletable *)
Deletable(s, cutoff) ==
    /\ schedule[s].status = "done" /\ schedule[s].terminal_at <= cutoff
    /\ s \notin inflight
    /\ \A j \in DOMAIN job : j[1] = s =>
          job[j].status \in Settled /\ job[j].at <= cutoff

(* Mutant: a schedule whose deletion failed is the next one again. *)
CandidatesAgain(w) == {s \in Schedules : Deletable(s, cycle[w].cutoff)}

Candidates(w) ==
    {s \in Schedules : Deletable(s, cycle[w].cutoff) /\ s \notin cycle[w].excluded}

(* The oldest first; which of equals is not said. *)
NextUp(w) == {s \in Candidates(w) :
                \A q \in Candidates(w) :
                    schedule[s].terminal_at <= schedule[q].terminal_at}

InBatch(w) == cycle[w].step = "schedules" /\ cycle[w].tried < BatchSize

(* _delete_one_schedule: its rows and the schedule go, in one transaction. *)
DeleteSchedule(w) ==
    /\ InBatch(w)
    /\ \E s \in NextUp(w) \ Stubborn :
          /\ schedule' = [schedule EXCEPT ![s] = [Blank EXCEPT !.status = "erased"]]
          /\ job' = [j \in {i \in DOMAIN job : i[1] # s} |-> job[j]]
    /\ cycle' = [cycle EXCEPT ![w].tried = @ + 1]
    /\ UNCHANGED <<now, proc, bucket, task, asked, inflight>>

(* A deletion that fails is rolled back and left alone for this cycle. *)
DeleteFails(w) ==
    /\ InBatch(w)
    /\ \E s \in NextUp(w) \cap Stubborn :
          cycle' = [cycle EXCEPT ![w].tried = @ + 1, ![w].excluded = @ \cup {s}]
    /\ UNCHANGED <<nameVars, inflight>>

EndCycle(w) ==
    /\ cycle[w].step = "schedules"
    /\ ~InBatch(w) \/ Candidates(w) = {}
    /\ cycle' = [cycle EXCEPT ![w] = NoCycle]
    /\ UNCHANGED <<nameVars, inflight>>

(* The choice of the next schedule fails: the cycle makes do. *)
BreakCycle(w) ==
    /\ InBatch(w)
    /\ cycle' = [cycle EXCEPT ![w] = NoCycle]
    /\ UNCHANGED <<nameVars, inflight>>

(* A schedule may be concluded with a delivery or notices still in flight;   *)
(* after that it only loses them.                                            *)
WorkIsLeft(s) == inflight' \in {inflight, inflight \cup {s}}

WorkEnds(s) ==
    /\ s \in inflight
    /\ inflight' = inflight \ {s}
    /\ UNCHANGED <<nameVars, cycle>>

-----------------------------------------------------------------------------
Next ==
    \/ NameStep /\ UNCHANGED cleanupVars
    \/ \E w \in Workers :
          \/ /\ ProcessEnds(w)
             /\ cycle' = [cycle EXCEPT ![w] = NoCycle] /\ UNCHANGED inflight
          \/ StartCycle(w) \/ DeleteSchedule(w) \/ DeleteFails(w)
          \/ EndCycle(w) \/ BreakCycle(w)
    \/ \E s \in Schedules :
          (Conclude(s) /\ WorkIsLeft(s) /\ UNCHANGED cycle) \/ WorkEnds(s)

(* The loops of a process poll; a transaction that keeps getting its turn    *)
(* does not fail every time; and time passes.  Which process runs the cycles *)
(* is left open.                                                             *)
Fairness ==
    /\ WF_vars(Tick /\ UNCHANGED cleanupVars)
    /\ \A w \in Workers : WF_vars(WorkerStep(w) /\ UNCHANGED cleanupVars)
    /\ WF_vars(\E w \in Workers : StartCycle(w) \/ EndCycle(w))
    /\ SF_vars(\E w \in Workers : DeleteSchedule(w))
    /\ SF_vars(\E w \in Workers : DeleteFails(w))

Spec == CleanupInit /\ [][Next]_vars /\ Fairness

-----------------------------------------------------------------------------
(* Properties *)

Versions == 1..Max({MaxVersion[s] : s \in Schedules})
SomebodyPolls == \E w \in Workers : proc[w] = "polling"

(* A name job is settled in the end, in whatever order jobs come and whether *)
(* or not there is budget for it - unless no process polls any more, or the  *)
(* only row that may be processing belongs to a claim nobody works on, which *)
(* the next start is to abandon.                                             *)
JobsAreSettled ==
    \A j \in {i \in (Schedules \ Concluded) \X Versions : i[2] <= MaxVersion[i[1]]} :
        (j \in DOMAIN job /\ job[j].status = "pending")
            ~> \/ j \notin DOMAIN job \/ job[j].status \in Settled
               \/ ~SomebodyPolls
               \/ \E i \in DOMAIN job :
                     /\ job[i].status = "processing"
                     /\ \A w \in Workers :
                           task[w].job = i => task[w].step = "lost"

(* A schedule whose retention is over is deleted in the end, even if other,  *)
(* older ones can never be deleted, as long as a batch has room for one more *)
(* than there are of those.                                                  *)
DueIsErased ==
    \A s \in Schedules \ Stubborn :
        (Deletable(s, now - Retention) /\ Cardinality(Stubborn) < BatchSize)
            ~> schedule[s].status = "erased" \/ ~SomebodyPolls
=============================================================================
