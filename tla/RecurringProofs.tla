--------------------------- MODULE RecurringProofs ---------------------------
(* The safety of a recurring schedule.  What carries it is that no run is    *)
(* open but the one the schedule shows, which is not inductive without       *)
(* knowing which runs the worker's tasks are about (TasksAgree): a task that *)
(* could settle or send another run would open or close one behind the       *)
(* schedule's back.  On it rest: settled runs stay, a paused schedule can be *)
(* resumed, what is open follows the rule, nothing is posted twice for a day *)
(* and startup recovery succeeds.                                            *)
EXTENDS Recurring, RecurrenceProofs, FiniteSetTheorems, TLAPS

(* A task is about a run in the state its step expects, so a pending run has *)
(* no task and no run has two.                                               *)
TaskAgrees(t, step) ==
    /\ step = "prepare"  => runs[t].status = "processing" /\ runs[t].attempt = "claimed"
    /\ step = "awaiting" => runs[t].status = "processing" /\ runs[t].attempt = "sending"
    /\ step = "finalize" => runs[t].status \notin OpenStatuses

TasksAgree ==
    /\ \A t \in DOMAIN runs : \A step \in Steps :
          <<t, step>> \in tasks => TaskAgrees(t, step)
    /\ schedule.status = "absent" => DOMAIN runs = {}

IInv == TypeOK /\ OpenRunIsCurrent /\ TasksAgree

-----------------------------------------------------------------------------
(* Instants *)

Instants == Int \cup {None}

LEMMA ChosenRulesAreRules == ChosenRules \subseteq Rules
<1>1. Locals \subseteq 0..(Day - 1)
  BY LifeAssumption
<1>2. Weekdays \subseteq (0..(Week - 1)) \cup {None}
  BY LifeAssumption
<1>3. Ends \subseteq Nat \cup {None}
  BY LifeAssumption
<1> QED
  BY <1>1, <1>2, <1>3 DEF ChosenRules, Rules

(* The next run is an instant, an occurrence, and later than the reference. *)
LEMMA NextRunType ==
    ASSUME NEW rule \in ChosenRules, NEW at \in Int
    PROVE  /\ NextRun(rule, at) \in Instants
           /\ NextRun(rule, at) # None
              => NextRun(rule, at) > at /\ Occurs(rule, NextRun(rule, at))
BY ChosenRulesAreRules, NextRunIsFirst DEF Instants

LEMMA FirstRunType ==
    ASSUME NEW rule \in ChosenRules, NEW at \in Int
    PROVE  /\ FirstRun(rule, at) \in Instants
           /\ FirstRun(rule, at) # None => Occurs(rule, FirstRun(rule, at))
BY ChosenRulesAreRules, FirstRunIsFirst DEF Instants

LEMMA LeastType ==
    ASSUME NEW S
    PROVE  Least(S) # None => Least(S) \in S
BY DEF Least, IsLeast

LEMMA FirstUnusedType ==
    ASSUME NEW rule, NEW from, NEW taken
    PROVE  /\ FirstUnused(rule, from, taken) \in Instants
           /\ FirstUnused(rule, from, taken) # None
              => Occurs(rule, FirstUnused(rule, from, taken))
BY LeastType DEF FirstUnused, Instants

-----------------------------------------------------------------------------
(* Rows *)

LEMMA NewRunOK ==
    ASSUME NEW t \in Int
    PROVE  RowOK(NewRun(t)) /\ NewRun(t).status = "pending"
BY CalendarAssumption, LifeAssumption
   DEF RowOK, Row, NewRun, RunStatuses

LEMMA TerminalOK ==
    ASSUME NEW run, RowOK(run), NEW status \in RunStatuses \ OpenStatuses
    PROVE  RowOK(Terminal(run, status)) /\ Terminal(run, status).status = status
BY CalendarAssumption, LifeAssumption
   DEF RowOK, Row, Terminal, RunStatuses, OpenStatuses

LEMMA WaitingOK ==
    ASSUME NEW run, RowOK(run), NEW at \in Int
    PROVE  RowOK(Waiting(run, at)) /\ Waiting(run, at).status = "pending"
BY CalendarAssumption, LifeAssumption
   DEF RowOK, Row, Waiting, RunStatuses

-----------------------------------------------------------------------------
(* The parts of TypeOK, and what a command does to runs and tasks *)

ScheduleOK ==
    /\ schedule \in [status : Statuses, content : BOOLEAN,
                     next_run_at : Instants, rule : ChosenRules, version : Nat]
    /\ schedule.next_run_at # None <=> schedule.status \in {"draft", "active"}
    /\ schedule.status \in {"draft", "active"}
         => schedule.content = (schedule.status = "active")

RunsOK == DOMAIN runs \subseteq Int /\ \A t \in DOMAIN runs : RowOK(runs[t])

TasksOK == tasks \subseteq (DOMAIN runs) \X Steps

StartupOK ==
    /\ startup \in [phase : {"none", "processing", "pending"},
                    cutoff : Nat \cup {None}]
    /\ startup.phase = "none" <=> startup.cutoff = None

HistoryOK == rescued \subseteq DOMAIN runs /\ edited \subseteq Int

LEMMA TypeParts ==
    TypeOK <=> /\ now \in Nat /\ ScheduleOK /\ RunsOK /\ TasksOK
               /\ StartupOK /\ HistoryOK
BY DEF TypeOK, ScheduleOK, RunsOK, TasksOK, StartupOK, HistoryOK, Instants

(* No run disappears, and only pending ones change. *)
RunsKept ==
    \A t \in DOMAIN runs :
        /\ t \in DOMAIN runs'
        /\ runs[t].status # "pending" => runs'[t] = runs[t]

LEMMA TaskNotPending ==
    ASSUME TypeOK, TasksAgree, NEW t, NEW step, <<t, step>> \in tasks
    PROVE  /\ t \in DOMAIN runs /\ step \in Steps
           /\ TaskAgrees(t, step) /\ runs[t].status # "pending"
<1>1. t \in DOMAIN runs /\ step \in Steps
  BY TypeParts DEF TasksOK
<1>2. TaskAgrees(t, step)
  BY <1>1 DEF TasksAgree
<1> QED
  BY <1>1, <1>2 DEF TaskAgrees, Steps, OpenStatuses

(* Tasks whose runs did not change still agree with them. *)
LEMMA TasksKept ==
    ASSUME TypeOK, TasksAgree, tasks' \subseteq tasks,
           DOMAIN runs \subseteq DOMAIN runs',
           \A t \in DOMAIN runs : \A step \in Steps :
               <<t, step>> \in tasks' => runs'[t] = runs[t],
           schedule'.status # "absent"
    PROVE  TasksOK' /\ TasksAgree'
<1>1. TasksOK'
  BY TypeParts DEF TasksOK
<1>2. ASSUME NEW t, NEW step, <<t, step>> \in tasks'
      PROVE  TaskAgrees(t, step)'
  <2>1. <<t, step>> \in tasks
    BY <1>2
  <2>2. t \in DOMAIN runs /\ step \in Steps /\ TaskAgrees(t, step)
    BY <2>1, TaskNotPending
  <2>3. runs'[t] = runs[t]
    BY <1>2, <2>2
  <2> QED
    BY <2>2, <2>3 DEF TaskAgrees
<1> QED
  BY <1>1, <1>2 DEF TasksAgree

LEMMA CommandKeepsTasks ==
    ASSUME TypeOK, TasksAgree, RunsKept, tasks' = tasks,
           schedule'.status # "absent"
    PROVE  TasksOK' /\ TasksAgree'
<1>1. DOMAIN runs \subseteq DOMAIN runs'
  BY DEF RunsKept
<1>2. ASSUME NEW t \in DOMAIN runs, NEW step \in Steps, <<t, step>> \in tasks'
      PROVE  runs'[t] = runs[t]
  <2>1. runs[t].status # "pending"
    BY <1>2, TaskNotPending
  <2> QED
    BY <2>1 DEF RunsKept
<1> QED
  BY <1>1, <1>2, TasksKept

-----------------------------------------------------------------------------
(* Skipping what is pending, and opening a new run *)

LEMMA SkipFacts ==
    ASSUME RunsOK, NEW kept
    PROVE  /\ DOMAIN SkipPending(kept) = DOMAIN runs
           /\ \A t \in DOMAIN runs :
                 /\ RowOK(SkipPending(kept)[t])
                 /\ t \in Pending \ kept
                    => SkipPending(kept)[t].status = "skipped"
                 /\ t \notin Pending \ kept => SkipPending(kept)[t] = runs[t]
<1>1. DOMAIN SkipPending(kept) = DOMAIN runs
  BY DEF SkipPending
<1>2. ASSUME NEW t \in DOMAIN runs
      PROVE  /\ RowOK(SkipPending(kept)[t])
             /\ t \in Pending \ kept
                => SkipPending(kept)[t].status = "skipped"
             /\ t \notin Pending \ kept => SkipPending(kept)[t] = runs[t]
  <2>1. RowOK(runs[t])
    BY DEF RunsOK
  <2>2. "skipped" \in RunStatuses \ OpenStatuses
    BY DEF RunStatuses, OpenStatuses
  <2>3. RowOK(Terminal(runs[t], "skipped")) /\ Terminal(runs[t], "skipped").status = "skipped"
    BY <2>1, <2>2, TerminalOK
  <2>4. SkipPending(kept)[t] = IF t \in Pending \ kept
                               THEN Terminal(runs[t], "skipped") ELSE runs[t]
    BY DEF SkipPending
  <2> QED
    BY <2>1, <2>3, <2>4
<1> QED
  BY <1>1, <1>2

(* A command that skips every pending run leaves none open. *)
LEMMA AfterSkip ==
    ASSUME RunsOK, \A t \in DOMAIN runs : runs[t].status # "processing",
           runs' = SkipPending({})
    PROVE  /\ RunsOK' /\ RunsKept
           /\ DOMAIN runs' = DOMAIN runs /\ OpenRuns' = {}
<1>1. /\ DOMAIN runs' = DOMAIN runs
      /\ \A t \in DOMAIN runs :
            /\ RowOK(runs'[t])
            /\ t \in Pending => runs'[t].status = "skipped"
            /\ t \notin Pending => runs'[t] = runs[t]
  BY SkipFacts
<1>2. RunsOK' /\ RunsKept
  BY <1>1 DEF RunsOK, RunsKept, Pending
<1>3. ASSUME NEW t \in DOMAIN runs PROVE runs'[t].status \notin OpenStatuses
  <2>1. CASE t \in Pending
    BY <2>1, <1>1 DEF OpenStatuses
  <2>2. CASE t \notin Pending
    <3>1. runs'[t] = runs[t] /\ runs[t].status # "pending"
      BY <2>2, <1>1 DEF Pending
    <3> QED
      BY <3>1 DEF OpenStatuses
  <2> QED
    BY <2>1, <2>2
<1> QED
  BY <1>1, <1>2, <1>3 DEF OpenRuns

(* A command that then adds a run leaves only that one open. *)
LEMMA AfterReplace ==
    ASSUME RunsOK, \A t \in DOMAIN runs : runs[t].status # "processing",
           NEW n \in Int, n \notin DOMAIN runs, runs' = SkipPendingThenAdd(n)
    PROVE  /\ RunsOK' /\ RunsKept
           /\ DOMAIN runs' = DOMAIN runs \cup {n}
           /\ runs'[n] = NewRun(n) /\ OpenRuns' = {n}
<1>1. /\ DOMAIN SkipPending({}) = DOMAIN runs
      /\ \A t \in DOMAIN runs :
            /\ RowOK(SkipPending({})[t])
            /\ t \in Pending => SkipPending({})[t].status = "skipped"
            /\ t \notin Pending => SkipPending({})[t] = runs[t]
  BY SkipFacts
<1>2. /\ DOMAIN runs' = DOMAIN runs \cup {n} /\ runs'[n] = NewRun(n)
      /\ \A t \in DOMAIN runs : runs'[t] = SkipPending({})[t]
  BY DEF SkipPendingThenAdd
<1>3. RowOK(NewRun(n)) /\ NewRun(n).status = "pending"
  BY NewRunOK
<1>4. RunsOK'
  BY <1>1, <1>2, <1>3 DEF RunsOK
<1>5. RunsKept
  BY <1>1, <1>2 DEF RunsKept, Pending
<1>6. ASSUME NEW t \in DOMAIN runs PROVE runs'[t].status \notin OpenStatuses
  <2>1. CASE t \in Pending
    BY <2>1, <1>1, <1>2 DEF OpenStatuses
  <2>2. CASE t \notin Pending
    <3>1. runs'[t] = runs[t] /\ runs[t].status # "pending"
      BY <2>2, <1>1, <1>2 DEF Pending
    <3> QED
      BY <3>1 DEF OpenStatuses
  <2> QED
    BY <2>1, <2>2
<1>7. OpenRuns' = {n}
  BY <1>2, <1>3, <1>6 DEF OpenRuns, OpenStatuses
<1> QED
  BY <1>2, <1>4, <1>5, <1>7

-----------------------------------------------------------------------------
(* User commands *)

LEMMA CommandAssembles ==
    ASSUME IInv, RunsKept, RunsOK', ScheduleOK', OpenRunIsCurrent',
           schedule'.status # "absent", UNCHANGED <<now, tasks, startup>>,
           rescued' \subseteq rescued \cup DOMAIN runs',
           edited' \subseteq edited \cup {Date(now)}
    PROVE  IInv'
<1>1. TypeOK /\ TasksAgree
  BY DEF IInv
<1>2. /\ now \in Nat /\ StartupOK /\ HistoryOK
  BY <1>1, TypeParts
<1>3. TasksOK' /\ TasksAgree'
  BY <1>1, CommandKeepsTasks
<1>4. Date(now) \in Int
  BY <1>2, CalendarAssumption DEF Date
<1>5. rescued' \subseteq DOMAIN runs'
  BY <1>2 DEF HistoryOK, RunsKept
<1>6. HistoryOK'
  BY <1>2, <1>4, <1>5 DEF HistoryOK
<1>7. now' \in Nat /\ StartupOK'
  BY <1>2 DEF StartupOK
<1>8. TypeOK'
  BY <1>3, <1>6, <1>7
     DEF TypeOK, ScheduleOK, RunsOK, TasksOK, StartupOK, HistoryOK, Instants
<1> QED
  BY <1>3, <1>8 DEF IInv

(* What the invariant and _validate_runs together say to a command. *)
LEMMA SettledFacts ==
    ASSUME IInv, RunsAreSettled
    PROVE  /\ RunsOK /\ ScheduleOK /\ now \in Nat
           /\ \A t \in DOMAIN runs : runs[t].status # "processing"
           /\ OpenRuns = Pending
           /\ schedule.status \in {"draft", "active"}
              => Pending = {schedule.next_run_at}
<1>1. TypeOK /\ OpenRunIsCurrent
  BY DEF IInv
<1>2. RunsOK /\ ScheduleOK /\ now \in Nat
  BY <1>1, TypeParts
<1>3. \A t \in DOMAIN runs : runs[t].status # "processing"
  BY DEF RunsAreSettled
<1>4. OpenRuns = Pending
  BY <1>3 DEF OpenRuns, Pending, OpenStatuses
<1>5. ASSUME schedule.status \in {"draft", "active"}
      PROVE  Pending = {schedule.next_run_at}
  <2>1. OpenRuns \subseteq {schedule.next_run_at}
    BY <1>1, <1>5 DEF OpenRunIsCurrent
  <2>2. schedule.next_run_at # None
    BY <1>2, <1>5 DEF ScheduleOK
  <2>3. schedule.next_run_at \in Pending
    BY <2>2 DEF RunsAreSettled
  <2> QED
    BY <1>4, <2>1, <2>3
<1> QED
  BY <1>2, <1>3, <1>4, <1>5

LEMMA StatusForOK ==
    ASSUME NEW content \in BOOLEAN
    PROVE  /\ StatusFor(content) \in {"draft", "active"}
           /\ content = (StatusFor(content) = "active")
BY DEF StatusFor

LEMMA CreateStep ==
    ASSUME IInv, NEW content \in BOOLEAN, NEW rule \in ChosenRules,
           Create(content, rule)
    PROVE  IInv'
<1> DEFINE first == FirstRun(rule, now + Lead)
<1>1. RunsOK /\ ScheduleOK /\ now \in Nat /\ DOMAIN runs = {}
  BY TypeParts DEF IInv, TasksAgree, Create
<1>2. first \in Int
  <2>1. now + Lead \in Int
    BY <1>1, LifeAssumption
  <2>2. first \in Instants
    BY <2>1, FirstRunType
  <2>3. first # None
    BY DEF Create
  <2> QED
    BY <2>2, <2>3 DEF Instants
<1>3. /\ DOMAIN runs' = {first} /\ runs'[first] = NewRun(first)
  BY <1>1 DEF Create, With
<1>4. RowOK(NewRun(first)) /\ NewRun(first).status = "pending"
  BY <1>2, NewRunOK
<1>5. RunsKept /\ RunsOK'
  BY <1>1, <1>2, <1>3, <1>4 DEF RunsKept, RunsOK
<1>6. schedule' = [status |-> StatusFor(content), content |-> content,
                   next_run_at |-> first, rule |-> rule, version |-> 1]
  BY DEF Create
<1>7. ScheduleOK'
  BY <1>2, <1>6, StatusForOK, CalendarAssumption
     DEF ScheduleOK, Instants, Statuses
<1>8. OpenRunIsCurrent'
  <2>1. OpenRuns' = {first}
    BY <1>3, <1>4 DEF OpenRuns, OpenStatuses
  <2>2. schedule'.status \in {"draft", "active"} /\ schedule'.next_run_at = first
    BY <1>6, StatusForOK
  <2> QED
    BY <2>1, <2>2, <1>3 DEF OpenRunIsCurrent
<1>9. schedule'.status # "absent" /\ UNCHANGED <<now, tasks, startup, rescued>>
  BY <1>6, StatusForOK DEF Create
<1>10. edited' \subseteq edited \cup {Date(now)}
  BY DEF Create
<1> QED
  BY <1>5, <1>7, <1>8, <1>9, <1>10, CommandAssembles

LEMMA NoneOpen ==
    ASSUME OpenRuns' = {}, schedule'.status \notin {"draft", "active"}
    PROVE  OpenRunIsCurrent'
BY DEF OpenRunIsCurrent

LEMMA OneOpen ==
    ASSUME schedule'.status \in {"draft", "active"},
           schedule'.next_run_at \in DOMAIN runs',
           OpenRuns' \subseteq {schedule'.next_run_at}
    PROVE  OpenRunIsCurrent'
BY DEF OpenRunIsCurrent

LEMMA EditStep ==
    ASSUME IInv, NEW content \in BOOLEAN, NEW rule \in ChosenRules,
           Edit(content, rule)
    PROVE  IInv'
<1> DEFINE changed == rule # schedule.rule
           next    == IF changed THEN EditedRun(rule) ELSE schedule.next_run_at
           replace == next # schedule.next_run_at
           Apply(status, nextRun) ==
               schedule' = [status |-> status, content |-> content,
                            next_run_at |-> nextRun, rule |-> rule,
                            version |-> schedule.version + 1]
<1>1. RunsAreSettled /\ CanEdit
  BY DEF Edit
<1>2. /\ RunsOK /\ ScheduleOK /\ now \in Nat
      /\ \A t \in DOMAIN runs : runs[t].status # "processing"
      /\ OpenRuns = Pending
      /\ schedule.status \in {"draft", "active"}
         => Pending = {schedule.next_run_at}
  BY <1>1, SettledFacts
<1>3. schedule.version + 1 \in Nat
  BY <1>2 DEF ScheduleOK
<1>4. /\ schedule.status # "absent" /\ UNCHANGED <<now, tasks, startup, rescued>>
      /\ edited' \subseteq edited \cup {Date(now)}
  BY <1>1 DEF Edit, CanEdit
<1>5. next \in Instants
  BY <1>2, FirstUnusedType DEF EditedRun, ScheduleOK
<1>6. CASE /\ schedule.status = "paused" /\ Apply("paused", None)
           /\ runs' = IF changed THEN SkipPending({}) ELSE runs
  <2>1. schedule'.status = "paused" /\ ScheduleOK'
    BY <1>3, <1>6 DEF ScheduleOK, Instants, Statuses
  <2>2. CASE changed
    <3>1. RunsOK' /\ RunsKept /\ OpenRuns' = {}
      BY <1>2, <1>6, <2>2, AfterSkip
    <3>2. OpenRunIsCurrent'
      BY <2>1, <3>1, NoneOpen
    <3> QED
      BY <1>4, <2>1, <3>1, <3>2, CommandAssembles
  <2>3. CASE ~changed
    <3>1. runs' = runs
      BY <1>6, <2>3
    <3>2. RunsOK' /\ RunsKept
      BY <1>2, <3>1 DEF RunsOK, RunsKept
    <3>3. OpenRunIsCurrent
      BY DEF IInv
    <3>4. OpenRunIsCurrent'
      BY <1>6, <2>1, <3>1, <3>3 DEF OpenRunIsCurrent, OpenRuns, Pristine
    <3> QED
      BY <1>4, <2>1, <3>2, <3>4, CommandAssembles
  <2> QED
    BY <2>2, <2>3
<1>7. CASE /\ schedule.status # "paused" /\ ~replace
           /\ Apply(StatusFor(content), next) /\ runs' = runs
  <2>1. schedule.status \in {"draft", "active"}
    BY <1>1, <1>7 DEF CanEdit
  <2>2. schedule'.status \in {"draft", "active"} /\ schedule'.next_run_at = schedule.next_run_at
    BY <1>7, StatusForOK
  <2>3. schedule.next_run_at # None
    BY <1>2, <2>1 DEF ScheduleOK
  <2>4. ScheduleOK'
    BY <1>2, <1>3, <1>7, <2>2, <2>3, StatusForOK DEF ScheduleOK, Statuses
  <2>5. RunsOK' /\ RunsKept
    BY <1>2, <1>7 DEF RunsOK, RunsKept
  <2>6. OpenRunIsCurrent'
    <3>1. OpenRuns' = {schedule.next_run_at}
      BY <1>2, <1>7, <2>1 DEF OpenRuns
    <3>2. schedule.next_run_at \in DOMAIN runs'
      BY <3>1 DEF OpenRuns
    <3> QED
      BY <2>2, <3>1, <3>2, OneOpen
  <2>7. schedule'.status # "absent"
    BY <2>2
  <2> QED
    BY <1>4, <2>4, <2>5, <2>6, <2>7, CommandAssembles
<1>8. CASE /\ schedule.status # "paused" /\ replace /\ next # None
           /\ next \notin DOMAIN runs
           /\ Apply(StatusFor(content), next)
           /\ runs' = SkipPendingThenAdd(next)
  <2>1. next \in Int
    BY <1>5, <1>8 DEF Instants
  <2>2. /\ RunsOK' /\ RunsKept
        /\ DOMAIN runs' = DOMAIN runs \cup {next} /\ OpenRuns' = {next}
    <3> HIDE DEF next
    <3> QED
      BY <1>2, <1>8, <2>1, AfterReplace
  <2>3. schedule'.status \in {"draft", "active"} /\ schedule'.next_run_at = next
    BY <1>8, StatusForOK
  <2>4. ScheduleOK'
    <3> HIDE DEF next
    <3> QED
      BY <1>3, <1>5, <1>8, <2>3, StatusForOK DEF ScheduleOK, Statuses
  <2>5. OpenRunIsCurrent'
    BY <2>2, <2>3, OneOpen
  <2>6. schedule'.status # "absent"
    BY <2>3
  <2> QED
    BY <1>4, <2>2, <2>4, <2>5, <2>6, CommandAssembles
<1>9. CASE Apply("ended", None) /\ runs' = SkipPending({})
  <2>1. schedule'.status = "ended" /\ ScheduleOK'
    BY <1>3, <1>9 DEF ScheduleOK, Instants, Statuses
  <2>2. RunsOK' /\ RunsKept /\ OpenRuns' = {}
    BY <1>2, <1>9, AfterSkip
  <2>3. OpenRunIsCurrent'
    BY <2>1, <2>2, NoneOpen
  <2> QED
    BY <1>4, <2>1, <2>2, <2>3, CommandAssembles
<1> QED
  BY <1>6, <1>7, <1>8, <1>9 DEF Edit

LEMMA PauseStep ==
    ASSUME IInv, Pause
    PROVE  IInv'
<1>1. RunsAreSettled /\ schedule.status = "active" /\ Held \subseteq {schedule.next_run_at}
  BY DEF Pause
<1>2. /\ RunsOK /\ ScheduleOK /\ now \in Nat
      /\ \A t \in DOMAIN runs : runs[t].status # "processing"
  BY <1>1, SettledFacts
<1>3. schedule.version + 1 \in Nat
  BY <1>2 DEF ScheduleOK
<1>4. schedule' = [schedule EXCEPT !.status = "paused", !.next_run_at = None,
                                   !.version = schedule.version + 1]
  BY DEF Pause
<1>5. schedule'.status = "paused" /\ ScheduleOK'
  BY <1>2, <1>3, <1>4 DEF ScheduleOK, Instants, Statuses
<1>6. /\ DOMAIN runs' = DOMAIN runs
      /\ \A t \in DOMAIN runs :
            /\ RowOK(runs'[t])
            /\ t \in Pending \ Held => runs'[t].status = "skipped"
            /\ t \notin Pending \ Held => runs'[t] = runs[t]
  BY <1>2, SkipFacts DEF Pause
<1>7. RunsOK' /\ RunsKept
  BY <1>2, <1>6 DEF RunsOK, RunsKept, Pending
<1>8. ASSUME NEW t \in OpenRuns'
      PROVE  t \in Held /\ runs'[t] = runs[t]
  <2>1. t \in DOMAIN runs /\ runs'[t].status \in OpenStatuses
    BY <1>6, <1>8 DEF OpenRuns
  <2>2. t \notin Pending \ Held
    BY <1>6, <2>1 DEF OpenStatuses
  <2>3. runs'[t] = runs[t] /\ runs[t].status = "pending"
    BY <1>2, <1>6, <2>1, <2>2 DEF OpenStatuses
  <2> QED
    BY <2>1, <2>2, <2>3 DEF Pending
<1>9. OpenRunIsCurrent'
  <2>1. ASSUME NEW t \in OpenRuns', NEW u \in OpenRuns' PROVE t = u
    BY <1>1, <1>8
  <2>2. ASSUME NEW t \in OpenRuns' PROVE runs'[t].status = "pending" /\ Pristine(t)'
    BY <1>8 DEF Held, Pending, Pristine
  <2> QED
    BY <1>5, <2>1, <2>2 DEF OpenRunIsCurrent
<1>10. UNCHANGED <<now, tasks, startup, rescued, edited>> /\ schedule'.status # "absent"
  BY <1>5 DEF Pause
<1> QED
  BY <1>5, <1>7, <1>9, <1>10, CommandAssembles

LEMMA DeleteStep ==
    ASSUME IInv, Delete
    PROVE  IInv'
<1>1. RunsAreSettled
  BY DEF Delete
<1>2. /\ RunsOK /\ ScheduleOK
      /\ \A t \in DOMAIN runs : runs[t].status # "processing"
  BY <1>1, SettledFacts
<1>3. RunsOK' /\ RunsKept /\ OpenRuns' = {}
  BY <1>2, AfterSkip DEF Delete
<1>4. schedule.version + 1 \in Nat
  BY <1>2 DEF ScheduleOK
<1>5. schedule'.status = "deleted" /\ ScheduleOK'
  BY <1>2, <1>4 DEF Delete, ScheduleOK, Instants, Statuses
<1>6. OpenRunIsCurrent'
  BY <1>3, <1>5, NoneOpen
<1>7. UNCHANGED <<now, tasks, startup, rescued, edited>> /\ schedule'.status # "absent"
  BY <1>5 DEF Delete
<1> QED
  BY <1>3, <1>5, <1>6, <1>7, CommandAssembles

LEMMA ResumedOK ==
    ASSUME ScheduleOK, NEW next \in Int, Resumed(next)
    PROVE  /\ ScheduleOK' /\ schedule'.next_run_at = next
           /\ schedule'.status \in {"draft", "active"}
<1>1. schedule.version + 1 \in Nat /\ next # None
  BY CalendarAssumption DEF ScheduleOK
<1>2. schedule.content \in BOOLEAN
  BY DEF ScheduleOK
<1>3. /\ StatusFor(schedule.content) \in {"draft", "active"}
      /\ schedule.content = (StatusFor(schedule.content) = "active")
  BY <1>2, StatusForOK
<1>4. schedule' = [schedule EXCEPT !.status = StatusFor(schedule.content),
                                   !.next_run_at = next,
                                   !.version = schedule.version + 1]
  BY DEF Resumed
<1> QED
  BY <1>1, <1>2, <1>3, <1>4 DEF ScheduleOK, Instants, Statuses

LEMMA ResumeHeldStep ==
    ASSUME IInv, ResumeHeld
    PROVE  IInv'
<1>1. RunsAreSettled /\ schedule.status = "paused" /\ runs' = runs
  BY DEF ResumeHeld, CanResume
<1>2. RunsOK /\ ScheduleOK /\ OpenRuns = Pending
  BY <1>1, SettledFacts
<1>3. PICK held \in Pending : Resumed(held)
  BY DEF ResumeHeld
<1>4. held \in Int /\ held \in DOMAIN runs
  BY <1>2, <1>3 DEF Pending, RunsOK
<1>5. /\ ScheduleOK' /\ schedule'.next_run_at = held
      /\ schedule'.status \in {"draft", "active"}
  BY <1>2, <1>3, <1>4, ResumedOK
<1>6. OpenRuns' \subseteq {held}
  <2>1. \A t, u \in OpenRuns : t = u
    BY <1>1 DEF IInv, OpenRunIsCurrent
  <2>2. OpenRuns' = OpenRuns
    BY <1>1 DEF OpenRuns
  <2> QED
    BY <1>2, <1>3, <2>1, <2>2
<1>7. OpenRunIsCurrent'
  BY <1>1, <1>4, <1>5, <1>6, OneOpen
<1>8. RunsOK' /\ RunsKept
  BY <1>1, <1>2 DEF RunsOK, RunsKept
<1>9. UNCHANGED <<now, tasks, startup, rescued, edited>> /\ schedule'.status # "absent"
  BY <1>5 DEF ResumeHeld
<1> QED
  BY <1>5, <1>7, <1>8, <1>9, CommandAssembles

(* Every other resume puts a new run in the place of the held one. *)
LEMMA ResumeReplaced ==
    ASSUME IInv, RunsAreSettled, NEW next \in Int, next \notin DOMAIN runs,
           runs' = SkipPendingThenAdd(next), Resumed(next),
           UNCHANGED <<now, tasks, startup, edited>>,
           rescued' \subseteq rescued \cup {next}
    PROVE  IInv'
<1>1. /\ RunsOK /\ ScheduleOK
      /\ \A t \in DOMAIN runs : runs[t].status # "processing"
  BY SettledFacts
<1>2. /\ RunsOK' /\ RunsKept
      /\ DOMAIN runs' = DOMAIN runs \cup {next} /\ OpenRuns' = {next}
  BY <1>1, AfterReplace
<1>3. /\ ScheduleOK' /\ schedule'.next_run_at = next
      /\ schedule'.status \in {"draft", "active"}
  BY <1>1, ResumedOK
<1>4. OpenRunIsCurrent'
  BY <1>2, <1>3, OneOpen
<1>5. rescued' \subseteq rescued \cup DOMAIN runs' /\ schedule'.status # "absent"
  BY <1>2, <1>3
<1> QED
  BY <1>2, <1>3, <1>4, <1>5, CommandAssembles

LEMMA ResumeRegularStep ==
    ASSUME IInv, NEW boundary \in DOMAIN runs \cup {now}, ResumeRegular(boundary)
    PROVE  IInv'
<1> DEFINE next == NextRun(schedule.rule, boundary)
<1>1. RunsAreSettled /\ UNCHANGED <<now, tasks, startup, rescued, edited>>
  BY DEF ResumeRegular, CanResume
<1>2. /\ RunsOK /\ ScheduleOK /\ now \in Nat
      /\ \A t \in DOMAIN runs : runs[t].status # "processing"
  BY <1>1, SettledFacts
<1>3. next \in Instants
  <2>1. boundary \in Int /\ schedule.rule \in ChosenRules
    BY <1>2 DEF RunsOK, ScheduleOK
  <2> QED
    BY <2>1, NextRunType
<1>4. CASE /\ runs' = SkipPending({})
           /\ schedule' = [schedule EXCEPT !.status = "ended",
                                           !.version = schedule.version + 1]
  <2>1. RunsOK' /\ RunsKept /\ OpenRuns' = {}
    BY <1>2, <1>4, AfterSkip
  <2>2. schedule.version + 1 \in Nat /\ schedule.next_run_at = None
    BY <1>2 DEF ScheduleOK, ResumeRegular, CanResume
  <2>3. schedule'.status = "ended" /\ ScheduleOK'
    BY <1>2, <1>4, <2>2 DEF ScheduleOK, Statuses
  <2>4. OpenRunIsCurrent'
    BY <2>1, <2>3, NoneOpen
  <2> QED
    BY <1>1, <2>1, <2>3, <2>4, CommandAssembles
<1>5. CASE /\ next # None /\ next \notin DOMAIN runs
           /\ runs' = SkipPendingThenAdd(next) /\ Resumed(next)
  <2>1. next \in Int
    BY <1>3, <1>5 DEF Instants
  <2> HIDE DEF next
  <2> QED
    BY <1>1, <1>5, <2>1, ResumeReplaced
<1> QED
  BY <1>4, <1>5 DEF ResumeRegular

LEMMA ResumeOnceStep ==
    ASSUME IInv, NEW replacement \in now..(now + Day), ResumeOnce(replacement)
    PROVE  IInv'
<1>1. RunsAreSettled
  BY DEF ResumeOnce, CanResume
<1>2. now \in Nat /\ Day \in Nat
  BY <1>1, SettledFacts, CalendarAssumption
<1>3. replacement \in Int
  BY <1>2
<1>4. /\ replacement \notin DOMAIN runs /\ Resumed(replacement)
      /\ runs' = SkipPendingThenAdd(replacement)
      /\ rescued' = rescued \cup {replacement}
      /\ UNCHANGED <<now, tasks, startup, edited>>
  BY DEF ResumeOnce
<1> QED
  BY <1>1, <1>3, <1>4, ResumeReplaced

-----------------------------------------------------------------------------
(* The worker and the recovery of expired claims *)

LEMMA WorkerAssembles ==
    ASSUME IInv, RunsOK', ScheduleOK', OpenRunIsCurrent', TasksOK', TasksAgree',
           DOMAIN runs \subseteq DOMAIN runs',
           UNCHANGED <<now, startup, rescued, edited>>
    PROVE  IInv'
<1>1. now \in Nat /\ StartupOK /\ HistoryOK
  BY TypeParts DEF IInv
<1>2. now' \in Nat /\ StartupOK' /\ HistoryOK'
  BY <1>1 DEF StartupOK, HistoryOK
<1>3. TypeOK'
  BY <1>2
     DEF TypeOK, ScheduleOK, RunsOK, TasksOK, StartupOK, HistoryOK, Instants
<1> QED
  BY <1>3 DEF IInv

LEMMA InvariantParts ==
    ASSUME IInv
    PROVE  /\ TypeOK /\ TasksAgree /\ OpenRunIsCurrent
           /\ now \in Nat /\ ScheduleOK /\ RunsOK /\ StartupOK
BY TypeParts DEF IInv

(* A run is being delivered only while the schedule shows it. *)
LEMMA ProcessingIsCurrent ==
    ASSUME IInv, NEW t \in DOMAIN runs, runs[t].status = "processing"
    PROVE  schedule.status \in {"draft", "active"} /\ schedule.next_run_at = t
<1>1. t \in OpenRuns
  BY DEF OpenRuns, OpenStatuses
<1>2. OpenRunIsCurrent /\ ScheduleOK
  BY InvariantParts
<1>3. schedule.status \in {"absent", "draft", "active", "paused", "ended", "deleted"}
  BY <1>2 DEF ScheduleOK, Statuses
<1> QED
  BY <1>1, <1>2, <1>3 DEF OpenRunIsCurrent

LEMMA OnlyTask ==
    ASSUME TypeOK, TasksAgree, NEW t, NEW step, <<t, step>> \in tasks,
           NEW other, <<t, other>> \in tasks
    PROVE  other = step
<1>1. step \in Steps /\ TaskAgrees(t, step) /\ other \in Steps /\ TaskAgrees(t, other)
  BY TaskNotPending
<1> QED
  BY <1>1 DEF TaskAgrees, Steps, OpenStatuses

(* One run changes, and with it only the task it has. *)
LEMMA TaskMoves ==
    ASSUME IInv, NEW t \in DOMAIN runs, NEW moved \in SUBSET ({t} \X Steps),
           tasks' \subseteq tasks \cup moved,
           DOMAIN runs \subseteq DOMAIN runs',
           \A u \in DOMAIN runs \ {t} : runs'[u] = runs[u],
           schedule'.status # "absent",
           \A step \in Steps : <<t, step>> \in tasks' => TaskAgrees(t, step)'
    PROVE  TasksOK' /\ TasksAgree'
<1>1. TasksOK'
  BY InvariantParts, TypeParts DEF TasksOK
<1>2. ASSUME NEW u, NEW step, <<u, step>> \in tasks'
      PROVE  TaskAgrees(u, step)'
  <2>1. CASE u = t
    BY <1>1, <1>2, <2>1 DEF TasksOK
  <2>2. CASE u # t
    <3>1. <<u, step>> \in tasks
      BY <1>2, <2>2
    <3>2. u \in DOMAIN runs /\ TaskAgrees(u, step)
      BY <3>1, InvariantParts, TaskNotPending
    <3>3. runs'[u] = runs[u]
      BY <2>2, <3>2
    <3> QED
      BY <3>2, <3>3 DEF TaskAgrees
  <2> QED
    BY <2>1, <2>2
<1> QED
  BY <1>1, <1>2 DEF TasksAgree

(* A run that is delivered, or settled already, gets another row. *)
LEMMA OneRunChanges ==
    ASSUME IInv, NEW t \in DOMAIN runs, NEW row, RowOK(row),
           runs' = [runs EXCEPT ![t] = row], UNCHANGED schedule,
           row.status \in OpenStatuses
             => /\ schedule.status \in {"draft", "active"}
                /\ schedule.next_run_at = t
    PROVE  /\ RunsOK' /\ ScheduleOK' /\ OpenRunIsCurrent'
           /\ DOMAIN runs' = DOMAIN runs /\ runs'[t] = row
           /\ \A u \in DOMAIN runs \ {t} : runs'[u] = runs[u]
<1>1. RunsOK /\ ScheduleOK /\ OpenRunIsCurrent
  BY InvariantParts
<1>2. /\ DOMAIN runs' = DOMAIN runs /\ runs'[t] = row
      /\ \A u \in DOMAIN runs \ {t} : runs'[u] = runs[u]
  OBVIOUS
<1>3. RunsOK' /\ ScheduleOK'
  BY <1>1, <1>2 DEF RunsOK, ScheduleOK
<1>4. OpenRunIsCurrent'
  <2>1. CASE schedule.status \in {"draft", "active"}
    <3>1. schedule.next_run_at \in DOMAIN runs /\ OpenRuns \subseteq {schedule.next_run_at}
      BY <1>1, <2>1 DEF OpenRunIsCurrent
    <3>2. OpenRuns' \subseteq {schedule.next_run_at}
      BY <1>2, <3>1 DEF OpenRuns
    <3> QED
      BY <1>2, <2>1, <3>1, <3>2, OneOpen
  <2>2. CASE schedule.status \notin {"draft", "active"}
    <3>1. ASSUME NEW u \in OpenRuns'
          PROVE  u \in OpenRuns /\ runs'[u] = runs[u]
      BY <1>2, <2>2, <3>1 DEF OpenRuns
    <3>2. ASSUME NEW u \in OpenRuns', runs[u].status = "pending", Pristine(u)
          PROVE  runs'[u].status = "pending" /\ Pristine(u)'
      BY <3>1, <3>2 DEF Pristine
    <3> QED
      BY <1>1, <2>2, <3>1, <3>2 DEF OpenRunIsCurrent
  <2> QED
    BY <2>1, <2>2
<1> QED
  BY <1>2, <1>3, <1>4

LEMMA ClaimStep ==
    ASSUME IInv, NEW t \in DOMAIN runs, Claim(t)
    PROVE  IInv'
<1> DEFINE row == [status |-> "processing",
                   attempt_count |-> runs[t].attempt_count + 1,
                   next_attempt_at |-> None, attempt |-> "claimed",
                   lease_expires_at |-> now + LeaseTimeout]
<1>1. /\ TypeOK /\ TasksAgree /\ OpenRunIsCurrent
      /\ now \in Nat /\ ScheduleOK /\ RunsOK
  BY InvariantParts
<1>2. /\ t \in Pending /\ runs[t].attempt_count < MaxAttempts
      /\ schedule.status \in {"draft", "active"}
      /\ runs' = [runs EXCEPT ![t] = row]
      /\ tasks' = tasks \cup {<<t, "prepare">>}
      /\ UNCHANGED <<now, schedule, startup, rescued, edited>>
  BY DEF Claim
<1>3. RowOK(row)
  <2>1. RowOK(runs[t]) /\ MaxAttempts \in Nat /\ LeaseTimeout \in Nat
    BY <1>1, LifeAssumption DEF RunsOK
  <2>2. runs[t].attempt_count + 1 \in 0..MaxAttempts
    BY <1>2, <2>1 DEF RowOK, Row
  <2>3. now + LeaseTimeout \in Int /\ None \notin Int
    BY <1>1, <2>1, CalendarAssumption
  <2> QED
    BY <2>2, <2>3 DEF RowOK, Row, RunStatuses
<1>4. schedule.next_run_at = t
  <2>1. t \in OpenRuns
    BY <1>2 DEF OpenRuns, Pending, OpenStatuses
  <2> QED
    BY <1>1, <1>2, <2>1 DEF OpenRunIsCurrent
<1>5. /\ RunsOK' /\ ScheduleOK' /\ OpenRunIsCurrent'
      /\ DOMAIN runs' = DOMAIN runs /\ runs'[t] = row
      /\ \A u \in DOMAIN runs \ {t} : runs'[u] = runs[u]
  <2> HIDE DEF row
  <2> QED
    BY <1>2, <1>3, <1>4, OneRunChanges
<1>6. TasksOK' /\ TasksAgree'
  <2>1. {<<t, "prepare">>} \in SUBSET ({t} \X Steps)
    BY DEF Steps
  <2>2. ASSUME NEW step \in Steps, <<t, step>> \in tasks'
        PROVE  TaskAgrees(t, step)'
    <3>1. runs[t].status = "pending"
      BY <1>2 DEF Pending
    <3>2. <<t, step>> \notin tasks
      BY <1>1, <3>1, TaskNotPending
    <3>3. step = "prepare"
      BY <1>2, <2>2, <3>2
    <3> QED
      BY <1>5, <3>3 DEF TaskAgrees
  <2>3. schedule'.status # "absent"
    BY <1>2
  <2> HIDE DEF row
  <2> QED
    BY <1>2, <1>5, <2>1, <2>2, <2>3, TaskMoves
<1> QED
  BY <1>2, <1>5, <1>6, WorkerAssembles

(* What every step of a task has in common. *)
LEMMA TaskStep ==
    ASSUME IInv, NEW t, NEW from, NEW row, NEW to \in SUBSET ({t} \X Steps),
           Advance(t, from, to), RowOK(row),
           runs' = [runs EXCEPT ![t] = row], UNCHANGED schedule,
           row.status \in OpenStatuses => runs[t].status = "processing",
           \A step \in Steps : /\ <<t, step>> \in to
                               /\ runs'[t] = row
                               => TaskAgrees(t, step)'
    PROVE  IInv'
<1>1. TypeOK /\ TasksAgree
  BY InvariantParts
<1>2. /\ <<t, from>> \in tasks /\ tasks' = (tasks \ {<<t, from>>}) \cup to
      /\ UNCHANGED <<now, startup, rescued, edited>>
  BY DEF Advance
<1>3. t \in DOMAIN runs
  BY <1>1, <1>2, TaskNotPending
<1>4. /\ RunsOK' /\ ScheduleOK' /\ OpenRunIsCurrent'
      /\ DOMAIN runs' = DOMAIN runs /\ runs'[t] = row
      /\ \A u \in DOMAIN runs \ {t} : runs'[u] = runs[u]
  BY <1>3, ProcessingIsCurrent, OneRunChanges
<1>5. TasksOK' /\ TasksAgree'
  <2>1. schedule'.status # "absent"
    BY <1>1, <1>3 DEF TasksAgree
  <2>2. ASSUME NEW step \in Steps, <<t, step>> \in tasks'
        PROVE  <<t, step>> \in to
    BY <1>1, <1>2, <2>2, OnlyTask
  <2> QED
    BY <1>2, <1>3, <1>4, <2>1, <2>2, TaskMoves
<1> QED
  BY <1>2, <1>4, <1>5, WorkerAssembles

LEMMA TaskRow ==
    ASSUME IInv, NEW t, NEW step, <<t, step>> \in tasks
    PROVE  /\ t \in DOMAIN runs /\ RowOK(runs[t]) /\ TaskAgrees(t, step)
BY InvariantParts, TaskNotPending DEF RunsOK

LEMMA PrepareSendStep ==
    ASSUME IInv, NEW t \in DOMAIN runs, PrepareSend(t)
    PROVE  IInv'
<1> DEFINE row == [runs[t] EXCEPT !.attempt = "sending"]
           to  == {<<t, "awaiting">>}
<1>1. /\ Advance(t, "prepare", to) /\ UNCHANGED schedule
      /\ runs' = [runs EXCEPT ![t].attempt = "sending"]
      /\ <<t, "prepare">> \in tasks
  BY DEF PrepareSend, Advance
<1>2. RowOK(runs[t]) /\ runs[t].status = "processing"
  BY <1>1, TaskRow DEF TaskAgrees
<1>3. RowOK(row) /\ row.status = "processing" /\ row.attempt = "sending"
  BY <1>2 DEF RowOK, Row
<1>4. runs' = [runs EXCEPT ![t] = row]
  BY <1>1
<1>5. to \in SUBSET ({t} \X Steps)
  BY DEF Steps
<1>6. ASSUME NEW step \in Steps, <<t, step>> \in to, runs'[t] = row
      PROVE  TaskAgrees(t, step)'
  BY <1>3, <1>6 DEF TaskAgrees
<1> HIDE DEF row, to
<1> QED
  BY <1>1, <1>2, <1>3, <1>4, <1>5, <1>6, TaskStep

(* A task settles its run and goes on to the finalization. *)
LEMMA SettleStep ==
    ASSUME IInv, NEW t, NEW from, Advance(t, from, {<<t, "finalize">>}),
           NEW status \in RunStatuses \ OpenStatuses, UNCHANGED schedule,
           runs' = [runs EXCEPT ![t] = Terminal(runs[t], status)]
    PROVE  IInv'
<1> DEFINE row == Terminal(runs[t], status)
           to  == {<<t, "finalize">>}
<1>1. <<t, from>> \in tasks
  BY DEF Advance
<1>2. RowOK(row) /\ row.status \notin OpenStatuses
  BY <1>1, TaskRow, TerminalOK
<1>3. to \in SUBSET ({t} \X Steps)
  BY DEF Steps
<1>4. ASSUME NEW step \in Steps, <<t, step>> \in to, runs'[t] = row
      PROVE  TaskAgrees(t, step)'
  BY <1>2, <1>4 DEF TaskAgrees
<1>5. runs' = [runs EXCEPT ![t] = row] /\ Advance(t, from, to)
  OBVIOUS
<1> HIDE DEF row, to
<1> QED
  BY <1>2, <1>3, <1>4, <1>5, TaskStep

LEMMA SaveRetryStep ==
    ASSUME IInv, NEW t \in DOMAIN runs, SaveRetry(t)
    PROVE  IInv'
<1> DEFINE row == Waiting(runs[t], now + RetryDelay)
<1>1. /\ Advance(t, "awaiting", {}) /\ UNCHANGED schedule
      /\ runs' = [runs EXCEPT ![t] = row] /\ <<t, "awaiting">> \in tasks
  BY DEF SaveRetry, Advance
<1>2. RowOK(runs[t]) /\ runs[t].status = "processing"
  BY <1>1, TaskRow DEF TaskAgrees
<1>3. now + RetryDelay \in Int
  BY InvariantParts, LifeAssumption
<1>4. RowOK(row)
  BY <1>2, <1>3, WaitingOK
<1>5. {} \in SUBSET ({t} \X Steps) /\ \A step \in Steps : <<t, step>> \notin {}
  OBVIOUS
<1> HIDE DEF row
<1> QED
  BY <1>1, <1>2, <1>4, <1>5, TaskStep

LEMMA LoseStep ==
    ASSUME IInv, NEW t, Lose(t)
    PROVE  IInv'
<1>1. PICK step \in Steps : Advance(t, step, {})
  BY DEF Lose
<1>2. /\ tasks' \subseteq tasks /\ <<t, step>> \in tasks
      /\ UNCHANGED <<now, schedule, runs, startup, rescued, edited>>
  BY <1>1 DEF Lose, Advance
<1>3. TypeOK /\ TasksAgree /\ RunsOK /\ ScheduleOK /\ OpenRunIsCurrent
  BY InvariantParts
<1>4. schedule'.status # "absent"
  BY <1>2, <1>3, TaskNotPending DEF TasksAgree
<1>5. TasksOK' /\ TasksAgree'
  BY <1>2, <1>3, <1>4, TasksKept
<1>6. RunsOK' /\ ScheduleOK' /\ OpenRunIsCurrent'
  BY <1>2, <1>3
     DEF RunsOK, ScheduleOK, OpenRunIsCurrent, OpenRuns, Pristine
<1> QED
  BY <1>2, <1>5, <1>6, WorkerAssembles

(* Finalization: once the run t is settled, the schedule ends, or shows a    *)
(* run that is the only one open, or was not at t any more.                  *)
LEMMA FinalizedFacts ==
    ASSUME IInv, NEW t \in DOMAIN runs, NEW settled, NEW at \in Int,
           DOMAIN settled = DOMAIN runs,
           \A u \in DOMAIN runs : RowOK(settled[u]),
           \A u \in DOMAIN runs \ {t} : settled[u] = runs[u],
           settled[t].status \notin OpenStatuses,
           schedule' = FinalizedSchedule(t, at),
           runs' = FinalizedRuns(t, settled, at)
    PROVE  /\ RunsOK' /\ ScheduleOK' /\ OpenRunIsCurrent'
           /\ schedule'.status # "absent"
           /\ DOMAIN runs \subseteq DOMAIN runs'
           /\ \A u \in DOMAIN runs : runs'[u] = settled[u]
<1> DEFINE next == NextRun(schedule.rule, at)
           Stays == /\ runs' = settled /\ UNCHANGED schedule
<1>1. RunsOK /\ ScheduleOK /\ OpenRunIsCurrent /\ schedule.status # "absent"
  BY InvariantParts DEF TasksAgree
<1>2. next \in Instants
  BY <1>1, NextRunType DEF ScheduleOK
<1>3. schedule.version + 1 \in Nat
  BY <1>1 DEF ScheduleOK
<1>4. ASSUME runs' = settled
      PROVE  /\ RunsOK' /\ DOMAIN runs' = DOMAIN runs
             /\ OpenRuns' = OpenRuns \ {t}
             /\ \A u \in OpenRuns' : runs'[u] = runs[u]
  <2>1. RunsOK' /\ DOMAIN runs' = DOMAIN runs
    BY <1>1, <1>4 DEF RunsOK
  <2>2. \A u \in DOMAIN runs : u \in OpenRuns' <=> u \in OpenRuns /\ u # t
    BY <1>4, <2>1 DEF OpenRuns
  <2>3. OpenRuns \subseteq DOMAIN runs /\ OpenRuns' \subseteq DOMAIN runs
    BY <2>1 DEF OpenRuns
  <2> QED
    BY <1>4, <2>1, <2>2, <2>3
<1>5. CASE schedule.status \notin {"draft", "active"} \/ schedule.next_run_at # t
  <2>1. UNCHANGED schedule
    BY <1>5 DEF FinalizedSchedule
  <2>2. runs' = settled
    <3>1. schedule.next_run_at = None \/ schedule.next_run_at \in DOMAIN runs
      BY <1>1 DEF ScheduleOK, OpenRunIsCurrent
    <3> QED
      BY <2>1, <3>1 DEF FinalizedRuns
  <2>3. /\ RunsOK' /\ DOMAIN runs' = DOMAIN runs
        /\ OpenRuns' = OpenRuns \ {t}
        /\ \A u \in OpenRuns' : runs'[u] = runs[u]
    BY <1>4, <2>2
  <2>4. ScheduleOK'
    BY <1>1, <2>1 DEF ScheduleOK
  <2>5. OpenRunIsCurrent'
    <3>1. ASSUME NEW u \in OpenRuns', runs[u].status = "pending", Pristine(u)
          PROVE  runs'[u].status = "pending" /\ Pristine(u)'
      BY <2>3, <3>1 DEF Pristine
    <3> QED
      BY <1>1, <2>1, <2>3, <3>1 DEF OpenRunIsCurrent
  <2> QED
    BY <1>1, <2>1, <2>2, <2>3, <2>4, <2>5
<1>6. CASE schedule.status \in {"draft", "active"} /\ schedule.next_run_at = t
  <2>1. OpenRuns \subseteq {t}
    BY <1>1, <1>6 DEF OpenRunIsCurrent
  <2>2. CASE next # None
    <3>1. schedule' = [schedule EXCEPT !.next_run_at = next,
                                       !.version = schedule.version + 1]
      BY <1>6, <2>2 DEF FinalizedSchedule
    <3>2. /\ ScheduleOK' /\ schedule'.next_run_at = next
          /\ schedule'.status \in {"draft", "active"}
      <4> HIDE DEF next
      <4> QED
        BY <1>1, <1>2, <1>3, <1>6, <2>2, <3>1 DEF ScheduleOK
    <3>3. CASE next \in DOMAIN settled
      <4>1. runs' = settled
        BY <2>2, <3>2, <3>3 DEF FinalizedRuns
      <4>2. RunsOK' /\ DOMAIN runs' = DOMAIN runs /\ OpenRuns' = {}
        BY <1>4, <2>1, <4>1
      <4>3. OpenRunIsCurrent'
        BY <3>2, <3>3, <4>2, OneOpen
      <4> QED
        BY <3>2, <4>1, <4>2, <4>3
    <3>4. CASE next \notin DOMAIN settled
      <4>1. runs' = [u \in DOMAIN settled \cup {next} |->
                        IF u = next THEN NewRun(next) ELSE settled[u]]
        BY <2>2, <3>2, <3>4 DEF FinalizedRuns
      <4> HIDE DEF next
      <4>2. /\ DOMAIN runs' = DOMAIN runs \cup {next} /\ runs'[next] = NewRun(next)
            /\ \A u \in DOMAIN runs : runs'[u] = settled[u]
        BY <3>4, <4>1
      <4>3. next \in Int
        BY <1>2, <2>2 DEF Instants
      <4>4. RunsOK'
        BY <1>1, <4>2, <4>3, NewRunOK DEF RunsOK
      <4>5. OpenRuns' \subseteq {next}
        BY <2>1, <4>2 DEF OpenRuns
      <4>6. OpenRunIsCurrent'
        BY <3>2, <4>2, <4>5, OneOpen
      <4> QED
        BY <3>2, <4>2, <4>4, <4>6
    <3> QED
      BY <3>3, <3>4
  <2>3. CASE next = None /\ schedule.status = "active"
    <3>1. schedule' = [schedule EXCEPT !.status = "ended", !.next_run_at = None,
                                       !.version = schedule.version + 1]
      BY <1>6, <2>3 DEF FinalizedSchedule
    <3>2. ScheduleOK' /\ schedule'.next_run_at = None /\ schedule'.status = "ended"
      BY <1>1, <1>3, <3>1 DEF ScheduleOK, Statuses, Instants
    <3>3. runs' = settled
      BY <3>2 DEF FinalizedRuns
    <3>4. RunsOK' /\ DOMAIN runs' = DOMAIN runs /\ OpenRuns' = {}
      BY <1>4, <2>1, <3>3
    <3>5. OpenRunIsCurrent'
      BY <3>2, <3>4, NoneOpen
    <3> QED
      BY <3>2, <3>3, <3>4, <3>5
  <2>4. CASE next = None /\ schedule.status # "active"
    <3>1. UNCHANGED schedule
      BY <1>6, <2>4 DEF FinalizedSchedule
    <3>2. runs' = settled
      BY <1>6, <3>1 DEF FinalizedRuns
    <3>3. RunsOK' /\ DOMAIN runs' = DOMAIN runs /\ OpenRuns' = {}
      BY <1>4, <2>1, <3>2
    <3>4. ScheduleOK' /\ OpenRunIsCurrent'
      BY <1>1, <1>6, <3>1, <3>3, OneOpen DEF ScheduleOK
    <3> QED
      BY <1>1, <3>1, <3>2, <3>3, <3>4
  <2> QED
    BY <2>2, <2>3, <2>4
<1> QED
  BY <1>5, <1>6

LEMMA FinalizeStep ==
    ASSUME IInv, NEW t \in DOMAIN runs, Finalize(t)
    PROVE  IInv'
<1>1. /\ <<t, "finalize">> \in tasks /\ tasks' = tasks \ {<<t, "finalize">>}
      /\ UNCHANGED <<now, startup, rescued, edited>>
      /\ schedule' = FinalizedSchedule(t, now)
      /\ runs' = FinalizedRuns(t, runs, now)
  BY DEF Finalize, Advance
<1>2. TypeOK /\ TasksAgree /\ RunsOK /\ now \in Int
  BY InvariantParts
<1>3. runs[t].status \notin OpenStatuses
  BY <1>1, TaskRow DEF TaskAgrees
<1>4. /\ RunsOK' /\ ScheduleOK' /\ OpenRunIsCurrent'
      /\ schedule'.status # "absent"
      /\ DOMAIN runs \subseteq DOMAIN runs'
      /\ \A u \in DOMAIN runs : runs'[u] = runs[u]
  BY <1>1, <1>2, <1>3, FinalizedFacts DEF RunsOK
<1>5. TasksOK' /\ TasksAgree'
  BY <1>1, <1>2, <1>4, TasksKept
<1> QED
  BY <1>1, <1>4, <1>5, WorkerAssembles

LEMMA WorkerPreserves ==
    ASSUME IInv, NEW t \in DOMAIN runs, WorkerStep(t)
    PROVE  IInv'
<1>1. {"skipped", "succeeded", "failed"} \subseteq RunStatuses \ OpenStatuses
  BY DEF RunStatuses, OpenStatuses
<1>2. CASE PrepareSkip(t)
  BY <1>1, <1>2, SettleStep DEF PrepareSkip
<1>3. CASE SaveResult(t)
  <2>1. PICK status \in {"succeeded", "failed"} :
            runs' = [runs EXCEPT ![t] = Terminal(runs[t], status)]
    BY <1>3 DEF SaveResult
  <2> QED
    BY <1>1, <1>3, <2>1, SettleStep DEF SaveResult
<1> QED
  BY <1>2, <1>3, ClaimStep, PrepareSendStep, SaveRetryStep, FinalizeStep,
     LoseStep DEF WorkerStep

LEMMA RecoverExpiredStep ==
    ASSUME IInv, NEW t \in DOMAIN runs, RecoverExpired(t)
    PROVE  IInv'
<1> DEFINE cutoff  == startup.cutoff
           settled == [runs EXCEPT ![t] = Terminal(runs[t], "failed")]
           row     == Waiting(runs[t], cutoff + RetryDelay)
<1>1. /\ startup.phase = "processing" /\ runs[t].status = "processing"
      /\ tasks' = tasks \ ({t} \X Steps)
      /\ UNCHANGED <<now, startup, rescued, edited>>
  BY DEF RecoverExpired, Expired
<1>2. /\ TypeOK /\ TasksAgree /\ RunsOK /\ ScheduleOK /\ StartupOK
  BY InvariantParts
<1>3. cutoff \in Int
  BY <1>1, <1>2 DEF StartupOK
<1>4. schedule.status \in {"draft", "active"} /\ schedule.next_run_at = t
  BY <1>1, ProcessingIsCurrent
<1>5. RowOK(runs[t])
  BY <1>2 DEF RunsOK
<1>6. \A step \in Steps : <<t, step>> \notin tasks'
  BY <1>1
<1>7. CASE runs' = [runs EXCEPT ![t] = row] /\ UNCHANGED schedule
  <2>1. RowOK(row)
    <3>1. cutoff + RetryDelay \in Int
      BY <1>3, LifeAssumption
    <3> QED
      BY <1>5, <3>1, WaitingOK
  <2> HIDE DEF row
  <2>2. /\ RunsOK' /\ ScheduleOK' /\ OpenRunIsCurrent'
        /\ DOMAIN runs' = DOMAIN runs
        /\ \A u \in DOMAIN runs \ {t} : runs'[u] = runs[u]
    BY <1>4, <1>7, <2>1, OneRunChanges
  <2>3. TasksOK' /\ TasksAgree'
    <3>1. schedule'.status # "absent"
      BY <1>4, <1>7
    <3>2. ASSUME NEW u \in DOMAIN runs, NEW step \in Steps, <<u, step>> \in tasks'
          PROVE  runs'[u] = runs[u]
      BY <1>6, <2>2, <3>2
    <3> QED
      BY <1>1, <1>2, <2>2, <3>1, <3>2, TasksKept
  <2> QED
    BY <1>1, <2>2, <2>3, WorkerAssembles
<1>8. CASE schedule' = FinalizedSchedule(t, cutoff) /\ runs' = FinalizedRuns(t, settled, cutoff)
  <2>1. "failed" \in RunStatuses \ OpenStatuses
    BY DEF RunStatuses, OpenStatuses
  <2>2. /\ RowOK(Terminal(runs[t], "failed"))
        /\ Terminal(runs[t], "failed").status \notin OpenStatuses
    BY <1>5, <2>1, TerminalOK
  <2>3. /\ DOMAIN settled = DOMAIN runs
        /\ \A u \in DOMAIN runs : RowOK(settled[u])
        /\ \A u \in DOMAIN runs \ {t} : settled[u] = runs[u]
        /\ settled[t].status \notin OpenStatuses
    BY <1>2, <2>2 DEF RunsOK
  <2> HIDE DEF settled, cutoff
  <2>4. /\ RunsOK' /\ ScheduleOK' /\ OpenRunIsCurrent'
        /\ schedule'.status # "absent"
        /\ DOMAIN runs \subseteq DOMAIN runs'
        /\ \A u \in DOMAIN runs : runs'[u] = settled[u]
    BY <1>3, <1>8, <2>3, FinalizedFacts
  <2>5. TasksOK' /\ TasksAgree'
    <3>1. ASSUME NEW u \in DOMAIN runs, NEW step \in Steps, <<u, step>> \in tasks'
          PROVE  runs'[u] = runs[u]
      BY <1>6, <2>3, <2>4, <3>1
    <3> QED
      BY <1>1, <1>2, <2>4, <3>1, TasksKept
  <2> QED
    BY <1>1, <2>4, <2>5, WorkerAssembles
<1> QED
  BY <1>7, <1>8 DEF RecoverExpired

-----------------------------------------------------------------------------
(* Recovery of overdue runs *)

LEMMA RecoverRecurringStep ==
    ASSUME IInv, NEW t \in DOMAIN runs, RecoverRecurring(t)
    PROVE  IInv'
<1> DEFINE next == RecoveredNext
<1>1. /\ t \in Pending /\ ~Orphaned /\ schedule.next_run_at = t
      /\ UNCHANGED <<now, tasks, startup, rescued, edited>>
      /\ next \notin DOMAIN MissedRecorded
      /\ startup.phase = "pending"
  BY DEF RecoverRecurring, Overdue, Inconsistent
<1>2. /\ RunsOK /\ ScheduleOK /\ OpenRunIsCurrent /\ StartupOK
      /\ schedule.status # "absent"
  BY InvariantParts DEF TasksAgree
<1>3. schedule.status \in {"draft", "active"} /\ schedule.version + 1 \in Nat
  BY <1>1, <1>2 DEF Orphaned, ScheduleOK, Statuses
<1>4. OpenRuns \subseteq {t}
  BY <1>1, <1>2, <1>3 DEF OpenRunIsCurrent
<1>5. next \in Instants
  BY FirstUnusedType DEF RecoveredNext
<1>6. Missed \subseteq Int /\ t \in Missed
  <2>1. startup.cutoff \in Int /\ t \in Int
    BY <1>1, <1>2 DEF StartupOK, RunsOK
  <2>2. t <= startup.cutoff
    BY DEF RecoverRecurring, Overdue
  <2>3. Missed \subseteq schedule.next_run_at..startup.cutoff
    BY DEF Missed
  <2>4. t \in t..startup.cutoff
    BY <2>1, <2>2
  <2> QED
    BY <1>1, <2>1, <2>3, <2>4 DEF Missed
<1>7. /\ DOMAIN MissedRecorded = DOMAIN runs \cup Missed
      /\ \A u \in DOMAIN runs \cup Missed :
            /\ RowOK(MissedRecorded[u])
            /\ MissedRecorded[u].status \notin OpenStatuses
      /\ \A u \in DOMAIN runs \ Pending : MissedRecorded[u] = runs[u]
  <2>1. "skipped" \in RunStatuses \ OpenStatuses
    BY DEF RunStatuses, OpenStatuses
  <2>2. ASSUME NEW u \in DOMAIN runs \cup Missed
        PROVE  /\ RowOK(MissedRecorded[u])
               /\ MissedRecorded[u].status \notin OpenStatuses
    <3>1. MissedRecorded[u] =
            IF u \in Missed \ DOMAIN runs THEN Terminal(NewRun(u), "skipped")
            ELSE IF u \in Missed \cap Pending THEN Terminal(runs[u], "skipped")
            ELSE runs[u]
      BY DEF MissedRecorded
    <3>2. CASE u \in Missed \ DOMAIN runs
      <4>1. RowOK(NewRun(u))
        BY <1>6, <3>2, NewRunOK
      <4>2. /\ RowOK(Terminal(NewRun(u), "skipped"))
            /\ Terminal(NewRun(u), "skipped").status = "skipped"
        BY <2>1, <4>1, TerminalOK
      <4> QED
        BY <2>1, <3>1, <3>2, <4>2
    <3>3. CASE u \in DOMAIN runs /\ u \in Missed \cap Pending
      <4>1. RowOK(runs[u])
        BY <1>2, <3>3 DEF RunsOK
      <4>2. /\ RowOK(Terminal(runs[u], "skipped"))
            /\ Terminal(runs[u], "skipped").status = "skipped"
        BY <2>1, <4>1, TerminalOK
      <4> QED
        BY <2>1, <3>1, <3>3, <4>2
    <3>4. CASE u \in DOMAIN runs /\ u \notin Missed \cap Pending
      <4>1. MissedRecorded[u] = runs[u] /\ RowOK(runs[u])
        BY <1>2, <3>1, <3>4 DEF RunsOK
      <4>2. u # t
        BY <1>1, <1>6, <3>4
      <4>3. u \notin OpenRuns
        BY <1>4, <4>2
      <4> QED
        BY <3>4, <4>1, <4>3 DEF OpenRuns
    <3> QED
      BY <3>2, <3>3, <3>4
  <2>3. DOMAIN MissedRecorded = DOMAIN runs \cup Missed
    BY DEF MissedRecorded
  <2>4. \A u \in DOMAIN runs \ Pending : MissedRecorded[u] = runs[u]
    BY DEF MissedRecorded
  <2> QED
    BY <2>2, <2>3, <2>4
<1>8. CASE next # None
  <2>1. /\ runs' = [u \in DOMAIN MissedRecorded \cup {next} |->
                       IF u = next THEN NewRun(next) ELSE MissedRecorded[u]]
        /\ schedule' = [schedule EXCEPT !.next_run_at = next,
                                        !.version = schedule.version + 1]
    BY <1>8 DEF RecoverRecurring
  <2> HIDE DEF next
  <2>2. /\ DOMAIN runs' = DOMAIN MissedRecorded \cup {next}
        /\ runs'[next] = NewRun(next)
        /\ \A u \in DOMAIN MissedRecorded : runs'[u] = MissedRecorded[u]
    BY <1>1, <2>1
  <2>3. next \in Int
    BY <1>5, <1>8 DEF Instants
  <2>4. RowOK(NewRun(next))
    BY <2>3, NewRunOK
  <2>5. RunsOK'
    BY <1>2, <1>6, <1>7, <2>2, <2>3, <2>4 DEF RunsOK
  <2>6. RunsKept
    BY <1>7, <2>2 DEF RunsKept, Pending
  <2>7. /\ ScheduleOK' /\ schedule'.next_run_at = next
        /\ schedule'.status \in {"draft", "active"}
    BY <1>2, <1>3, <1>5, <1>8, <2>1 DEF ScheduleOK
  <2>8. OpenRuns' \subseteq {next}
    BY <1>7, <2>2 DEF OpenRuns
  <2>9. OpenRunIsCurrent'
    BY <2>2, <2>7, <2>8, OneOpen
  <2>10. schedule'.status # "absent"
    BY <2>7
  <2> QED
    BY <1>1, <2>5, <2>6, <2>7, <2>9, <2>10, CommandAssembles
<1>9. CASE next = None
  <2>1. runs' = MissedRecorded
    BY <1>9 DEF RecoverRecurring
  <2>2. RunsOK' /\ RunsKept
    BY <1>2, <1>6, <1>7, <2>1 DEF RunsOK, RunsKept, Pending
  <2>3. OpenRuns' = {}
    BY <1>7, <2>1 DEF OpenRuns
  <2>4. CASE schedule.status = "active"
    <3>1. schedule' = [schedule EXCEPT !.status = "ended", !.next_run_at = None,
                                       !.version = schedule.version + 1]
      BY <1>9, <2>4 DEF RecoverRecurring
    <3>2. ScheduleOK' /\ schedule'.status = "ended"
      BY <1>2, <1>3, <3>1 DEF ScheduleOK, Statuses, Instants
    <3>3. OpenRunIsCurrent'
      BY <2>3, <3>2, NoneOpen
    <3> QED
      BY <1>1, <2>2, <3>2, <3>3, CommandAssembles
  <2>5. CASE schedule.status # "active"
    <3>1. UNCHANGED schedule
      BY <1>9, <2>5 DEF RecoverRecurring
    <3>2. schedule.next_run_at \in DOMAIN runs'
      BY <1>1, <1>6, <1>7, <2>1
    <3>3. ScheduleOK' /\ OpenRunIsCurrent' /\ schedule'.status # "absent"
      BY <1>2, <1>3, <2>3, <3>1, <3>2, OneOpen DEF ScheduleOK
    <3> QED
      BY <1>1, <2>2, <3>3, CommandAssembles
  <2> QED
    BY <2>4, <2>5
<1> QED
  BY <1>8, <1>9

-----------------------------------------------------------------------------
(* The invariant *)

LEMMA InitEstablishes == Init => IInv
<1> SUFFICES ASSUME Init PROVE IInv
  OBVIOUS
<1>1. ChosenRules # {}
  <2>1. PICK local \in Locals, weekday \in Weekdays, end \in Ends : TRUE
    BY LifeAssumption
  <2>2. [local |-> local, weekday |-> weekday, end |-> end] \in ChosenRules
    BY <2>1 DEF ChosenRules
  <2> QED
    BY <2>2
<1>2. (CHOOSE rule \in ChosenRules : TRUE) \in ChosenRules
  BY <1>1
<1>3. ScheduleOK
  BY <1>2, CalendarAssumption DEF Init, ScheduleOK, Statuses, Instants
<1>4. DOMAIN runs = {}
  BY DEF Init
<1>5. StartupOK /\ now \in Nat
  BY CalendarAssumption DEF Init, StartupOK
<1>6. RunsOK /\ TasksOK /\ HistoryOK
  BY <1>4 DEF Init, RunsOK, TasksOK, HistoryOK
<1>7. TypeOK
  BY <1>3, <1>5, <1>6, TypeParts
<1>8. OpenRunIsCurrent
  BY <1>4 DEF Init, OpenRunIsCurrent, OpenRuns
<1>9. TasksAgree
  BY <1>4 DEF TasksAgree
<1> QED
  BY <1>7, <1>8, <1>9 DEF IInv

(* The clock and the phases of startup touch no run. *)
LEMMA UnchangedKeeps ==
    ASSUME IInv, UNCHANGED <<schedule, runs, tasks, rescued, edited>>,
           now' \in Nat, StartupOK'
    PROVE  IInv'
<1>1. RunsOK' /\ ScheduleOK' /\ TasksOK' /\ HistoryOK'
  BY TypeParts DEF IInv, RunsOK, ScheduleOK, TasksOK, HistoryOK
<1>2. TypeOK'
  BY <1>1
     DEF TypeOK, ScheduleOK, RunsOK, TasksOK, StartupOK, HistoryOK, Instants
<1>3. OpenRunIsCurrent'
  BY DEF IInv, OpenRunIsCurrent, OpenRuns, Pristine
<1>4. TasksAgree'
  BY DEF IInv, TasksAgree, TaskAgrees
<1> QED
  BY <1>2, <1>3, <1>4 DEF IInv

LEMMA NextPreserves == IInv /\ [Next]_vars => IInv'
<1> SUFFICES ASSUME IInv, [Next]_vars PROVE IInv'
  OBVIOUS
<1>1. now \in Nat /\ StartupOK
  BY InvariantParts
<1>2. CASE Tick
  BY <1>1, <1>2, UnchangedKeeps DEF Tick, StartupOK
<1>3. CASE UserCommand
  BY <1>3, CreateStep, EditStep, PauseStep, ResumeHeldStep, DeleteStep,
     ResumeRegularStep, ResumeOnceStep DEF UserCommand
<1>4. CASE \E t \in DOMAIN runs : WorkerStep(t) \/ RecoveryStep(t)
  BY <1>4, WorkerPreserves, RecoverExpiredStep, RecoverRecurringStep
     DEF RecoveryStep
<1>5. CASE Start
  <2>1. StartupOK'
    BY <1>1, <1>5, CalendarAssumption DEF Start, StartupOK
  <2> QED
    BY <1>1, <1>5, <2>1, UnchangedKeeps DEF Start
<1>6. CASE ExpiredDone
  <2>1. StartupOK'
    BY <1>1, <1>6 DEF ExpiredDone, StartupOK
  <2> QED
    BY <1>1, <1>6, <2>1, UnchangedKeeps DEF ExpiredDone
<1>7. CASE EndStartup
  <2>1. StartupOK'
    BY <1>1, <1>7 DEF EndStartup, StartupOK
  <2> QED
    BY <1>1, <1>7, <2>1, UnchangedKeeps DEF EndStartup
<1>8. CASE UNCHANGED vars
  <2>1. UNCHANGED <<now, schedule, runs, tasks, startup, rescued, edited>>
    BY <1>8 DEF vars
  <2> QED
    BY <1>1, <2>1, UnchangedKeeps DEF StartupOK
<1> QED
  BY <1>2, <1>3, <1>4, <1>5, <1>6, <1>7, <1>8 DEF Next

LEMMA Invariant == Spec => []IInv
<1> QED
  BY InitEstablishes, NextPreserves, PTL DEF Spec

(* Values have their types in every reachable state: in particular a         *)
(* schedule shows a next run exactly while it is delivered.                  *)
THEOREM RecurringTypeCorrect == Spec => []TypeOK
<1>1. IInv => TypeOK
  BY DEF IInv
<1> QED
  BY <1>1, Invariant, PTL

(* For every calendar, rule, limit and number of commands: no run is ever    *)
(* open but the one the schedule shows, or the untouched one it holds while  *)
(* it is paused.                                                             *)
THEOREM OpenRunCurrent == Spec => []OpenRunIsCurrent
<1>1. IInv => OpenRunIsCurrent
  BY DEF IInv
<1> QED
  BY <1>1, Invariant, PTL

-----------------------------------------------------------------------------
(* Settled runs stay *)

SettledStays ==
    \A t \in DOMAIN runs :
        /\ t \in DOMAIN runs'
        /\ runs[t].status \notin OpenStatuses => runs'[t].status = runs[t].status

LEMMA SkippingKeepsSettled ==
    ASSUME NEW kept, runs' = SkipPending(kept)
    PROVE  SettledStays
<1>1. ASSUME NEW t \in DOMAIN runs
      PROVE  /\ t \in DOMAIN runs'
             /\ t \notin Pending => runs'[t] = runs[t]
  BY DEF SkipPending
<1>2. \A t \in DOMAIN runs : runs[t].status \notin OpenStatuses => t \notin Pending
  BY DEF Pending, OpenStatuses
<1> QED
  BY <1>1, <1>2 DEF SettledStays

LEMMA AddingKeepsSettled ==
    ASSUME NEW n, n \notin DOMAIN runs, runs' = SkipPendingThenAdd(n)
    PROVE  SettledStays
<1>1. ASSUME NEW t \in DOMAIN runs
      PROVE  /\ t \in DOMAIN runs'
             /\ t \notin Pending => runs'[t] = runs[t]
  BY DEF SkipPendingThenAdd, SkipPending
<1>2. \A t \in DOMAIN runs : runs[t].status \notin OpenStatuses => t \notin Pending
  BY DEF Pending, OpenStatuses
<1> QED
  BY <1>1, <1>2 DEF SettledStays

LEMMA OpenRowKeepsSettled ==
    ASSUME NEW t, runs[t].status \in OpenStatuses, NEW row,
           runs' = [runs EXCEPT ![t] = row]
    PROVE  SettledStays
BY DEF SettledStays

LEMMA FinalizationKeepsSettled ==
    ASSUME NEW t, NEW settled, NEW at, DOMAIN settled = DOMAIN runs,
           \A u \in DOMAIN runs : runs[u].status \notin OpenStatuses
                                  => settled[u].status = runs[u].status,
           runs' = FinalizedRuns(t, settled, at)
    PROVE  SettledStays
<1> DEFINE next == FinalizedSchedule(t, at).next_run_at
<1>1. \/ runs' = settled
      \/ /\ next \notin DOMAIN settled
         /\ runs' = [u \in DOMAIN settled \cup {next} |->
                        IF u = next THEN NewRun(next) ELSE settled[u]]
  BY DEF FinalizedRuns
<1> HIDE DEF next
<1> QED
  BY <1>1 DEF SettledStays

LEMMA CommandKeepsSettled ==
    ASSUME IInv, UserCommand
    PROVE  SettledStays
<1>1. CASE runs' = runs
  BY <1>1 DEF SettledStays
<1>2. ASSUME NEW content \in BOOLEAN, NEW rule \in ChosenRules, Create(content, rule)
      PROVE  SettledStays
  BY <1>2 DEF IInv, TasksAgree, Create, SettledStays
<1>3. ASSUME NEW content \in BOOLEAN, NEW rule \in ChosenRules, Edit(content, rule)
      PROVE  SettledStays
  <2>1. \/ runs' = runs \/ runs' = SkipPending({})
        \/ \E n : n \notin DOMAIN runs /\ runs' = SkipPendingThenAdd(n)
    BY <1>3 DEF Edit
  <2> QED
    BY <1>1, <2>1, SkippingKeepsSettled, AddingKeepsSettled
<1>4. CASE Pause \/ Delete
  BY <1>4, SkippingKeepsSettled DEF Pause, Delete
<1>5. CASE ResumeHeld
  BY <1>1, <1>5 DEF ResumeHeld
<1>6. ASSUME NEW boundary, ResumeRegular(boundary)
      PROVE  SettledStays
  BY <1>6, SkippingKeepsSettled, AddingKeepsSettled DEF ResumeRegular
<1>7. ASSUME NEW replacement, ResumeOnce(replacement)
      PROVE  SettledStays
  BY <1>7, AddingKeepsSettled DEF ResumeOnce
<1> QED
  BY <1>2, <1>3, <1>4, <1>5, <1>6, <1>7 DEF UserCommand

LEMMA DeliveryKeepsSettled ==
    ASSUME IInv, NEW t \in DOMAIN runs, WorkerStep(t) \/ RecoveryStep(t)
    PROVE  SettledStays
<1>1. CASE Claim(t)
  <2>1. runs[t].status \in OpenStatuses
    BY <1>1 DEF Claim, Pending, OpenStatuses
  <2>2. \E row : runs' = [runs EXCEPT ![t] = row]
    BY <1>1 DEF Claim
  <2> QED
    BY <2>1, <2>2, OpenRowKeepsSettled
<1>2. ASSUME NEW step \in {"prepare", "awaiting"}, NEW to, Advance(t, step, to)
      PROVE  runs[t].status \in OpenStatuses
  BY <1>2, TaskRow DEF Advance, TaskAgrees, OpenStatuses
<1>3. CASE PrepareSend(t)
  <2>1. runs' = [runs EXCEPT ![t] = [runs[t] EXCEPT !.attempt = "sending"]]
    BY <1>3 DEF PrepareSend
  <2>2. runs[t].status \in OpenStatuses
    BY <1>2, <1>3 DEF PrepareSend
  <2> QED
    BY <2>1, <2>2, OpenRowKeepsSettled
<1>4. CASE PrepareSkip(t)
  BY <1>2, <1>4, OpenRowKeepsSettled DEF PrepareSkip
<1>5. CASE SaveResult(t)
  BY <1>2, <1>5, OpenRowKeepsSettled DEF SaveResult
<1>6. CASE SaveRetry(t)
  BY <1>2, <1>6, OpenRowKeepsSettled DEF SaveRetry
<1>7. CASE Finalize(t)
  BY <1>7, FinalizationKeepsSettled DEF Finalize
<1>8. CASE Lose(t)
  BY <1>8 DEF Lose, SettledStays
<1>9. CASE RecoverExpired(t)
  <2>1. runs[t].status \in OpenStatuses
    BY <1>9 DEF RecoverExpired, Expired, OpenStatuses
  <2>2. CASE \E row : runs' = [runs EXCEPT ![t] = row]
    BY <2>1, <2>2, OpenRowKeepsSettled
  <2>3. CASE \E row : runs' = FinalizedRuns(t, [runs EXCEPT ![t] = row], startup.cutoff)
    <3>1. PICK row : runs' = FinalizedRuns(t, [runs EXCEPT ![t] = row], startup.cutoff)
      BY <2>3
    <3> DEFINE settled == [runs EXCEPT ![t] = row]
    <3>2. /\ DOMAIN settled = DOMAIN runs
          /\ \A u \in DOMAIN runs : runs[u].status \notin OpenStatuses
                                    => settled[u].status = runs[u].status
      BY <2>1
    <3> HIDE DEF settled
    <3>3. runs' = FinalizedRuns(t, settled, startup.cutoff)
      BY <3>1 DEF settled
    <3> QED
      BY <3>2, <3>3, FinalizationKeepsSettled
  <2> QED
    BY <1>9, <2>2, <2>3 DEF RecoverExpired
<1>10. CASE RecoverRecurring(t)
  <2> DEFINE next == RecoveredNext
  <2>1. /\ next \notin DOMAIN MissedRecorded
        /\ runs' = IF next = None THEN MissedRecorded
                   ELSE [u \in DOMAIN MissedRecorded \cup {next} |->
                            IF u = next THEN NewRun(next) ELSE MissedRecorded[u]]
    BY <1>10 DEF RecoverRecurring
  <2>2. /\ DOMAIN runs \subseteq DOMAIN MissedRecorded
        /\ \A u \in DOMAIN runs : u \notin Pending => MissedRecorded[u] = runs[u]
    BY DEF MissedRecorded
  <2>3. \A u \in DOMAIN runs : runs[u].status \notin OpenStatuses => u \notin Pending
    BY DEF Pending, OpenStatuses
  <2> HIDE DEF next
  <2> QED
    BY <2>1, <2>2, <2>3 DEF SettledStays
<1> QED
  BY <1>1, <1>3, <1>4, <1>5, <1>6, <1>7, <1>8, <1>9, <1>10
     DEF WorkerStep, RecoveryStep

(* No command, result, finalization or recovery reopens a settled run,       *)
(* changes what became of it, or forgets it.                                 *)
THEOREM SettledRunsAreFinal == Spec => SettledIsFinal
<1>1. ASSUME IInv, [Next]_vars
      PROVE  [SettledStays]_vars
  <2>1. CASE UserCommand
    BY <1>1, <2>1, CommandKeepsSettled
  <2>2. CASE \E t \in DOMAIN runs : WorkerStep(t) \/ RecoveryStep(t)
    BY <1>1, <2>2, DeliveryKeepsSettled
  <2>3. CASE Tick \/ Start \/ ExpiredDone \/ EndStartup
    <3>1. runs' = runs
      BY <2>3 DEF Tick, Start, ExpiredDone, EndStartup
    <3> QED
      BY <3>1 DEF SettledStays
  <2> QED
    BY <1>1, <2>1, <2>2, <2>3 DEF Next
<1>2. [SettledStays]_vars
      => [\A t \in DOMAIN runs :
             /\ t \in DOMAIN runs'
             /\ runs[t].status \notin OpenStatuses
                => runs'[t].status = runs[t].status]_vars
  BY DEF SettledStays
<1> QED
  BY <1>1, <1>2, Invariant, PTL DEF Spec, SettledIsFinal

-----------------------------------------------------------------------------
(* Resuming a paused schedule *)

(* Whatever happened before the pause, a resume finds at most one run held,  *)
(* untouched, and an instant for the next run that no run of the schedule    *)
(* has had: its insertion cannot break the uniqueness of scheduled_for.      *)
THEOREM PausedSchedulesCanResume == Spec => []PausedCanResume
<1>1. ASSUME IInv PROVE PausedCanResume
  <2> SUFFICES ASSUME schedule.status = "paused"
               PROVE  /\ RunsAreSettled
                      /\ Cardinality(Pending) <= 1
                      /\ \A t \in Pending : Pristine(t)
                      /\ \A boundary \in DOMAIN runs \cup {now} :
                            IsResumeBoundary(boundary)
                            => NextRun(schedule.rule, boundary) \notin DOMAIN runs
    BY DEF PausedCanResume
  <2>1. ScheduleOK /\ RunsOK /\ now \in Int /\ OpenRunIsCurrent
    BY <1>1, InvariantParts
  <2>2. /\ \A t, u \in OpenRuns : t = u
        /\ \A t \in OpenRuns : runs[t].status = "pending" /\ Pristine(t)
    BY <2>1 DEF OpenRunIsCurrent
  <2>3. RunsAreSettled
    <3>1. \A t \in DOMAIN runs : runs[t].status # "processing"
      BY <2>2 DEF OpenRuns, OpenStatuses
    <3>2. schedule.next_run_at = None
      BY <2>1 DEF ScheduleOK
    <3> QED
      BY <3>1, <3>2 DEF RunsAreSettled
  <2>4. Pending \subseteq OpenRuns
    BY DEF Pending, OpenRuns, OpenStatuses
  <2>5. Cardinality(Pending) <= 1
    <3>1. CASE Pending = {}
      <4>1. Cardinality(Pending) = 0
        BY <3>1, FS_EmptySet
      <4> QED
        BY <4>1
    <3>2. CASE Pending # {}
      <4>1. PICK t \in Pending : Pending = {t}
        BY <2>2, <2>4, <3>2
      <4>2. Cardinality({t}) = 1
        BY FS_Singleton
      <4>3. Cardinality(Pending) = 1
        BY <4>1, <4>2
      <4> QED
        BY <4>3
    <3> QED
      BY <3>1, <3>2
  <2>6. ASSUME NEW boundary \in DOMAIN runs \cup {now}, IsResumeBoundary(boundary)
        PROVE  NextRun(schedule.rule, boundary) \notin DOMAIN runs
    <3> DEFINE next == NextRun(schedule.rule, boundary)
    <3>1. boundary \in Int /\ schedule.rule \in ChosenRules
      BY <2>1 DEF RunsOK, ScheduleOK
    <3>2. next # None => next > boundary
      BY <3>1, NextRunType
    <3> HIDE DEF next
    <3>3. \A t \in DOMAIN runs : t \in Int /\ t # None /\ t <= boundary
      BY <2>1, <2>6, CalendarAssumption DEF RunsOK, IsResumeBoundary
    <3>4. next \notin DOMAIN runs
      BY <3>1, <3>2, <3>3
    <3> QED
      BY <3>4 DEF next
  <2> QED
    BY <2>2, <2>3, <2>4, <2>5, <2>6
<1> QED
  BY <1>1, Invariant, PTL

-----------------------------------------------------------------------------
(* The rule of the schedule *)

(* A step that keeps the rule has only its new runs to answer for. *)
LEMMA OnlyNewRunsMatter ==
    ASSUME OpenRunMatchesRule, SettledStays, schedule'.rule = schedule.rule,
           rescued \subseteq rescued',
           \A t \in OpenRuns' \ DOMAIN runs :
               t \in rescued' \/ Occurs(schedule.rule, t)
    PROVE  OpenRunMatchesRule'
<1>1. ASSUME NEW t \in OpenRuns', t \in DOMAIN runs
      PROVE  t \in OpenRuns
  BY <1>1 DEF OpenRuns, SettledStays
<1>2. ASSUME NEW t \in OpenRuns'
      PROVE  t \in rescued' \/ Occurs(schedule.rule, t)
  BY <1>1, <1>2 DEF OpenRunMatchesRule
<1> QED
  BY <1>2 DEF OpenRunMatchesRule, Occurs, WithinEnd

LEMMA EditMatches ==
    ASSUME IInv, OpenRunMatchesRule, NEW content \in BOOLEAN,
           NEW rule \in ChosenRules, Edit(content, rule)
    PROVE  OpenRunMatchesRule'
<1> DEFINE changed == rule # schedule.rule
           next    == IF changed THEN EditedRun(rule) ELSE schedule.next_run_at
<1>1. RunsAreSettled /\ CanEdit /\ schedule'.rule = rule /\ rescued' = rescued
  BY DEF Edit
<1>2. /\ RunsOK /\ ScheduleOK
      /\ \A t \in DOMAIN runs : runs[t].status # "processing"
      /\ OpenRuns = Pending
      /\ schedule.status \in {"draft", "active"}
         => Pending = {schedule.next_run_at}
  BY <1>1, SettledFacts
<1>3. CASE ~changed
  <2>1. runs' = runs \/ runs' = SkipPending({})
    BY <1>3 DEF Edit
  <2>2. OpenRuns' \subseteq OpenRuns
    <3>1. CASE runs' = runs
      BY <3>1 DEF OpenRuns
    <3>2. CASE runs' = SkipPending({})
      BY <1>2, <3>2, AfterSkip
    <3> QED
      BY <2>1, <3>1, <3>2
  <2>3. schedule'.rule = schedule.rule
    BY <1>1, <1>3
  <2> QED
    BY <1>1, <2>2, <2>3 DEF OpenRunMatchesRule, Occurs, WithinEnd
<1>4. CASE changed
  <2>1. next = EditedRun(rule)
    BY <1>4
  <2>2. next \in Instants /\ (next # None => Occurs(rule, next))
    BY <2>1, FirstUnusedType DEF EditedRun
  <2>3. \/ runs' = SkipPending({})
        \/ schedule.status # "paused" /\ next = schedule.next_run_at /\ runs' = runs
        \/ next # None /\ next \notin DOMAIN runs /\ runs' = SkipPendingThenAdd(next)
    BY <1>4 DEF Edit
  <2> HIDE DEF next
  <2>4. OpenRuns' \subseteq {next} \ {None}
    <3>1. CASE runs' = SkipPending({})
      BY <1>2, <3>1, AfterSkip
    <3>2. CASE schedule.status # "paused" /\ next = schedule.next_run_at /\ runs' = runs
      <4>1. schedule.status \in {"draft", "active"}
        BY <1>1, <3>2 DEF CanEdit
      <4>2. OpenRuns' = {next} /\ next # None
        BY <1>2, <3>2, <4>1 DEF OpenRuns, ScheduleOK
      <4> QED
        BY <4>2
    <3>3. CASE next # None /\ next \notin DOMAIN runs /\ runs' = SkipPendingThenAdd(next)
      <4>1. next \in Int
        BY <2>2, <3>3 DEF Instants
      <4>2. OpenRuns' = {next}
        BY <1>2, <3>3, <4>1, AfterReplace
      <4> QED
        BY <3>3, <4>2
    <3> QED
      BY <2>3, <3>1, <3>2, <3>3
  <2> QED
    BY <1>1, <2>2, <2>4 DEF OpenRunMatchesRule, Occurs, WithinEnd
<1> QED
  BY <1>3, <1>4

LEMMA CreateMatches ==
    ASSUME IInv, NEW content \in BOOLEAN, NEW rule \in ChosenRules,
           Create(content, rule)
    PROVE  OpenRunMatchesRule'
<1> DEFINE first == FirstRun(rule, now + Lead)
<1>1. now + Lead \in Int
  BY InvariantParts, LifeAssumption
<1>2. first # None /\ DOMAIN runs' = {first} /\ schedule'.rule = rule
  BY DEF IInv, TasksAgree, Create, With
<1>3. Occurs(rule, first)
  BY <1>1, <1>2, FirstRunType
<1> HIDE DEF first
<1> QED
  BY <1>2, <1>3 DEF OpenRunMatchesRule, OpenRuns, Occurs, WithinEnd

(* Every other command keeps the rule and adds at most one run, which the    *)
(* rule gives or the user asked for.                                         *)
LEMMA ResumeMatches ==
    ASSUME IInv, OpenRunMatchesRule, SettledStays,
           \/ Pause \/ ResumeHeld \/ Delete
           \/ \E boundary \in DOMAIN runs \cup {now} : ResumeRegular(boundary)
           \/ \E replacement \in now..(now + Day) : ResumeOnce(replacement)
    PROVE  OpenRunMatchesRule'
<1>1. ScheduleOK /\ RunsOK /\ now \in Int
  BY InvariantParts
<1>2. CASE Pause \/ ResumeHeld \/ Delete
  <2>1. DOMAIN runs' = DOMAIN runs /\ rescued' = rescued
    BY <1>2 DEF Pause, ResumeHeld, Delete, SkipPending
  <2>2. schedule'.rule = schedule.rule
    BY <1>1, <1>2 DEF Pause, ResumeHeld, Delete, Resumed, ScheduleOK
  <2> QED
    BY <2>1, <2>2, OnlyNewRunsMatter DEF OpenRuns
<1>3. ASSUME NEW boundary \in DOMAIN runs \cup {now}, ResumeRegular(boundary)
      PROVE  OpenRunMatchesRule'
  <2> DEFINE next == NextRun(schedule.rule, boundary)
  <2>1. next # None => Occurs(schedule.rule, next)
    <3>1. boundary \in Int /\ schedule.rule \in ChosenRules
      BY <1>1 DEF RunsOK, ScheduleOK
    <3> QED
      BY <3>1, NextRunType
  <2>2. \/ runs' = SkipPending({})
        \/ next # None /\ runs' = SkipPendingThenAdd(next)
    BY <1>3 DEF ResumeRegular
  <2>3. rescued' = rescued /\ schedule'.rule = schedule.rule
    BY <1>1, <1>3 DEF ResumeRegular, Resumed, ScheduleOK
  <2> HIDE DEF next
  <2>4. ASSUME NEW t \in DOMAIN runs' \ DOMAIN runs
        PROVE  t = next /\ next # None
    BY <2>2, <2>4 DEF SkipPending, SkipPendingThenAdd
  <2> QED
    BY <2>1, <2>3, <2>4, OnlyNewRunsMatter DEF OpenRuns
<1>4. ASSUME NEW replacement, ResumeOnce(replacement)
      PROVE  OpenRunMatchesRule'
  <2>1. DOMAIN runs' = DOMAIN runs \cup {replacement}
    BY <1>4 DEF ResumeOnce, SkipPendingThenAdd
  <2>2. rescued' = rescued \cup {replacement} /\ schedule'.rule = schedule.rule
    BY <1>1, <1>4 DEF ResumeOnce, Resumed, ScheduleOK
  <2> QED
    BY <2>1, <2>2, OnlyNewRunsMatter DEF OpenRuns
<1> QED
  BY <1>2, <1>3, <1>4

LEMMA FinalizedMatches ==
    ASSUME IInv, NEW t, NEW settled, NEW at \in Int, DOMAIN settled = DOMAIN runs,
           schedule' = FinalizedSchedule(t, at),
           runs' = FinalizedRuns(t, settled, at)
    PROVE  /\ schedule'.rule = schedule.rule
           /\ \A u \in DOMAIN runs' \ DOMAIN runs : Occurs(schedule.rule, u)
<1> DEFINE next == NextRun(schedule.rule, at)
           shown == FinalizedSchedule(t, at).next_run_at
<1>1. ScheduleOK /\ OpenRunIsCurrent
  BY InvariantParts
<1>2. next # None => Occurs(schedule.rule, next)
  BY <1>1, NextRunType DEF ScheduleOK
<1> HIDE DEF next
<1>3. /\ schedule'.rule = schedule.rule
      /\ shown \in {schedule.next_run_at, None, next}
  BY <1>1 DEF FinalizedSchedule, ScheduleOK, next
<1>4. schedule.next_run_at = None \/ schedule.next_run_at \in DOMAIN runs
  BY <1>1 DEF ScheduleOK, OpenRunIsCurrent
<1>5. \/ runs' = settled
      \/ shown # None /\ shown \notin DOMAIN runs
         /\ DOMAIN runs' = DOMAIN runs \cup {shown}
  BY DEF FinalizedRuns
<1> HIDE DEF shown
<1> QED
  BY <1>2, <1>3, <1>4, <1>5

LEMMA DeliveryMatches ==
    ASSUME IInv, OpenRunMatchesRule, SettledStays, NEW t \in DOMAIN runs,
           WorkerStep(t) \/ RecoveryStep(t)
    PROVE  OpenRunMatchesRule'
<1>1. ScheduleOK /\ StartupOK /\ now \in Int /\ rescued' = rescued
  <2>1. ASSUME RecoveryStep(t) PROVE rescued' = rescued
    BY <2>1 DEF RecoveryStep, RecoverExpired, RecoverRecurring
  <2>2. ASSUME WorkerStep(t) PROVE rescued' = rescued
    <3>1. CASE Claim(t)
      BY <3>1 DEF Claim
    <3>2. CASE ~Claim(t)
      <4>1. \E from, to : Advance(t, from, to)
        BY <2>2, <3>2
           DEF WorkerStep, PrepareSend, PrepareSkip, SaveResult, SaveRetry,
               Finalize, Lose
      <4> QED
        BY <4>1 DEF Advance
    <3> QED
      BY <3>1, <3>2
  <2> QED
    BY <2>1, <2>2, InvariantParts
<1>2. CASE DOMAIN runs' = DOMAIN runs /\ UNCHANGED schedule
  BY <1>1, <1>2, OnlyNewRunsMatter DEF OpenRuns
<1>3. CASE \/ Claim(t) \/ PrepareSend(t) \/ PrepareSkip(t) \/ SaveResult(t)
           \/ SaveRetry(t) \/ Lose(t)
  BY <1>2, <1>3
     DEF Claim, PrepareSend, PrepareSkip, SaveResult, SaveRetry, Lose
<1>4. CASE Finalize(t)
  <2>1. /\ schedule'.rule = schedule.rule
        /\ \A u \in DOMAIN runs' \ DOMAIN runs : Occurs(schedule.rule, u)
    BY <1>1, <1>4, FinalizedMatches DEF Finalize
  <2> QED
    BY <1>1, <2>1, OnlyNewRunsMatter DEF OpenRuns
<1>5. CASE RecoverExpired(t)
  <2> DEFINE settled == [runs EXCEPT ![t] = Terminal(runs[t], "failed")]
  <2>1. startup.cutoff \in Int
    BY <1>1, <1>5 DEF RecoverExpired, StartupOK
  <2>2. CASE /\ schedule' = FinalizedSchedule(t, startup.cutoff)
             /\ runs' = FinalizedRuns(t, settled, startup.cutoff)
    <3>1. DOMAIN settled = DOMAIN runs
      OBVIOUS
    <3> HIDE DEF settled
    <3>2. /\ schedule'.rule = schedule.rule
          /\ \A u \in DOMAIN runs' \ DOMAIN runs : Occurs(schedule.rule, u)
      BY <2>1, <2>2, <3>1, FinalizedMatches
    <3> QED
      BY <1>1, <3>2, OnlyNewRunsMatter DEF OpenRuns
  <2>3. CASE ~(/\ schedule' = FinalizedSchedule(t, startup.cutoff)
               /\ runs' = FinalizedRuns(t, settled, startup.cutoff))
    <3>1. DOMAIN runs' = DOMAIN runs /\ UNCHANGED schedule
      BY <1>5, <2>3 DEF RecoverExpired
    <3> QED
      BY <1>2, <3>1
  <2> QED
    BY <2>2, <2>3
<1>6. CASE RecoverRecurring(t)
  <2> DEFINE next == RecoveredNext
  <2>1. next # None => Occurs(schedule.rule, next)
    BY FirstUnusedType DEF RecoveredNext
  <2>2. /\ schedule'.rule = schedule.rule
        /\ runs' = IF next = None THEN MissedRecorded
                   ELSE [u \in DOMAIN MissedRecorded \cup {next} |->
                            IF u = next THEN NewRun(next) ELSE MissedRecorded[u]]
    BY <1>1, <1>6 DEF RecoverRecurring, ScheduleOK
  <2>3. DOMAIN MissedRecorded = DOMAIN runs \cup Missed
    BY DEF MissedRecorded
  <2>4. ASSUME NEW u \in Missed \ DOMAIN runs
        PROVE  MissedRecorded[u].status = "skipped"
    BY DEF MissedRecorded, Terminal, NewRun
  <2> HIDE DEF next
  <2>5. ASSUME NEW u \in OpenRuns' \ DOMAIN runs
        PROVE  u = next /\ next # None
    <3>1. u \in DOMAIN runs' /\ runs'[u].status # "skipped"
      BY DEF OpenRuns, OpenStatuses
    <3> QED
      BY <2>2, <2>3, <2>4, <2>5, <3>1
  <2> QED
    BY <1>1, <2>1, <2>2, <2>5, OnlyNewRunsMatter
<1> QED
  BY <1>3, <1>4, <1>5, <1>6 DEF WorkerStep, RecoveryStep

(* What is open follows the rule the schedule has now, or was asked for by a *)
(* resume: no edit leaves behind a run of the old rule, and neither a        *)
(* finalization nor a recovery invents one.                                  *)
THEOREM OpenRunsMatchRule == Spec => []OpenRunMatchesRule
<1>1. Init => OpenRunMatchesRule
  <2>1. Init => DOMAIN runs = {}
    BY DEF Init
  <2> QED
    BY <2>1 DEF OpenRunMatchesRule, OpenRuns
<1>2. ASSUME IInv, OpenRunMatchesRule, [Next]_vars
      PROVE  OpenRunMatchesRule'
  <2>1. CASE UserCommand
    <3>1. SettledStays
      BY <1>2, <2>1, CommandKeepsSettled
    <3>2. CASE \E content \in BOOLEAN, rule \in ChosenRules :
                  Create(content, rule) \/ Edit(content, rule)
      BY <1>2, <3>2, CreateMatches, EditMatches
    <3>3. CASE \/ Pause \/ ResumeHeld \/ Delete
               \/ \E boundary \in DOMAIN runs \cup {now} : ResumeRegular(boundary)
               \/ \E replacement \in now..(now + Day) : ResumeOnce(replacement)
      BY <1>2, <3>1, <3>3, ResumeMatches
    <3> QED
      BY <2>1, <3>2, <3>3 DEF UserCommand
  <2>2. CASE \E t \in DOMAIN runs : WorkerStep(t) \/ RecoveryStep(t)
    BY <1>2, <2>2, DeliveryKeepsSettled, DeliveryMatches
  <2>3. CASE Tick \/ Start \/ ExpiredDone \/ EndStartup \/ UNCHANGED vars
    <3>1. UNCHANGED <<runs, schedule, rescued>>
      BY <2>3 DEF Tick, Start, ExpiredDone, EndStartup, vars
    <3> QED
      BY <1>2, <3>1 DEF OpenRunMatchesRule, OpenRuns, Occurs, WithinEnd
  <2> QED
    BY <1>2, <2>1, <2>2, <2>3 DEF Next
<1> QED
  BY <1>1, <1>2, Invariant, PTL DEF Spec

-----------------------------------------------------------------------------
(* Once per day *)

Succeeded == {t \in DOMAIN runs : runs[t].status = "succeeded"}
Kept == Succeeded \cup OpenRuns
Regular(t) == Date(t) * Day + schedule.rule.local

(* No run is posted ahead of its time, and none is open behind a posted one. *)
PostedInv ==
    \A t \in Succeeded : t <= now /\ \A u \in OpenRuns : t < u

(* A claim begins when its run is due, so its lease ends later than that.    *)
ClaimedInv ==
    \A t \in DOMAIN runs :
        runs[t].status = "processing" => t <= now /\ t < runs[t].lease_expires_at

(* A run of a day on which one was posted, open or posted itself, is there   *)
(* only if the recurrence was changed on that day.                           *)
DayInv ==
    \A t \in Succeeded, u \in Kept :
        t # u /\ Date(t) = Date(u) => Date(t) \in edited

(* A run of today or later does not come before the occurrence its day has,  *)
(* so that no occurrence of the same day follows it.                         *)
ShiftInv ==
    \A t \in Kept : Date(t) < Date(now) \/ Date(t) \in edited \/ Regular(t) <= t

OnceInv == PostedInv /\ ClaimedInv /\ DayInv /\ ShiftInv

(* A run that is opened fits behind what was posted. *)
FitsDay(n) ==
    \A t \in Succeeded : t < n /\ (Date(t) = Date(n) => Date(t) \in edited')

(* What a step other than a claim or a success leaves of a row. *)
QuietRow(t) ==
    \/ t \in DOMAIN runs /\ runs'[t] = runs[t]
    \/ runs'[t].status \in {"skipped", "failed"}
    \/ runs'[t].status = "pending" /\ (t \in OpenRuns \/ FitsDay(t))

NewRunsShifted ==
    \A t \in OpenRuns' \ OpenRuns : Date(t) \in edited \/ Regular(t) <= t

LEMMA DatesAre ==
    ASSUME NEW t \in Int
    PROVE  Date(t) \in Int
BY DatesOrdered

LEMMA RunsAreInstants ==
    ASSUME IInv
    PROVE  /\ Succeeded \subseteq Int /\ OpenRuns \subseteq Int /\ Kept \subseteq Int
           /\ now \in Int /\ None \notin Int
BY InvariantParts, CalendarAssumption DEF RunsOK, Succeeded, OpenRuns, Kept

(* The rule stays and what is opened does not come too early in its day. *)
LEMMA ShiftKept ==
    ASSUME IInv, IInv', ShiftInv, NewRunsShifted, now <= now',
           edited \subseteq edited', schedule'.rule = schedule.rule,
           Succeeded' \subseteq Succeeded \cup OpenRuns
    PROVE  ShiftInv'
<1>1. /\ now \in Int /\ now' \in Int /\ Kept \subseteq Int /\ Kept' \subseteq Int
  BY RunsAreInstants, InvariantParts DEF RunsOK, Succeeded, OpenRuns, Kept, IInv, TypeOK
<1>2. Date(now) <= Date(now') /\ Date(now) \in Int /\ Date(now') \in Int
  BY <1>1, DatesOrdered
<1>3. ASSUME NEW t \in Kept'
      PROVE  Date(t) < Date(now') \/ Date(t) \in edited' \/ Regular(t) <= t
  <2>1. t \in Int /\ Date(t) \in Int
    BY <1>1, DatesAre
  <2>2. CASE t \in Kept
    BY <1>2, <2>1, <2>2 DEF ShiftInv
  <2>3. CASE t \notin Kept
    <3>1. t \in OpenRuns' \ OpenRuns
      BY <2>3 DEF Kept
    <3> QED
      BY <3>1 DEF NewRunsShifted
  <2> QED
    BY <2>2, <2>3
<1>4. ASSUME NEW t \in Kept' PROVE Regular(t)' = Regular(t)
  BY DEF Regular, Date
<1>5. ASSUME NEW t \in Kept'
      PROVE  (Date(t) < Date(now) \/ Date(t) \in edited \/ Regular(t) <= t)'
  BY <1>3, <1>4, <1>5 DEF Date
<1> QED
  BY <1>5 DEF ShiftInv

(* A step that posts nothing: what it opens fits, what it claims is due. *)
LEMMA QuietStep ==
    ASSUME IInv, IInv', OnceInv, ShiftInv', now <= now', edited \subseteq edited',
           \A t \in DOMAIN runs' : QuietRow(t)
    PROVE  OnceInv'
<1>1. /\ now \in Int /\ now' \in Int /\ Kept \subseteq Int /\ DOMAIN runs' \subseteq Int
      /\ Succeeded \subseteq Int
  BY RunsAreInstants, InvariantParts DEF RunsOK, IInv, TypeOK
<1>2. Succeeded' \subseteq Succeeded
  <2>1. ASSUME NEW t \in Succeeded' PROVE t \in Succeeded
    <3>1. t \in DOMAIN runs' /\ runs'[t].status = "succeeded"
      BY DEF Succeeded
    <3>2. t \in DOMAIN runs /\ runs'[t] = runs[t]
      BY <3>1 DEF QuietRow
    <3> QED
      BY <3>1, <3>2 DEF Succeeded
  <2> QED
    BY <2>1
<1>3. ASSUME NEW u \in OpenRuns' PROVE u \in OpenRuns \/ FitsDay(u)
  <2>1. u \in DOMAIN runs' /\ runs'[u].status \in OpenStatuses
    BY DEF OpenRuns
  <2>2. QuietRow(u)
    BY <2>1
  <2>3. CASE u \in DOMAIN runs /\ runs'[u] = runs[u]
    BY <2>1, <2>3 DEF OpenRuns
  <2>4. CASE runs'[u].status \in {"skipped", "failed"}
    BY <2>1, <2>4 DEF OpenStatuses
  <2> QED
    BY <2>2, <2>3, <2>4 DEF QuietRow
<1>4. PostedInv'
  <2>1. ASSUME NEW t \in Succeeded', NEW u \in OpenRuns'
        PROVE  t < u
    BY <1>2, <1>3 DEF OnceInv, PostedInv, FitsDay
  <2>2. ASSUME NEW t \in Succeeded'
        PROVE  t <= now'
    <3>1. t \in Int /\ t <= now
      BY <1>1, <1>2 DEF OnceInv, PostedInv
    <3> QED
      BY <1>1, <3>1
  <2> QED
    BY <2>1, <2>2 DEF PostedInv
<1>5. ClaimedInv'
  <2>1. ASSUME NEW t \in DOMAIN runs', runs'[t].status = "processing"
        PROVE  t <= now' /\ t < runs'[t].lease_expires_at
    <3>1. t \in DOMAIN runs /\ runs'[t] = runs[t]
      BY <2>1 DEF QuietRow
    <3>2. t <= now /\ t < runs[t].lease_expires_at
      BY <2>1, <3>1 DEF OnceInv, ClaimedInv
    <3> QED
      BY <1>1, <3>1, <3>2
  <2> QED
    BY <2>1 DEF ClaimedInv
<1>6. DayInv'
  <2>1. ASSUME NEW t \in Succeeded', NEW u \in Kept', t # u, Date(t) = Date(u)
        PROVE  Date(t) \in edited'
    <3>1. t \in Succeeded
      BY <1>2
    <3>2. CASE u \in Kept
      BY <2>1, <3>1, <3>2 DEF OnceInv, DayInv
    <3>3. CASE u \notin Kept
      <4>1. FitsDay(u)
        BY <1>2, <1>3, <3>3 DEF Kept
      <4> QED
        BY <2>1, <3>1, <4>1 DEF FitsDay
    <3> QED
      BY <3>2, <3>3
  <2>2. ASSUME NEW t \in Succeeded', NEW u \in Kept'
        PROVE  (t # u /\ Date(t) = Date(u) => Date(t) \in edited)'
    BY <2>1 DEF Date
  <2> QED
    BY <2>2 DEF DayInv
<1> QED
  BY <1>4, <1>5, <1>6 DEF OnceInv

(* ... most often with the rule unchanged. *)
LEMMA QuietRuleStep ==
    ASSUME IInv, IInv', OnceInv, now <= now', edited \subseteq edited',
           \A t \in DOMAIN runs' : QuietRow(t),
           schedule'.rule = schedule.rule, NewRunsShifted
    PROVE  OnceInv'
<1>1. Succeeded' \subseteq Succeeded \cup OpenRuns
  BY DEF Succeeded, QuietRow
<1>2. ShiftInv
  BY DEF OnceInv
<1>3. ShiftInv'
  BY <1>1, <1>2, ShiftKept
<1> QED
  BY <1>3, QuietStep

(* Runs that fit *)

LEMMA OccursRegular ==
    ASSUME IInv, NEW n \in Int, Occurs(schedule.rule, n)
    PROVE  Regular(n) = n
<1>1. schedule.rule \in Rules
  BY InvariantParts, ChosenRulesAreRules DEF ScheduleOK
<1> QED
  BY <1>1, OccurrenceParts DEF Regular

(* An occurrence still ahead: of its day nothing was posted, or at a shifted *)
(* time, which an edit of that day explains.                                 *)
LEMMA NextAfterNow ==
    ASSUME IInv, OnceInv, edited \subseteq edited',
           NEW n \in Int, now < n, Occurs(schedule.rule, n)
    PROVE  FitsDay(n)
<1>1. ASSUME NEW t \in Succeeded
      PROVE  t < n /\ (Date(t) = Date(n) => Date(t) \in edited')
  <2>1. t \in Int /\ now \in Int /\ t \in Kept
    BY RunsAreInstants DEF Kept
  <2>2. t <= now
    BY DEF OnceInv, PostedInv
  <2>3. t < n
    BY <2>1, <2>2
  <2>4. ASSUME Date(t) = Date(n), Date(t) \notin edited
        PROVE  FALSE
    <3>1. /\ Date(t) \in Int /\ Date(now) \in Int /\ Date(n) \in Int
          /\ Date(t) <= Date(now) /\ Date(now) <= Date(n)
      BY <2>1, <2>2, DatesOrdered
    <3>2. Regular(t) <= t
      BY <2>1, <2>4, <3>1 DEF OnceInv, ShiftInv
    <3>3. Regular(t) = n
      BY <2>4, OccursRegular DEF Regular
    <3> QED
      BY <2>1, <2>3, <3>2, <3>3
  <2> QED
    BY <2>3, <2>4
<1> QED
  BY <1>1 DEF FitsDay

(* A run in the place of an open one, or later: where something was posted   *)
(* for its day, the open one too was there because of an edit.               *)
LEMMA NextAfterOpen ==
    ASSUME IInv, OnceInv, edited \subseteq edited',
           NEW n \in Int, NEW o \in OpenRuns, o <= n
    PROVE  FitsDay(n)
<1>1. ASSUME NEW t \in Succeeded
      PROVE  t < n /\ (Date(t) = Date(n) => Date(t) \in edited')
  <2>1. t \in Int /\ o \in Int /\ o \in Kept
    BY RunsAreInstants DEF Kept
  <2>2. t < o
    BY DEF OnceInv, PostedInv
  <2>3. t < n
    BY <2>1, <2>2
  <2>4. ASSUME Date(t) = Date(n)
        PROVE  Date(t) \in edited
    <3>1. /\ Date(t) \in Int /\ Date(o) \in Int /\ Date(n) \in Int
          /\ Date(t) <= Date(o) /\ Date(o) <= Date(n)
      BY <2>1, <2>2, DatesOrdered
    <3>2. Date(t) = Date(o) /\ t # o
      BY <2>1, <2>2, <2>4, <3>1
    <3> QED
      BY <2>1, <3>2 DEF OnceInv, DayInv
  <2> QED
    BY <2>3, <2>4
<1> QED
  BY <1>1 DEF FitsDay

LEMMA FirstUnusedFrom ==
    ASSUME NEW rule, NEW from \in Int, NEW taken,
           FirstUnused(rule, from, taken) # None
    PROVE  /\ FirstUnused(rule, from, taken) \in Int
           /\ FirstUnused(rule, from, taken) >= from
<1> DEFINE free == {t \in from..(from + Period(rule) * (Cardinality(taken) + 1)) :
                       Occurs(rule, t) /\ t \notin taken}
<1>1. FirstUnused(rule, from, taken) = Least(free)
  BY DEF FirstUnused
<1>2. \A t \in free : t \in Int /\ t >= from
  OBVIOUS
<1> HIDE DEF free
<1>3. Least(free) \in free
  BY <1>1, LeastType
<1> QED
  BY <1>1, <1>2, <1>3

LEMMA SkippedQuiet ==
    ASSUME IInv, NEW kept, runs' = SkipPending(kept)
    PROVE  /\ \A t \in DOMAIN runs' : QuietRow(t)
           /\ OpenRuns' \subseteq OpenRuns
<1>1. /\ DOMAIN runs' = DOMAIN runs
      /\ \A t \in DOMAIN runs :
            runs'[t] = runs[t] \/ runs'[t].status = "skipped"
  BY InvariantParts, SkipFacts
<1> QED
  BY <1>1 DEF QuietRow, OpenRuns, OpenStatuses

LEMMA AddedQuiet ==
    ASSUME IInv, NEW n \in Int, n \notin DOMAIN runs,
           runs' = SkipPendingThenAdd(n), FitsDay(n)
    PROVE  /\ \A t \in DOMAIN runs' : QuietRow(t)
           /\ OpenRuns' \subseteq OpenRuns \cup {n}
<1>1. /\ DOMAIN runs' = DOMAIN runs \cup {n}
      /\ runs'[n] = NewRun(n)
      /\ \A t \in DOMAIN runs :
            runs'[t] = runs[t] \/ runs'[t].status = "skipped"
  <2>1. /\ DOMAIN runs' = DOMAIN runs \cup {n} /\ runs'[n] = NewRun(n)
        /\ \A t \in DOMAIN runs : runs'[t] = SkipPending({})[t]
    BY DEF SkipPendingThenAdd
  <2> QED
    BY <2>1, InvariantParts, SkipFacts
<1>2. NewRun(n).status = "pending"
  BY NewRunOK
<1> QED
  BY <1>1, <1>2 DEF QuietRow, OpenRuns, OpenStatuses

-----------------------------------------------------------------------------
(* ... step by step *)

(* A step that opens nothing, or one occurrence that fits. *)
LEMMA PlainStep ==
    ASSUME IInv, IInv', OnceInv, now <= now', edited \subseteq edited',
           schedule'.rule = schedule.rule,
           \A t \in DOMAIN runs' : QuietRow(t),
           \A t \in OpenRuns' \ OpenRuns : Occurs(schedule.rule, t)
    PROVE  OnceInv'
<1>1. OpenRuns' \subseteq Int
  BY RunsAreInstants, InvariantParts DEF RunsOK, OpenRuns, IInv, TypeOK
<1>2. ASSUME NEW t \in OpenRuns' \ OpenRuns
      PROVE  Regular(t) <= t
  <2>1. t \in Int /\ Regular(t) = t
    BY <1>1, OccursRegular
  <2> QED
    BY <2>1
<1>3. NewRunsShifted
  BY <1>2 DEF NewRunsShifted
<1> QED
  BY <1>3, QuietRuleStep

LEMMA CreateOnce ==
    ASSUME IInv, IInv', OnceInv, NEW content \in BOOLEAN,
           NEW rule \in ChosenRules, Create(content, rule)
    PROVE  OnceInv'
<1> DEFINE first == FirstRun(rule, now + Lead)
<1>1. now + Lead \in Int /\ now \in Int
  BY InvariantParts, LifeAssumption
<1>2. /\ first # None /\ DOMAIN runs' = {first} /\ schedule'.rule = rule
      /\ runs'[first] = NewRun(first) /\ DOMAIN runs = {}
      /\ edited' = {Date(now)} /\ now' = now
  BY DEF IInv, TasksAgree, Create, With
<1>3. Occurs(rule, first) /\ first \in Int
  BY <1>1, <1>2, FirstRunType DEF Instants
<1> HIDE DEF first
<1>4. Succeeded = {} /\ OpenRuns = {} /\ NewRun(first).status = "pending"
  BY <1>2, <1>3, NewRunOK DEF Succeeded, OpenRuns
<1>5. \A t \in Kept' : Regular(t)' <= t
  <2>1. Kept' \subseteq {first}
    BY <1>2 DEF Kept, Succeeded, OpenRuns
  <2>2. rule \in Rules
    BY ChosenRulesAreRules
  <2>3. first = Date(first) * Day + rule.local
    BY <1>3, <2>2, OccurrenceParts
  <2> QED
    BY <1>2, <1>3, <2>1, <2>3 DEF Regular, Date
<1>6. \A t \in DOMAIN runs' : runs'[t].status = "pending"
  BY <1>2, <1>4
<1>7. Succeeded' = {}
  BY <1>6 DEF Succeeded
<1>8. PostedInv' /\ ClaimedInv' /\ DayInv'
  BY <1>6, <1>7 DEF PostedInv, ClaimedInv, DayInv
<1>9. ShiftInv'
  BY <1>5 DEF ShiftInv
<1> QED
  BY <1>8, <1>9 DEF OnceInv

LEMMA EditOnce ==
    ASSUME IInv, IInv', OnceInv, NEW content \in BOOLEAN,
           NEW rule \in ChosenRules, Edit(content, rule)
    PROVE  OnceInv'
<1> DEFINE changed == rule # schedule.rule
           next    == IF changed THEN EditedRun(rule) ELSE schedule.next_run_at
<1>1. /\ RunsAreSettled /\ CanEdit /\ schedule'.rule = rule
      /\ edited' = IF changed THEN edited \cup {Date(now)} ELSE edited
      /\ now' = now
  BY DEF Edit
<1>2. edited \subseteq edited' /\ now <= now' /\ now \in Int
  BY <1>1, RunsAreInstants
<1>3. CASE ~changed
  <2>1. runs' = runs \/ runs' = SkipPending({})
    BY <1>3 DEF Edit
  <2>2. (\A t \in DOMAIN runs' : QuietRow(t)) /\ OpenRuns' \subseteq OpenRuns
    <3>1. CASE runs' = runs
      BY <3>1 DEF QuietRow, OpenRuns
    <3>2. CASE runs' = SkipPending({})
      BY <3>2, SkippedQuiet
    <3> QED
      BY <2>1, <3>1, <3>2
  <2>3. schedule'.rule = schedule.rule
    BY <1>1, <1>3
  <2> QED
    BY <1>2, <2>2, <2>3, PlainStep
<1>4. CASE changed
  <2>1. /\ RunsOK /\ ScheduleOK
        /\ \A t \in DOMAIN runs : runs[t].status # "processing"
        /\ schedule.status \in {"draft", "active"}
           => Pending = {schedule.next_run_at}
        /\ OpenRuns = Pending
    BY <1>1, SettledFacts
  <2>2. next = EditedRun(rule)
    BY <1>4
  <2>3. now + Lead \in Int /\ now + Lead > now
    BY <1>2, LifeAssumption
  <2>4. next # None => next \in Int /\ next > now /\ Occurs(rule, next)
    <3>1. next # None => next \in Int /\ next >= now + Lead /\ Occurs(rule, next)
      BY <2>2, <2>3, FirstUnusedType, FirstUnusedFrom DEF EditedRun
    <3> HIDE DEF next
    <3> QED
      BY <1>2, <2>3, <3>1
  <2>5. \/ runs' = SkipPending({})
        \/ schedule.status # "paused" /\ next = schedule.next_run_at /\ runs' = runs
        \/ next # None /\ next \notin DOMAIN runs /\ runs' = SkipPendingThenAdd(next)
    BY <1>4 DEF Edit
  <2> HIDE DEF next
  <2>6. next # None => FitsDay(next)
    <3>1. ASSUME NEW t \in Succeeded, next # None
          PROVE  t < next /\ (Date(t) = Date(next) => Date(t) \in edited')
      <4>1. t \in Int /\ t <= now
        BY RunsAreInstants DEF OnceInv, PostedInv
      <4>2. t < next
        BY <1>2, <2>4, <3>1, <4>1
      <4>3. Date(now) \in edited'
        BY <1>1, <1>4
      <4>4. /\ Date(t) \in Int /\ Date(now) \in Int /\ Date(next) \in Int
            /\ Date(t) <= Date(now) /\ Date(now) <= Date(next)
        BY <1>2, <2>4, <3>1, <4>1, DatesOrdered
      <4>5. Date(t) = Date(next) => Date(t) = Date(now)
        BY <4>4
      <4> QED
        BY <4>2, <4>3, <4>5
    <3> QED
      BY <3>1 DEF FitsDay
  <2>7. OpenRuns' \subseteq {next} \ {None} /\ \A t \in DOMAIN runs' : QuietRow(t)
    <3>1. CASE runs' = SkipPending({})
      BY <2>1, <3>1, AfterSkip, SkippedQuiet
    <3>2. CASE schedule.status # "paused" /\ next = schedule.next_run_at /\ runs' = runs
      <4>1. schedule.status \in {"draft", "active"}
        BY <1>1, <3>2 DEF CanEdit
      <4>2. OpenRuns' = {next} /\ next # None
        BY <2>1, <3>2, <4>1 DEF OpenRuns, ScheduleOK
      <4> QED
        BY <3>2, <4>2 DEF QuietRow
    <3>3. CASE next # None /\ next \notin DOMAIN runs /\ runs' = SkipPendingThenAdd(next)
      <4>1. next \in Int /\ FitsDay(next)
        BY <2>4, <2>6, <3>3
      <4>2. OpenRuns' = {next}
        BY <2>1, <3>3, <4>1, AfterReplace
      <4> QED
        BY <3>3, <4>1, <4>2, AddedQuiet
    <3> QED
      BY <2>5, <3>1, <3>2, <3>3
  <2>8. Succeeded' \subseteq Succeeded
    BY <2>7 DEF Succeeded, QuietRow
  <2>9. ASSUME NEW t \in Kept'
        PROVE  Date(t) < Date(now') \/ Date(t) \in edited'
               \/ Date(t) * Day + rule.local <= t
    <3>1. CASE t \in Succeeded'
      <4>1. t \in Int /\ t <= now
        BY <2>8, <3>1, RunsAreInstants DEF OnceInv, PostedInv
      <4>2. Date(t) \in Int /\ Date(now) \in Int /\ Date(t) <= Date(now)
        BY <1>2, <4>1, DatesOrdered
      <4>3. Date(now) \in edited' /\ now' = now
        BY <1>1, <1>4
      <4>4. Date(t) = Date(now) \/ Date(t) < Date(now)
        BY <4>2
      <4> QED
        BY <4>3, <4>4
    <3>2. CASE t \in OpenRuns'
      <4>1. t \in Int /\ Occurs(rule, t)
        BY <2>4, <2>7, <3>2
      <4>2. rule \in Rules
        BY ChosenRulesAreRules
      <4>3. t = Date(t) * Day + rule.local
        BY <4>1, <4>2, OccurrenceParts
      <4> QED
        BY <4>1, <4>3
    <3> QED
      BY <3>1, <3>2 DEF Kept
  <2>10. ASSUME NEW t \in Kept'
         PROVE  (Date(t) < Date(now) \/ Date(t) \in edited \/ Regular(t) <= t)'
    BY <1>1, <2>9, <2>10 DEF Date, Regular
  <2>11. ShiftInv'
    BY <2>10 DEF ShiftInv
  <2> QED
    BY <1>2, <2>7, <2>11, QuietStep
<1> QED
  BY <1>3, <1>4

LEMMA ResumeOnceOnce ==
    ASSUME IInv, IInv', OnceInv, NEW replacement \in now..(now + Day),
           ResumeOnce(replacement)
    PROVE  OnceInv'
<1>1. now \in Int /\ Day \in Nat /\ ScheduleOK
  BY RunsAreInstants, CalendarAssumption, InvariantParts
<1>2. replacement \in Int /\ replacement >= now
  BY <1>1
<1>3. PICK held \in Pending : held <= now /\ Date(held) = Date(now)
  BY DEF ResumeOnce
<1>4. held \in OpenRuns /\ held \in Kept /\ held \in Int
  BY <1>3, RunsAreInstants DEF Pending, OpenRuns, OpenStatuses, Kept
<1>5. /\ Date(replacement) = Date(now) /\ replacement \notin DOMAIN runs
      /\ runs' = SkipPendingThenAdd(replacement)
      /\ now' = now /\ edited' = edited
      /\ schedule'.rule = schedule.rule
  BY <1>1 DEF ResumeOnce, Resumed, ScheduleOK
<1>6. held <= replacement
  BY <1>1, <1>2, <1>3, <1>4
<1>7. FitsDay(replacement)
  BY <1>2, <1>4, <1>5, <1>6, NextAfterOpen
<1>8. (\A t \in DOMAIN runs' : QuietRow(t)) /\ OpenRuns' \subseteq OpenRuns \cup {replacement}
  BY <1>2, <1>5, <1>7, AddedQuiet
<1>9. Date(replacement) \in edited \/ Regular(replacement) <= replacement
  <2>1. Date(held) \in Int
    BY <1>4, DatesAre
  <2>2. Date(held) \in edited \/ Regular(held) <= held
    BY <1>3, <1>4, <2>1 DEF OnceInv, ShiftInv
  <2>3. Date(held) = Date(replacement) /\ Regular(held) = Regular(replacement)
    BY <1>3, <1>5 DEF Regular
  <2>4. Regular(held) \in Int
    <3>1. schedule.rule.local \in Int
      BY <1>1, ChosenRulesAreRules, RuleParts DEF ScheduleOK
    <3> QED
      BY <1>1, <2>1, <3>1 DEF Regular
  <2> QED
    BY <1>2, <1>4, <1>6, <2>2, <2>3, <2>4
<1>10. NewRunsShifted
  BY <1>8, <1>9 DEF NewRunsShifted
<1>11. now <= now' /\ edited \subseteq edited'
  BY <1>1, <1>5
<1> QED
  BY <1>5, <1>8, <1>10, <1>11, QuietRuleStep

LEMMA CommandOnce ==
    ASSUME IInv, IInv', OnceInv, UserCommand
    PROVE  OnceInv'
<1>1. ScheduleOK /\ RunsOK /\ now \in Int /\ now <= now
  BY InvariantParts
<1>2. ASSUME Pause \/ ResumeHeld \/ Delete
      PROVE  OnceInv'
  <2>1. /\ UNCHANGED <<now, edited>> /\ schedule'.rule = schedule.rule
        /\ runs' = runs \/ \E kept : runs' = SkipPending(kept)
    BY <1>1, <1>2 DEF Pause, ResumeHeld, Delete, Resumed, ScheduleOK
  <2>2. (\A t \in DOMAIN runs' : QuietRow(t)) /\ OpenRuns' \subseteq OpenRuns
    <3>1. CASE runs' = runs
      BY <3>1 DEF QuietRow, OpenRuns
    <3> QED
      BY <2>1, <3>1, SkippedQuiet
  <2>3. now <= now' /\ edited \subseteq edited'
    BY <1>1, <2>1
  <2> QED
    BY <2>1, <2>2, <2>3, PlainStep
<1>3. ASSUME NEW boundary \in DOMAIN runs \cup {now}, ResumeRegular(boundary)
      PROVE  OnceInv'
  <2> DEFINE next == NextRun(schedule.rule, boundary)
  <2>1. boundary \in Int /\ schedule.rule \in ChosenRules
    BY <1>1 DEF RunsOK, ScheduleOK
  <2>2. next # None => next \in Int /\ next > boundary /\ Occurs(schedule.rule, next)
    BY <2>1, NextRunType DEF Instants
  <2>3. /\ \/ runs' = SkipPending({})
           \/ next # None /\ next \notin DOMAIN runs /\ runs' = SkipPendingThenAdd(next)
        /\ UNCHANGED <<now, edited>> /\ IsResumeBoundary(boundary)
    BY <1>3 DEF ResumeRegular
  <2>4. schedule'.rule = schedule.rule
    BY <1>1, <1>3 DEF ResumeRegular, Resumed, ScheduleOK
  <2> HIDE DEF next
  <2>5. now <= now' /\ edited \subseteq edited' /\ now <= boundary
    BY <1>1, <2>3 DEF IsResumeBoundary
  <2>6. CASE runs' = SkipPending({})
    BY <2>3, <2>4, <2>5, <2>6, SkippedQuiet, PlainStep
  <2>7. CASE next # None /\ next \notin DOMAIN runs /\ runs' = SkipPendingThenAdd(next)
    <3>1. next \in Int /\ now < next /\ Occurs(schedule.rule, next)
      BY <1>1, <2>1, <2>2, <2>5, <2>7
    <3>2. FitsDay(next)
      BY <2>5, <3>1, NextAfterNow
    <3>3. (\A t \in DOMAIN runs' : QuietRow(t)) /\ OpenRuns' \subseteq OpenRuns \cup {next}
      BY <2>7, <3>1, <3>2, AddedQuiet
    <3> QED
      BY <2>4, <2>5, <3>1, <3>3, PlainStep
  <2> QED
    BY <2>3, <2>6, <2>7
<1> QED
  BY <1>2, <1>3, CreateOnce, EditOnce, ResumeOnceOnce DEF UserCommand

(* A delivery goes on. *)
LEMMA SameKept ==
    ASSUME OnceInv, UNCHANGED <<now, edited>>, schedule'.rule = schedule.rule,
           Succeeded' = Succeeded, OpenRuns' = OpenRuns, ClaimedInv'
    PROVE  OnceInv'
<1>1. Kept' = Kept
  BY DEF Kept
<1>2. PostedInv'
  BY DEF OnceInv, PostedInv
<1>3. DayInv'
  BY <1>1 DEF OnceInv, DayInv, Date
<1>4. ShiftInv'
  BY <1>1 DEF OnceInv, ShiftInv, Regular, Date
<1> QED
  BY <1>2, <1>3, <1>4 DEF OnceInv

LEMMA ProcessingSame ==
    ASSUME OnceInv, NEW t \in DOMAIN runs, NEW row, runs' = [runs EXCEPT ![t] = row],
           runs[t].status \in OpenStatuses, row.status = "processing",
           UNCHANGED <<now, edited, schedule>>,
           t <= now /\ t < row.lease_expires_at
    PROVE  OnceInv'
<1>1. /\ DOMAIN runs' = DOMAIN runs /\ runs'[t] = row
      /\ \A u \in DOMAIN runs \ {t} : runs'[u] = runs[u]
  OBVIOUS
<1>2. ASSUME NEW u \in DOMAIN runs
      PROVE  /\ runs'[u].status = "succeeded" <=> runs[u].status = "succeeded"
             /\ runs'[u].status \in OpenStatuses <=> runs[u].status \in OpenStatuses
  BY <1>1 DEF OpenStatuses
<1>3. Succeeded' = Succeeded /\ OpenRuns' = OpenRuns
  BY <1>1, <1>2 DEF Succeeded, OpenRuns
<1>4. ClaimedInv'
  BY <1>1 DEF OnceInv, ClaimedInv
<1> QED
  BY <1>3, <1>4, SameKept

LEMMA ClaimOnce ==
    ASSUME IInv, OnceInv, NEW t \in DOMAIN runs, Claim(t)
    PROVE  OnceInv'
<1> DEFINE row == [status |-> "processing",
                   attempt_count |-> runs[t].attempt_count + 1,
                   next_attempt_at |-> None, attempt |-> "claimed",
                   lease_expires_at |-> now + LeaseTimeout]
<1>1. /\ runs' = [runs EXCEPT ![t] = row] /\ row.status = "processing"
      /\ row.lease_expires_at = now + LeaseTimeout
      /\ t <= now /\ runs[t].status \in OpenStatuses
      /\ UNCHANGED <<now, edited, schedule>>
  BY DEF Claim, Pending, OpenStatuses
<1>2. t \in Int /\ now \in Int /\ LeaseTimeout \in Nat \ {0}
  BY InvariantParts, LifeAssumption DEF RunsOK
<1> HIDE DEF row
<1>3. t < row.lease_expires_at
  BY <1>1, <1>2
<1> QED
  BY <1>1, <1>3, ProcessingSame

LEMMA PrepareSendOnce ==
    ASSUME IInv, OnceInv, NEW t \in DOMAIN runs, PrepareSend(t)
    PROVE  OnceInv'
<1> DEFINE row == [runs[t] EXCEPT !.attempt = "sending"]
<1>1. /\ <<t, "prepare">> \in tasks /\ UNCHANGED <<now, edited, schedule>>
      /\ runs' = [runs EXCEPT ![t].attempt = "sending"]
  BY DEF PrepareSend, Advance
<1>2. runs[t].status = "processing" /\ RowOK(runs[t])
  BY <1>1, TaskRow DEF TaskAgrees
<1>3. /\ row.status = "processing" /\ row.lease_expires_at = runs[t].lease_expires_at
      /\ runs' = [runs EXCEPT ![t] = row]
  BY <1>1, <1>2 DEF RowOK, Row
<1>4. t <= now /\ t < runs[t].lease_expires_at
  BY <1>2 DEF OnceInv, ClaimedInv
<1> HIDE DEF row
<1> QED
  BY <1>1, <1>2, <1>3, <1>4, ProcessingSame DEF OpenStatuses

(* One row becomes quiet. *)
LEMMA OneRowQuiet ==
    ASSUME NEW t \in DOMAIN runs, runs[t].status \in OpenStatuses, NEW row,
           runs' = [runs EXCEPT ![t] = row],
           row.status \in {"skipped", "failed", "pending"}
    PROVE  /\ \A u \in DOMAIN runs' : QuietRow(u)
           /\ OpenRuns' \subseteq OpenRuns
<1>1. t \in OpenRuns
  BY DEF OpenRuns
<1> QED
  BY <1>1 DEF QuietRow, OpenRuns

(* A run is posted: it was the only one open, and due. *)
LEMMA PostedOnce ==
    ASSUME IInv, OnceInv, NEW t \in DOMAIN runs, runs[t].status = "processing",
           runs' = [runs EXCEPT ![t] = Terminal(runs[t], "succeeded")],
           UNCHANGED <<now, edited, schedule>>
    PROVE  OnceInv'
<1>1. RowOK(runs[t]) /\ OpenRunIsCurrent /\ now \in Int
  BY InvariantParts DEF RunsOK
<1>2. /\ DOMAIN runs' = DOMAIN runs /\ runs'[t].status = "succeeded"
      /\ \A u \in DOMAIN runs \ {t} : runs'[u] = runs[u]
  BY <1>1, TerminalOK DEF RunStatuses, OpenStatuses
<1>3. OpenRuns \subseteq {t} /\ t \in OpenRuns
  BY <1>1, ProcessingIsCurrent DEF OpenRunIsCurrent, OpenRuns, OpenStatuses
<1>4. OpenRuns' = {} /\ Succeeded' = Succeeded \cup {t}
  <2>1. \A u \in DOMAIN runs : u # t => runs'[u].status \notin OpenStatuses
    BY <1>2, <1>3 DEF OpenRuns
  <2>2. OpenRuns' = {}
    BY <1>2, <2>1 DEF OpenRuns, OpenStatuses
  <2>3. Succeeded' = Succeeded \cup {t}
    BY <1>2 DEF Succeeded
  <2> QED
    BY <2>2, <2>3
<1>5. t <= now
  BY DEF OnceInv, ClaimedInv
<1>6. PostedInv'
  BY <1>4, <1>5 DEF OnceInv, PostedInv
<1>7. ClaimedInv'
  BY <1>2 DEF OnceInv, ClaimedInv
<1>8. Kept' \subseteq Kept
  BY <1>3, <1>4 DEF Kept
<1>9. DayInv'
  <2>1. ASSUME NEW v \in Succeeded', NEW u \in Kept', v # u, Date(v) = Date(u)
        PROVE  Date(v) \in edited
    <3>1. u \in Succeeded \cup {t} /\ v \in Succeeded \cup {t}
      BY <1>4 DEF Kept
    <3>2. CASE v \in Succeeded
      BY <1>8, <2>1, <3>2 DEF OnceInv, DayInv
    <3>3. CASE v = t
      <4>1. u \in Succeeded /\ v \in Kept
        BY <1>3, <2>1, <3>1, <3>3 DEF Kept
      <4>2. Date(u) \in edited
        BY <2>1, <4>1 DEF OnceInv, DayInv
      <4> QED
        BY <2>1, <4>2
    <3> QED
      BY <3>1, <3>2, <3>3
  <2>2. ASSUME NEW v \in Succeeded', NEW u \in Kept'
        PROVE  (v # u /\ Date(v) = Date(u) => Date(v) \in edited)'
    BY <2>1 DEF Date
  <2> QED
    BY <2>2 DEF DayInv
<1>10. ShiftInv'
  BY <1>8 DEF OnceInv, ShiftInv, Regular, Date
<1> QED
  BY <1>6, <1>7, <1>9, <1>10 DEF OnceInv

(* A finalization opens the occurrence after a time that the run it settles, *)
(* or everything posted, does not exceed.                                    *)
LEMMA FinalizedOnce ==
    ASSUME IInv, IInv', OnceInv, NEW t, NEW settled, NEW at \in Int,
           DOMAIN settled = DOMAIN runs,
           \A u \in DOMAIN runs : settled[u] = runs[u] \/ settled[u].status = "failed",
           schedule' = FinalizedSchedule(t, at),
           runs' = FinalizedRuns(t, settled, at),
           UNCHANGED <<now, edited>>,
           at >= now \/ \E o \in OpenRuns : o <= at
    PROVE  OnceInv'
<1> DEFINE next == NextRun(schedule.rule, at)
           shown == FinalizedSchedule(t, at).next_run_at
<1>1. ScheduleOK /\ OpenRunIsCurrent /\ now \in Int
  BY InvariantParts
<1>2. next # None => next \in Int /\ next > at /\ Occurs(schedule.rule, next)
  BY <1>1, NextRunType DEF ScheduleOK, Instants
<1> HIDE DEF next
<1>3. /\ schedule'.rule = schedule.rule
      /\ shown \in {schedule.next_run_at, None, next}
  BY <1>1 DEF FinalizedSchedule, ScheduleOK, next
<1>4. schedule.next_run_at = None \/ schedule.next_run_at \in DOMAIN runs
  BY <1>1 DEF ScheduleOK, OpenRunIsCurrent
<1>5. \/ runs' = settled
      \/ /\ shown # None /\ shown \notin DOMAIN runs
         /\ runs' = [u \in DOMAIN settled \cup {shown} |->
                        IF u = shown THEN NewRun(shown) ELSE settled[u]]
  BY DEF FinalizedRuns
<1> HIDE DEF shown
<1>6. ASSUME shown # None, shown \notin DOMAIN runs
      PROVE  /\ shown \in Int /\ FitsDay(shown) /\ Occurs(schedule.rule, shown)
             /\ NewRun(shown).status = "pending"
  <2>1. shown = next /\ shown # None
    BY <1>3, <1>4, <1>6
  <2>2. shown \in Int /\ shown > at /\ Occurs(schedule.rule, shown)
    BY <1>2, <2>1
  <2>3. FitsDay(shown)
    <3>1. CASE at >= now
      <4>1. now < shown
        BY <1>1, <2>2, <3>1
      <4> QED
        BY <2>2, <4>1, NextAfterNow
    <3>2. CASE \E o \in OpenRuns : o <= at
      <4>1. PICK o \in OpenRuns : o <= at
        BY <3>2
      <4>2. o <= shown
        BY <2>2, <4>1, RunsAreInstants
      <4> QED
        BY <2>2, <4>2, NextAfterOpen
    <3> QED
      BY <3>1, <3>2
  <2> QED
    BY <2>2, <2>3, NewRunOK
<1>7. /\ \A u \in DOMAIN runs' : QuietRow(u)
      /\ \A u \in OpenRuns' \ OpenRuns : Occurs(schedule.rule, u)
  <2>1. ASSUME NEW u \in DOMAIN runs
        PROVE  /\ settled[u] = runs[u] \/ settled[u].status = "failed"
               /\ settled[u].status \in OpenStatuses => u \in OpenRuns
    BY DEF OpenRuns, OpenStatuses
  <2>2. CASE runs' = settled
    BY <2>1, <2>2 DEF QuietRow, OpenRuns
  <2>3. CASE /\ shown # None /\ shown \notin DOMAIN runs
             /\ runs' = [u \in DOMAIN settled \cup {shown} |->
                            IF u = shown THEN NewRun(shown) ELSE settled[u]]
    <3>1. /\ DOMAIN runs' = DOMAIN runs \cup {shown}
          /\ runs'[shown] = NewRun(shown)
          /\ \A u \in DOMAIN runs : runs'[u] = settled[u]
      BY <2>3
    <3>2. /\ FitsDay(shown) /\ Occurs(schedule.rule, shown)
          /\ NewRun(shown).status = "pending"
      BY <1>6, <2>3
    <3>3. \A u \in DOMAIN runs' : QuietRow(u)
      BY <2>1, <3>1, <3>2 DEF QuietRow
    <3>4. ASSUME NEW u \in OpenRuns' \ OpenRuns PROVE u = shown
      BY <2>1, <3>1 DEF OpenRuns
    <3> QED
      BY <3>2, <3>3, <3>4
  <2> QED
    BY <1>5, <2>2, <2>3
<1>8. now <= now' /\ edited \subseteq edited'
  BY <1>1
<1> QED
  BY <1>3, <1>7, <1>8, PlainStep

LEMMA WorkerOnce ==
    ASSUME IInv, IInv', OnceInv, NEW t \in DOMAIN runs, WorkerStep(t)
    PROVE  OnceInv'
<1>1. now \in Int /\ now <= now
  BY InvariantParts
<1>2. ASSUME NEW row, runs[t].status \in OpenStatuses,
             runs' = [runs EXCEPT ![t] = row],
             row.status \in {"skipped", "failed", "pending"},
             UNCHANGED <<now, edited, schedule>>
      PROVE  OnceInv'
  <2>1. (\A u \in DOMAIN runs' : QuietRow(u)) /\ OpenRuns' \subseteq OpenRuns
    BY <1>2, OneRowQuiet
  <2> QED
    BY <1>1, <1>2, <2>1, PlainStep
<1>3. CASE PrepareSkip(t)
  <2>1. /\ <<t, "prepare">> \in tasks /\ UNCHANGED <<now, edited, schedule>>
        /\ runs' = [runs EXCEPT ![t] = Terminal(runs[t], "skipped")]
    BY <1>3 DEF PrepareSkip, Advance
  <2>2. RowOK(runs[t]) /\ runs[t].status \in OpenStatuses
    BY <2>1, TaskRow DEF TaskAgrees, OpenStatuses
  <2>3. Terminal(runs[t], "skipped").status = "skipped"
    BY <2>2, TerminalOK DEF RunStatuses, OpenStatuses
  <2> QED
    BY <1>2, <2>1, <2>2, <2>3
<1>4. CASE SaveResult(t)
  <2>1. /\ <<t, "awaiting">> \in tasks /\ UNCHANGED <<now, edited, schedule>>
        /\ \E status \in {"succeeded", "failed"} :
              runs' = [runs EXCEPT ![t] = Terminal(runs[t], status)]
    BY <1>4 DEF SaveResult, Advance
  <2>2. RowOK(runs[t]) /\ runs[t].status = "processing"
    BY <2>1, TaskRow DEF TaskAgrees
  <2>3. CASE runs' = [runs EXCEPT ![t] = Terminal(runs[t], "succeeded")]
    BY <2>1, <2>2, <2>3, PostedOnce
  <2>4. CASE runs' = [runs EXCEPT ![t] = Terminal(runs[t], "failed")]
    <3>1. Terminal(runs[t], "failed").status = "failed"
      BY <2>2, TerminalOK DEF RunStatuses, OpenStatuses
    <3>2. runs[t].status \in OpenStatuses
      BY <2>2 DEF OpenStatuses
    <3> QED
      BY <1>2, <2>1, <2>4, <3>1, <3>2
  <2> QED
    BY <2>1, <2>3, <2>4
<1>5. CASE SaveRetry(t)
  <2>1. /\ <<t, "awaiting">> \in tasks /\ UNCHANGED <<now, edited, schedule>>
        /\ runs' = [runs EXCEPT ![t] = Waiting(runs[t], now + RetryDelay)]
    BY <1>5 DEF SaveRetry, Advance
  <2>2. RowOK(runs[t]) /\ runs[t].status \in OpenStatuses
    BY <2>1, TaskRow DEF TaskAgrees, OpenStatuses
  <2>3. now + RetryDelay \in Int
    BY <1>1, LifeAssumption
  <2>4. Waiting(runs[t], now + RetryDelay).status = "pending"
    BY <2>2, <2>3, WaitingOK
  <2> QED
    BY <1>2, <2>1, <2>2, <2>4
<1>6. CASE Finalize(t)
  <2>1. /\ schedule' = FinalizedSchedule(t, now)
        /\ runs' = FinalizedRuns(t, runs, now)
        /\ UNCHANGED <<now, edited>>
    BY <1>6 DEF Finalize, Advance
  <2> QED
    BY <1>1, <2>1, FinalizedOnce
<1>7. CASE Lose(t)
  <2>1. UNCHANGED <<now, edited, schedule, runs>>
    BY <1>7 DEF Lose, Advance
  <2>2. Succeeded' = Succeeded /\ OpenRuns' = OpenRuns /\ ClaimedInv'
    BY <2>1 DEF Succeeded, OpenRuns, OnceInv, ClaimedInv
  <2> QED
    BY <2>1, <2>2, SameKept
<1> QED
  BY <1>3, <1>4, <1>5, <1>6, <1>7, ClaimOnce, PrepareSendOnce DEF WorkerStep

LEMMA RecoverExpiredOnce ==
    ASSUME IInv, IInv', OnceInv, NEW t \in DOMAIN runs, RecoverExpired(t)
    PROVE  OnceInv'
<1> DEFINE settled == [runs EXCEPT ![t] = Terminal(runs[t], "failed")]
<1>1. now \in Int /\ now <= now /\ StartupOK /\ RunsOK
  BY InvariantParts
<1>2. /\ UNCHANGED <<now, edited>>
      /\ runs[t].status = "processing" /\ runs[t].lease_expires_at <= startup.cutoff
      /\ startup.phase = "processing"
  BY DEF RecoverExpired, Expired
<1>3. startup.cutoff \in Int /\ RowOK(runs[t])
  BY <1>1, <1>2 DEF StartupOK, RunsOK
<1>4. runs[t].lease_expires_at \in Int
  BY <1>2, <1>3 DEF RowOK, Row
<1>5. t \in Int /\ t < startup.cutoff /\ t \in OpenRuns
  <2>1. t < runs[t].lease_expires_at /\ t \in Int
    BY <1>1, <1>2 DEF OnceInv, ClaimedInv, RunsOK
  <2> QED
    BY <1>2, <1>3, <1>4, <2>1 DEF OpenRuns, OpenStatuses
<1>6. CASE /\ runs' = [runs EXCEPT ![t] = Waiting(runs[t], startup.cutoff + RetryDelay)]
           /\ UNCHANGED schedule
  <2>1. Waiting(runs[t], startup.cutoff + RetryDelay).status = "pending"
    <3>1. startup.cutoff + RetryDelay \in Int
      BY <1>3, LifeAssumption
    <3> QED
      BY <1>3, <3>1, WaitingOK
  <2>2. runs[t].status \in OpenStatuses
    BY <1>2 DEF OpenStatuses
  <2>3. (\A u \in DOMAIN runs' : QuietRow(u)) /\ OpenRuns' \subseteq OpenRuns
    BY <1>6, <2>1, <2>2, OneRowQuiet
  <2> QED
    BY <1>1, <1>2, <1>6, <2>3, PlainStep
<1>7. CASE /\ schedule' = FinalizedSchedule(t, startup.cutoff)
           /\ runs' = FinalizedRuns(t, settled, startup.cutoff)
  <2>1. Terminal(runs[t], "failed").status = "failed"
    BY <1>3, TerminalOK DEF RunStatuses, OpenStatuses
  <2>2. /\ DOMAIN settled = DOMAIN runs
        /\ \A u \in DOMAIN runs : settled[u] = runs[u] \/ settled[u].status = "failed"
    BY <2>1
  <2>3. \E o \in OpenRuns : o <= startup.cutoff
    BY <1>3, <1>5
  <2> HIDE DEF settled
  <2> QED
    BY <1>2, <1>3, <1>7, <2>2, <2>3, FinalizedOnce
<1> QED
  BY <1>6, <1>7 DEF RecoverExpired

LEMMA RecoverRecurringOnce ==
    ASSUME IInv, IInv', OnceInv, NEW t \in DOMAIN runs, RecoverRecurring(t)
    PROVE  OnceInv'
<1> DEFINE next == RecoveredNext
<1>1. /\ ScheduleOK /\ StartupOK /\ RunsOK /\ now \in Int /\ now <= now
  BY InvariantParts
<1>2. /\ UNCHANGED <<now, edited>> /\ t \in Pending /\ t <= startup.cutoff
      /\ startup.phase = "pending"
  BY DEF RecoverRecurring, Overdue
<1>3. startup.cutoff \in Int /\ startup.cutoff + 1 \in Int /\ t \in Int /\ t \in OpenRuns
  BY <1>1, <1>2 DEF StartupOK, RunsOK, OpenRuns, Pending, OpenStatuses
<1>4. next # None => next \in Int /\ next > startup.cutoff /\ Occurs(schedule.rule, next)
  <2>1. next # None => next \in Int /\ next >= startup.cutoff + 1 /\ Occurs(schedule.rule, next)
    BY <1>3, FirstUnusedType, FirstUnusedFrom DEF RecoveredNext
  <2> HIDE DEF next
  <2> QED
    BY <1>3, <2>1
<1>5. /\ schedule'.rule = schedule.rule
      /\ runs' = IF next = None THEN MissedRecorded
                 ELSE [u \in DOMAIN MissedRecorded \cup {next} |->
                          IF u = next THEN NewRun(next) ELSE MissedRecorded[u]]
  BY <1>1 DEF RecoverRecurring, ScheduleOK
<1>6. /\ DOMAIN MissedRecorded = DOMAIN runs \cup Missed
      /\ \A u \in DOMAIN runs \cup Missed :
            \/ MissedRecorded[u].status = "skipped"
            \/ u \in DOMAIN runs /\ MissedRecorded[u] = runs[u]
  <2>1. DOMAIN MissedRecorded = DOMAIN runs \cup Missed
    BY DEF MissedRecorded
  <2>2. ASSUME NEW u \in Missed \ DOMAIN runs
        PROVE  MissedRecorded[u].status = "skipped"
    BY DEF MissedRecorded, Terminal, NewRun
  <2>3. ASSUME NEW u \in DOMAIN runs
        PROVE  MissedRecorded[u].status = "skipped" \/ MissedRecorded[u] = runs[u]
    <3>1. MissedRecorded[u] \in {Terminal(runs[u], "skipped"), runs[u]}
      BY DEF MissedRecorded
    <3>2. Terminal(runs[u], "skipped").status = "skipped"
      BY <1>1, TerminalOK DEF RunsOK, RunStatuses, OpenStatuses
    <3> QED
      BY <3>1, <3>2
  <2> QED
    BY <2>1, <2>2, <2>3
<1> HIDE DEF next
<1>7. ASSUME next # None
      PROVE  FitsDay(next) /\ NewRun(next).status = "pending"
  <2>1. t <= next /\ next \in Int
    BY <1>2, <1>3, <1>4, <1>7
  <2>2. edited \subseteq edited'
    BY <1>2
  <2> QED
    BY <1>3, <2>1, <2>2, NextAfterOpen, NewRunOK
<1>8. ASSUME NEW u \in DOMAIN runs'
      PROVE  \/ u = next /\ next # None /\ runs'[u] = NewRun(next)
             \/ runs'[u].status = "skipped"
             \/ u \in DOMAIN runs /\ runs'[u] = runs[u]
  BY <1>5, <1>6
<1>9. \A u \in DOMAIN runs' : QuietRow(u)
  BY <1>7, <1>8 DEF QuietRow
<1>10. ASSUME NEW u \in OpenRuns' \ OpenRuns PROVE Occurs(schedule.rule, u)
  <2>1. u \in DOMAIN runs' /\ runs'[u].status \in OpenStatuses
    BY DEF OpenRuns
  <2>2. u = next /\ next # None
    BY <1>8, <2>1 DEF OpenRuns, OpenStatuses
  <2> QED
    BY <1>4, <2>2
<1>11. now <= now' /\ edited \subseteq edited'
  BY <1>1, <1>2
<1> QED
  BY <1>5, <1>9, <1>10, <1>11, PlainStep

(* A recurring schedule posts at most once for a day, however it is paused,  *)
(* resumed, made up for, retried or recovered, unless its recurrence was     *)
(* created or changed on that very day.                                      *)
THEOREM PostsOncePerDay == Spec => []OncePerDay
<1>1. Init => OnceInv
  <2>1. Init => DOMAIN runs = {}
    BY DEF Init
  <2>2. DOMAIN runs = {} => Succeeded = {} /\ Kept = {}
    BY DEF Succeeded, Kept, OpenRuns
  <2> QED
    BY <2>1, <2>2 DEF OnceInv, PostedInv, ClaimedInv, DayInv, ShiftInv
<1>2. ASSUME IInv, IInv', OnceInv, [Next]_vars
      PROVE  OnceInv'
  <2>1. CASE UserCommand
    BY <1>2, <2>1, CommandOnce
  <2>2. CASE \E t \in DOMAIN runs : WorkerStep(t) \/ RecoveryStep(t)
    BY <1>2, <2>2, WorkerOnce, RecoverExpiredOnce, RecoverRecurringOnce
       DEF RecoveryStep
  <2>3. CASE Tick \/ Start \/ ExpiredDone \/ EndStartup \/ UNCHANGED vars
    <3>1. UNCHANGED <<runs, schedule, edited>> /\ (now' = now \/ now' = now + 1)
      BY <2>3 DEF Tick, Start, ExpiredDone, EndStartup, vars
    <3>2. now \in Nat
      BY <1>2, InvariantParts
    <3>3. now <= now' /\ edited \subseteq edited' /\ schedule'.rule = schedule.rule
      BY <3>1, <3>2
    <3>4. (\A t \in DOMAIN runs' : QuietRow(t)) /\ OpenRuns' \subseteq OpenRuns
      BY <3>1 DEF QuietRow, OpenRuns
    <3> QED
      BY <1>2, <3>3, <3>4, PlainStep
  <2> QED
    BY <1>2, <2>1, <2>2, <2>3 DEF Next
<1>3. OnceInv => OncePerDay
  <2>1. ASSUME OnceInv, NEW t \in DOMAIN runs, NEW u \in DOMAIN runs,
               runs[t].status = "succeeded", runs[u].status = "succeeded",
               t # u, Date(t) = Date(u)
        PROVE  Date(t) \in edited
    BY <2>1 DEF OnceInv, DayInv, Kept, Succeeded
  <2> QED
    BY <2>1 DEF OncePerDay
<1> QED
  BY <1>1, <1>2, <1>3, Invariant, PTL DEF Spec

-----------------------------------------------------------------------------
(* Startup recovery *)

(* A run waits only while it has attempts left. *)
PendingCanBeTried ==
    \A t \in DOMAIN runs :
        runs[t].status = "pending" => runs[t].attempt_count < MaxAttempts

TriedOrKept ==
    \A t \in DOMAIN runs' :
        runs'[t].status = "pending" =>
            \/ t \in DOMAIN runs /\ runs'[t] = runs[t]
            \/ runs'[t].attempt_count < MaxAttempts

LEMMA KeepsTried ==
    ASSUME PendingCanBeTried, TriedOrKept
    PROVE  PendingCanBeTried'
BY DEF PendingCanBeTried, TriedOrKept

LEMMA FreshRow ==
    ASSUME NEW t
    PROVE  NewRun(t).attempt_count < MaxAttempts
BY LifeAssumption DEF NewRun

LEMMA CommandTries ==
    ASSUME IInv, PendingCanBeTried, UserCommand
    PROVE  PendingCanBeTried'
<1>0. RunsOK
  BY InvariantParts
<1>1. CASE runs' = runs
  BY <1>1, KeepsTried DEF TriedOrKept
<1>2. ASSUME NEW kept, runs' = SkipPending(kept)
      PROVE  TriedOrKept
  BY <1>0, <1>2, SkipFacts DEF TriedOrKept
<1>3. ASSUME NEW n, runs' = SkipPendingThenAdd(n)
      PROVE  TriedOrKept
  <2>1. /\ DOMAIN runs' = DOMAIN runs \cup {n} /\ runs'[n] = NewRun(n)
        /\ \A t \in DOMAIN runs : t # n => runs'[t] = SkipPending({})[t]
    BY <1>3 DEF SkipPendingThenAdd
  <2>2. \A t \in DOMAIN runs :
           \/ SkipPending({})[t].status = "skipped"
           \/ SkipPending({})[t] = runs[t]
    BY <1>0, SkipFacts
  <2> QED
    BY <2>1, <2>2, FreshRow DEF TriedOrKept
<1>4. ASSUME NEW content \in BOOLEAN, NEW rule \in ChosenRules, Create(content, rule)
      PROVE  TriedOrKept
  <2>1. \E first : runs' = With(first, NewRun(first))
    BY <1>4 DEF Create
  <2> QED
    BY <2>1, FreshRow DEF With, TriedOrKept
<1>5. ASSUME NEW content \in BOOLEAN, NEW rule \in ChosenRules, Edit(content, rule)
      PROVE  PendingCanBeTried'
  <2>1. \/ runs' = runs \/ runs' = SkipPending({})
        \/ \E n : runs' = SkipPendingThenAdd(n)
    BY <1>5 DEF Edit
  <2> QED
    BY <1>1, <1>2, <1>3, <2>1, KeepsTried
<1>6. CASE Pause \/ Delete
  BY <1>2, <1>6, KeepsTried DEF Pause, Delete
<1>7. CASE ResumeHeld
  BY <1>1, <1>7 DEF ResumeHeld
<1>8. ASSUME NEW boundary, ResumeRegular(boundary)
      PROVE  PendingCanBeTried'
  BY <1>2, <1>3, <1>8, KeepsTried DEF ResumeRegular
<1>9. ASSUME NEW replacement, ResumeOnce(replacement)
      PROVE  PendingCanBeTried'
  BY <1>3, <1>9, KeepsTried DEF ResumeOnce
<1> QED
  BY <1>4, <1>5, <1>6, <1>7, <1>8, <1>9, KeepsTried DEF UserCommand

LEMMA OneRowTries ==
    ASSUME PendingCanBeTried, NEW t, NEW row, runs' = [runs EXCEPT ![t] = row],
           row.status = "pending" => row.attempt_count < MaxAttempts
    PROVE  PendingCanBeTried'
<1>1. TriedOrKept
  BY DEF TriedOrKept
<1> QED
  BY <1>1, KeepsTried

LEMMA FinalizationTries ==
    ASSUME PendingCanBeTried, NEW t, NEW settled, NEW at,
           DOMAIN settled = DOMAIN runs,
           \A u \in DOMAIN runs : \/ settled[u] = runs[u]
                                  \/ settled[u].status # "pending",
           runs' = FinalizedRuns(t, settled, at)
    PROVE  PendingCanBeTried'
<1> DEFINE next == FinalizedSchedule(t, at).next_run_at
<1>1. \/ runs' = settled
      \/ runs' = [u \in DOMAIN settled \cup {next} |->
                     IF u = next THEN NewRun(next) ELSE settled[u]]
  BY DEF FinalizedRuns
<1> HIDE DEF next
<1>2. TriedOrKept
  BY <1>1, FreshRow DEF TriedOrKept
<1> QED
  BY <1>2, KeepsTried

LEMMA DeliveryTries ==
    ASSUME IInv, PendingCanBeTried, NEW t \in DOMAIN runs,
           WorkerStep(t) \/ RecoveryStep(t)
    PROVE  PendingCanBeTried'
<1>1. CASE Claim(t)
  <2> DEFINE row == [status |-> "processing",
                     attempt_count |-> runs[t].attempt_count + 1,
                     next_attempt_at |-> None, attempt |-> "claimed",
                     lease_expires_at |-> now + LeaseTimeout]
  <2>1. runs' = [runs EXCEPT ![t] = row] /\ row.status # "pending"
    BY <1>1 DEF Claim
  <2> HIDE DEF row
  <2> QED
    BY <2>1, OneRowTries
<1>2. CASE PrepareSend(t)
  <2> DEFINE row == [runs[t] EXCEPT !.attempt = "sending"]
  <2>1. <<t, "prepare">> \in tasks /\ runs' = [runs EXCEPT ![t].attempt = "sending"]
    BY <1>2 DEF PrepareSend, Advance
  <2>2. runs[t].status = "processing" /\ RowOK(runs[t])
    BY <2>1, TaskRow DEF TaskAgrees
  <2>3. row.status # "pending" /\ runs' = [runs EXCEPT ![t] = row]
    BY <2>1, <2>2 DEF RowOK, Row
  <2> HIDE DEF row
  <2> QED
    BY <2>3, OneRowTries
<1>3. CASE PrepareSkip(t) \/ SaveResult(t)
  <2>1. \E status \in {"skipped", "succeeded", "failed"} :
            runs' = [runs EXCEPT ![t] = Terminal(runs[t], status)]
    BY <1>3 DEF PrepareSkip, SaveResult
  <2>2. PICK status \in RunStatuses \ OpenStatuses :
            runs' = [runs EXCEPT ![t] = Terminal(runs[t], status)]
    BY <2>1 DEF RunStatuses, OpenStatuses
  <2>3. RowOK(runs[t])
    BY InvariantParts DEF RunsOK
  <2>4. Terminal(runs[t], status).status # "pending"
    BY <2>2, <2>3, TerminalOK DEF OpenStatuses
  <2> QED
    BY <2>2, <2>4, OneRowTries
<1>4. ASSUME NEW at, runs' = [runs EXCEPT ![t] = Waiting(runs[t], at)],
             runs[t].attempt_count < MaxAttempts
      PROVE  PendingCanBeTried'
  <2>1. RowOK(runs[t])
    BY InvariantParts DEF RunsOK
  <2>2. Waiting(runs[t], at).attempt_count = runs[t].attempt_count
    BY <2>1 DEF Waiting, RowOK, Row
  <2> QED
    BY <1>4, <2>2, OneRowTries
<1>5. CASE SaveRetry(t)
  BY <1>4, <1>5 DEF SaveRetry
<1>6. CASE Finalize(t)
  <2>1. runs' = FinalizedRuns(t, runs, now)
    BY <1>6 DEF Finalize
  <2> QED
    BY <2>1, FinalizationTries
<1>7. CASE Lose(t)
  BY <1>7, KeepsTried DEF Lose, TriedOrKept
<1>8. CASE RecoverExpired(t)
  <2> DEFINE settled == [runs EXCEPT ![t] = Terminal(runs[t], "failed")]
  <2>1. \/ /\ runs' = [runs EXCEPT ![t] = Waiting(runs[t], startup.cutoff + RetryDelay)]
           /\ runs[t].attempt_count < MaxAttempts
        \/ runs' = FinalizedRuns(t, settled, startup.cutoff)
    BY <1>8 DEF RecoverExpired
  <2>2. RowOK(runs[t])
    BY InvariantParts DEF RunsOK
  <2>3. Terminal(runs[t], "failed").status = "failed"
    BY <2>2, TerminalOK DEF RunStatuses, OpenStatuses
  <2>4. /\ DOMAIN settled = DOMAIN runs
        /\ \A u \in DOMAIN runs : \/ settled[u] = runs[u]
                                  \/ settled[u].status # "pending"
    BY <2>3
  <2> HIDE DEF settled
  <2> QED
    BY <1>4, <2>1, <2>4, FinalizationTries
<1>9. CASE RecoverRecurring(t)
  <2> DEFINE next == RecoveredNext
  <2>1. runs' = IF next = None THEN MissedRecorded
                ELSE [u \in DOMAIN MissedRecorded \cup {next} |->
                         IF u = next THEN NewRun(next) ELSE MissedRecorded[u]]
    BY <1>9 DEF RecoverRecurring
  <2>2. \A u \in DOMAIN MissedRecorded :
           \/ u \in DOMAIN runs /\ MissedRecorded[u] = runs[u]
           \/ MissedRecorded[u].status # "pending"
    <3>1. ASSUME NEW u \in DOMAIN runs \cup Missed
          PROVE  \/ u \in DOMAIN runs /\ MissedRecorded[u] = runs[u]
                 \/ MissedRecorded[u].status # "pending"
      <4>1. u \in DOMAIN runs => RowOK(runs[u])
        BY InvariantParts DEF RunsOK
      <4>2. u \in DOMAIN runs => Terminal(runs[u], "skipped").status = "skipped"
        BY <4>1, TerminalOK DEF RunStatuses, OpenStatuses
      <4>3. Terminal(NewRun(u), "skipped").status = "skipped"
        BY DEF Terminal, NewRun
      <4> QED
        BY <4>2, <4>3 DEF MissedRecorded
    <3> QED
      BY <3>1 DEF MissedRecorded
  <2> HIDE DEF next
  <2>3. TriedOrKept
    BY <2>1, <2>2, FreshRow DEF TriedOrKept
  <2> QED
    BY <2>3, KeepsTried
<1> QED
  BY <1>1, <1>2, <1>3, <1>5, <1>6, <1>7, <1>8, <1>9
     DEF WorkerStep, RecoveryStep

LEMMA PendingTried == Spec => []PendingCanBeTried
<1>1. Init => PendingCanBeTried
  <2>1. Init => DOMAIN runs = {}
    BY DEF Init
  <2> QED
    BY <2>1 DEF PendingCanBeTried
<1>2. ASSUME IInv, PendingCanBeTried, [Next]_vars
      PROVE  PendingCanBeTried'
  <2>1. CASE Tick \/ Start \/ ExpiredDone \/ EndStartup \/ UNCHANGED vars
    <3>1. runs' = runs
      BY <2>1 DEF Tick, Start, ExpiredDone, EndStartup, vars
    <3> QED
      BY <1>2, <3>1 DEF PendingCanBeTried
  <2> QED
    BY <1>2, <2>1, CommandTries, DeliveryTries DEF Next
<1> QED
  BY <1>1, <1>2, Invariant, PTL DEF Spec

(* What the loops find was not taken. *)
LEMMA FirstUnusedUntaken ==
    ASSUME NEW rule, NEW from, NEW taken, taken \subseteq Int
    PROVE  FirstUnused(rule, from, taken) \notin taken
<1> DEFINE free == {t \in from..(from + Period(rule) * (Cardinality(taken) + 1)) :
                       Occurs(rule, t) /\ t \notin taken}
<1>1. FirstUnused(rule, from, taken) = Least(free)
  BY DEF FirstUnused
<1>2. \A t \in free : t \notin taken
  OBVIOUS
<1> HIDE DEF free
<1>3. Least(free) # None => Least(free) \in free
  BY LeastType
<1>4. None \notin taken
  BY CalendarAssumption
<1> QED
  BY <1>1, <1>2, <1>3, <1>4

(* Whatever users and workers do before and during startup, recovery never   *)
(* meets an overdue run that contradicts its schedule and never makes a run  *)
(* for an instant that has one: the branches of the code for these cases     *)
(* are not reached.                                                          *)
THEOREM StartupRecoveryIsPossible == Spec => []RecoveryIsPossible
<1>1. ASSUME IInv, PendingCanBeTried PROVE RecoveryIsPossible
  <2> SUFFICES ASSUME startup.phase = "pending", NEW t \in Overdue
               PROVE  /\ ~Orphaned /\ ~Inconsistent(t)
                      /\ RecoveredNext \notin DOMAIN runs \cup Missed
    BY DEF RecoveryIsPossible
  <2>1. /\ ScheduleOK /\ RunsOK /\ OpenRunIsCurrent
    BY <1>1, InvariantParts
  <2>2. t \in OpenRuns /\ t \in DOMAIN runs /\ runs[t].status = "pending"
    BY DEF Overdue, Pending, OpenRuns, OpenStatuses
  <2>3. schedule.status # "paused"
    BY <2>1, <2>2 DEF OpenRunIsCurrent, Overdue
  <2>4. schedule.status \in {"draft", "active"} /\ schedule.next_run_at = t
    BY <2>1, <2>2, <2>3 DEF OpenRunIsCurrent, ScheduleOK, Statuses
  <2>5. ~Orphaned
    BY <2>4 DEF Orphaned
  <2>6. runs[t].attempt_count # MaxAttempts
    <3>1. runs[t].attempt_count < MaxAttempts
      BY <1>1, <2>2 DEF PendingCanBeTried
    <3>2. RowOK(runs[t]) /\ MaxAttempts \in Nat
      BY <2>1, <2>2, LifeAssumption DEF RunsOK
    <3>3. runs[t].attempt_count \in Int
      BY <3>2 DEF RowOK, Row
    <3> QED
      BY <3>1, <3>2, <3>3
  <2>7. ~Inconsistent(t)
    BY <2>1, <2>4, <2>6 DEF Inconsistent, ScheduleOK
  <2>8. DOMAIN runs \cup Missed \subseteq Int
    <3>1. Missed \subseteq schedule.next_run_at..startup.cutoff
      BY DEF Missed
    <3>2. schedule.next_run_at..startup.cutoff \subseteq Int
      OBVIOUS
    <3>3. DOMAIN runs \subseteq Int
      BY <2>1 DEF RunsOK
    <3> QED
      BY <3>1, <3>2, <3>3
  <2>9. RecoveredNext \notin DOMAIN runs \cup Missed
    BY <2>8, FirstUnusedUntaken DEF RecoveredNext
  <2> QED
    BY <2>5, <2>7, <2>9
<1> QED
  BY <1>1, Invariant, PendingTried, PTL
=============================================================================
