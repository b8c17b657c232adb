---------------------------- MODULE CleanupProofs ----------------------------
(* The names of schedules under retention: type correctness, and that no     *)
(* interleaving of edits, manual names, late answers, restarts and deletions *)
(* leaves a schedule with the name of another content, or has the provider   *)
(* asked more often than the budget allows.                                  *)
EXTENDS Cleanup, FiniteSetTheorems, TLAPS

(* The content a worker holds is that of the version its job was made for,   *)
(* as long as the schedule has that version; versions only grow.             *)
HeldContent(w) ==
    LET s == task[w].job[1]
        version == task[w].job[2]
    IN  /\ task[w].job \in Jobs
        /\ schedule[s].status # "absent"
        /\ schedule[s].status = "live" => version <= schedule[s].version
        /\ schedule[s].status = "live" /\ schedule[s].version = version
           => schedule[s].content = task[w].content

TaskInv ==
    \A w \in Workers : task[w].step \in {"claimed", "asked"} => HeldContent(w)

IInv == TypeOK /\ NameFitsContent /\ TaskInv

-----------------------------------------------------------------------------
(* The parts of TypeOK *)

JobOK    == DOMAIN job \subseteq Jobs /\ job \in [DOMAIN job -> JobRow]
BucketOK == DOMAIN bucket \subseteq Periods /\ bucket \in [DOMAIN bucket -> Nat]
AskedOK  == /\ DOMAIN asked \subseteq Jobs
            /\ asked \in [DOMAIN asked -> [day : Nat, requests : Nat]]
Rest == /\ now \in Nat /\ proc \in [Workers -> ProcessStates]
        /\ JobOK /\ BucketOK /\ AskedOK

(* The schedules and what workers hold of them. *)
NameInv ==
    /\ schedule \in [Schedules -> ScheduleRow] /\ task \in [Workers -> TaskRecord]
    /\ NameFitsContent /\ TaskInv

LEMMA Parts == IInv <=> Rest /\ NameInv
BY DEF IInv, TypeOK, Rest, NameInv, JobOK, BucketOK, AskedOK

LEMMA PartsNext == (Rest /\ NameInv)' => IInv'
BY DEF IInv, TypeOK, Rest, NameInv, JobOK, BucketOK, AskedOK

(* What a transaction may do to a schedule while workers hold its content:   *)
(* nothing, conclude it, bring a new version, or name its content.           *)
Moves(s) ==
    \/ schedule'[s] = schedule[s]
    \/ schedule[s].status = "absent"
    \/ schedule'[s].status \in {"done", "erased"}
    \/ /\ schedule[s].status = "live" /\ schedule'[s].status = "live"
       /\ \/ schedule'[s].version = schedule[s].version + 1
          \/ /\ schedule'[s].version = schedule[s].version
             /\ schedule'[s].content = schedule[s].content

SchedulesMove ==
    \A s \in Schedules : /\ Moves(s)
                         /\ schedule[s].status # "absent" => schedule'[s].status # "absent"

(* No job comes to wait but one for a version its schedule has not had yet.  *)
Fresh(j) == \/ schedule[j[1]].status = "absent"
            \/ schedule[j[1]].status = "live" /\ j[2] > schedule[j[1]].version

JobsMove ==
    \A j \in DOMAIN job' : job'[j].status = "pending" =>
        (j \in DOMAIN job /\ job[j].status = "pending") \/ Fresh(j)

(* Nobody comes to hold a content, or another one. *)
TasksKept ==
    /\ task' \in [Workers -> TaskRecord]
    /\ \A w \in Workers : task'[w].step \in {"claimed", "asked"} =>
          /\ task[w].step \in {"claimed", "asked"}
          /\ task'[w].job = task[w].job /\ task'[w].content = task[w].content

(* Such steps keep NameInv if what they name fits. *)
LEMMA MovesKeep ==
    ASSUME NameInv, schedule' \in [Schedules -> ScheduleRow],
           SchedulesMove,
           \A s \in Schedules : schedule'[s] # schedule[s] /\ schedule'[s].source = "ai" =>
              schedule'[s].name = schedule'[s].content /\ schedule'[s].content # NoContent,
           TasksKept
    PROVE  NameInv'
<1>1. NameFitsContent'
  BY DEF NameInv, NameFitsContent
<1>2. ASSUME NEW w \in Workers, task'[w].step \in {"claimed", "asked"}
      PROVE  HeldContent(w)'
  <2> DEFINE s == task[w].job[1]
             version == task[w].job[2]
  <2>1. HeldContent(w)
    BY <1>2 DEF NameInv, TaskInv, TasksKept
  <2>2. s \in Schedules /\ version \in Nat
    BY <2>1 DEF HeldContent, Jobs
  <2>3. /\ schedule[s].version \in Nat /\ schedule'[s].version \in Nat
    BY <2>2 DEF NameInv, ScheduleRow
  <2>4. task'[w].job = task[w].job /\ task'[w].content = task[w].content
    BY <1>2 DEF TasksKept
  <2>5. schedule[s].status # "absent" /\ schedule'[s].status # "absent" /\ Moves(s)
    BY <2>1, <2>2 DEF HeldContent, SchedulesMove
  <2>6. /\ schedule'[s].status = "live" => version <= schedule'[s].version
        /\ schedule'[s].status = "live" /\ schedule'[s].version = version
           => schedule'[s].content = task[w].content
    BY <2>1, <2>2, <2>3, <2>5, SMTT(40) DEF HeldContent, Moves
  <2> QED
    BY <2>1, <2>4, <2>5, <2>6 DEF HeldContent
<1> QED
  BY <1>1, <1>2 DEF NameInv, TaskInv, TasksKept

-----------------------------------------------------------------------------
(* Rows of jobs, buckets and requests *)

LEMMA JobsAbandoned ==
    ASSUME JobOK, now \in Nat, NEW expired, job' = Abandoned(expired)
    PROVE  JobOK'
<1>1. Finished("abandoned") \in JobRow
  BY DEF Finished, JobRow, Settled
<1>2. DOMAIN job' = DOMAIN job /\ job' \in [DOMAIN job -> JobRow]
  BY <1>1 DEF JobOK, Abandoned
<1> QED
  BY <1>2 DEF JobOK

LEMMA JobFinished ==
    ASSUME JobOK, now \in Nat, NEW j, NEW status \in Settled,
           job' = [job EXCEPT ![j] = Finished(status)]
    PROVE  JobOK'
<1>1. Finished(status) \in JobRow
  BY DEF Finished, JobRow
<1>2. DOMAIN job' = DOMAIN job /\ job' \in [DOMAIN job -> JobRow]
  BY <1>1 DEF JobOK
<1> QED
  BY <1>2 DEF JobOK

LEMMA JobsRegistered ==
    ASSUME JobOK, now \in Nat, NEW s \in Schedules, NEW version \in Nat \ {0},
           Fresh(<<s, version>>), Registers(s, version) \/ UNCHANGED job
    PROVE  JobOK' /\ JobsMove
<1>1. CASE UNCHANGED job
  BY <1>1 DEF JobOK, JobsMove
<1>2. CASE ~UNCHANGED job
  <2> DEFINE new == [status |-> "pending", at |-> now]
  <2>1. new \in JobRow
    BY DEF JobRow
  <2>2. /\ DOMAIN job' = DOMAIN job \cup {<<s, version>>}
        /\ job' \in [DOMAIN job \cup {<<s, version>>} -> JobRow]
    BY <1>2, <2>1 DEF JobOK, Registers, JobFor
  <2>3. JobsMove
    BY <1>2 DEF JobsMove, Registers, JobFor
  <2> QED
    BY <2>2, <2>3 DEF JobOK, Jobs
<1> QED
  BY <1>1, <1>2

LEMMA JobsRemoved ==
    ASSUME JobOK, NEW kept, kept \subseteq DOMAIN job, job' = [j \in kept |-> job[j]]
    PROVE  JobOK'
<1>1. DOMAIN job' = kept /\ job' \in [kept -> JobRow]
  BY DEF JobOK
<1> QED
  BY <1>1 DEF JobOK

LEMMA DivNat ==
    ASSUME NEW n \in Nat, NEW d \in Nat \ {0}
    PROVE  n \div d \in Nat
OBVIOUS

LEMMA PeriodOK ==
    ASSUME now \in Nat
    PROVE  DayOf(now) \in Nat /\ {Day(now), Month(now)} \subseteq Periods
<1>1. DayOf(now) \in Nat
  BY DivNat, ClockAssumption DEF DayOf
<1>2. MonthOf(DayOf(now)) \in Nat
  BY <1>1, DivNat, ClockAssumption DEF MonthOf
<1> QED
  BY <1>1, <1>2 DEF Day, Month, Periods

-----------------------------------------------------------------------------
(* Schedules *)

LEMMA BlankOK ==
    ASSUME NEW status \in Statuses, NEW at \in Nat
    PROVE  /\ [Blank EXCEPT !.status = status, !.terminal_at = at] \in ScheduleRow
           /\ [Blank EXCEPT !.status = status] \in ScheduleRow
           /\ [Blank EXCEPT !.status = status].status = status
           /\ [Blank EXCEPT !.status = status].source = "unset"
           /\ [Blank EXCEPT !.status = status, !.terminal_at = at].status = status
           /\ [Blank EXCEPT !.status = status, !.terminal_at = at].source = "unset"
BY DEF Blank, ScheduleRow, NoContent, NoName, Sources

Named(row, name, source) == [row EXCEPT !.name = name, !.source = source]

LEMMA NamedOK ==
    ASSUME NEW row \in ScheduleRow, NEW source \in Sources, NEW name \in Nat \cup {Manual}
    PROVE  /\ Named(row, name, source) \in ScheduleRow
           /\ Named(row, name, source).source = source
           /\ Named(row, name, source).name = name
           /\ Named(row, name, source).version = row.version
           /\ Named(row, name, source).status = row.status
           /\ Named(row, name, source).content = row.content
BY DEF ScheduleRow, Named

LEMMA RenamedOK ==
    ASSUME NEW row \in ScheduleRow
    PROVE  /\ Renamed(row) \in ScheduleRow /\ Renamed(row).version = row.version
           /\ Renamed(row).status = row.status /\ Renamed(row).source # "ai"
<1>1. CASE row.source = "ai"
  <2>1. "unset" \in Sources /\ NoName \in Nat \cup {Manual}
    BY DEF Sources, NoName
  <2>2. Renamed(row) = Named(row, NoName, "unset")
    BY <1>1 DEF Renamed, Named
  <2> QED
    BY <2>1, <2>2, NamedOK
<1>2. CASE row.source # "ai"
  BY <1>2 DEF Renamed
<1> QED
  BY <1>1, <1>2

(* One schedule changes, and no task. *)
LEMMA OneMoves ==
    ASSUME NameInv, NEW s \in Schedules, NEW row \in ScheduleRow,
           schedule' = [schedule EXCEPT ![s] = row],
           \/ schedule[s].status = "absent"
           \/ row.status \in {"done", "erased"}
           \/ /\ schedule[s].status = "live" /\ row.status = "live"
              /\ row.version = schedule[s].version + 1,
           row.status # "absent",
           row.source = "ai" => row.name = row.content /\ row.content # NoContent,
           UNCHANGED task
    PROVE  NameInv' /\ SchedulesMove
<1>1. /\ schedule' \in [Schedules -> ScheduleRow] /\ schedule'[s] = row
      /\ \A q \in Schedules : q # s => schedule'[q] = schedule[q]
  BY DEF NameInv
<1>2. SchedulesMove
  BY <1>1 DEF Moves, SchedulesMove
<1> QED
  BY <1>1, <1>2, MovesKeep DEF NameInv, TasksKept

LEMMA CommandKeeps ==
    ASSUME IInv, NEW s \in Schedules, Command(s)
    PROVE  Rest' /\ NameInv' /\ SchedulesMove /\ JobsMove
<1>0. /\ NameInv /\ Rest /\ schedule[s] \in ScheduleRow
      /\ UNCHANGED <<now, proc, bucket, task, asked>>
  BY Parts DEF NameInv, Command, Create, EditContent, EditName, Advance
<1> DEFINE row == schedule[s]
<1>1. /\ row.version + 1 \in Nat \ {0} /\ Bumped(s) \in ScheduleRow
      /\ Bumped(s).version = row.version + 1 /\ Bumped(s).status = row.status
      /\ Bumped(s).content = row.content
      /\ Bumped(s).name = row.name /\ Bumped(s).source = row.source
  BY <1>0 DEF ScheduleRow, Bumped
<1>2. ASSUME NEW filled \in BOOLEAN, Create(s, filled)
      PROVE  JobOK' /\ NameInv' /\ SchedulesMove /\ JobsMove
  <2> DEFINE new == [Blank EXCEPT !.status = "live", !.version = 1,
                           !.content = IF filled THEN 1 ELSE NoContent]
  <2>1. /\ new \in ScheduleRow /\ new.status = "live" /\ new.source = "unset"
    BY DEF Blank, ScheduleRow, NoContent, NoName, Sources, Statuses
  <2>2. NameInv' /\ SchedulesMove
    BY <1>0, <1>2, <2>1, OneMoves DEF Create
  <2>3. JobOK' /\ JobsMove
    <3>1. Fresh(<<s, 1>>) /\ (Registers(s, 1) \/ UNCHANGED job)
      BY <1>2 DEF Create, Fresh
    <3> QED
      BY <1>0, <3>1, JobsRegistered DEF Rest
  <2> QED
    BY <2>2, <2>3
<1>3. ASSUME NEW filled \in BOOLEAN, EditContent(s, filled)
      PROVE  JobOK' /\ NameInv' /\ SchedulesMove /\ JobsMove
  <2> DEFINE content == IF filled THEN row.version + 1 ELSE NoContent
             renamed == Renamed(Bumped(s))
             new == [renamed EXCEPT !.content = content]
  <2>0. /\ renamed \in ScheduleRow /\ renamed.version = row.version + 1
        /\ renamed.status = row.status /\ renamed.source # "ai"
    BY <1>1, RenamedOK
  <2>1. content \in Nat
    BY <1>1, <1>3 DEF NoContent
  <2> HIDE DEF content, renamed
  <2>2. /\ new \in ScheduleRow /\ new.version = row.version + 1
        /\ new.status = row.status /\ new.source # "ai"
    BY <2>0, <2>1 DEF ScheduleRow
  <2>3. /\ schedule' = [schedule EXCEPT ![s] = new] /\ row.status = "live"
        /\ Registers(s, new.version) \/ UNCHANGED job
    BY <1>3 DEF EditContent, CanChange, content, renamed
  <2>4. NameInv' /\ SchedulesMove
    BY <1>0, <2>2, <2>3, OneMoves
  <2>5. JobOK' /\ JobsMove
    <3>1. row.version \in Nat
      BY <1>0 DEF ScheduleRow
    <3>2. new.version \in Nat \ {0} /\ new.version > row.version
      BY <1>1, <2>2, <3>1
    <3>3. Fresh(<<s, new.version>>)
      BY <2>3, <3>2 DEF Fresh
    <3> QED
      BY <1>0, <2>3, <3>2, <3>3, JobsRegistered DEF Rest
  <2> QED
    BY <2>4, <2>5
<1>4. ASSUME NEW source \in {"manual", "unset"}, EditName(s, source)
      PROVE  JobOK' /\ NameInv' /\ SchedulesMove /\ JobsMove
  <2> DEFINE name == IF source = "manual" THEN Manual ELSE NoName
             new == Named(Bumped(s), name, source)
  <2>1. source \in Sources /\ source # "ai" /\ name \in Nat \cup {Manual}
    BY <1>4 DEF Sources, NoName
  <2> HIDE DEF name
  <2>2. /\ new \in ScheduleRow /\ new.version = row.version + 1
        /\ new.status = row.status /\ new.source # "ai"
    BY <1>1, <2>1, NamedOK
  <2>3. schedule' = [schedule EXCEPT ![s] = new] /\ row.status = "live" /\ UNCHANGED job
    BY <1>4 DEF EditName, CanChange, Named, name
  <2> QED
    BY <1>0, <2>2, <2>3, OneMoves DEF Rest, JobOK, JobsMove
<1>5. ASSUME Advance(s)
      PROVE  JobOK' /\ NameInv' /\ SchedulesMove /\ JobsMove
  BY <1>0, <1>1, <1>5, OneMoves DEF Advance, CanChange, Rest, JobOK, NameInv,
       NameFitsContent, JobsMove
<1>6. JobOK' /\ NameInv' /\ SchedulesMove /\ JobsMove
  BY <1>2, <1>3, <1>4, <1>5 DEF Command
<1> QED
  BY <1>0, <1>6 DEF Rest, BucketOK, AskedOK

-----------------------------------------------------------------------------
(* The worker *)

(* One worker's task changes; a content it goes on holding stays the same.   *)
LEMMA TaskMoves ==
    ASSUME NameInv, NEW w \in Workers, NEW new \in TaskRecord,
           task' = [task EXCEPT ![w] = new],
           new.step \in {"claimed", "asked"} =>
              /\ task[w].step \in {"claimed", "asked"}
              /\ new.job = task[w].job /\ new.content = task[w].content
    PROVE  TasksKept
BY DEF NameInv, TasksKept

LEMMA SameSchedules ==
    ASSUME NameInv, UNCHANGED schedule, TasksKept
    PROVE  NameInv'
<1>1. SchedulesMove
  BY DEF Moves, SchedulesMove
<1> QED
  BY <1>1, MovesKeep DEF NameInv

LEMMA NoTaskOK == NoTask \in TaskRecord /\ NoTask.step = "none"
BY DEF NoTask, TaskRecord, NoContent

LEMMA TaskStepOK ==
    ASSUME NameInv, NEW w \in Workers, NEW step \in {"asked", "lost"},
           task[w].step \in {"claimed", "asked"},
           task' = [task EXCEPT ![w].step = step], UNCHANGED schedule
    PROVE  NameInv'
<1> DEFINE new == [task[w] EXCEPT !.step = step]
<1>1. /\ new \in TaskRecord /\ new.job = task[w].job /\ new.content = task[w].content
  BY DEF NameInv, TaskRecord
<1>2. task' = [task EXCEPT ![w] = new]
  OBVIOUS
<1> HIDE DEF new
<1> QED
  BY <1>1, <1>2, TaskMoves, SameSchedules

LEMMA ClaimKeeps ==
    ASSUME IInv, NEW w \in Workers, Claim(w)
    PROVE  Rest' /\ NameInv'
<1>0. Rest /\ NameInv /\ UNCHANGED <<now, proc, schedule>>
  BY Parts DEF Claim
<1>1. PICK j \in Oldest :
          /\ Welcome(j)
          /\ job' = [job EXCEPT ![j] =
                [status |-> "processing", at |-> now + LeaseTimeout]]
          /\ bucket' = [p \in DOMAIN bucket \cup {Day(now), Month(now)} |->
                IF p \in {Day(now), Month(now)} THEN Reserved(p) + 1
                ELSE bucket[p]]
          /\ task' = [task EXCEPT ![w] =
                [step |-> "claimed", job |-> j, content |-> schedule[j[1]].content]]
          /\ asked' = [i \in DOMAIN asked \cup {j} |->
                IF i = j /\ j \notin DOMAIN asked
                THEN [day |-> DayOf(now), requests |-> 0] ELSE asked[i]]
  BY DEF Claim
<1>2. j \in DOMAIN job /\ j \in Jobs /\ j[1] \in Schedules
  BY <1>0 DEF Oldest, Rest, JobOK, Jobs
<1>3. JobOK'
  <2>1. [status |-> "processing", at |-> now + LeaseTimeout] \in JobRow
    BY <1>0, ClockAssumption DEF Rest, JobRow
  <2>2. DOMAIN job' = DOMAIN job /\ job' \in [DOMAIN job -> JobRow]
    BY <1>0, <1>1, <2>1 DEF Rest, JobOK
  <2> QED
    BY <1>0, <2>2 DEF Rest, JobOK
<1>4. BucketOK'
  <2>1. \A p \in DOMAIN bucket : bucket[p] \in Nat
    BY <1>0 DEF Rest, BucketOK
  <2>2. \A p : Reserved(p) + 1 \in Nat
    BY <2>1 DEF Reserved
  <2>3. {Day(now), Month(now)} \subseteq Periods
    BY <1>0, PeriodOK DEF Rest
  <2>4. /\ DOMAIN bucket' = DOMAIN bucket \cup {Day(now), Month(now)}
        /\ bucket' \in [DOMAIN bucket \cup {Day(now), Month(now)} -> Nat]
    BY <1>1, <2>1, <2>2
  <2> QED
    BY <1>0, <2>3, <2>4 DEF Rest, BucketOK
<1>5. AskedOK'
  <2>1. [day |-> DayOf(now), requests |-> 0] \in [day : Nat, requests : Nat]
    BY <1>0, PeriodOK DEF Rest
  <2>2. /\ DOMAIN asked' = DOMAIN asked \cup {j}
        /\ asked' \in [DOMAIN asked \cup {j} -> [day : Nat, requests : Nat]]
    BY <1>0, <1>1, <2>1 DEF Rest, AskedOK
  <2> QED
    BY <1>0, <1>2, <2>2 DEF Rest, AskedOK
<1>6. NameInv'
  <2> DEFINE new == [step |-> "claimed", job |-> j, content |-> schedule[j[1]].content]
  <2>0. schedule[j[1]] \in ScheduleRow
    BY <1>0, <1>2 DEF NameInv
  <2>1. new \in TaskRecord
    BY <1>2, <2>0 DEF TaskRecord, ScheduleRow
  <2>2. /\ task' \in [Workers -> TaskRecord] /\ task'[w] = new
        /\ \A v \in Workers : v # w => task'[v] = task[v]
    BY <1>0, <1>1, <2>1 DEF NameInv
  <2>3. HeldContent(w)'
    BY <1>0, <1>1, <1>2, <2>0, <2>2 DEF HeldContent, Welcome, ScheduleRow
  <2>4. ASSUME NEW v \in Workers, v # w, task'[v].step \in {"claimed", "asked"}
        PROVE  HeldContent(v)'
    BY <1>0, <2>2, <2>4 DEF HeldContent, NameInv, TaskInv
  <2> QED
    BY <1>0, <2>2, <2>3, <2>4 DEF NameInv, TaskInv, NameFitsContent
<1> QED
  BY <1>0, <1>3, <1>4, <1>5, <1>6 DEF Rest

LEMMA SaveSuccessKeeps ==
    ASSUME IInv, NEW w \in Workers, SaveSuccess(w)
    PROVE  Rest' /\ NameInv' /\ SchedulesMove
<1> DEFINE j == task[w].job
<1>0. /\ Rest /\ NameInv /\ UNCHANGED <<now, proc, bucket, asked>>
      /\ task' = [task EXCEPT ![w] = NoTask]
      /\ HeldContent(w)
  BY Parts DEF SaveSuccess, NameInv, TaskInv
<1>1. TasksKept
  BY <1>0, NoTaskOK, TaskMoves
<1>2. JobOK'
  BY <1>0, JobFinished DEF SaveSuccess, Rest, JobOK, Settled
<1>3. ASSUME UNCHANGED schedule
      PROVE  NameInv' /\ SchedulesMove
  BY <1>0, <1>1, <1>3, SameSchedules DEF SchedulesMove, Moves
<1>4. ASSUME Welcome(j),
             schedule' = [schedule EXCEPT ![j[1]] =
                [@ EXCEPT !.name = task[w].content, !.source = "ai"]]
      PROVE  NameInv' /\ SchedulesMove
  <2> DEFINE s == j[1]
             row == schedule[s]
             content == task[w].content
             new == Named(row, content, "ai")
  <2>1. /\ s \in Schedules /\ schedule[s] \in ScheduleRow
        /\ schedule[s].content = task[w].content /\ schedule[s].content # NoContent
        /\ schedule[s].status = "live"
    BY <1>0, <1>4 DEF HeldContent, Jobs, NameInv, Welcome
  <2>2. /\ row \in ScheduleRow /\ content \in Nat \cup {Manual} /\ "ai" \in Sources
    <3>1. task[w] \in TaskRecord
      BY <1>0 DEF NameInv
    <3> QED
      BY <2>1, <3>1 DEF TaskRecord, Sources
  <2> HIDE DEF s, row, content
  <2>a. /\ new \in ScheduleRow /\ new.version = row.version
        /\ new.status = row.status /\ new.content = row.content
        /\ new.name = content
    BY ONLY <2>2, NamedOK
  <2>3. /\ new \in ScheduleRow /\ new.version = schedule[s].version
        /\ new.status = schedule[s].status /\ new.content = schedule[s].content
        /\ new.name = task[w].content
    BY ONLY <2>a DEF row, content
  <2>4. schedule' = [schedule EXCEPT ![s] = new]
    BY <1>4 DEF Named, s, row, content
  <2> HIDE DEF new
  <2>5. /\ schedule' \in [Schedules -> ScheduleRow] /\ schedule'[s] = new
        /\ \A q \in Schedules : q # s => schedule'[q] = schedule[q]
    BY <1>0, <2>1, <2>3, <2>4 DEF NameInv
  <2>6. SchedulesMove
    BY <2>1, <2>3, <2>5 DEF Moves, SchedulesMove
  <2> QED
    BY <1>0, <1>1, <2>1, <2>3, <2>5, <2>6, MovesKeep
<1> QED
  BY <1>0, <1>2, <1>3, <1>4 DEF SaveSuccess, Rest, BucketOK, AskedOK

LEMMA WorkerKeeps ==
    ASSUME IInv, NEW w \in Workers, WorkerStep(w)
    PROVE  Rest' /\ NameInv'
<1>0. Rest /\ NameInv
  BY Parts
<1>1. CASE Skip(w)
  <2>1. JobOK'
    BY <1>0, <1>1, JobFinished DEF Skip, Rest, Settled
  <2>2. NameInv'
    BY <1>0, <1>1, SameSchedules DEF Skip, NameInv, TasksKept
  <2> QED
    BY <1>0, <1>1, <2>1, <2>2 DEF Skip, Rest, BucketOK, AskedOK
<1>2. CASE Ask(w)
  <2>1. NameInv'
    BY <1>0, <1>2, TaskStepOK DEF Ask
  <2>2. AskedOK'
    <3> DEFINE j == task[w].job
    <3>1. asked' = [asked EXCEPT ![j] = [asked[j] EXCEPT !.requests = asked[j].requests + 1]]
      BY <1>2 DEF Ask
    <3>2. CASE j \in DOMAIN asked
      <4>1. asked[j] \in [day : Nat, requests : Nat]
        BY <1>0, <3>2 DEF Rest, AskedOK
      <4>2. [asked[j] EXCEPT !.requests = asked[j].requests + 1]
              \in [day : Nat, requests : Nat]
        BY <4>1
      <4>3. /\ DOMAIN asked' = DOMAIN asked
            /\ asked' \in [DOMAIN asked -> [day : Nat, requests : Nat]]
        BY <1>0, <3>1, <3>2, <4>2 DEF Rest, AskedOK
      <4> QED
        BY <1>0, <4>3 DEF Rest, AskedOK
    <3>3. CASE j \notin DOMAIN asked
      <4>1. asked' = asked
        BY <1>0, <3>1, <3>3 DEF Rest, AskedOK
      <4> QED
        BY <1>0, <4>1 DEF Rest, AskedOK
    <3> QED
      BY <3>2, <3>3
  <2> QED
    BY <1>0, <1>2, <2>1, <2>2 DEF Ask, Rest, BucketOK, JobOK
<1>3. CASE SaveFailure(w)
  <2>1. JobOK'
    BY <1>0, <1>3, JobFinished DEF SaveFailure, Rest, Settled, JobOK
  <2>2. NameInv'
    BY <1>0, <1>3, NoTaskOK, TaskMoves, SameSchedules DEF SaveFailure
  <2> QED
    BY <1>0, <1>3, <2>1, <2>2 DEF SaveFailure, Rest, BucketOK, AskedOK
<1>4. CASE SaveRaises(w)
  <2>1. NameInv'
    BY <1>0, <1>4, TaskStepOK DEF SaveRaises
  <2> QED
    BY <1>0, <1>4, <2>1 DEF SaveRaises, Rest, JobOK, BucketOK, AskedOK
<1> QED
  BY <1>1, <1>2, <1>3, <1>4, ClaimKeeps, SaveSuccessKeeps DEF WorkerStep

-----------------------------------------------------------------------------
(* Processes, retention, and the inductive invariant *)

LEMMA ProcessKeeps ==
    ASSUME IInv, NEW w \in Workers, Start(w) \/ ProcessEnds(w)
    PROVE  Rest' /\ NameInv'
<1>0. Rest /\ NameInv /\ UNCHANGED <<now, schedule, bucket, asked>>
  BY Parts DEF Start, ProcessEnds, Crash, Close
<1>1. proc' \in [Workers -> ProcessStates]
  BY <1>0 DEF Rest, Start, ProcessEnds, Crash, Close, ProcessStates
<1>2. JobOK'
  BY <1>0, JobsAbandoned DEF Rest, JobOK, Start, ProcessEnds, Crash, Close
<1>3. NameInv'
  <2>1. CASE UNCHANGED task
    BY <1>0, <2>1, SameSchedules DEF NameInv, TasksKept
  <2>2. CASE task' = [task EXCEPT ![w] = NoTask]
    BY <1>0, <2>2, NoTaskOK, TaskMoves, SameSchedules
  <2> QED
    BY <2>1, <2>2 DEF Start, ProcessEnds, Crash, Close
<1> QED
  BY <1>0, <1>1, <1>2, <1>3 DEF Rest, BucketOK, AskedOK

LEMMA ConcludeKeeps ==
    ASSUME IInv, NEW s \in Schedules, Conclude(s)
    PROVE  Rest' /\ NameInv' /\ SchedulesMove
<1>0. Rest /\ NameInv /\ UNCHANGED <<now, proc, job, bucket, task, asked>>
  BY Parts DEF Conclude
<1>1. NameInv' /\ SchedulesMove
  BY <1>0, BlankOK, OneMoves DEF Conclude, Rest, Statuses
<1> QED
  BY <1>0, <1>1 DEF Rest, JobOK, BucketOK, AskedOK

LEMMA RetentionKeeps ==
    ASSUME IInv, NEW w \in Workers, StartCycle(w) \/ DeleteSchedule(w)
    PROVE  Rest' /\ NameInv' /\ SchedulesMove
<1>0. Rest /\ NameInv /\ UNCHANGED <<now, proc, task, asked>>
  BY Parts DEF StartCycle, DeleteSchedule
<1>1. JobOK'
  BY <1>0, JobsRemoved DEF Rest, StartCycle, DeleteSchedule, JobOK
<1>2. BucketOK'
  BY <1>0 DEF Rest, BucketOK, StartCycle, DeleteSchedule
<1>3. NameInv' /\ SchedulesMove
  <2>1. CASE UNCHANGED schedule
    BY <1>0, <2>1, SameSchedules DEF NameInv, TasksKept, SchedulesMove, Moves
  <2>2. CASE \E s \in Schedules :
               schedule' = [schedule EXCEPT ![s] = [Blank EXCEPT !.status = "erased"]]
    <3>1. "erased" \in Statuses /\ 0 \in Nat
      BY DEF Statuses
    <3> QED
      BY <1>0, <2>2, <3>1, BlankOK, OneMoves
  <2> QED
    BY <2>1, <2>2 DEF StartCycle, DeleteSchedule, NextUp, Candidates
<1> QED
  BY <1>0, <1>1, <1>2, <1>3 DEF Rest, AskedOK

LEMMA UnchangedKeeps ==
    ASSUME IInv, now' \in Nat, UNCHANGED <<proc, schedule, job, bucket, task, asked>>
    PROVE  Rest' /\ NameInv'
<1>0. Rest /\ NameInv
  BY Parts
<1>1. NameInv'
  BY <1>0, SameSchedules DEF NameInv, TasksKept
<1> QED
  BY <1>0, <1>1 DEF Rest, JobOK, BucketOK, AskedOK

LEMMA InitIInv ==
    ASSUME CleanupInit
    PROVE  IInv
<1>1. Init
  BY DEF CleanupInit
<1>2. /\ DOMAIN job = {} /\ DOMAIN bucket = {} /\ DOMAIN asked = {}
      /\ job \in [DOMAIN job -> JobRow] /\ bucket \in [DOMAIN bucket -> Nat]
      /\ asked \in [DOMAIN asked -> [day : Nat, requests : Nat]]
  BY <1>1 DEF Init
<1>3. Rest
  BY <1>1, <1>2 DEF Init, Rest, JobOK, BucketOK, AskedOK, ProcessStates
<1>4. /\ \A s \in Schedules : schedule[s] \in ScheduleRow /\ schedule[s].source # "ai"
      /\ schedule \in [Schedules -> ScheduleRow]
  <2>1. Blank \in ScheduleRow /\ Blank.source = "unset"
    BY DEF Blank, ScheduleRow, NoContent, NoName, Sources, Statuses
  <2>2. /\ [Blank EXCEPT !.status = "done"] \in ScheduleRow
        /\ [Blank EXCEPT !.status = "done"].source = "unset"
    BY BlankOK DEF Statuses
  <2> QED
    BY <1>1, <2>1, <2>2 DEF Init
<1>5. task \in [Workers -> TaskRecord] /\ \A w \in Workers : task[w].step = "none"
  BY <1>1, NoTaskOK DEF Init
<1> QED
  BY <1>3, <1>4, <1>5, Parts DEF NameInv, NameFitsContent, TaskInv

LEMMA Inductive == Spec => []IInv
<1>1. CleanupInit => IInv
  BY InitIInv
<1>2. IInv /\ [Next]_vars => IInv'
  <2> SUFFICES ASSUME IInv, [Next]_vars PROVE Rest' /\ NameInv'
    BY PartsNext
  <2>0. now \in Nat /\ now + 1 \in Nat
    BY Parts DEF Rest
  <2>1. CASE NameStep
    BY <2>0, <2>1, UnchangedKeeps, ProcessKeeps, WorkerKeeps, CommandKeeps
       DEF NameStep, Tick
  <2>2. CASE \E w \in Workers : ProcessEnds(w)
    BY <2>2, ProcessKeeps
  <2>3. CASE \E w \in Workers : StartCycle(w) \/ DeleteSchedule(w)
    BY <2>3, RetentionKeeps
  <2>4. CASE \E s \in Schedules : Conclude(s)
    BY <2>4, ConcludeKeeps
  <2>5. CASE UNCHANGED nameVars
    BY <2>0, <2>5, UnchangedKeeps DEF nameVars
  <2> QED
    BY <2>1, <2>2, <2>3, <2>4, <2>5
       DEF Next, DeleteFails, EndCycle, BreakCycle, WorkEnds, vars
<1> QED
  BY <1>1, <1>2, PTL DEF Spec

(* Every variable of name generation keeps the shape of its tables, tasks    *)
(* and processes.                                                            *)
THEOREM NamesTypeCorrect == Spec => []TypeOK
BY Inductive, PTL DEF IInv

(* A generated name is the name of the content the schedule has now, for any *)
(* number of schedules, processes and versions.                              *)
THEOREM NamesFit == Spec => []NameFitsContent
BY Inductive, PTL DEF IInv

-----------------------------------------------------------------------------
(* Spending *)

(* The reservations of a period, the request of each sent or not. *)
Reserving(p) == {j \in DOMAIN asked : p \in PeriodsOf(asked[j].day)}

Within(p) ==
    /\ p[1] = "day" => Cardinality(Reserving(p)) <= DailyLimit
    /\ p[1] = "month" => /\ Cardinality(Reserving(p)) <= MonthlyLimit
                         /\ Cardinality(Reserving(p)) * Cost <= MonthlyCostLimit

(* The bucket of a period counts its reservations as long as there can be    *)
(* more of them; old buckets are deleted.                                    *)
BudgetInv ==
    /\ IsFiniteSet(DOMAIN asked)
    /\ \A j \in DOMAIN asked : asked[j].day <= DayOf(now)
    /\ \A p \in Periods : Within(p)
    /\ \A p \in PeriodsOf(DayOf(now)) : Cardinality(Reserving(p)) <= Reserved(p)

(* A job that got a reservation does not wait any more, and there is never   *)
(* another one for the same version.                                         *)
UsedInv ==
    /\ \A j \in DOMAIN asked : ~Fresh(j)
    /\ \A j \in DOMAIN asked : j \in DOMAIN job => job[j].status # "pending"

(* A worker about to ask is the only one, and nobody has asked before it.    *)
ClaimedInv ==
    /\ \A j \in DOMAIN asked : asked[j].requests <= 1
    /\ \A w \in Workers : task[w].step = "claimed" =>
          /\ task[w].job \in DOMAIN asked /\ asked[task[w].job].requests = 0
          /\ \A v \in Workers \ {w} :
                task[v].step = "claimed" => task[v].job # task[w].job

SpendInv == BudgetInv /\ UsedInv /\ ClaimedInv

ClaimsKept ==
    \A w \in Workers : task'[w].step = "claimed" => task'[w] = task[w]

LEMMA MonotoneTimes ==
    ASSUME NEW k \in Nat, NEW m \in Nat, k <= m, NEW d \in Nat
    PROVE  k * d <= m * d
<1>1. (m - k) * d = m * d - k * d /\ k * d \in Int /\ m * d \in Int
  OBVIOUS
<1>2. (m - k) * d >= 0
  OBVIOUS
<1> QED
  BY <1>1, <1>2

LEMMA MonotoneDivision ==
    ASSUME NEW t \in Int, NEW u \in Int, t <= u, NEW d \in Nat \ {0}
    PROVE  t \div d \in Int /\ u \div d \in Int /\ t \div d <= u \div d
<1> DEFINE k == t \div d
           m == u \div d
<1>1. k \in Int /\ m \in Int /\ k * d <= t /\ u < m * d + d
  OBVIOUS
<1> HIDE DEF k, m
<1>2. /\ (k - m - 1) * d = k * d - m * d - d
      /\ k * d \in Int /\ m * d \in Int
  BY <1>1
<1>3. k - m - 1 >= 0 => (k - m - 1) * d >= 0
  BY <1>1
<1>4. k <= m
  BY <1>1, <1>2, <1>3
<1> QED
  BY <1>1, <1>4 DEF k, m

LEMMA PeriodsDiffer ==
    ASSUME NEW day, NEW p \in PeriodsOf(day)
    PROVE  /\ p = <<"day", day>> \/ p = <<"month", MonthOf(day)>>
           /\ p[1] = "day" => p[2] = day
           /\ p[1] = "month" => p[2] = MonthOf(day)
BY DEF PeriodsOf

LEMMA CurrentPeriods == {Day(now), Month(now)} = PeriodsOf(DayOf(now))
BY DEF Day, Month, PeriodsOf

LEMMA AskedFacts ==
    ASSUME Rest, NEW j \in DOMAIN asked
    PROVE  /\ j \in Jobs /\ asked[j] \in [day : Nat, requests : Nat]
           /\ asked[j].day \in Nat /\ asked[j].requests \in Nat
BY DEF Rest, AskedOK

LEMMA CountsAre ==
    ASSUME BudgetInv, NEW p
    PROVE  IsFiniteSet(Reserving(p)) /\ Cardinality(Reserving(p)) \in Nat
<1>1. IsFiniteSet(Reserving(p))
  BY FS_Subset DEF BudgetInv, Reserving
<1> QED
  BY <1>1, FS_CardinalityType

LEMMA ReservedIs ==
    ASSUME Rest, NEW p
    PROVE  Reserved(p) \in Nat
BY DEF Rest, BucketOK, Reserved

(* As time goes on the present periods stay, or are new ones.                *)
LEMMA PresentMoves ==
    ASSUME Rest, BudgetInv, now' \in Nat, now <= now', UNCHANGED asked,
           \A p \in PeriodsOf(DayOf(now)) : Reserved(p)' = Reserved(p),
           Rest'
    PROVE  BudgetInv'
<1>1. /\ DayOf(now) \in Int /\ DayOf(now') \in Int /\ DayOf(now) <= DayOf(now')
  BY MonotoneDivision, ClockAssumption DEF Rest, DayOf
<1>2. ASSUME NEW j \in DOMAIN asked
      PROVE  asked[j].day <= DayOf(now')
  <2>1. asked[j].day \in Nat /\ asked[j].day <= DayOf(now)
    BY AskedFacts DEF BudgetInv
  <2> QED
    BY <1>1, <2>1
<1>3. \A p : Reserving(p)' = Reserving(p)
  BY DEF Reserving, PeriodsOf, MonthOf
<1>4. ASSUME NEW p \in Periods PROVE Within(p)'
  BY <1>3 DEF BudgetInv, Within
<1>5. ASSUME NEW p \in PeriodsOf(DayOf(now'))
      PROVE  Cardinality(Reserving(p)) <= Reserved(p)'
  <2>1. CASE p \in PeriodsOf(DayOf(now))
    BY <2>1 DEF BudgetInv
  <2>2. CASE p \notin PeriodsOf(DayOf(now))
    <3>1. ASSUME NEW j \in DOMAIN asked, p \in PeriodsOf(asked[j].day)
          PROVE  FALSE
      <4> DEFINE day == asked[j].day
      <4>1. day \in Int /\ day <= DayOf(now)
        BY AskedFacts DEF BudgetInv
      <4> HIDE DEF day
      <4>2. /\ MonthOf(day) \in Int /\ MonthOf(DayOf(now)) \in Int
            /\ MonthOf(DayOf(now')) \in Int
            /\ MonthOf(day) <= MonthOf(DayOf(now))
            /\ MonthOf(DayOf(now)) <= MonthOf(DayOf(now'))
        BY <1>1, <4>1, MonotoneDivision, ClockAssumption DEF MonthOf
      <4>3. p \in PeriodsOf(day)
        BY <3>1 DEF day
      <4>4. CASE p = <<"day", DayOf(now')>>
        <5>1. p[1] = "day" /\ p[2] = DayOf(now')
          BY <4>4
        <5>2. day = DayOf(now')
          BY <4>3, <5>1, PeriodsDiffer
        <5>3. DayOf(now) = DayOf(now')
          BY <1>1, <4>1, <5>2
        <5> QED
          BY <2>2, <4>4, <5>3 DEF PeriodsOf
      <4>5. CASE p = <<"month", MonthOf(DayOf(now'))>>
        <5>1. p[1] = "month" /\ p[2] = MonthOf(DayOf(now'))
          BY <4>5
        <5>2. MonthOf(day) = MonthOf(DayOf(now'))
          BY <4>3, <5>1, PeriodsDiffer
        <5>3. MonthOf(DayOf(now)) = MonthOf(DayOf(now'))
          BY <4>2, <5>2
        <5> QED
          BY <2>2, <4>5, <5>3 DEF PeriodsOf
      <4> QED
        BY <1>5, <4>4, <4>5, PeriodsDiffer
    <3>2. Reserving(p) = {}
      BY <3>1 DEF Reserving
    <3>3. Cardinality(Reserving(p)) = 0
      BY <3>2, FS_EmptySet
    <3>4. Reserved(p)' \in Nat
      BY DEF Rest, BucketOK, Reserved
    <3> QED
      BY <3>3, <3>4
  <2> QED
    BY <2>1, <2>2
<1>6. (\A p \in PeriodsOf(DayOf(now)) : Cardinality(Reserving(p)) <= Reserved(p))'
  <2>1. ASSUME NEW p \in PeriodsOf(DayOf(now))'
        PROVE  (Cardinality(Reserving(p)) <= Reserved(p))'
    <3>1. p \in PeriodsOf(DayOf(now'))
      BY DEF PeriodsOf, MonthOf, DayOf
    <3> QED
      BY <1>3, <1>5, <3>1
  <2> QED
    BY <2>1
<1>7. (\A j \in DOMAIN asked : asked[j].day <= DayOf(now))'
  BY <1>2 DEF DayOf
<1> QED
  BY <1>4, <1>6, <1>7 DEF BudgetInv

(* Every step but a claim and a request. *)
LEMMA QuietSpends ==
    ASSUME IInv, IInv', SpendInv, UNCHANGED asked, now <= now',
           SchedulesMove, JobsMove, ClaimsKept,
           \A p \in PeriodsOf(DayOf(now)) : Reserved(p)' = Reserved(p)
    PROVE  SpendInv'
<1>1. Rest /\ Rest' /\ now' \in Nat /\ NameInv /\ NameInv'
  <2>1. Rest /\ NameInv
    BY Parts
  <2>2. Rest' /\ NameInv'
    BY DEF IInv, TypeOK, Rest, NameInv, JobOK, BucketOK, AskedOK
  <2> QED
    BY <2>1, <2>2 DEF Rest
<1>2. BudgetInv'
  BY <1>1, PresentMoves DEF SpendInv
<1>3. ASSUME NEW j \in DOMAIN asked PROVE ~Fresh(j)'
  <2>1. j[1] \in Schedules /\ j[2] \in Nat
    BY <1>1, AskedFacts DEF Jobs
  <2>2. schedule[j[1]] \in ScheduleRow /\ schedule'[j[1]] \in ScheduleRow
    BY <1>1, <2>1 DEF NameInv
  <2>3. schedule[j[1]].version \in Nat /\ schedule'[j[1]].version \in Nat
    BY <2>2 DEF ScheduleRow
  <2>4. ~Fresh(j)
    BY DEF SpendInv, UsedInv
  <2>5. Moves(j[1]) /\ schedule[j[1]].status # "absent" /\ schedule'[j[1]].status # "absent"
    BY <2>1, <2>4 DEF SchedulesMove, Fresh
  <2> QED
    BY <2>1, <2>3, <2>4, <2>5 DEF Moves, Fresh
<1>4. ASSUME NEW j \in DOMAIN asked, j \in DOMAIN job'
      PROVE  job'[j].status # "pending"
  BY <1>4 DEF SpendInv, UsedInv, JobsMove
<1>5. UsedInv'
  <2>1. ASSUME NEW j \in (DOMAIN asked)' PROVE ~Fresh(j)'
    BY <1>3
  <2> QED
    BY <1>4, <2>1 DEF UsedInv
<1>6. ClaimedInv'
  BY DEF SpendInv, ClaimedInv, ClaimsKept
<1> QED
  BY <1>2, <1>5, <1>6 DEF SpendInv

(* A claim: one reservation more, of the present day and month, which both   *)
(* had room for it, for a job that never had one.                            *)
LEMMA ClaimSpends ==
    ASSUME IInv, IInv', SpendInv, NEW w \in Workers, Claim(w)
    PROVE  SpendInv'
<1>0. Rest /\ NameInv /\ UNCHANGED <<now, proc, schedule>>
  BY Parts DEF Claim
<1>1. PICK j \in Oldest :
          /\ Welcome(j)
          /\ job' = [job EXCEPT ![j] =
                [status |-> "processing", at |-> now + LeaseTimeout]]
          /\ bucket' = [p \in DOMAIN bucket \cup {Day(now), Month(now)} |->
                IF p \in {Day(now), Month(now)} THEN Reserved(p) + 1
                ELSE bucket[p]]
          /\ task' = [task EXCEPT ![w] =
                [step |-> "claimed", job |-> j, content |-> schedule[j[1]].content]]
          /\ asked' = [i \in DOMAIN asked \cup {j} |->
                IF i = j /\ j \notin DOMAIN asked
                THEN [day |-> DayOf(now), requests |-> 0] ELSE asked[i]]
  BY DEF Claim
<1>2. j \in DOMAIN job /\ job[j].status = "pending" /\ j \in Jobs
  BY <1>0 DEF Oldest, Rest, JobOK
<1>3. j \notin DOMAIN asked
  BY <1>2 DEF SpendInv, UsedInv
<1> DEFINE today == DayOf(now)
<1>4. today \in Nat /\ PeriodsOf(today) = {Day(now), Month(now)}
  BY <1>0, PeriodOK, CurrentPeriods DEF Rest
<1>5. /\ DOMAIN asked' = DOMAIN asked \cup {j}
      /\ asked'[j].day = today /\ asked'[j].requests = 0
      /\ \A i \in DOMAIN asked : asked'[i] = asked[i]
  BY <1>1, <1>3
<1>6. \A p \in PeriodsOf(today) : Reserved(p)' = Reserved(p) + 1
  BY <1>1, <1>4 DEF Reserved
<1> HIDE DEF today
<1>7. ASSUME NEW p
      PROVE  Reserving(p)' = IF p \in PeriodsOf(today) THEN Reserving(p) \cup {j}
                                                       ELSE Reserving(p)
  <2>1. \A i \in DOMAIN asked' : i \in Reserving(p)' <=> p \in PeriodsOf(asked'[i].day)
    BY DEF Reserving, PeriodsOf, MonthOf
  <2>2. Reserving(p)' \subseteq DOMAIN asked'
    BY DEF Reserving
  <2>3. \A i \in DOMAIN asked : i \in Reserving(p) <=> p \in PeriodsOf(asked[i].day)
    BY DEF Reserving
  <2>4. Reserving(p) \subseteq DOMAIN asked
    BY DEF Reserving
  <2> QED
    BY <1>3, <1>5, <2>1, <2>2, <2>3, <2>4
<1>8. ASSUME NEW p \in PeriodsOf(today)
      PROVE  /\ Cardinality(Reserving(p)') = Cardinality(Reserving(p)) + 1
             /\ Cardinality(Reserving(p)) + 1 <= Reserved(p) + 1
             /\ Cardinality(Reserving(p)) \in Nat /\ Reserved(p) \in Nat
  <2>1. IsFiniteSet(Reserving(p)) /\ Cardinality(Reserving(p)) \in Nat
    BY CountsAre DEF SpendInv
  <2>2. j \notin Reserving(p) /\ Reserving(p)' = Reserving(p) \cup {j}
    BY <1>3, <1>7 DEF Reserving
  <2>3. Cardinality(Reserving(p)') = Cardinality(Reserving(p)) + 1
    BY <2>1, <2>2, FS_AddElement
  <2>4. Cardinality(Reserving(p)) <= Reserved(p) /\ Reserved(p) \in Nat
    BY <1>0, ReservedIs DEF SpendInv, BudgetInv, today
  <2> QED
    BY <2>1, <2>3, <2>4
<1>9. ASSUME NEW p \in Periods PROVE Within(p)'
  <2>1. CASE p \notin PeriodsOf(today)
    BY <1>7, <2>1 DEF Within, SpendInv, BudgetInv
  <2>2. CASE p \in PeriodsOf(today)
    <3> DEFINE count == Cardinality(Reserving(p))
               had == Reserved(p)
    <3>1. /\ Cardinality(Reserving(p)') = count + 1 /\ count + 1 <= had + 1
          /\ count \in Nat /\ had \in Nat
      BY <1>8, <2>2
    <3>2. p = Day(now) \/ p = Month(now)
      BY <1>4, <2>2
    <3>3. Affordable
      BY DEF Claim
    <3>4. p[1] = "day" => had + 1 <= DailyLimit
      BY <3>2, <3>3 DEF Affordable, Day, Month
    <3>5. p[1] = "month" => had + 1 <= MonthlyLimit /\ (had + 1) * Cost <= MonthlyCostLimit
      BY <3>2, <3>3 DEF Affordable, Day, Month
    <3>6. DailyLimit \in Nat /\ MonthlyLimit \in Nat /\ MonthlyCostLimit \in Nat /\ Cost \in Nat
      BY BudgetAssumption
    <3> HIDE DEF count, had
    <3>7. (count + 1) * Cost <= (had + 1) * Cost
      BY <3>1, <3>6, MonotoneTimes
    <3>8. (count + 1) * Cost \in Int /\ (had + 1) * Cost \in Int
      BY <3>1, <3>6
    <3>9. p[1] = "day" => count + 1 <= DailyLimit
      BY <3>1, <3>4, <3>6
    <3>10. p[1] = "month" => count + 1 <= MonthlyLimit
      BY <3>1, <3>5, <3>6
    <3>11. p[1] = "month" => (count + 1) * Cost <= MonthlyCostLimit
      BY <3>5, <3>6, <3>7, <3>8
    <3> QED
      BY <3>1, <3>9, <3>10, <3>11 DEF Within
  <2> QED
    BY <2>1, <2>2
<1>10. BudgetInv'
  <2>1. IsFiniteSet(DOMAIN asked')
    BY <1>5, FS_AddElement DEF SpendInv, BudgetInv
  <2>2. ASSUME NEW i \in DOMAIN asked' PROVE asked'[i].day <= DayOf(now)'
    <3>1. DayOf(now)' = today
      BY <1>0 DEF today, DayOf
    <3>2. CASE i = j
      BY <1>4, <1>5, <3>1, <3>2
    <3>3. CASE i # j
      BY <1>5, <3>1, <3>3 DEF SpendInv, BudgetInv, today
    <3> QED
      BY <3>2, <3>3
  <2>3. ASSUME NEW p \in PeriodsOf(DayOf(now))'
        PROVE  Cardinality(Reserving(p)') <= Reserved(p)'
    <3>1. p \in PeriodsOf(today)
      BY <1>0 DEF today, PeriodsOf, DayOf, MonthOf
    <3> QED
      BY <1>6, <1>8, <3>1
  <2>4. ASSUME NEW p \in PeriodsOf(DayOf(now))'
        PROVE  (Cardinality(Reserving(p)) <= Reserved(p))'
    BY <2>3
  <2> QED
    BY <1>9, <2>1, <2>2, <2>4 DEF BudgetInv
<1>11. UsedInv'
  <2>1. ASSUME NEW i \in DOMAIN asked' PROVE ~Fresh(i)'
    <3>1. CASE i = j
      <4>1. schedule[j[1]].status = "live" /\ schedule[j[1]].version = j[2] /\ j[2] \in Nat
        BY <1>1, <1>2 DEF Welcome, Jobs
      <4> QED
        BY <1>0, <3>1, <4>1 DEF Fresh
    <3>2. CASE i # j
      BY <1>0, <1>5, <3>2 DEF SpendInv, UsedInv, Fresh
    <3> QED
      BY <3>1, <3>2
  <2>2. ASSUME NEW i \in DOMAIN asked', i \in DOMAIN job'
        PROVE  job'[i].status # "pending"
    BY <1>1, <1>5, <2>2 DEF SpendInv, UsedInv
  <2> QED
    BY <2>1, <2>2 DEF UsedInv
<1>12. ClaimedInv'
  <2>1. \A i \in DOMAIN asked' : asked'[i].requests <= 1
    BY <1>5 DEF SpendInv, ClaimedInv
  <2>2. /\ task'[w].job = j /\ \A v \in Workers \ {w} : task'[v] = task[v]
    BY <1>0, <1>1 DEF NameInv
  <2>3. ASSUME NEW v \in Workers, v # w, task'[v].step = "claimed"
        PROVE  /\ task'[v].job \in DOMAIN asked /\ task'[v].job # j
               /\ asked'[task'[v].job].requests = 0
    BY <1>3, <1>5, <2>2, <2>3 DEF SpendInv, ClaimedInv
  <2>4. ASSUME NEW v \in Workers, task'[v].step = "claimed"
        PROVE  task'[v].job \in DOMAIN asked' /\ asked'[task'[v].job].requests = 0
    BY <1>5, <2>2, <2>3, <2>4
  <2>5. ASSUME NEW v \in Workers, NEW u \in Workers \ {v},
               task'[v].step = "claimed", task'[u].step = "claimed"
        PROVE  task'[u].job # task'[v].job
    <3>1. CASE v = w \/ u = w
      BY <2>2, <2>3, <2>5, <3>1
    <3>2. CASE v # w /\ u # w
      BY <2>2, <2>5, <3>2 DEF SpendInv, ClaimedInv
    <3> QED
      BY <3>1, <3>2
  <2> QED
    BY <2>1, <2>4, <2>5 DEF ClaimedInv
<1> QED
  BY <1>10, <1>11, <1>12 DEF SpendInv

(* A request: the first for its job, and the reservations stay. *)
LEMMA AskSpends ==
    ASSUME IInv, IInv', SpendInv, NEW w \in Workers, Ask(w)
    PROVE  SpendInv'
<1> DEFINE j == task[w].job
<1>0. Rest /\ NameInv /\ UNCHANGED <<now, proc, schedule, job, bucket>>
  BY Parts DEF Ask
<1>1. /\ task[w].step = "claimed" /\ j \in DOMAIN asked /\ asked[j].requests = 0
      /\ asked[j] \in [day : Nat, requests : Nat]
  BY <1>0, AskedFacts DEF Ask, SpendInv, ClaimedInv
<1>2. /\ DOMAIN asked' = DOMAIN asked
      /\ asked'[j].day = asked[j].day /\ asked'[j].requests = 1
      /\ \A i \in DOMAIN asked \ {j} : asked'[i] = asked[i]
  BY <1>1 DEF Ask
<1>3. \A i \in DOMAIN asked : asked'[i].day = asked[i].day
  BY <1>2
<1>4. /\ task'[w].step = "asked" /\ \A v \in Workers \ {w} : task'[v] = task[v]
  <2>1. task[w] \in TaskRecord /\ task \in [Workers -> TaskRecord]
    BY <1>0 DEF NameInv
  <2> QED
    BY <2>1 DEF Ask, TaskRecord
<1> HIDE DEF j
<1>5. ASSUME NEW p PROVE Reserving(p)' = Reserving(p)
  BY <1>2, <1>3 DEF Reserving, PeriodsOf, MonthOf
<1>6. BudgetInv'
  <2>1. ASSUME NEW p \in Periods PROVE Within(p)'
    BY <1>5 DEF SpendInv, BudgetInv, Within
  <2>2. ASSUME NEW p \in PeriodsOf(DayOf(now))'
        PROVE  (Cardinality(Reserving(p)) <= Reserved(p))'
    <3>1. p \in PeriodsOf(DayOf(now)) /\ Reserved(p)' = Reserved(p)
      BY <1>0 DEF PeriodsOf, DayOf, MonthOf, Reserved
    <3> QED
      BY <1>5, <3>1 DEF SpendInv, BudgetInv
  <2>3. IsFiniteSet(DOMAIN asked') /\ \A i \in DOMAIN asked' : asked'[i].day <= DayOf(now)'
    BY <1>0, <1>2, <1>3 DEF SpendInv, BudgetInv, DayOf
  <2> QED
    BY <2>1, <2>2, <2>3 DEF BudgetInv
<1>7. UsedInv'
  <2>1. ASSUME NEW i \in DOMAIN asked' PROVE ~Fresh(i)'
    BY <1>0, <1>2 DEF SpendInv, UsedInv, Fresh
  <2> QED
    BY <1>0, <1>2, <2>1 DEF SpendInv, UsedInv
<1>8. ClaimedInv'
  <2>1. \A i \in DOMAIN asked' : asked'[i].requests <= 1
    BY <1>2 DEF SpendInv, ClaimedInv
  <2>2. ASSUME NEW v \in Workers, task'[v].step = "claimed"
        PROVE  v # w /\ task'[v] = task[v] /\ task[v].job # j
    BY <1>1, <1>4, <2>2 DEF SpendInv, ClaimedInv, j
  <2> QED
    BY <1>2, <2>1, <2>2 DEF SpendInv, ClaimedInv
<1> QED
  BY <1>6, <1>7, <1>8 DEF SpendInv

(* Of all other steps: nobody comes to hold a claim, *)
LEMMA QuietTasks ==
    ASSUME NameInv, NEW w \in Workers,
           \/ UNCHANGED task
           \/ task' = [task EXCEPT ![w] = NoTask]
           \/ task' = [task EXCEPT ![w].step = "lost"]
    PROVE  ClaimsKept
<1>1. task[w] \in TaskRecord /\ task \in [Workers -> TaskRecord]
  BY DEF NameInv
<1>2. task'[w].step = "claimed" => task'[w] = task[w]
  BY <1>1, NoTaskOK DEF TaskRecord
<1>3. \A v \in Workers \ {w} : task'[v] = task[v]
  BY <1>1
<1> QED
  BY <1>2, <1>3 DEF ClaimsKept

(* ... and no job to wait. *)
LEMMA QuietJobs ==
    ASSUME \/ UNCHANGED job
           \/ \E j \in DOMAIN job, status \in Settled :
                 job' = [job EXCEPT ![j] = Finished(status)]
           \/ \E expired : job' = Abandoned(expired)
           \/ \E kept \in SUBSET DOMAIN job : job' = [j \in kept |-> job[j]]
    PROVE  JobsMove
<1>1. \A status \in Settled : Finished(status).status # "pending"
  BY DEF Finished, Settled
<1>2. CASE UNCHANGED job
  BY <1>2 DEF JobsMove
<1>3. CASE \E j \in DOMAIN job, status \in Settled :
              job' = [job EXCEPT ![j] = Finished(status)]
  BY <1>1, <1>3 DEF JobsMove
<1>4. CASE \E expired : job' = Abandoned(expired)
  BY <1>1, <1>4 DEF JobsMove, Abandoned, Settled
<1>5. CASE \E kept \in SUBSET DOMAIN job : job' = [j \in kept |-> job[j]]
  BY <1>5 DEF JobsMove
<1> QED
  BY <1>2, <1>3, <1>4, <1>5

(* Retention never reaches the present day or month. *)
LEMMA PresentBucketsKept ==
    ASSUME Rest, NEW p \in PeriodsOf(DayOf(now))
    PROVE  p \notin DueBuckets
<1> DEFINE today == DayOf(now)
<1>1. today \in Int /\ today - BudgetRetention \in Int /\ today - BudgetRetention <= today
  BY PeriodOK, RetentionAssumption DEF Rest
<1> HIDE DEF today
<1>2. /\ MonthOf(today) \in Int /\ MonthOf(today - BudgetRetention) \in Int
      /\ MonthOf(today - BudgetRetention) <= MonthOf(today)
  BY <1>1, MonotoneDivision, ClockAssumption DEF MonthOf
<1>3. /\ p[1] = "day" => p[2] = today
      /\ p[1] = "month" => p[2] = MonthOf(today)
  BY PeriodsDiffer DEF today
<1>4. \/ p[1] = "day" /\ p[2] < today - BudgetRetention
      \/ p[1] = "month" /\ p[2] < MonthOf(today - BudgetRetention)
      => FALSE
  BY <1>1, <1>2, <1>3, RetentionAssumption
<1> QED
  BY <1>4 DEF DueBuckets, today

LEMMA RetentionSpends ==
    ASSUME IInv, IInv', SpendInv, NEW w \in Workers, StartCycle(w) \/ DeleteSchedule(w)
    PROVE  SpendInv'
<1>0. Rest /\ NameInv /\ UNCHANGED <<now, proc, task, asked>> /\ SchedulesMove
  BY Parts, RetentionKeeps DEF StartCycle, DeleteSchedule
<1>1. JobsMove
  <2>1. \/ UNCHANGED job
        \/ job' = [j \in DOMAIN job \ DueJobs |-> job[j]]
        \/ \E s : job' = [j \in {i \in DOMAIN job : i[1] # s} |-> job[j]]
    BY DEF StartCycle, DeleteSchedule
  <2>2. \/ UNCHANGED job
        \/ \E kept \in SUBSET DOMAIN job : job' = [j \in kept |-> job[j]]
    BY <2>1
  <2> QED
    BY <2>2, QuietJobs
<1>2. ClaimsKept
  BY <1>0 DEF ClaimsKept
<1>3. ASSUME NEW p \in PeriodsOf(DayOf(now)) PROVE Reserved(p)' = Reserved(p)
  <2>1. \/ UNCHANGED bucket
        \/ bucket' = [q \in DOMAIN bucket \ DueBuckets |-> bucket[q]]
    BY DEF StartCycle, DeleteSchedule
  <2>2. p \notin DueBuckets
    BY <1>0, PresentBucketsKept
  <2> QED
    BY <2>1, <2>2 DEF Reserved
<1>4. now <= now'
  BY <1>0 DEF Rest
<1> QED
  BY <1>0, <1>1, <1>2, <1>3, <1>4, QuietSpends

LEMMA PlainSpends ==
    ASSUME IInv, IInv', SpendInv, UNCHANGED <<asked, bucket>>, now' \in {now, now + 1},
           SchedulesMove, JobsMove, ClaimsKept
    PROVE  SpendInv'
<1>1. now <= now'
  BY Parts DEF Rest
<1>2. \A p : Reserved(p)' = Reserved(p)
  BY DEF Reserved
<1> QED
  BY <1>1, <1>2, QuietSpends

LEMMA WorkerSpends ==
    ASSUME IInv, IInv', SpendInv, NEW w \in Workers,
           WorkerStep(w) \/ Start(w) \/ ProcessEnds(w)
    PROVE  SpendInv'
<1>0. Rest /\ NameInv
  BY Parts
<1>1. CASE Skip(w) \/ SaveFailure(w) \/ SaveRaises(w) \/ Start(w) \/ ProcessEnds(w)
           \/ SaveSuccess(w)
  <2>1. UNCHANGED <<now, bucket, asked>>
    BY <1>1 DEF Skip, SaveSuccess, SaveFailure, SaveRaises, Start, ProcessEnds, Crash, Close
  <2>2. SchedulesMove
    <3>1. CASE SaveSuccess(w)
      BY <3>1, SaveSuccessKeeps
    <3>2. CASE ~SaveSuccess(w)
      BY <1>1, <3>2
         DEF Skip, SaveFailure, SaveRaises, Start, ProcessEnds, Crash, Close,
             SchedulesMove, Moves
    <3> QED
      BY <3>1, <3>2
  <2>3. ClaimsKept
    <3>1. \/ UNCHANGED task \/ task' = [task EXCEPT ![w] = NoTask]
          \/ task' = [task EXCEPT ![w].step = "lost"]
      BY <1>1
         DEF Skip, SaveSuccess, SaveFailure, SaveRaises, Start, ProcessEnds, Crash, Close
    <3> QED
      BY <1>0, <3>1, QuietTasks
  <2>4. JobsMove
    <3>1. CASE Skip(w)
      BY <3>1, QuietJobs DEF Skip, Oldest, Settled
    <3>2. CASE SaveSuccess(w) \/ SaveFailure(w)
      BY <3>2, QuietJobs DEF SaveSuccess, SaveFailure, Processing, Settled
    <3>3. CASE SaveRaises(w) \/ Start(w) \/ ProcessEnds(w)
      BY <3>3, QuietJobs DEF SaveRaises, Start, ProcessEnds, Crash, Close
    <3> QED
      BY <1>1, <3>1, <3>2, <3>3
  <2> QED
    BY <2>1, <2>2, <2>3, <2>4, PlainSpends
<1> QED
  BY <1>1, ClaimSpends, AskSpends DEF WorkerStep

(* However edits, restarts, late answers and retention interleave: at most   *)
(* one request for a version of a schedule, and in no day and no month more  *)
(* of them, or more money, than the limits allow.                            *)
THEOREM SpendingCapped == Spec => []SpendingIsCapped
<1>1. CleanupInit => SpendInv
  <2>1. ASSUME CleanupInit PROVE SpendInv
    <3>1. /\ DOMAIN asked = {} /\ now = 0
          /\ \A w \in Workers : task[w].step = "none"
      BY <2>1, NoTaskOK DEF CleanupInit, Init
    <3>2. \A p : Reserving(p) = {} /\ Cardinality(Reserving(p)) = 0
      BY <3>1, FS_EmptySet DEF Reserving
    <3>3. \A p \in Periods : Within(p)
      BY <3>2, BudgetAssumption DEF Within
    <3>4. \A p : Reserved(p) \in Nat
      BY <2>1, InitIInv, Parts, ReservedIs
    <3>5. BudgetInv
      BY <3>1, <3>2, <3>3, <3>4, FS_EmptySet DEF BudgetInv
    <3> QED
      BY <3>1, <3>5 DEF SpendInv, UsedInv, ClaimedInv
  <2> QED
    BY <2>1
<1>2. ASSUME IInv, IInv', SpendInv, [Next]_vars
      PROVE  SpendInv'
  <2>0. Rest /\ NameInv
    BY <1>2, Parts
  <2>1. CASE \E w \in Workers : WorkerStep(w) \/ Start(w) \/ ProcessEnds(w)
    BY <1>2, <2>1, WorkerSpends
  <2>2. CASE \E w \in Workers : StartCycle(w) \/ DeleteSchedule(w)
    BY <1>2, <2>2, RetentionSpends
  <2>3. CASE \E s \in Schedules : Command(s)
    <3>1. SchedulesMove /\ JobsMove /\ UNCHANGED <<asked, bucket, now, task>>
      BY <1>2, <2>3, CommandKeeps DEF Command, Create, EditContent, EditName, Advance
    <3> QED
      BY <1>2, <3>1, PlainSpends DEF ClaimsKept
  <2>4. CASE \E s \in Schedules : Conclude(s)
    <3>1. SchedulesMove /\ UNCHANGED <<asked, bucket, now, task, job>>
      BY <1>2, <2>4, ConcludeKeeps DEF Conclude
    <3> QED
      BY <1>2, <3>1, PlainSpends, QuietJobs DEF ClaimsKept
  <2>5. CASE Tick \/ UNCHANGED nameVars
    <3>1. now' \in {now, now + 1} /\ UNCHANGED <<schedule, asked, bucket, task, job>>
      BY <2>5 DEF Tick, nameVars
    <3>2. SchedulesMove /\ JobsMove /\ ClaimsKept
      BY <3>1, QuietJobs DEF ClaimsKept, SchedulesMove, Moves
    <3> QED
      BY <1>2, <3>1, <3>2, PlainSpends
  <2> QED
    BY <1>2, <2>1, <2>2, <2>3, <2>4, <2>5
       DEF Next, NameStep, DeleteFails, EndCycle, BreakCycle, WorkEnds, vars
<1>3. IInv /\ SpendInv => SpendingIsCapped
  <2>1. ASSUME IInv, SpendInv, NEW j \in DOMAIN asked
        PROVE  LET month == <<"month", MonthOf(asked[j].day)>> IN
               /\ asked[j].requests <= 1
               /\ Requested(<<"day", asked[j].day>>) <= DailyLimit
               /\ Requested(month) <= MonthlyLimit
               /\ Requested(month) * Cost <= MonthlyCostLimit
    <3> DEFINE day == <<"day", asked[j].day>>
               month == <<"month", MonthOf(asked[j].day)>>
    <3>1. asked[j].day \in Nat
      BY <2>1, Parts, AskedFacts
    <3>2. day \in Periods /\ month \in Periods
      BY <3>1, DivNat, ClockAssumption DEF Periods, MonthOf
    <3>3. Within(day) /\ Within(month) /\ day[1] = "day" /\ month[1] = "month"
      BY <2>1, <3>2 DEF SpendInv, BudgetInv
    <3>4. ASSUME NEW p
          PROVE  /\ Requested(p) \in Nat /\ Cardinality(Reserving(p)) \in Nat
                 /\ Requested(p) <= Cardinality(Reserving(p))
      <4> DEFINE sent == {i \in DOMAIN asked : /\ asked[i].requests > 0
                                               /\ p \in PeriodsOf(asked[i].day)}
      <4>1. sent \subseteq Reserving(p)
        BY DEF Reserving
      <4>2. IsFiniteSet(Reserving(p)) /\ Cardinality(Reserving(p)) \in Nat
        BY <2>1, CountsAre DEF SpendInv
      <4>3. Cardinality(sent) \in Nat /\ Cardinality(sent) <= Cardinality(Reserving(p))
        BY <4>1, <4>2, FS_Subset, FS_CardinalityType
      <4> QED
        BY <4>2, <4>3 DEF Requested
    <3>5. DailyLimit \in Nat /\ MonthlyLimit \in Nat /\ MonthlyCostLimit \in Nat /\ Cost \in Nat
      BY BudgetAssumption
    <3> DEFINE count == Cardinality(Reserving(month))
    <3>6. /\ Requested(month) \in Nat /\ count \in Nat /\ Requested(month) <= count
          /\ count <= MonthlyLimit /\ count * Cost <= MonthlyCostLimit
      BY <3>3, <3>4 DEF Within
    <3>7. Requested(day) <= DailyLimit
      BY <3>3, <3>4, <3>5 DEF Within
    <3> HIDE DEF day, month, count
    <3>8. Requested(month) * Cost <= count * Cost
      BY <3>5, <3>6, MonotoneTimes
    <3>9. Requested(month) * Cost \in Int /\ count * Cost \in Int
      BY <3>5, <3>6
    <3>10. Requested(month) * Cost <= MonthlyCostLimit
      BY <3>5, <3>6, <3>8, <3>9
    <3>11. Requested(month) <= MonthlyLimit
      BY <3>5, <3>6
    <3> QED
      BY <2>1, <3>7, <3>10, <3>11 DEF SpendInv, ClaimedInv, day, month
  <2> QED
    BY <2>1 DEF SpendingIsCapped
<1> QED
  BY <1>1, <1>2, <1>3, Inductive, PTL DEF Spec

=============================================================================
