--------------------------- MODULE DeliveryProofs ---------------------------
(* Theorems about Delivery, for any number of runs, processes and attempts,  *)
(* any delays and batch sizes; with or without contention where a theorem    *)
(* does not say so.  The last two sections show that a live lease is         *)
(* respected and that Delivery implements PublishOnce.                       *)
EXTENDS Delivery, FiniteSetTheorems, TLAPS

-----------------------------------------------------------------------------
(* Type correctness *)

(* The conditional UPDATEs of one run, one attempt, one task are well typed. *)
LEMMA FinishedType ==
    ASSUME TypeOK, NEW r \in Runs, NEW status \in RunStatuses,
           NEW retryAt \in Nat
    PROVE  /\ Finished(r, status, retryAt) \in RunRow
           /\ SetRun(r, status, retryAt) => run' \in [Runs -> RunRow]
<1>1. run \in [Runs -> RunRow]
  BY DEF TypeOK
<1>2. Finished(r, status, retryAt) \in RunRow
  BY <1>1 DEF Finished, RunRow
<1> QED  BY <1>1, <1>2 DEF SetRun

LEMMA SetAttemptType ==
    ASSUME TypeOK, NEW r \in Runs, NEW n \in Attempts,
           NEW status \in AttemptStatuses
    PROVE  /\ [attempt[r] EXCEPT ![n].status = status]
                 \in [Attempts -> AttemptRow]
           /\ SetAttempt(r, n, status) =>
                 attempt' \in [Runs -> [Attempts -> AttemptRow]]
<1>1. attempt \in [Runs -> [Attempts -> AttemptRow]]
  BY DEF TypeOK
<1>2. attempt[r] \in [Attempts -> AttemptRow] /\ attempt[r][n] \in AttemptRow
  BY <1>1
<1>3. [attempt[r][n] EXCEPT !.status = status] \in AttemptRow
  BY <1>2 DEF AttemptRow
<1>4. [attempt[r] EXCEPT ![n] = [attempt[r][n] EXCEPT !.status = status]]
        \in [Attempts -> AttemptRow]
  BY <1>2, <1>3
<1>5. [attempt EXCEPT ![r] =
          [attempt[r] EXCEPT ![n] = [attempt[r][n] EXCEPT !.status = status]]]
        \in [Runs -> [Attempts -> AttemptRow]]
  BY <1>1, <1>4
<1> QED  BY <1>4, <1>5 DEF SetAttempt

LEMMA SetTaskType ==
    ASSUME TypeOK, NEW r \in Runs, NEW n \in Attempts, NEW step \in Steps,
           NEW retryAt \in Nat, SetTask(r, n, step, retryAt)
    PROVE  task' \in [Runs -> [Attempts -> TaskRecord]]
<1>1. task \in [Runs -> [Attempts -> TaskRecord]]
  BY DEF TypeOK
<1>2. [task[r] EXCEPT ![n] = [step |-> step, retry_at |-> retryAt]]
        \in [Attempts -> TaskRecord]
  BY <1>1 DEF TaskRecord
<1> QED  BY <1>1, <1>2 DEF SetTask

(* What one batch of startup recovery writes is well typed. *)
LEMMA RecoveredType ==
    ASSUME TypeOK, NEW r \in Runs, NEW cutoff \in Nat
    PROVE  /\ RecoveredRun(r, cutoff) \in RunRow
           /\ RecoveredAttempts(r) \in [Attempts -> AttemptRow]
           /\ RecoveryEvents(r) \subseteq Runs \X EventTypes
<1>1. ReturnsToPending(r) => cutoff + RetryDelay[run[r].attempt_count] \in Nat
  <2>1. SUFFICES ASSUME ReturnsToPending(r)
                 PROVE  cutoff + RetryDelay[run[r].attempt_count] \in Nat
    OBVIOUS
  <2>2. run[r].attempt_count \in 1..MaxAttempts
    BY <2>1 DEF ReturnsToPending, InterruptedBeforeSend, IsConsistent, Attempts
  <2> QED  BY <2>2, TimeAssumption, SMTT(30)
<1>2. RecoveredRun(r, cutoff) \in RunRow
  BY <1>1, FinishedType DEF RecoveredRun, RunStatuses
<1>3. RecoveredAttempts(r) \in [Attempts -> AttemptRow]
  <2>1. CASE IsConsistent(r)
    <3>1. run[r].attempt_count \in Attempts
      BY <2>1 DEF IsConsistent
    <3> DEFINE result == IF InterruptedBeforeSend(r) THEN "failed"
                                                     ELSE "unknown"
    <3>2. result \in AttemptStatuses
      BY DEF AttemptStatuses
    <3> QED  BY <2>1, <3>1, <3>2, SetAttemptType DEF RecoveredAttempts
  <2>2. CASE ~IsConsistent(r)
    BY <2>2 DEF RecoveredAttempts, TypeOK
  <2> QED  BY <2>1, <2>2
<1>4. RecoveryEvents(r) \subseteq Runs \X EventTypes
  BY DEF RecoveryEvents, EventTypes
<1> QED  BY <1>2, <1>3, <1>4

LEMMA PendingEventsType ==
    ASSUME NEW r \in Runs
    PROVE  PendingEvents(r) \subseteq Runs \X EventTypes
BY DEF PendingEvents, EventTypes

(* The phase a batch leads to is one of the process's phases. *)
LEMMA AfterBatchType ==
    ASSUME NEW p \in ProcessRecord,
           NEW size, NEW next \in Phases
    PROVE  AfterBatch(p, size, next)
             \in ProcessRecord
<1> USE DEF ProcessRecord
<1>1. Process(next, p.cutoff) \in ProcessRecord
  BY DEF Process
<1>2. Process("inert", 0) \in ProcessRecord
  BY DEF Process, Phases
<1>3. [p EXCEPT !.batches = p.batches + 1]
        \in ProcessRecord
  OBVIOUS
<1> QED  BY <1>1, <1>2, <1>3 DEF AfterBatch

LEMMA InitType == Init => TypeOK
<1> SUFFICES ASSUME Init PROVE TypeOK
  OBVIOUS
<1> USE DEF Init, RunRow, AttemptRow, TaskRecord, ProcessRecord
<1>1. /\ now \in Nat
      /\ outbox \subseteq Runs \X EventTypes
      /\ schedule \in [Runs -> ScheduleStatuses]
  BY DEF ScheduleStatuses
<1>2. proc \in [Workers -> ProcessRecord]
  BY DEF Process, Phases
<1>3. run \in [Runs -> RunRow]
  BY TimeAssumption, AttemptAssumption DEF RunStatuses
<1>4. /\ attempt \in [Runs -> [Attempts -> AttemptRow]]
      /\ task \in [Runs -> [Attempts -> TaskRecord]]
      /\ post \in [Runs -> [Attempts -> Posts]]
  BY DEF AttemptStatuses, NoTask, Steps, Posts
<1> QED  BY <1>1, <1>2, <1>3, <1>4 DEF TypeOK

LEMMA StepType == TypeOK /\ [Next]_vars => TypeOK'
<1> SUFFICES ASSUME TypeOK, [Next]_vars PROVE TypeOK'
  OBVIOUS
<1> USE DEF TypeOK, db, RunRow, AttemptRow, TaskRecord, ProcessRecord
<1>1. CASE Tick
  BY <1>1 DEF Tick
<1>2. ASSUME NEW w \in Workers, Start(w) PROVE TypeOK'
  BY <1>2 DEF Start, Process, Phases
<1>13. ASSUME NEW w \in Workers, StartLoops(w) PROVE TypeOK'
  BY <1>13 DEF StartLoops, Process, Phases
<1>3. ASSUME NEW w \in Workers, Crash(w) PROVE TypeOK'
  BY <1>3 DEF Crash, Process, Phases, NoTask, Steps
<1>4. ASSUME NEW w \in Workers, StartupFails(w) PROVE TypeOK'
  BY <1>4 DEF StartupFails, Process, Phases
<1>5. ASSUME NEW w \in Workers, RecoverProcessing(w) PROVE TypeOK'
  <2>1. PICK S \in SUBSET Runs :
          /\ run' = [r \in Runs |-> IF r \in S
                       THEN RecoveredRun(r, proc[w].cutoff) ELSE run[r]]
          /\ attempt' = [r \in Runs |-> IF r \in S
                           THEN RecoveredAttempts(r) ELSE attempt[r]]
          /\ schedule' = [r \in Runs |-> IF r \in S /\ ~ReturnsToPending(r)
                            THEN FinalizedSchedule(r, "failed")
                            ELSE schedule[r]]
          /\ outbox' = outbox \cup (UNION {RecoveryEvents(r) : r \in S})
          /\ proc' = [proc EXCEPT ![w] =
                AfterBatch(proc[w], Cardinality(S), "recover_pending")]
    BY <1>5 DEF RecoverProcessing, Selections, ExpiredProcessing
  <2>2. /\ run' \in [Runs -> RunRow]
        /\ attempt' \in [Runs -> [Attempts -> AttemptRow]]
    BY <2>1, RecoveredType
  <2>3. schedule' \in [Runs -> ScheduleStatuses]
    BY <2>1 DEF FinalizedSchedule, Target, ScheduleStatuses
  <2>4. outbox' \subseteq Runs \X EventTypes
    BY <2>1, RecoveredType
  <2>5. proc' \in [Workers -> ProcessRecord]
    BY <2>1, AfterBatchType DEF Phases
  <2> QED  BY <1>5, <2>2, <2>3, <2>4, <2>5 DEF RecoverProcessing
<1>6. ASSUME NEW w \in Workers, RecoverPending(w) PROVE TypeOK'
  <2>1. PICK S \in SUBSET Runs, D \in SUBSET Runs :
          /\ run' = [r \in Runs |-> IF r \in S
                       THEN Finished(r, PendingOutcome(r), 0) ELSE run[r]]
          /\ schedule' = [r \in Runs |-> IF r \in S /\ schedule[r] = "active"
                            THEN "failed" ELSE schedule[r]]
          /\ outbox' = outbox \cup (UNION {PendingEvents(r) : r \in S})
                              \cup {<<r, "run_delayed">> : r \in D}
          /\ proc' = [proc EXCEPT ![w] =
                AfterBatch(proc[w], Cardinality(S) + Cardinality(D),
                           "recover_rest")]
    BY <1>6 DEF RecoverPending, Selections, StartupPending, StartupDelayed
  <2>2. run' \in [Runs -> RunRow]
    BY <2>1, FinishedType DEF PendingOutcome, RunStatuses
  <2>3. schedule' \in [Runs -> ScheduleStatuses]
    BY <2>1 DEF ScheduleStatuses
  <2>4. outbox' \subseteq Runs \X EventTypes
    <3> DEFINE settled == UNION {PendingEvents(r) : r \in S}
               delayed == {<<r, "run_delayed">> : r \in D}
    <3>1. settled \subseteq Runs \X EventTypes
      BY PendingEventsType
    <3>2. delayed \subseteq Runs \X EventTypes
      BY DEF EventTypes
    <3>3. outbox' = outbox \cup settled \cup delayed
      BY <2>1
    <3> HIDE DEF settled, delayed
    <3> QED  BY <3>1, <3>2, <3>3
  <2>5. proc' \in [Workers -> ProcessRecord]
    BY <2>1, AfterBatchType DEF Phases
  <2> QED  BY <1>6, <2>2, <2>3, <2>4, <2>5 DEF RecoverPending
<1>7. ASSUME NEW w \in Workers, Claim(w) PROVE TypeOK'
  <2>1. PICK S \in SUBSET Due :
          /\ run' = [r \in Runs |->
                IF r \in S
                THEN [status |-> "processing",
                      attempt_count |-> run[r].attempt_count + 1,
                      next_attempt_at |-> 0, claimed_by |-> w,
                      lease_expires_at |-> now + LeaseTimeout]
                ELSE run[r]]
          /\ attempt' = [r \in Runs |-> [n \in Attempts |->
                IF r \in S /\ n = run[r].attempt_count + 1
                THEN [status |-> "claimed", claimed_by |-> w]
                ELSE attempt[r][n]]]
          /\ task' = [r \in Runs |-> [n \in Attempts |->
                IF r \in S /\ n = run[r].attempt_count + 1
                THEN [step |-> "prepare", retry_at |-> 0]
                ELSE task[r][n]]]
    BY <1>7 DEF Claim, Selections
  <2>2. run' \in [Runs -> RunRow]
    <3>1. \A r \in S : run[r].attempt_count + 1 \in 0..MaxAttempts
      BY AttemptAssumption DEF Due
    <3> QED  BY <2>1, <3>1, TimeAssumption, SMTT(30) DEF RunStatuses
  <2>3. /\ attempt' \in [Runs -> [Attempts -> AttemptRow]]
        /\ task' \in [Runs -> [Attempts -> TaskRecord]]
    BY <2>1 DEF AttemptStatuses, Steps
  <2> QED  BY <1>7, <2>2, <2>3 DEF Claim
<1>8. ASSUME NEW r \in Runs, NEW n \in Attempts, TaskStep(r, n) PROVE TypeOK'
  <2> USE DEF AttemptStatuses, RunStatuses, Steps
  <2>1. CASE PrepareSend(r, n)
    BY <2>1, SetAttemptType, SetTaskType DEF PrepareSend
  <2>2. CASE PrepareSkip(r, n)
    <3>1. attempt' \in [Runs -> [Attempts -> AttemptRow]]
      BY <2>2, SetAttemptType DEF PrepareSkip
    <3>2. run' \in [Runs -> RunRow]
      BY <2>2, FinishedType DEF PrepareSkip
    <3>3. task' \in [Runs -> [Attempts -> TaskRecord]]
      BY <2>2, SetTaskType DEF PrepareSkip
    <3>4. outbox' \subseteq Runs \X EventTypes
      BY <2>2 DEF PrepareSkip, EventTypes
    <3> QED  BY <2>2, <3>1, <3>2, <3>3, <3>4 DEF PrepareSkip
  <2>3. CASE Send(r, n)
    BY <2>3, SetTaskType DEF Send, Posts
  <2>4. CASE SendRefusedLocally(r, n)
    <3>1. \A delay \in 1..MaxRetryAfter : now + delay \in Nat
      BY TimeAssumption
    <3> QED  BY <2>4, <3>1, SetTaskType DEF SendRefusedLocally
  <2>5. CASE ReplyAccepted(r, n)
    BY <2>5, SetTaskType DEF ReplyAccepted
  <2>6. CASE ReplyRefused(r, n)
    <3>1. \A delay \in 1..MaxRetryAfter : now + delay \in Nat
      BY TimeAssumption
    <3> QED  BY <2>6, <3>1, SetTaskType DEF ReplyRefused
  <2>7. CASE ReplyUnknown(r, n)
    BY <2>7, SetTaskType DEF ReplyUnknown
  <2>8. CASE SaveSuccess(r, n)
    <3>1. attempt' \in [Runs -> [Attempts -> AttemptRow]]
      BY <2>8, SetAttemptType DEF SaveSuccess
    <3>2. run' \in [Runs -> RunRow]
      BY <2>8, FinishedType DEF SaveSuccess
    <3>3. task' \in [Runs -> [Attempts -> TaskRecord]]
      BY <2>8, SetTaskType DEF SaveSuccess
    <3> QED  BY <2>8, <3>1, <3>2, <3>3 DEF SaveSuccess
  <2>9. CASE SaveRetry(r, n)
    <3>1. attempt' \in [Runs -> [Attempts -> AttemptRow]]
      BY <2>9, SetAttemptType DEF SaveRetry
    <3>2. run' \in [Runs -> RunRow]
      <4>1. task[r][n].retry_at \in Nat
        OBVIOUS
      <4> QED  BY <2>9, <4>1, FinishedType DEF SaveRetry
    <3>3. task' \in [Runs -> [Attempts -> TaskRecord]]
      BY <2>9, SetTaskType DEF SaveRetry
    <3> QED  BY <2>9, <3>1, <3>2, <3>3 DEF SaveRetry
  <2>10. CASE SaveFailure(r, n)
    <3>1. attempt' \in [Runs -> [Attempts -> AttemptRow]]
      BY <2>10, SetAttemptType DEF SaveFailure
    <3>2. run' \in [Runs -> RunRow]
      BY <2>10, FinishedType DEF SaveFailure
    <3>3. task' \in [Runs -> [Attempts -> TaskRecord]]
      BY <2>10, SetTaskType DEF SaveFailure
    <3>4. outbox' \subseteq Runs \X EventTypes
      BY <2>10 DEF SaveFailure, EventTypes
    <3> QED  BY <2>10, <3>1, <3>2, <3>3, <3>4 DEF SaveFailure
  <2>11. CASE SaveUnknown(r, n)
    <3>1. attempt' \in [Runs -> [Attempts -> AttemptRow]]
      BY <2>11, SetAttemptType DEF SaveUnknown
    <3>2. run' \in [Runs -> RunRow]
      BY <2>11, FinishedType DEF SaveUnknown
    <3>3. task' \in [Runs -> [Attempts -> TaskRecord]]
      BY <2>11, SetTaskType DEF SaveUnknown
    <3>4. outbox' \subseteq Runs \X EventTypes
      BY <2>11 DEF SaveUnknown, EventTypes
    <3> QED  BY <2>11, <3>1, <3>2, <3>3, <3>4 DEF SaveUnknown
  <2>12. CASE Finalize(r, n)
    BY <2>12, SetTaskType
       DEF Finalize, FinalizedSchedule, Target, ScheduleStatuses
  <2>13. CASE Raise(r, n)
    BY <2>13, SetTaskType DEF Raise
  <2> QED  BY <1>8, <2>1, <2>2, <2>3, <2>4, <2>5, <2>6, <2>7, <2>8, <2>9,
              <2>10, <2>11, <2>12, <2>13 DEF TaskStep
<1>9. ASSUME NEW r \in Runs, NEW n \in Attempts, Discord(r, n) PROVE TypeOK'
  BY <1>9 DEF Discord, Posts
<1>10. ASSUME NEW r \in Runs, EditContent(r) PROVE TypeOK'
  BY <1>10 DEF EditContent, ScheduleStatuses
<1>11. ASSUME NEW r \in Runs, Delete(r) PROVE TypeOK'
  BY <1>11, FinishedType DEF Delete, ScheduleStatuses, RunStatuses
<1>12. CASE UNCHANGED vars
  BY <1>12 DEF vars
<1> QED  BY <1>1, <1>2, <1>3, <1>4, <1>5, <1>6, <1>7, <1>8, <1>9, <1>10,
            <1>11, <1>12, <1>13 DEF Next, StartupStep

(* Every reachable state is well typed. *)
THEOREM TypeCorrect == Spec => []TypeOK
BY InitType, StepType, PTL DEF Spec

-----------------------------------------------------------------------------
(* The inductive invariant *)

(* What the conditional UPDATEs leave in every row and task. *)
LEMMA SetAttemptAt ==
    ASSUME TypeOK, NEW r \in Runs, NEW n \in Attempts, NEW status,
           SetAttempt(r, n, status)
    PROVE  \A q \in Runs, m \in Attempts :
              /\ attempt'[q][m].claimed_by = attempt[q][m].claimed_by
              /\ attempt'[q][m].status = IF q = r /\ m = n THEN status
                                         ELSE attempt[q][m].status
<1>1. /\ DOMAIN attempt = Runs
      /\ \A q \in Runs : DOMAIN attempt[q] = Attempts
      /\ \A q \in Runs, m \in Attempts :
            DOMAIN attempt[q][m] = {"status", "claimed_by"}
  BY DEF TypeOK, AttemptRow
<1> QED  BY <1>1 DEF SetAttempt

LEMMA SetTaskAt ==
    ASSUME TypeOK, NEW r \in Runs, NEW n \in Attempts, NEW step, NEW retryAt,
           SetTask(r, n, step, retryAt)
    PROVE  \A q \in Runs, m \in Attempts :
              task'[q][m].step = IF q = r /\ m = n THEN step
                                 ELSE task[q][m].step
BY DEF SetTask, TypeOK

LEMMA SetRunAt ==
    ASSUME TypeOK, NEW r \in Runs, NEW status, NEW retryAt,
           SetRun(r, status, retryAt)
    PROVE  \A q \in Runs :
              /\ run'[q].attempt_count = run[q].attempt_count
              /\ run'[q].status = IF q = r THEN status ELSE run[q].status
              /\ run'[q].claimed_by = IF q = r THEN NoWorker
                                      ELSE run[q].claimed_by
BY DEF SetRun, Finished, TypeOK, RunRow

(* The invariant of one run. *)
LEMMA InvHolds == Init => DeliveryInv
<1> SUFFICES ASSUME Init, NEW r \in Runs
             PROVE  /\ CountInv(r) /\ SkipInv(r)
                    /\ \A n \in Attempts : /\ NumberingInv(r, n)
                                            /\ LatestInv(r, n)
                                            /\ RequestInv(r, n)
                                            /\ StepInv(r, n)
  BY DEF DeliveryInv
<1>1. run[r].attempt_count = 0 /\ run[r].status = "pending"
  BY DEF Init
<1>2. CountInv(r) /\ SkipInv(r)
  BY <1>1, AttemptAssumption DEF CountInv, SkipInv
<1>3. ASSUME NEW n \in Attempts
      PROVE  /\ NumberingInv(r, n) /\ LatestInv(r, n)
             /\ RequestInv(r, n) /\ StepInv(r, n)
  <2>1. /\ attempt[r][n].status = "none" /\ task[r][n].step = "none"
        /\ post[r][n] = "none"
    BY DEF Init, NoTask
  <2>2. n \in Nat /\ n > 0
    BY AttemptAssumption DEF Attempts
  <2> QED  BY <1>1, <2>1, <2>2
           DEF NumberingInv, LatestInv, RequestInv, StepInv, Step
<1> QED  BY <1>2, <1>3

(* A step of a task preserves the invariant, also when its claim was lost. *)
LEMMA TaskStepInv ==
    ASSUME TypeOK, DeliveryInv, NEW r \in Runs, NEW n \in Attempts,
           TaskStep(r, n)
    PROVE  DeliveryInv'
<1> SUFFICES ASSUME NEW q \in Runs, NEW m \in Attempts
             PROVE  /\ CountInv(q)' /\ SkipInv(q)'
                    /\ NumberingInv(q, m)' /\ LatestInv(q, m)'
                    /\ RequestInv(q, m)' /\ StepInv(q, m)'
  BY DEF DeliveryInv
<1>1. /\ CountInv(q) /\ SkipInv(q)
      /\ NumberingInv(q, m) /\ LatestInv(q, m)
      /\ RequestInv(q, m) /\ StepInv(q, m)
      /\ CountInv(r) /\ SkipInv(r)
      /\ NumberingInv(r, n) /\ LatestInv(r, n)
      /\ RequestInv(r, n) /\ StepInv(r, n)
  BY DEF DeliveryInv
<1>2. /\ n \in Nat /\ m \in Nat /\ MaxAttempts \in Nat
      /\ run[r].attempt_count \in 0..MaxAttempts
      /\ run[q].attempt_count \in 0..MaxAttempts
      /\ n <= MaxAttempts
      /\ post \in [Runs -> [Attempts -> Posts]]
      /\ attempt[r][n].status \in AttemptStatuses
      /\ run[r].status \in RunStatuses
  BY AttemptAssumption DEF TypeOK, RunRow, AttemptRow, Attempts
<1> USE DEF CountInv, SkipInv, NumberingInv, LatestInv, RequestInv, StepInv,
            Step
<1>3. CASE PrepareSend(r, n)
  BY <1>1, <1>2, <1>3, SetAttemptAt, SetTaskAt DEF PrepareSend, Holds
<1>4. CASE PrepareSkip(r, n)
  BY <1>1, <1>2, <1>4, SetAttemptAt, SetTaskAt, SetRunAt, SMTT(40)
     DEF PrepareSkip, Holds
<1>5. CASE Send(r, n)
  BY <1>1, <1>2, <1>5, SetTaskAt DEF Send, db
<1>6. CASE SendRefusedLocally(r, n)
  BY <1>1, <1>2, <1>6, SetTaskAt DEF SendRefusedLocally, db
<1>7. CASE ReplyAccepted(r, n)
  BY <1>1, <1>2, <1>7, SetTaskAt DEF ReplyAccepted, db
<1>8. CASE ReplyRefused(r, n)
  BY <1>1, <1>2, <1>8, SetTaskAt DEF ReplyRefused, db
<1>9. CASE ReplyUnknown(r, n)
  BY <1>1, <1>2, <1>9, SetTaskAt DEF ReplyUnknown, db
<1>10. CASE SaveSuccess(r, n)
  BY <1>1, <1>2, <1>10, SetAttemptAt, SetTaskAt, SetRunAt, SMTT(40)
     DEF SaveSuccess, Holds
<1>11. CASE SaveRetry(r, n)
  BY <1>1, <1>2, <1>11, SetAttemptAt, SetTaskAt, SetRunAt, SMTT(40)
     DEF SaveRetry, Holds
<1>12. CASE SaveFailure(r, n)
  BY <1>1, <1>2, <1>12, SetAttemptAt, SetTaskAt, SetRunAt, SMTT(40)
     DEF SaveFailure, Holds
<1>13. CASE SaveUnknown(r, n)
  BY <1>1, <1>2, <1>13, SetAttemptAt, SetTaskAt, SetRunAt, SMTT(40)
     DEF SaveUnknown, Holds
<1>14. CASE Finalize(r, n)
  BY <1>1, <1>2, <1>14, SetTaskAt
     DEF Finalize, FinalizedSchedule, Target, TypeOK
<1>15. CASE Raise(r, n)
  BY <1>1, <1>2, <1>15, SetTaskAt DEF Raise, db
<1> QED  BY <1>3, <1>4, <1>5, <1>6, <1>7, <1>8, <1>9, <1>10, <1>11, <1>12,
            <1>13, <1>14, <1>15, TaskStep(r, n) DEF TaskStep

(* The facts about one run and one attempt that the other steps use. *)
LEMMA InvAt ==
    ASSUME TypeOK, DeliveryInv, NEW q \in Runs, NEW m \in Attempts
    PROVE  /\ CountInv(q) /\ SkipInv(q)
           /\ NumberingInv(q, m) /\ LatestInv(q, m)
           /\ RequestInv(q, m) /\ StepInv(q, m)
           /\ m \in Nat /\ m > 0 /\ m <= MaxAttempts /\ MaxAttempts \in Nat
           /\ run[q].attempt_count \in 0..MaxAttempts
           /\ run[q].status \in RunStatuses
           /\ attempt[q][m].status \in AttemptStatuses
           /\ task[q][m].step \in Steps
           /\ post[q][m] \in Posts
<1>1. /\ m \in Nat /\ m > 0 /\ m <= MaxAttempts /\ MaxAttempts \in Nat
  BY AttemptAssumption DEF Attempts
<1>2. run[q] \in RunRow /\ attempt[q][m] \in AttemptRow
      /\ task[q][m] \in TaskRecord /\ post[q][m] \in Posts
  BY DEF TypeOK
<1>3. /\ run[q].attempt_count \in 0..MaxAttempts
      /\ run[q].status \in RunStatuses
      /\ attempt[q][m].status \in AttemptStatuses
      /\ task[q][m].step \in Steps
  BY <1>2 DEF RunRow, AttemptRow, TaskRecord
<1> QED  BY <1>1, <1>2, <1>3 DEF DeliveryInv

(* It is enough to show the invariant of every run and attempt separately. *)
LEMMA InvFromParts ==
    ASSUME \A q \in Runs, m \in Attempts :
              /\ CountInv(q) /\ SkipInv(q)
              /\ NumberingInv(q, m) /\ LatestInv(q, m)
              /\ RequestInv(q, m) /\ StepInv(q, m)
    PROVE  DeliveryInv
BY AttemptAssumption DEF DeliveryInv, Attempts

(* A crash forgets tasks, and nothing else the invariant speaks of. *)
LEMMA CrashInv ==
    ASSUME TypeOK, DeliveryInv, NEW w \in Workers, Crash(w)
    PROVE  DeliveryInv'
<1> SUFFICES ASSUME NEW q \in Runs, NEW m \in Attempts
             PROVE  /\ CountInv(q)' /\ SkipInv(q)'
                    /\ NumberingInv(q, m)' /\ LatestInv(q, m)'
                    /\ RequestInv(q, m)' /\ StepInv(q, m)'
  BY AttemptAssumption DEF DeliveryInv, Attempts
<1>1. /\ task'[q][m].step \in {"none", task[q][m].step}
      /\ UNCHANGED <<schedule, run, attempt, post>>
  BY DEF Crash, NoTask, db
<1> QED  BY <1>1, InvAt
         DEF CountInv, SkipInv, NumberingInv, LatestInv, RequestInv, StepInv,
             Step

(* A claim opens the next attempt of a waiting run. *)
LEMMA ClaimInv ==
    ASSUME TypeOK, DeliveryInv, NEW w \in Workers, Claim(w)
    PROVE  DeliveryInv'
<1> SUFFICES ASSUME NEW q \in Runs, NEW m \in Attempts
             PROVE  /\ CountInv(q)' /\ SkipInv(q)'
                    /\ NumberingInv(q, m)' /\ LatestInv(q, m)'
                    /\ RequestInv(q, m)' /\ StepInv(q, m)'
  BY AttemptAssumption DEF DeliveryInv, Attempts
<1>1. PICK S \in SUBSET Due :
          /\ run' = [r \in Runs |->
                IF r \in S
                THEN [status |-> "processing",
                      attempt_count |-> run[r].attempt_count + 1,
                      next_attempt_at |-> 0, claimed_by |-> w,
                      lease_expires_at |-> now + LeaseTimeout]
                ELSE run[r]]
          /\ attempt' = [r \in Runs |-> [n \in Attempts |->
                IF r \in S /\ n = run[r].attempt_count + 1
                THEN [status |-> "claimed", claimed_by |-> w]
                ELSE attempt[r][n]]]
          /\ task' = [r \in Runs |-> [n \in Attempts |->
                IF r \in S /\ n = run[r].attempt_count + 1
                THEN [step |-> "prepare", retry_at |-> 0]
                ELSE task[r][n]]]
          /\ UNCHANGED <<schedule, post>>
  BY DEF Claim, Selections
<1>2. CASE q \notin S
  <2>1. /\ run'[q] = run[q] /\ attempt'[q][m] = attempt[q][m]
        /\ task'[q][m] = task[q][m] /\ UNCHANGED <<schedule, post>>
    BY <1>1, <1>2
  <2> QED  BY <2>1, InvAt
           DEF CountInv, SkipInv, NumberingInv, LatestInv, RequestInv,
               StepInv, Step
<1>3. CASE q \in S
  <2>1. run[q].status = "pending"
    BY <1>3 DEF Due
  <2>2. /\ run'[q].status = "processing" /\ run'[q].claimed_by = w
        /\ run'[q].attempt_count = run[q].attempt_count + 1
    BY <1>1, <1>3
  <2>3. CASE m = run[q].attempt_count + 1
    <3>1. /\ attempt'[q][m].status = "claimed"
          /\ attempt'[q][m].claimed_by = w
          /\ task'[q][m].step = "prepare"
          /\ post'[q][m] = post[q][m]
      BY <1>1, <1>3, <2>3
    <3>2. post[q][m] = "none"
      BY <2>3, InvAt DEF NumberingInv, RequestInv
    <3> QED  BY <2>2, <2>3, <3>1, <3>2, InvAt
             DEF CountInv, SkipInv, NumberingInv, LatestInv, RequestInv,
                 StepInv, Step
  <2>4. CASE m # run[q].attempt_count + 1
    <3>1. /\ attempt'[q][m] = attempt[q][m] /\ task'[q][m] = task[q][m]
          /\ post'[q][m] = post[q][m]
      BY <1>1, <1>3, <2>4
    <3> QED  BY <2>1, <2>2, <2>4, <3>1, InvAt, SMTT(30)
             DEF CountInv, SkipInv, NumberingInv, LatestInv, RequestInv,
                 StepInv, Step
  <2> QED  BY <2>3, <2>4
<1> QED  BY <1>2, <1>3

(* A processing run always passes the recovery's consistency check, and its *)
(* open attempt is the counted one.                                         *)
LEMMA ProcessingIsConsistent ==
    ASSUME TypeOK, DeliveryInv, NEW r \in Runs,
           run[r].status = "processing"
    PROVE  IsConsistent(r) /\ run[r].attempt_count \in Attempts
<1>1. run[r].attempt_count \in 0..MaxAttempts /\ MaxAttempts \in Nat
  BY AttemptAssumption DEF TypeOK, RunRow
<1>2. run[r].attempt_count # 0
  BY AttemptAssumption DEF DeliveryInv, CountInv
<1>3. run[r].attempt_count \in Attempts
  BY <1>1, <1>2 DEF Attempts
<1>4. \A m \in Attempts : m > run[r].attempt_count =>
                             attempt[r][m].status = "none"
  BY DEF DeliveryInv, NumberingInv
<1>5. /\ attempt[r][run[r].attempt_count].status \in {"claimed", "sending"}
      /\ attempt[r][run[r].attempt_count].claimed_by = run[r].claimed_by
  BY <1>3 DEF DeliveryInv, LatestInv
<1> QED  BY <1>3, <1>4, <1>5 DEF IsConsistent

(* Recovery closes the open attempt of each run it takes: failed when it was *)
(* never sent, unknown when it may have been.                                *)
LEMMA RecoverProcessingInv ==
    ASSUME TypeOK, DeliveryInv, NEW w \in Workers, RecoverProcessing(w)
    PROVE  DeliveryInv'
<1> SUFFICES ASSUME NEW q \in Runs, NEW m \in Attempts
             PROVE  /\ CountInv(q)' /\ SkipInv(q)'
                    /\ NumberingInv(q, m)' /\ LatestInv(q, m)'
                    /\ RequestInv(q, m)' /\ StepInv(q, m)'
  BY AttemptAssumption DEF DeliveryInv, Attempts
<1>1. PICK S \in SUBSET ExpiredProcessing(proc[w].cutoff) :
          /\ run' = [r \in Runs |-> IF r \in S
                       THEN RecoveredRun(r, proc[w].cutoff) ELSE run[r]]
          /\ attempt' = [r \in Runs |-> IF r \in S
                           THEN RecoveredAttempts(r) ELSE attempt[r]]
          /\ schedule' = [r \in Runs |-> IF r \in S /\ ~ReturnsToPending(r)
                            THEN FinalizedSchedule(r, "failed")
                            ELSE schedule[r]]
          /\ UNCHANGED <<task, post>>
  BY DEF RecoverProcessing, Selections
<1>2. CASE q \notin S
  <2>1. /\ run'[q] = run[q] /\ attempt'[q] = attempt[q]
        /\ schedule'[q] = schedule[q] /\ UNCHANGED <<task, post>>
    BY <1>1, <1>2
  <2> QED  BY <2>1, InvAt
           DEF CountInv, SkipInv, NumberingInv, LatestInv, RequestInv,
               StepInv, Step
<1>3. CASE q \in S
  <2>1. run[q].status = "processing"
    BY <1>3 DEF ExpiredProcessing
  <2>2. IsConsistent(q) /\ run[q].attempt_count \in Attempts
    BY <2>1, ProcessingIsConsistent
  <2>3. /\ run'[q].attempt_count = run[q].attempt_count
        /\ run'[q].status = IF ReturnsToPending(q) THEN "pending" ELSE "failed"
    BY <1>1, <1>3 DEF RecoveredRun, Finished, TypeOK, RunRow
  <2>4. attempt'[q][m].status =
            IF m = run[q].attempt_count
            THEN IF InterruptedBeforeSend(q) THEN "failed" ELSE "unknown"
            ELSE attempt[q][m].status
    <3>1. attempt'[q] = [attempt[q] EXCEPT ![run[q].attempt_count].status =
                            IF InterruptedBeforeSend(q) THEN "failed"
                                                        ELSE "unknown"]
      BY <1>1, <1>3, <2>2 DEF RecoveredAttempts
    <3>2. /\ DOMAIN attempt[q] = Attempts
          /\ \A k \in Attempts :
                DOMAIN attempt[q][k] = {"status", "claimed_by"}
      BY DEF TypeOK, AttemptRow
    <3> QED  BY <2>2, <3>1, <3>2
  <2>5. /\ InterruptedBeforeSend(q) <=>
              attempt[q][run[q].attempt_count].status = "claimed"
        /\ ReturnsToPending(q) => /\ InterruptedBeforeSend(q)
                                  /\ run[q].attempt_count < MaxAttempts
    BY <2>2 DEF InterruptedBeforeSend, ReturnsToPending
  <2>6. attempt[q][run[q].attempt_count].status \in {"claimed", "sending"}
    BY <2>1, <2>2, InvAt DEF LatestInv
  <2>7. task' = task /\ post' = post
    BY <1>1
  <2>8. /\ CountInv(q) /\ NumberingInv(q, m) /\ LatestInv(q, m)
        /\ RequestInv(q, m) /\ StepInv(q, m)
    BY InvAt
  <2>9. CountInv(q)' /\ SkipInv(q)'
    BY <2>1, <2>3, <2>5, <2>8 DEF CountInv, SkipInv
  <2>10. NumberingInv(q, m)' /\ LatestInv(q, m)'
    BY <2>3, <2>4, <2>5, <2>8 DEF NumberingInv, LatestInv
  <2>11. RequestInv(q, m)' /\ StepInv(q, m)'
    <3>1. CASE m = run[q].attempt_count
      BY <2>4, <2>5, <2>6, <2>7, <2>8, <3>1 DEF RequestInv, StepInv, Step
    <3>2. CASE m # run[q].attempt_count
      BY <2>4, <2>7, <2>8, <3>2 DEF RequestInv, StepInv, Step
    <3> QED  BY <3>1, <3>2
  <2> QED  BY <2>9, <2>10, <2>11
<1> QED  BY <1>2, <1>3

(* The pending recovery settles waiting runs as skipped: never as failed,   *)
(* because a waiting run's attempts are in order.                           *)
LEMMA PendingIsHealthy ==
    ASSUME TypeOK, DeliveryInv, NEW r \in Runs, run[r].status = "pending"
    PROVE  ~PendingInconsistent(r)
<1>1. run[r].attempt_count < MaxAttempts
  BY DEF DeliveryInv, CountInv
<1>2. run[r].attempt_count \in Nat /\ MaxAttempts \in Nat
  BY AttemptAssumption DEF TypeOK, RunRow
<1>3. \A n \in Attempts :
        attempt[r][n].status = IF n <= run[r].attempt_count THEN "failed"
                               ELSE "none"
  BY <1>2, InvAt DEF NumberingInv, LatestInv
<1> QED  BY <1>1, <1>2, <1>3 DEF PendingInconsistent, AttemptsAllFailed

LEMMA RecoverPendingInv ==
    ASSUME TypeOK, DeliveryInv, NEW w \in Workers, RecoverPending(w)
    PROVE  DeliveryInv'
<1> SUFFICES ASSUME NEW q \in Runs, NEW m \in Attempts
             PROVE  /\ CountInv(q)' /\ SkipInv(q)'
                    /\ NumberingInv(q, m)' /\ LatestInv(q, m)'
                    /\ RequestInv(q, m)' /\ StepInv(q, m)'
  BY AttemptAssumption DEF DeliveryInv, Attempts
<1>1. PICK S \in SUBSET StartupPending(proc[w].cutoff) :
          /\ run' = [r \in Runs |-> IF r \in S
                       THEN Finished(r, PendingOutcome(r), 0) ELSE run[r]]
          /\ schedule' = [r \in Runs |-> IF r \in S /\ schedule[r] = "active"
                            THEN "failed" ELSE schedule[r]]
          /\ UNCHANGED <<attempt, task, post>>
  BY DEF RecoverPending, Selections
<1>2. CASE q \notin S
  <2>1. /\ run'[q] = run[q] /\ schedule'[q] = schedule[q]
        /\ UNCHANGED <<attempt, task, post>>
    BY <1>1, <1>2
  <2> QED  BY <2>1, InvAt
           DEF CountInv, SkipInv, NumberingInv, LatestInv, RequestInv,
               StepInv, Step
<1>3. CASE q \in S
  <2>1. run[q].status = "pending"
    BY <1>3 DEF StartupPending
  <2>2. PendingOutcome(q) = "skipped"
    BY <2>1, PendingIsHealthy DEF PendingOutcome
  <2>3. /\ run'[q].status = "skipped"
        /\ run'[q].attempt_count = run[q].attempt_count
        /\ schedule'[q] # "active"
    BY <1>1, <1>3, <2>2 DEF Finished, TypeOK, RunRow
  <2> QED  BY <1>1, <2>1, <2>3, InvAt
           DEF CountInv, SkipInv, NumberingInv, LatestInv, RequestInv,
               StepInv, Step
<1> QED  BY <1>2, <1>3

(* The other steps touch one run, one post, or nothing of the invariant. *)
LEMMA OtherStepInv ==
    ASSUME TypeOK, DeliveryInv,
           \/ Tick
           \/ \E w \in Workers : Start(w) \/ StartLoops(w) \/ StartupFails(w)
           \/ \E r \in Runs, n \in Attempts : Discord(r, n)
           \/ \E r \in Runs : EditContent(r) \/ Delete(r)
           \/ UNCHANGED vars
    PROVE  DeliveryInv'
<1> SUFFICES ASSUME NEW q \in Runs, NEW m \in Attempts
             PROVE  /\ CountInv(q)' /\ SkipInv(q)'
                    /\ NumberingInv(q, m)' /\ LatestInv(q, m)'
                    /\ RequestInv(q, m)' /\ StepInv(q, m)'
  BY AttemptAssumption DEF DeliveryInv, Attempts
<1> USE DEF CountInv, SkipInv, NumberingInv, LatestInv, RequestInv, StepInv,
            Step
<1>1. CASE \/ Tick \/ UNCHANGED vars
           \/ \E w \in Workers : Start(w) \/ StartLoops(w) \/ StartupFails(w)
  <2>1. UNCHANGED <<schedule, run, attempt, task, post>>
    BY <1>1 DEF Tick, Start, StartLoops, StartupFails, vars, db
  <2> QED  BY <2>1, InvAt
<1>2. ASSUME NEW r \in Runs, NEW n \in Attempts, Discord(r, n)
      PROVE  /\ CountInv(q)' /\ SkipInv(q)'
             /\ NumberingInv(q, m)' /\ LatestInv(q, m)'
             /\ RequestInv(q, m)' /\ StepInv(q, m)'
  <2>1. /\ post[r][n] = "wire"
        /\ post'[r][n] \in {"accepted", "refused"}
        /\ (q # r \/ m # n) => post'[q][m] = post[q][m]
        /\ UNCHANGED <<schedule, run, attempt, task>>
    BY <1>2 DEF Discord, TypeOK, db
  <2> QED  BY <2>1, InvAt
<1>3. ASSUME NEW r \in Runs, EditContent(r)
      PROVE  /\ CountInv(q)' /\ SkipInv(q)'
             /\ NumberingInv(q, m)' /\ LatestInv(q, m)'
             /\ RequestInv(q, m)' /\ StepInv(q, m)'
  <2>1. /\ run[r].status = "pending"
        /\ q # r => schedule'[q] = schedule[q]
        /\ UNCHANGED <<run, attempt, task, post>>
    BY <1>3 DEF EditContent, CanEdit, TypeOK
  <2> QED  BY <2>1, InvAt
<1>4. ASSUME NEW r \in Runs, Delete(r)
      PROVE  /\ CountInv(q)' /\ SkipInv(q)'
             /\ NumberingInv(q, m)' /\ LatestInv(q, m)'
             /\ RequestInv(q, m)' /\ StepInv(q, m)'
  <2>1. /\ run'[q].attempt_count = run[q].attempt_count
        /\ run'[q].claimed_by \in {run[q].claimed_by, NoWorker}
        /\ \/ run'[q] = run[q]
           \/ run[q].status = "pending" /\ run'[q].status = "skipped"
        /\ q # r => run'[q] = run[q] /\ schedule'[q] = schedule[q]
        /\ schedule'[r] = "deleted"
        /\ UNCHANGED <<attempt, task, post>>
    BY <1>4 DEF Delete, Finished, TypeOK, RunRow
  <2> QED  BY <2>1, InvAt
<1> QED  BY <1>1, <1>2, <1>3, <1>4

(* Every reachable state satisfies the inductive invariant: attempts are    *)
(* numbered without gaps, the latest one agrees with its run, and what a    *)
(* task may do and Discord may hold follows from the attempt's status.      *)
THEOREM DeliveryInvariant == Spec => [](TypeOK /\ DeliveryInv)
<1>1. Init => TypeOK /\ DeliveryInv
  BY InitType, InvHolds
<1>2. TypeOK /\ DeliveryInv /\ [Next]_vars => TypeOK' /\ DeliveryInv'
  <2> SUFFICES ASSUME TypeOK, DeliveryInv, [Next]_vars
               PROVE  DeliveryInv'
    BY StepType
  <2> QED  BY TaskStepInv, CrashInv, ClaimInv, RecoverProcessingInv,
              RecoverPendingInv, OtherStepInv DEF Next, StartupStep
<1> QED  BY <1>1, <1>2, PTL DEF Spec

-----------------------------------------------------------------------------
(* What follows from the inductive invariant *)

(* Only the counted attempt can have a message: earlier ones failed, later  *)
(* ones do not exist.                                                       *)
LEMMA PostedIsLatest ==
    ASSUME TypeOK, DeliveryInv, NEW r \in Runs, NEW n \in Attempts,
           MayBePosted(r, n)
    PROVE  n = run[r].attempt_count
BY InvAt DEF MayBePosted, NumberingInv, RequestInv

LEMMA CountedIsAttempt ==
    ASSUME TypeOK, DeliveryInv, NEW r \in Runs,
           run[r].status \notin {"pending", "skipped"}
    PROVE  run[r].attempt_count \in Attempts
<1>1. run[r].attempt_count \in 0..MaxAttempts /\ MaxAttempts \in Nat
  BY AttemptAssumption DEF TypeOK, RunRow
<1>2. run[r].attempt_count # 0
  BY DEF DeliveryInv, CountInv
<1> QED  BY <1>1, <1>2 DEF Attempts

LEMMA OutcomeFollows ==
    ASSUME TypeOK, DeliveryInv
    PROVE  OutcomeMatchesDiscord
<1> SUFFICES ASSUME NEW r \in Runs
             PROVE  /\ run[r].status = "succeeded" =>
                          \E n \in Attempts : post[r][n] = "accepted"
                    /\ run[r].status = "skipped" =>
                          \A n \in Attempts : ~MayBePosted(r, n)
                    /\ run[r].status = "failed" =>
                          \/ \E n \in Attempts : attempt[r][n].status = "unknown"
                          \/ \A n \in Attempts : ~MayBePosted(r, n)
  BY DEF OutcomeMatchesDiscord
<1>1. ASSUME run[r].status = "succeeded"
      PROVE  \E n \in Attempts : post[r][n] = "accepted"
  <2>1. run[r].attempt_count \in Attempts
    BY <1>1, CountedIsAttempt
  <2> WITNESS run[r].attempt_count \in Attempts
  <2> QED  BY <1>1, <2>1, InvAt DEF LatestInv, RequestInv
<1>2. ASSUME run[r].status = "skipped", NEW n \in Attempts
      PROVE  ~MayBePosted(r, n)
  BY <1>2, InvAt, PostedIsLatest DEF LatestInv, RequestInv, MayBePosted
<1>3. ASSUME run[r].status = "failed",
             \A n \in Attempts : attempt[r][n].status # "unknown",
             NEW n \in Attempts
      PROVE  ~MayBePosted(r, n)
  BY <1>3, InvAt, PostedIsLatest DEF LatestInv, RequestInv, MayBePosted
<1> QED  BY <1>1, <1>2, <1>3

(* Double posting is impossible for any number of workers and attempts.     *)
THEOREM AtMostOnce == Spec => []AtMostOncePost
<1>1. TypeOK /\ DeliveryInv => AtMostOncePost
  BY PostedIsLatest DEF AtMostOncePost
<1> QED  BY <1>1, DeliveryInvariant, PTL

(* A waiting run was not posted, and no task is about to post it.           *)
THEOREM WaitingUnsent == Spec => []WaitingMeansUnsent
<1>1. ASSUME TypeOK, DeliveryInv, NEW r \in Runs, run[r].status = "pending",
             NEW n \in Attempts
      PROVE  /\ ~MayBePosted(r, n)
             /\ Step(r, n) \notin {"send", "awaiting", "success"}
  <2>1. attempt[r][n].status \in {"none", "failed"}
    BY <1>1, InvAt DEF NumberingInv, LatestInv
  <2> QED  BY <1>1, <2>1, InvAt DEF RequestInv, MayBePosted
<1>2. TypeOK /\ DeliveryInv => WaitingMeansUnsent
  BY <1>1 DEF WaitingMeansUnsent
<1> QED  BY <1>2, DeliveryInvariant, PTL

(* The recorded outcome is what happened on Discord.                        *)
THEOREM OutcomeIsTrue == Spec => []OutcomeMatchesDiscord
BY OutcomeFollows, DeliveryInvariant, PTL

(* The checks of both startup recoveries never find an inconsistency.       *)
THEOREM RecoveryConsistent == Spec => []RecoveryFindsNoInconsistency
<1>1. TypeOK /\ DeliveryInv => RecoveryFindsNoInconsistency
  BY ProcessingIsConsistent, PendingIsHealthy DEF RecoveryFindsNoInconsistency
<1> QED  BY <1>1, DeliveryInvariant, PTL

-----------------------------------------------------------------------------
(* Runs against schedules and reports *)

(* How each step may change one run. *)
LEMMA RunStep ==
    ASSUME TypeOK, [Next]_vars, NEW q \in Runs
    PROVE  \/ run'[q] = run[q]
           \/ run[q].status \in {"pending", "processing"}
<1>1. CASE Tick \/ UNCHANGED vars
  BY <1>1 DEF Tick, vars, db
<1>7. ASSUME NEW w \in Workers, Start(w) \/ StartLoops(w) \/ Crash(w) \/ StartupFails(w)
      PROVE  run'[q] = run[q]
  BY <1>7 DEF Start, StartLoops, Crash, StartupFails, db
<1>8. ASSUME NEW r \in Runs, NEW n \in Attempts, Discord(r, n)
      PROVE  run'[q] = run[q]
  BY <1>8 DEF Discord, db
<1>9. ASSUME NEW r \in Runs, EditContent(r)
      PROVE  run'[q] = run[q]
  BY <1>9 DEF EditContent
<1>2. ASSUME NEW w \in Workers, RecoverProcessing(w)
      PROVE  run'[q] = run[q] \/ run[q].status = "processing"
  BY <1>2 DEF RecoverProcessing, Selections, ExpiredProcessing
<1>3. ASSUME NEW w \in Workers, RecoverPending(w)
      PROVE  run'[q] = run[q] \/ run[q].status = "pending"
  BY <1>3 DEF RecoverPending, Selections, StartupPending
<1>4. ASSUME NEW w \in Workers, Claim(w)
      PROVE  run'[q] = run[q] \/ run[q].status = "pending"
  BY <1>4 DEF Claim, Selections, Due
<1>5. ASSUME NEW r \in Runs, NEW n \in Attempts, TaskStep(r, n)
      PROVE  run'[q] = run[q] \/ run[q].status = "processing"
  <2>1. run' = run \/ (/\ run[r].status = "processing"
                       /\ \E s, t : SetRun(r, s, t))
    BY <1>5 DEF TaskStep, PrepareSend, PrepareSkip, Send, SendRefusedLocally,
                ReplyAccepted, ReplyRefused, ReplyUnknown, SaveSuccess,
                SaveRetry, SaveFailure, SaveUnknown, Finalize, Raise, Holds, db
  <2> QED  BY <2>1 DEF SetRun, TypeOK
<1>6. ASSUME NEW r \in Runs, Delete(r)
      PROVE  run'[q] = run[q] \/ run[q].status = "pending"
  BY <1>6 DEF Delete, TypeOK
<1> QED  BY <1>1, <1>2, <1>3, <1>4, <1>5, <1>6, <1>7, <1>8, <1>9
         DEF Next, StartupStep

(* A settled run is never settled again, nor reopened.                      *)
THEOREM SettledIsFinal == Spec => TerminalIsFinal
<1>1. TypeOK /\ [Next]_vars =>
        [\A r \in Runs : run[r].status \in TerminalStatuses =>
                             run'[r].status = run[r].status]_vars
  BY RunStep DEF TerminalStatuses
<1> QED  BY <1>1, TypeCorrect, PTL DEF Spec, TerminalIsFinal

(* The agreement of one run with its schedule and its reports. *)
Settled(r) ==
    /\ schedule[r] = "completed" => run[r].status = "succeeded"
    /\ schedule[r] = "failed" => /\ run[r].status \in {"failed", "skipped"}
                                 /\ <<r, "run_failed">> \in outbox
    /\ run[r].status \in {"pending", "processing"} => PointsAtRun(r)
    /\ run[r].status = "failed" => <<r, "run_failed">> \in outbox
    /\ run[r].status = "skipped" /\ schedule[r] = "draft" =>
          <<r, "run_skipped">> \in outbox
    /\ \A n \in Attempts :
          attempt[r][n].status = "sending" => schedule[r] = "active"

(* An attempt is being sent only while its run is processing. *)
LEMMA SendingIsProcessing ==
    ASSUME TypeOK, DeliveryInv, NEW r \in Runs, NEW n \in Attempts,
           attempt[r][n].status \in {"claimed", "sending"}
    PROVE  run[r].status = "processing"
BY InvAt DEF NumberingInv, LatestInv, RunStatuses

LEMMA SettledInit == Init => \A r \in Runs : Settled(r)
BY DEF Init, Settled, PointsAtRun

(* A step that leaves schedule, run and the sending attempts alone, and     *)
(* takes nothing from the outbox, preserves the agreement.                  *)
LEMMA SettledUnchanged ==
    ASSUME NEW q \in Runs, Settled(q),
           schedule'[q] = schedule[q], run'[q].status = run[q].status,
           outbox \subseteq outbox',
           \A n \in Attempts : attempt'[q][n].status = "sending" =>
                                   attempt[q][n].status = "sending"
    PROVE  Settled(q)'
BY DEF Settled, PointsAtRun

LEMMA SettledTaskStep ==
    ASSUME TypeOK, DeliveryInv, NEW r \in Runs, NEW n \in Attempts,
           TaskStep(r, n), NEW q \in Runs, Settled(q)
    PROVE  Settled(q)'
<1>1. CASE PrepareSend(r, n)
  <2>1. /\ UNCHANGED <<schedule, run, outbox>> /\ schedule[r] = "active"
        /\ \A m \in Attempts : (q # r \/ m # n) =>
              attempt'[q][m].status = attempt[q][m].status
    BY <1>1, SetAttemptAt DEF PrepareSend
  <2> QED  BY <2>1 DEF Settled, PointsAtRun
<1>2. CASE \/ Send(r, n) \/ SendRefusedLocally(r, n) \/ ReplyAccepted(r, n)
           \/ ReplyRefused(r, n) \/ ReplyUnknown(r, n) \/ Raise(r, n)
  <2>1. UNCHANGED db
    BY <1>2 DEF Send, SendRefusedLocally, ReplyAccepted, ReplyRefused,
                ReplyUnknown, Raise
  <2> QED  BY <2>1, SettledUnchanged DEF db
<1>3. CASE Finalize(r, n)
  <2>1. /\ UNCHANGED <<run, attempt, outbox>>
        /\ run[r].status \in TerminalStatuses
        /\ schedule'[q] = IF q = r THEN FinalizedSchedule(r, run[r].status)
                          ELSE schedule[q]
    BY <1>3 DEF Finalize, TypeOK
  <2>2. SkipInv(r)
    BY DEF DeliveryInv
  <2>3. \A m \in Attempts : attempt[r][m].status # "sending"
    BY <2>1, SendingIsProcessing DEF TerminalStatuses
  <2> QED  BY <2>1, <2>2, <2>3
           DEF Settled, PointsAtRun, FinalizedSchedule, Target, SkipInv,
               TerminalStatuses
<1>4. ASSUME NEW status, NEW retryAt, NEW closed,
             SetRun(r, status, retryAt), SetAttempt(r, n, closed),
             closed # "sending", run[r].status = "processing",
             UNCHANGED schedule, outbox \subseteq outbox',
             status = "failed" => <<r, "run_failed">> \in outbox',
             status = "skipped" /\ schedule[r] = "draft" =>
                <<r, "run_skipped">> \in outbox'
      PROVE  Settled(q)'
  <2>1. /\ run'[q].status = IF q = r THEN status ELSE run[q].status
        /\ \A m \in Attempts : attempt'[q][m].status = "sending" =>
                                   attempt[q][m].status = "sending"
    BY <1>4, SetRunAt, SetAttemptAt
  <2>2. CASE q # r
    BY <1>4, <2>1, <2>2, SettledUnchanged
  <2>3. CASE q = r
    BY <1>4, <2>1, <2>3 DEF Settled, PointsAtRun
  <2> QED  BY <2>2, <2>3
<1>5. CASE PrepareSkip(r, n)
  BY <1>5, <1>4 DEF PrepareSkip, Holds
<1>6. CASE SaveSuccess(r, n)
  <2>1. outbox \subseteq outbox'
    BY <1>6 DEF SaveSuccess
  <2>2. /\ SetRun(r, "succeeded", 0) /\ SetAttempt(r, n, "succeeded")
        /\ run[r].status = "processing" /\ UNCHANGED schedule
    BY <1>6 DEF SaveSuccess, Holds
  <2> QED  BY <1>4, <2>1, <2>2
<1>7. CASE SaveRetry(r, n)
  <2>1. outbox \subseteq outbox'
    BY <1>7 DEF SaveRetry
  <2>2. /\ SetRun(r, "pending", task[r][n].retry_at)
        /\ SetAttempt(r, n, "failed")
        /\ run[r].status = "processing" /\ UNCHANGED schedule
    BY <1>7 DEF SaveRetry, Holds
  <2> QED  BY <1>4, <2>1, <2>2
<1>8. CASE SaveFailure(r, n)
  BY <1>8, <1>4 DEF SaveFailure, Holds
<1>9. CASE SaveUnknown(r, n)
  BY <1>9, <1>4 DEF SaveUnknown, Holds
<1> QED  BY <1>1, <1>2, <1>3, <1>5, <1>6, <1>7, <1>8, <1>9, TaskStep(r, n)
         DEF TaskStep

LEMMA SettledRecoverProcessing ==
    ASSUME TypeOK, DeliveryInv, NEW w \in Workers, RecoverProcessing(w),
           NEW q \in Runs, Settled(q)
    PROVE  Settled(q)'
<1>1. PICK S \in SUBSET ExpiredProcessing(proc[w].cutoff) :
          /\ run' = [r \in Runs |-> IF r \in S
                       THEN RecoveredRun(r, proc[w].cutoff) ELSE run[r]]
          /\ attempt' = [r \in Runs |-> IF r \in S
                           THEN RecoveredAttempts(r) ELSE attempt[r]]
          /\ schedule' = [r \in Runs |-> IF r \in S /\ ~ReturnsToPending(r)
                            THEN FinalizedSchedule(r, "failed")
                            ELSE schedule[r]]
          /\ outbox' = outbox \cup (UNION {RecoveryEvents(r) : r \in S})
  BY DEF RecoverProcessing, Selections
<1>2. outbox \subseteq outbox'
  BY <1>1
<1>3. CASE q \notin S
  BY <1>1, <1>2, <1>3, SettledUnchanged
<1>4. CASE q \in S
  <2>1. run[q].status = "processing"
    BY <1>4 DEF ExpiredProcessing
  <2>2. IsConsistent(q) /\ run[q].attempt_count \in Attempts
    BY <2>1, ProcessingIsConsistent
  <2>3. run'[q].status = IF ReturnsToPending(q) THEN "pending" ELSE "failed"
    BY <1>1, <1>4 DEF RecoveredRun, Finished, TypeOK, RunRow
  <2>4. schedule'[q] = IF ReturnsToPending(q) THEN schedule[q]
                       ELSE FinalizedSchedule(q, "failed")
    BY <1>1, <1>4
  <2>5. ~ReturnsToPending(q) => <<q, "run_failed">> \in outbox'
    <3>1. ~ReturnsToPending(q) => RecoveryEvents(q) = {<<q, "run_failed">>}
      BY <2>2 DEF RecoveryEvents
    <3> QED  BY <1>1, <1>4, <3>1
  <2>6. \A n \in Attempts : attempt'[q][n].status # "sending"
    <3> SUFFICES ASSUME NEW n \in Attempts
                 PROVE  attempt'[q][n].status # "sending"
      OBVIOUS
    <3>1. attempt'[q] = [attempt[q] EXCEPT ![run[q].attempt_count].status =
                            IF InterruptedBeforeSend(q) THEN "failed"
                                                        ELSE "unknown"]
      BY <1>1, <1>4, <2>2 DEF RecoveredAttempts
    <3>2. /\ DOMAIN attempt[q] = Attempts
          /\ \A k \in Attempts :
                DOMAIN attempt[q][k] = {"status", "claimed_by"}
      BY DEF TypeOK, AttemptRow
    <3>3. n # run[q].attempt_count => attempt[q][n].status # "sending"
      BY InvAt DEF NumberingInv
    <3> QED  BY <2>2, <3>1, <3>2, <3>3
  <2> QED  BY <2>1, <2>3, <2>4, <2>5, <2>6
           DEF Settled, PointsAtRun, FinalizedSchedule, Target
<1> QED  BY <1>3, <1>4

LEMMA SettledRecoverPending ==
    ASSUME TypeOK, DeliveryInv, NEW w \in Workers, RecoverPending(w),
           NEW q \in Runs, Settled(q)
    PROVE  Settled(q)'
<1>1. PICK S \in SUBSET StartupPending(proc[w].cutoff),
           D \in SUBSET StartupDelayed(proc[w].cutoff) :
          /\ run' = [r \in Runs |-> IF r \in S
                       THEN Finished(r, PendingOutcome(r), 0) ELSE run[r]]
          /\ schedule' = [r \in Runs |-> IF r \in S /\ schedule[r] = "active"
                            THEN "failed" ELSE schedule[r]]
          /\ outbox' = outbox \cup (UNION {PendingEvents(r) : r \in S})
                              \cup {<<r, "run_delayed">> : r \in D}
          /\ UNCHANGED attempt
  BY DEF RecoverPending, Selections
<1>2. outbox \subseteq outbox'
  BY <1>1
<1>3. CASE q \notin S
  BY <1>1, <1>2, <1>3, SettledUnchanged
<1>4. CASE q \in S
  <2>1. run[q].status = "pending"
    BY <1>4 DEF StartupPending
  <2>2. PendingOutcome(q) = "skipped" /\ PointsAtRun(q)
    BY <2>1, PendingIsHealthy DEF PendingOutcome, Settled
  <2>3. run'[q].status = "skipped"
    BY <1>1, <1>4, <2>2 DEF Finished, TypeOK, RunRow
  <2>4. PendingEvents(q) = {<<q, IF schedule[q] = "draft" THEN "run_skipped"
                                                         ELSE "run_failed">>}
    BY <2>1, <2>2, PendingIsHealthy DEF PendingEvents
  <2>5. <<q, IF schedule[q] = "draft" THEN "run_skipped" ELSE "run_failed">>
          \in outbox'
    BY <1>1, <1>4, <2>4
  <2>6. \A n \in Attempts : attempt'[q][n].status # "sending"
    BY <1>1, <2>1, SendingIsProcessing
  <2>7. schedule'[q] = IF schedule[q] = "active" THEN "failed" ELSE schedule[q]
    BY <1>1, <1>4
  <2> QED  BY <2>2, <2>3, <2>5, <2>6, <2>7 DEF Settled, PointsAtRun
<1> QED  BY <1>3, <1>4

LEMMA SettledOtherStep ==
    ASSUME TypeOK, DeliveryInv, NEW q \in Runs, Settled(q),
           \/ Tick \/ UNCHANGED vars
           \/ \E w \in Workers :
                 Start(w) \/ StartLoops(w) \/ Crash(w) \/ StartupFails(w) \/ Claim(w)
           \/ \E r \in Runs, n \in Attempts : Discord(r, n)
           \/ \E r \in Runs : EditContent(r) \/ Delete(r)
    PROVE  Settled(q)'
<1>1. CASE \/ Tick \/ UNCHANGED vars
           \/ \E w \in Workers : Start(w) \/ StartLoops(w) \/ Crash(w) \/ StartupFails(w)
           \/ \E r \in Runs, n \in Attempts : Discord(r, n)
  BY <1>1, SettledUnchanged
     DEF Tick, Start, StartLoops, Crash, StartupFails, Discord, vars, db
<1>2. ASSUME NEW w \in Workers, Claim(w) PROVE Settled(q)'
  <2>1. PICK S \in SUBSET Due :
          /\ run' = [r \in Runs |->
                IF r \in S
                THEN [status |-> "processing",
                      attempt_count |-> run[r].attempt_count + 1,
                      next_attempt_at |-> 0, claimed_by |-> w,
                      lease_expires_at |-> now + LeaseTimeout]
                ELSE run[r]]
          /\ attempt' = [r \in Runs |-> [n \in Attempts |->
                IF r \in S /\ n = run[r].attempt_count + 1
                THEN [status |-> "claimed", claimed_by |-> w]
                ELSE attempt[r][n]]]
          /\ UNCHANGED <<schedule, outbox>>
    BY <1>2 DEF Claim, Selections
  <2>4. /\ run'[q].status = IF q \in S THEN "processing" ELSE run[q].status
        /\ \A n \in Attempts : attempt'[q][n].status = "sending" =>
                                   attempt[q][n].status = "sending"
    BY <2>1
  <2>2. CASE q \in S
    BY <2>1, <2>2, <2>4 DEF Settled, PointsAtRun, Due
  <2>3. CASE q \notin S
    BY <2>1, <2>3, <2>4, SettledUnchanged
  <2> QED  BY <2>2, <2>3
<1>3. ASSUME NEW r \in Runs, EditContent(r) PROVE Settled(q)'
  <2>1. run[r].status = "pending"
    BY <1>3 DEF EditContent, CanEdit
  <2>2. \A n \in Attempts : attempt[r][n].status # "sending"
    BY <2>1, SendingIsProcessing
  <2> QED  BY <1>3, <2>1, <2>2
           DEF EditContent, CanEdit, Settled, PointsAtRun, TypeOK
<1>4. ASSUME NEW r \in Runs, Delete(r) PROVE Settled(q)'
  <2>1. /\ schedule'[r] = "deleted"
        /\ q # r => schedule'[q] = schedule[q] /\ run'[q] = run[q]
        /\ run[r].status # "processing"
        /\ UNCHANGED <<attempt, outbox>>
    BY <1>4 DEF Delete, CanDelete, TypeOK
  <2>3. run'[r].status = IF run[r].status = "pending" THEN "skipped"
                         ELSE run[r].status
    <3>1. run'[r] = IF run[r].status = "pending"
                    THEN Finished(r, "skipped", 0) ELSE run[r]
      BY <1>4 DEF Delete, TypeOK
    <3>2. Finished(r, "skipped", 0).status = "skipped"
      BY DEF Finished, TypeOK, RunRow
    <3> QED  BY <3>1, <3>2
  <2>2. \A n \in Attempts : attempt[r][n].status # "sending"
    BY <2>1, SendingIsProcessing
  <2> QED  BY <2>1, <2>2, <2>3 DEF Settled, PointsAtRun
<1> QED  BY <1>1, <1>2, <1>3, <1>4

LEMMA SettledAlways == Spec => [](\A r \in Runs : Settled(r))
<1>1. TypeOK /\ DeliveryInv /\ (\A r \in Runs : Settled(r)) /\ [Next]_vars
        => (\A r \in Runs : Settled(r))'
  <2> SUFFICES ASSUME TypeOK, DeliveryInv, [Next]_vars, NEW q \in Runs,
                      Settled(q)
               PROVE  Settled(q)'
    OBVIOUS
  <2> QED  BY SettledTaskStep, SettledRecoverProcessing,
              SettledRecoverPending, SettledOtherStep DEF Next, StartupStep
<1> QED  BY <1>1, SettledInit, DeliveryInvariant, PTL DEF Spec

(* Schedules and runs agree, whoever wrote them last.                       *)
THEOREM SchedulesAgree == Spec => []ScheduleAgreesWithRun
<1>1. (\A r \in Runs : Settled(r)) => ScheduleAgreesWithRun
  BY DEF Settled, ScheduleAgreesWithRun
<1> QED  BY <1>1, SettledAlways, PTL

(* Every failed, skipped or abandoned run has its report in the outbox.     *)
THEOREM SettlementsReported == Spec => []EverySettlementReported
<1>1. (\A r \in Runs : Settled(r)) => EverySettlementReported
  BY DEF Settled, EverySettlementReported
<1> QED  BY <1>1, SettledAlways, PTL

-----------------------------------------------------------------------------
(* What startup recovery leaves behind, while no other transaction holds a   *)
(* row it scans                                                              *)

(* The two scans, once a process has come past them: no claim that had       *)
(* expired, no first attempt overdue beyond the grace period.                *)
ExpiredGone(w) ==
    proc[w].phase \in {"recover_pending", "recover_rest", "polling"} =>
        \A r \in Runs : run[r].status = "processing" =>
            run[r].lease_expires_at > proc[w].cutoff

OverdueGone(w) ==
    proc[w].phase \in {"recover_rest", "polling"} =>
        \A r \in Runs :
            run[r].status = "pending" /\ run[r].attempt_count = 0 =>
                ScheduledFor[r] + GracePeriod >= proc[w].cutoff

(* A cutoff is read once and time goes on, so that whatever is claimed later *)
(* has a lease beyond it.                                                    *)
CutoffIsPast(w) == proc[w].cutoff <= now

ScannedInv ==
    \A w \in Workers : CutoffIsPast(w) /\ ExpiredGone(w) /\ OverdueGone(w)

(* What a step may make of a run: it is claimed with a lease from now on,    *)
(* and comes back to waiting only with an attempt behind it.                 *)
Changed(q) ==
    \/ run'[q] = run[q]
    \/ run'[q].status \notin {"pending", "processing"}
    \/ run'[q].status = "pending" /\ run'[q].attempt_count # 0
    \/ /\ run'[q].status = "processing"
       /\ run'[q].lease_expires_at = now + LeaseTimeout

LEMMA RunChange ==
    ASSUME TypeOK, DeliveryInv, [Next]_vars, NEW q \in Runs
    PROVE  Changed(q)
<1> USE DEF Changed
<1>1. ASSUME NEW r \in Runs, NEW status, NEW retryAt
      PROVE  /\ Finished(r, status, retryAt).status = status
             /\ Finished(r, status, retryAt).attempt_count
                  = run[r].attempt_count
  BY DEF Finished, TypeOK, RunRow
<1>2. ASSUME NEW r \in Runs, run[r].status = "processing"
      PROVE  run[r].attempt_count # 0
  BY <1>2 DEF DeliveryInv, CountInv
<1>3. CASE \/ Tick \/ UNCHANGED vars
           \/ \E w \in Workers :
                 Start(w) \/ StartLoops(w) \/ Crash(w) \/ StartupFails(w)
           \/ \E r \in Runs, n \in Attempts : Discord(r, n)
           \/ \E r \in Runs : EditContent(r)
  BY <1>3 DEF Tick, Start, StartLoops, Crash, StartupFails, Discord,
              EditContent, vars, db
<1>4. ASSUME NEW w \in Workers, RecoverProcessing(w) PROVE Changed(q)
  <2>1. PICK S \in SUBSET ExpiredProcessing(proc[w].cutoff) :
          run' = [r \in Runs |-> IF r \in S
                     THEN RecoveredRun(r, proc[w].cutoff) ELSE run[r]]
    BY <1>4 DEF RecoverProcessing, Selections
  <2>2. CASE q \notin S
    BY <2>1, <2>2
  <2>3. CASE q \in S
    <3>1. run[q].attempt_count # 0
      BY <2>3, <1>2 DEF ExpiredProcessing
    <3>2. run'[q] = RecoveredRun(q, proc[w].cutoff)
      BY <2>1, <2>3
    <3> QED  BY <3>1, <3>2, <1>1 DEF RecoveredRun
  <2> QED  BY <2>2, <2>3
<1>5. ASSUME NEW w \in Workers, RecoverPending(w) PROVE Changed(q)
  <2>1. PICK S \in SUBSET Runs :
          run' = [r \in Runs |-> IF r \in S
                     THEN Finished(r, PendingOutcome(r), 0) ELSE run[r]]
    BY <1>5 DEF RecoverPending, Selections, StartupPending
  <2>2. PendingOutcome(q) \notin {"pending", "processing"}
    BY DEF PendingOutcome
  <2>3. run'[q] = IF q \in S THEN Finished(q, PendingOutcome(q), 0)
                             ELSE run[q]
    BY <2>1
  <2> QED  BY <2>2, <2>3, <1>1
<1>6. ASSUME NEW w \in Workers, Claim(w) PROVE Changed(q)
  BY <1>6 DEF Claim
<1>7. ASSUME NEW r \in Runs, NEW n \in Attempts, TaskStep(r, n) PROVE Changed(q)
  <2>1. run' = run \/ (/\ run[r].status = "processing"
                       /\ \E s, t : SetRun(r, s, t) /\ s # "processing")
    BY <1>7 DEF TaskStep, PrepareSend, PrepareSkip, Send, SendRefusedLocally,
                ReplyAccepted, ReplyRefused, ReplyUnknown, SaveSuccess,
                SaveRetry, SaveFailure, SaveUnknown, Finalize, Raise, Holds, db
  <2>2. ASSUME NEW s, NEW t, SetRun(r, s, t), s # "processing",
               run[r].status = "processing"
        PROVE  Changed(q)
    <3>1. run'[q] = IF q = r THEN Finished(r, s, t) ELSE run[q]
      BY <2>2 DEF SetRun, TypeOK
    <3> QED  BY <3>1, <2>2, <1>1, <1>2
  <2> QED  BY <2>1, <2>2
<1>8. ASSUME NEW r \in Runs, Delete(r) PROVE Changed(q)
  <2>1. run'[q] = IF q = r /\ run[r].status = "pending"
                  THEN Finished(r, "skipped", 0) ELSE run[q]
    BY <1>8 DEF Delete, TypeOK
  <2> QED  BY <2>1, <1>1
<1> QED  BY <1>3, <1>4, <1>5, <1>6, <1>7, <1>8 DEF Next, StartupStep

(* How a step may move a process through its startup. *)
Moved(w) ==
    \/ proc'[w].phase = proc[w].phase /\ proc'[w].cutoff = proc[w].cutoff
    \/ proc'[w].phase = "recover_processing" /\ proc'[w].cutoff = now
    \/ proc'[w].phase \in {"inert", "stopped"} /\ proc'[w].cutoff = 0
    \/ /\ proc'[w].cutoff = proc[w].cutoff
       /\ \/ RecoverProcessing(w) /\ proc'[w].phase = "recover_pending"
          \/ /\ RecoverPending(w) /\ proc[w].phase = "recover_pending"
             /\ proc'[w].phase = "recover_rest"
          \/ proc[w].phase = "recover_rest" /\ proc'[w].phase = "polling"

LEMMA ProcChange ==
    ASSUME TypeOK, [Next]_vars, NEW w \in Workers
    PROVE  Moved(w)
<1> USE DEF Moved
<1>1. ASSUME NEW u \in Workers, NEW p, proc' = [proc EXCEPT ![u] = p]
      PROVE  proc'[w] = IF w = u THEN p ELSE proc[w]
  BY <1>1 DEF TypeOK
<1>2. ASSUME UNCHANGED proc PROVE Moved(w)
  BY <1>2
<1>3. ASSUME NEW u \in Workers, Start(u) \/ Crash(u) \/ StartupFails(u)
                                \/ StartLoops(u)
      PROVE  Moved(w)
  <2>1. \/ proc'[w] \in {proc[w], Process("recover_processing", now),
                          Process("stopped", 0), Process("inert", 0)}
        \/ /\ proc[w].phase = "recover_rest"
           /\ proc'[w] = Process("polling", proc[w].cutoff)
    BY <1>3, <1>1 DEF Start, Crash, StartupFails, StartLoops
  <2> QED  BY <2>1 DEF Process
<1>4. ASSUME NEW size, NEW next
      PROVE  LET p == AfterBatch(proc[w], size, next) IN
             \/ p.phase = proc[w].phase /\ p.cutoff = proc[w].cutoff
             \/ p.phase = "inert" /\ p.cutoff = 0
             \/ p.phase = next /\ p.cutoff = proc[w].cutoff
  <2>1. proc[w] \in ProcessRecord
    BY DEF TypeOK
  <2>2. /\ [proc[w] EXCEPT !.batches = proc[w].batches + 1].phase = proc[w].phase
        /\ [proc[w] EXCEPT !.batches = proc[w].batches + 1].cutoff = proc[w].cutoff
    BY <2>1 DEF ProcessRecord
  <2> QED  BY <2>2 DEF AfterBatch, Process
<1>5. ASSUME NEW u \in Workers, RecoverProcessing(u) PROVE Moved(w)
  <2>1. PICK size : proc' = [proc EXCEPT ![u] =
                       AfterBatch(proc[u], size, "recover_pending")]
    BY <1>5 DEF RecoverProcessing
  <2>2. proc'[w] = IF w = u THEN AfterBatch(proc[u], size, "recover_pending")
                            ELSE proc[w]
    BY <2>1, <1>1
  <2> QED  BY <1>4, <1>5, <2>2
<1>6. ASSUME NEW u \in Workers, RecoverPending(u) PROVE Moved(w)
  <2>1. PICK size : proc' = [proc EXCEPT ![u] =
                       AfterBatch(proc[u], size, "recover_rest")]
    BY <1>6 DEF RecoverPending
  <2>2. proc'[w] = IF w = u THEN AfterBatch(proc[u], size, "recover_rest")
                            ELSE proc[w]
    BY <2>1, <1>1
  <2>3. proc[u].phase = "recover_pending"
    BY <1>6 DEF RecoverPending
  <2> QED  BY <1>4, <1>6, <2>2, <2>3
<1>7. CASE \/ Tick \/ UNCHANGED vars
           \/ \E u \in Workers : Claim(u)
           \/ \E r \in Runs, n \in Attempts : TaskStep(r, n) \/ Discord(r, n)
           \/ \E r \in Runs : EditContent(r) \/ Delete(r)
  <2>1. UNCHANGED proc
    BY <1>7 DEF Tick, Claim, TaskStep, PrepareSend, PrepareSkip, Send,
                SendRefusedLocally, ReplyAccepted, ReplyRefused, ReplyUnknown,
                SaveSuccess, SaveRetry, SaveFailure, SaveUnknown, Finalize,
                Raise, Discord, EditContent, Delete, vars
  <2> QED  BY <2>1, <1>2
<1> QED  BY <1>3, <1>5, <1>6, <1>7 DEF Next, StartupStep

(* The batch with which a scan ends was short, so it held all there was. *)
LEMMA ShortBatch ==
    ASSUME ~Contention, NEW candidates, NEW S \in Selections(candidates),
           Cardinality(S) < BatchSize
    PROVE  S = candidates
BY BatchAssumption DEF Selections

LEMMA LastProcessingBatch ==
    ASSUME TypeOK, ~Contention, NEW w \in Workers, RecoverProcessing(w),
           proc'[w].phase = "recover_pending",
           NEW r \in Runs, run'[r].status = "processing"
    PROVE  run[r].lease_expires_at > proc[w].cutoff /\ run'[r] = run[r]
<1>1. PICK S \in Selections(ExpiredProcessing(proc[w].cutoff)) :
        /\ run' = [q \in Runs |-> IF q \in S
                     THEN RecoveredRun(q, proc[w].cutoff) ELSE run[q]]
        /\ proc' = [proc EXCEPT ![w] =
                AfterBatch(proc[w], Cardinality(S), "recover_pending")]
  BY DEF RecoverProcessing
<1>2. proc[w].phase = "recover_processing" /\ proc[w] \in ProcessRecord
  BY DEF RecoverProcessing, TypeOK
<1>3. proc'[w] = AfterBatch(proc[w], Cardinality(S), "recover_pending")
  BY <1>1 DEF TypeOK
<1>4. Cardinality(S) < BatchSize
  <2>1. [proc[w] EXCEPT !.batches = proc[w].batches + 1].phase
          = "recover_processing"
    BY <1>2 DEF ProcessRecord
  <2> QED  BY <1>3, <2>1 DEF AfterBatch, Process
<1>5. S = ExpiredProcessing(proc[w].cutoff)
  BY <1>4, ShortBatch
<1>6. r \notin S
  <2>1. RecoveredRun(r, proc[w].cutoff).status # "processing"
    BY DEF RecoveredRun, Finished, TypeOK, RunRow
  <2> QED  BY <1>1, <2>1
<1>7. run'[r] = run[r]
  BY <1>1, <1>6
<1>8. /\ run[r].lease_expires_at \in Nat /\ proc[w].cutoff \in Nat
      /\ run[r].status = "processing"
  BY <1>2, <1>7 DEF TypeOK, RunRow, ProcessRecord
<1> QED  BY <1>5, <1>6, <1>7, <1>8 DEF ExpiredProcessing

LEMMA LastPendingBatch ==
    ASSUME TypeOK, ~Contention, NEW w \in Workers, RecoverPending(w),
           proc'[w].phase = "recover_rest",
           NEW r \in Runs, run'[r].status = "pending",
           run'[r].attempt_count = 0
    PROVE  ScheduledFor[r] + GracePeriod >= proc[w].cutoff
<1>1. PICK S \in Selections(StartupPending(proc[w].cutoff)),
           D \in SUBSET StartupDelayed(proc[w].cutoff) :
        /\ run' = [q \in Runs |-> IF q \in S
                     THEN Finished(q, PendingOutcome(q), 0) ELSE run[q]]
        /\ proc' = [proc EXCEPT ![w] =
                AfterBatch(proc[w], Cardinality(S) + Cardinality(D),
                           "recover_rest")]
  BY DEF RecoverPending
<1>2. proc[w].phase = "recover_pending" /\ proc[w] \in ProcessRecord
  BY DEF RecoverPending, TypeOK
<1>3. proc'[w] = AfterBatch(proc[w], Cardinality(S) + Cardinality(D),
                            "recover_rest")
  BY <1>1 DEF TypeOK
<1>4. Cardinality(S) + Cardinality(D) < BatchSize
  <2>1. [proc[w] EXCEPT !.batches = proc[w].batches + 1].phase
          = "recover_pending"
    BY <1>2 DEF ProcessRecord
  <2> QED  BY <1>3, <2>1 DEF AfterBatch, Process
<1>5. Cardinality(S) \in Nat /\ Cardinality(D) \in Nat
  <2>1. S \subseteq Runs /\ D \subseteq Runs
    BY DEF Selections, StartupPending, StartupDelayed
  <2> QED  BY <2>1, RunsAssumption, FS_Subset, FS_CardinalityType
<1>6. S = StartupPending(proc[w].cutoff)
  <2>1. Cardinality(S) < BatchSize
    BY <1>4, <1>5, BatchAssumption
  <2> QED  BY <2>1, ShortBatch
<1>7. r \notin S
  <2>1. Finished(r, PendingOutcome(r), 0).status # "pending"
    BY DEF Finished, PendingOutcome, TypeOK, RunRow
  <2> QED  BY <1>1, <2>1
<1>8. run'[r] = run[r]
  BY <1>1, <1>7
<1>9. /\ ScheduledFor[r] \in Nat /\ GracePeriod \in Nat
      /\ proc[w].cutoff \in Nat
  BY <1>2, TimeAssumption DEF ProcessRecord
<1>10. ScheduledFor[r] > proc[w].cutoff \/ HealthyRetry(r)
          \/ HealthyDelayedOnce(r, proc[w].cutoff)
  BY <1>6, <1>7, <1>8, <1>9 DEF StartupPending
<1>11. ~HealthyRetry(r)
  BY <1>8 DEF HealthyRetry
<1> QED  BY <1>9, <1>10, <1>11 DEF HealthyDelayedOnce

LEMMA ScannedStep ==
    ASSUME TypeOK, TypeOK', DeliveryInv, ScannedInv, ~Contention,
           [Next]_vars, NEW w \in Workers
    PROVE  CutoffIsPast(w)' /\ ExpiredGone(w)' /\ OverdueGone(w)'
<1>1. /\ now \in Nat /\ proc[w].cutoff \in Nat /\ proc[w].cutoff <= now
      /\ proc'[w].cutoff \in Nat
      /\ ExpiredGone(w) /\ OverdueGone(w)
  BY DEF TypeOK, ProcessRecord, ScannedInv, CutoffIsPast
<1>2. now' \in Nat /\ now <= now'
  <2>1. now' = now \/ now' = now + 1
    BY DEF Next, Tick, Start, Crash, StartupStep, RecoverProcessing,
           RecoverPending, StartLoops, StartupFails, Claim, TaskStep,
           PrepareSend, PrepareSkip, Send, SendRefusedLocally, ReplyAccepted,
           ReplyRefused, ReplyUnknown, SaveSuccess, SaveRetry, SaveFailure,
           SaveUnknown, Finalize, Raise, Discord, EditContent, Delete, vars
  <2> QED  BY <1>1, <2>1
<1>3. CutoffIsPast(w)'
  <2>1. proc'[w].cutoff \in {proc[w].cutoff, now, 0}
    BY ProcChange DEF Moved
  <2> QED  BY <1>1, <1>2, <2>1 DEF CutoffIsPast
<1>4. ExpiredGone(w)'
  <2> SUFFICES ASSUME proc'[w].phase \in {"recover_pending", "recover_rest",
                                          "polling"},
                      NEW r \in Runs, run'[r].status = "processing"
               PROVE  run'[r].lease_expires_at > proc'[w].cutoff
    BY DEF ExpiredGone
  <2>1. proc'[w].cutoff = proc[w].cutoff
    BY ProcChange DEF Moved
  <2>2. CASE RecoverProcessing(w) /\ proc'[w].phase = "recover_pending"
    BY <2>1, <2>2, LastProcessingBatch
  <2>3. CASE proc[w].phase \in {"recover_pending", "recover_rest", "polling"}
    <3>1. CASE run'[r] = run[r]
      BY <1>1, <2>1, <2>3, <3>1 DEF ExpiredGone
    <3>2. CASE run'[r].lease_expires_at = now + LeaseTimeout
      BY <1>1, <2>1, <3>2, TimeAssumption
    <3> QED  BY <3>1, <3>2, RunChange DEF Changed
  <2> QED  BY <2>2, <2>3, ProcChange DEF Moved
<1>5. OverdueGone(w)'
  <2> SUFFICES ASSUME proc'[w].phase \in {"recover_rest", "polling"},
                      NEW r \in Runs, run'[r].status = "pending",
                      run'[r].attempt_count = 0
               PROVE  ScheduledFor[r] + GracePeriod >= proc'[w].cutoff
    BY DEF OverdueGone
  <2>1. proc'[w].cutoff = proc[w].cutoff
    BY ProcChange DEF Moved
  <2>2. CASE RecoverPending(w) /\ proc'[w].phase = "recover_rest"
    BY <2>1, <2>2, LastPendingBatch
  <2>3. CASE proc[w].phase \in {"recover_rest", "polling"}
    <3>1. run'[r] = run[r]
      BY RunChange DEF Changed
    <3> QED  BY <1>1, <2>1, <2>3, <3>1 DEF OverdueGone
  <2> QED  BY <2>2, <2>3, ProcChange DEF Moved
<1> QED  BY <1>3, <1>4, <1>5

(* Unless other transactions hold rows while they are scanned, a process     *)
(* that polls has left no expired claim and no overdue run behind.           *)
THEOREM RecoveryComplete ==
    ASSUME ~Contention
    PROVE  Spec => []RecoveryIsComplete
<1>1. Init => ScannedInv
  BY DEF Init, Process, ScannedInv, CutoffIsPast, ExpiredGone, OverdueGone
<1>2. TypeOK /\ TypeOK' /\ DeliveryInv /\ ScannedInv /\ [Next]_vars
        => ScannedInv'
  BY ScannedStep DEF ScannedInv
<1>3. ScannedInv => RecoveryIsComplete
  BY DEF ScannedInv, ExpiredGone, OverdueGone, RecoveryIsComplete
<1> QED  BY <1>1, <1>2, <1>3, DeliveryInvariant, PTL DEF Spec

-----------------------------------------------------------------------------
(* Leases *)

(* A recovery cutoff was the time once. *)
CutoffInv == \A w \in Workers : proc[w].cutoff <= now

LEMMA CutoffStep ==
    ASSUME TypeOK, CutoffInv, [Next]_vars
    PROVE  CutoffInv'
<1> SUFFICES ASSUME NEW v \in Workers
             PROVE  proc'[v].cutoff <= now'
  BY DEF CutoffInv
<1>1. /\ proc[v].cutoff <= now /\ now \in Nat
      /\ proc \in [Workers -> ProcessRecord] /\ proc[v] \in ProcessRecord
  BY DEF CutoffInv, TypeOK
<1>2. CASE Tick
  BY <1>1, <1>2 DEF Tick, ProcessRecord
<1>3. ASSUME NEW w \in Workers, Start(w) \/ StartLoops(w) \/ Crash(w) \/ StartupFails(w)
      PROVE  proc'[v].cutoff <= now'
  BY <1>1, <1>3 DEF Start, StartLoops, Crash, StartupFails, Process
<1>4. ASSUME NEW w \in Workers, NEW size, NEW next,
             proc' = [proc EXCEPT ![w] = AfterBatch(proc[w], size, next)],
             UNCHANGED now
      PROVE  proc'[v].cutoff <= now'
  <2>1. AfterBatch(proc[w], size, next).cutoff \in {proc[w].cutoff, 0}
    BY <1>1 DEF AfterBatch, Process, ProcessRecord
  <2> QED  BY <1>1, <1>4, <2>1 DEF CutoffInv
<1>5. ASSUME NEW w \in Workers, RecoverProcessing(w) \/ RecoverPending(w)
      PROVE  proc'[v].cutoff <= now'
  BY <1>4, <1>5 DEF RecoverProcessing, RecoverPending
<1>6. ASSUME UNCHANGED <<proc, now>>
      PROVE  proc'[v].cutoff <= now'
  BY <1>1, <1>6
<1>7. ASSUME NEW w \in Workers, Claim(w) PROVE proc'[v].cutoff <= now'
  BY <1>6, <1>7 DEF Claim
<1>8. ASSUME NEW r \in Runs, NEW n \in Attempts, TaskStep(r, n) \/ Discord(r, n)
      PROVE  proc'[v].cutoff <= now'
  BY <1>6, <1>8
     DEF TaskStep, PrepareSend, PrepareSkip, Send, SendRefusedLocally,
         ReplyAccepted, ReplyRefused, ReplyUnknown, SaveSuccess, SaveRetry,
         SaveFailure, SaveUnknown, Finalize, Raise, Discord
<1>9. ASSUME NEW r \in Runs, EditContent(r) \/ Delete(r)
      PROVE  proc'[v].cutoff <= now'
  BY <1>6, <1>9 DEF EditContent, Delete
<1>10. CASE UNCHANGED vars
  BY <1>6, <1>10 DEF vars
<1> QED  BY <1>2, <1>3, <1>5, <1>7, <1>8, <1>9, <1>10 DEF Next, StartupStep

(* One run that changes while it is processing: its lease had expired, or   *)
(* the task of its worker moved.                                            *)
LEMMA LeaseStep ==
    ASSUME TypeOK, CutoffInv, [Next]_vars, NEW q \in Runs,
           run[q].status = "processing", run'[q] # run[q]
    PROVE  \/ run[q].lease_expires_at <= now
           \/ \E n \in Attempts : /\ Owner(q, n) = run[q].claimed_by
                                   /\ task'[q][n] # task[q][n]
<1>1. ~Tick /\ ~UNCHANGED vars
  BY DEF Tick, vars, db
<1>2. ASSUME NEW w \in Workers
      PROVE  /\ ~Start(w) /\ ~StartLoops(w) /\ ~Crash(w) /\ ~StartupFails(w)
             /\ ~RecoverPending(w) /\ ~Claim(w)
  <2>1. ~Start(w) /\ ~StartLoops(w) /\ ~Crash(w) /\ ~StartupFails(w)
    BY DEF Start, StartLoops, Crash, StartupFails, db
  <2>2. ~RecoverPending(w)
    BY DEF RecoverPending, Selections, StartupPending
  <2>3. ~Claim(w)
    BY DEF Claim, Selections, Due
  <2> QED  BY <2>1, <2>2, <2>3
<1>3. ASSUME NEW w \in Workers, RecoverProcessing(w)
      PROVE  run[q].lease_expires_at <= now
  <2>1. run[q].lease_expires_at <= proc[w].cutoff
    BY <1>3 DEF RecoverProcessing, Selections, ExpiredProcessing
  <2>2. /\ run[q].lease_expires_at \in Nat /\ proc[w].cutoff \in Nat
        /\ now \in Nat /\ proc[w].cutoff <= now
    BY DEF TypeOK, RunRow, ProcessRecord, CutoffInv
  <2> QED  BY <2>1, <2>2
<1>4. ASSUME NEW r \in Runs, NEW n \in Attempts, TaskStep(r, n)
      PROVE  /\ r = q
             /\ Owner(q, n) = run[q].claimed_by
             /\ task'[q][n] # task[q][n]
  <2>1. /\ run[r].claimed_by = Owner(r, n)
        /\ \E s, t : SetRun(r, s, t)
        /\ Step(r, n) \notin {"none", "finalize"}
        /\ \/ SetTask(r, n, "none", 0)
           \/ SetTask(r, n, "finalize", 0)
    BY <1>4 DEF TaskStep, PrepareSend, PrepareSkip, Send, SendRefusedLocally,
                ReplyAccepted, ReplyRefused, ReplyUnknown, SaveSuccess,
                SaveRetry, SaveFailure, SaveUnknown, Finalize, Raise, Holds, db
  <2>2. r = q
    BY <2>1 DEF SetRun, TypeOK
  <2>3. task'[r][n].step # task[r][n].step
    BY <2>1, SetTaskAt DEF Step
  <2> QED  BY <2>1, <2>2, <2>3
<1>5. ASSUME NEW r \in Runs, NEW n \in Attempts
      PROVE  ~Discord(r, n)
  BY DEF Discord, db
<1>6. ASSUME NEW r \in Runs
      PROVE  ~EditContent(r) /\ ~Delete(r)
  BY DEF EditContent, Delete, TypeOK
<1> QED  BY <1>1, <1>2, <1>3, <1>4, <1>5, <1>6 DEF Next, StartupStep

(* Until its lease expires, a claimed run is changed only by its own task:  *)
(* no other process recovers it, no user command rewrites it.               *)
THEOREM LeasesRespected == Spec => LiveLeaseRespected
<1>1. TypeOK /\ CutoffInv /\ [Next]_vars =>
        [\A r \in Runs :
           run[r].status = "processing" /\ run'[r] # run[r] =>
              \/ run[r].lease_expires_at <= now
              \/ \E n \in Attempts : /\ Owner(r, n) = run[r].claimed_by
                                      /\ task'[r][n] # task[r][n]]_vars
  BY LeaseStep
<1>2. Init => CutoffInv
  BY DEF Init, CutoffInv, Process
<1>3. TypeOK /\ CutoffInv /\ [Next]_vars => CutoffInv'
  BY CutoffStep
<1> QED  BY <1>1, <1>2, <1>3, TypeCorrect, PTL DEF Spec, LiveLeaseRespected

-----------------------------------------------------------------------------
(* Refinement of PublishOnce *)

(* A run's recorded state and its publication, read off its latest attempt. *)
LatestDecides(r) ==
    /\ run[r].attempt_count = 0 => Publication(r) = "never"
    /\ run[r].attempt_count # 0 =>
          Publication(r) = CASE post[r][run[r].attempt_count] = "accepted" -> "done"
                             [] post[r][run[r].attempt_count] = "wire" -> "possible"
                             [] OTHER -> "never"
    /\ run[r].status = "failed" =>
          RecordedState(r) = IF attempt[r][run[r].attempt_count].status = "unknown"
                             THEN "undetermined" ELSE "undelivered"

LEMMA LatestIsDecisive ==
    TypeOK /\ DeliveryInv => \A r \in Runs : LatestDecides(r)
<1> SUFFICES ASSUME TypeOK, DeliveryInv, NEW r \in Runs
             PROVE  LatestDecides(r)
  OBVIOUS
<1>1. ASSUME NEW n \in Attempts, n # run[r].attempt_count
      PROVE  post[r][n] \notin {"wire", "accepted"}
  BY <1>1, PostedIsLatest DEF MayBePosted
<1>2. CASE run[r].attempt_count = 0
  <2>1. 0 \notin Attempts
    BY DEF Attempts
  <2>2. Publication(r) = "never"
    BY <1>1, <1>2, <2>1 DEF Publication
  <2>3. run[r].status # "failed"
    BY <1>2 DEF DeliveryInv, CountInv
  <2> QED  BY <1>2, <2>2, <2>3 DEF LatestDecides
<1>3. CASE run[r].attempt_count # 0
  <2>1. run[r].attempt_count \in Attempts
    BY <1>3, AttemptAssumption DEF TypeOK, RunRow, Attempts
  <2>2. Publication(r) = CASE post[r][run[r].attempt_count] = "accepted" -> "done"
                           [] post[r][run[r].attempt_count] = "wire" -> "possible"
                           [] OTHER -> "never"
    BY <1>1, <2>1 DEF Publication
  <2>3. \A n \in Attempts : n # run[r].attempt_count =>
                               attempt[r][n].status # "unknown"
    BY InvAt DEF NumberingInv
  <2> QED  BY <1>3, <2>1, <2>2, <2>3 DEF LatestDecides, RecordedState
<1> QED  BY <1>2, <1>3

LEMMA LatestIsDecisiveNext ==
    TypeOK' /\ DeliveryInv' => (\A r \in Runs : LatestDecides(r))'
BY LatestIsDecisive, PTL

(* The steps PublishOnce allows of one occurrence. *)
OccurrenceStep(r) ==
    \/ RecordedState(r)' = RecordedState(r) /\ Publication(r)' = Publication(r)
    \/ /\ RecordedState(r) = "waiting" /\ RecordedState(r)' = "owned"
       /\ Publication(r)' = Publication(r)
    \/ /\ RecordedState(r) = "owned" /\ RecordedState(r)' = "waiting"
       /\ Publication(r) = "never" /\ Publication(r)' = "never"
    \/ /\ RecordedState(r) \in {"owned", "undetermined"}
       /\ RecordedState(r)' = RecordedState(r)
       /\ Publication(r) = "never" /\ Publication(r)' = "possible"
    \/ /\ RecordedState(r)' = RecordedState(r)
       /\ Publication(r) = "possible" /\ Publication(r)' \in {"done", "never"}
    \/ /\ Publication(r)' = Publication(r)
       /\ \/ /\ RecordedState(r) = "owned" /\ Publication(r) = "done"
             /\ RecordedState(r)' = "delivered"
          \/ /\ RecordedState(r) \in {"waiting", "owned"}
             /\ Publication(r) = "never" /\ RecordedState(r)' = "undelivered"
          \/ /\ RecordedState(r) = "owned"
             /\ RecordedState(r)' = "undetermined"

LEMMA OccurrencesStep ==
    ASSUME \A r \in Runs : OccurrenceStep(r)
    PROVE  Occurrences!Next
BY DEF OccurrenceStep, Occurrences!Next, Occurrences!Take,
       Occurrences!GiveBack, Occurrences!Expose, Occurrences!Resolve,
       Occurrences!Settle, Occurrences!Stay

(* A step that leaves a run, its attempts and its posts alone leaves its    *)
(* occurrence alone.                                                        *)
LEMMA OccurrenceStays ==
    ASSUME NEW q \in Runs, run'[q].status = run[q].status,
           attempt'[q] = attempt[q], post'[q] = post[q]
    PROVE  OccurrenceStep(q)
BY DEF OccurrenceStep, RecordedState, Publication

(* What is common to the steps of one occurrence. *)
LEMMA StepFacts ==
    ASSUME TypeOK, DeliveryInv, TypeOK', DeliveryInv', NEW q \in Runs
    PROVE  /\ LatestDecides(q) /\ LatestDecides(q)'
           /\ run[q].attempt_count # 0 => run[q].attempt_count \in Attempts
           /\ run[q].attempt_count \in Nat
<1>1. LatestDecides(q)
  BY LatestIsDecisive
<1>2. LatestDecides(q)'
  BY LatestIsDecisiveNext
<1>3. run[q] \in RunRow
  BY DEF TypeOK
<1>4. run[q].attempt_count \in 0..MaxAttempts
  BY <1>3 DEF RunRow
<1> QED  BY <1>1, <1>2, <1>4, AttemptAssumption DEF Attempts

LEMMA ClaimRefines ==
    ASSUME TypeOK, DeliveryInv, TypeOK', DeliveryInv',
           NEW w \in Workers, Claim(w), NEW q \in Runs
    PROVE  OccurrenceStep(q)
<1>1. PICK S \in SUBSET Due :
          /\ run' = [r \in Runs |->
                IF r \in S
                THEN [status |-> "processing",
                      attempt_count |-> run[r].attempt_count + 1,
                      next_attempt_at |-> 0, claimed_by |-> w,
                      lease_expires_at |-> now + LeaseTimeout]
                ELSE run[r]]
          /\ attempt' = [r \in Runs |-> [n \in Attempts |->
                IF r \in S /\ n = run[r].attempt_count + 1
                THEN [status |-> "claimed", claimed_by |-> w]
                ELSE attempt[r][n]]]
          /\ UNCHANGED post
  BY DEF Claim, Selections
<1>2. Publication(q)' = Publication(q)
  BY <1>1 DEF Publication
<1>3. CASE q \in S
  <2>1. RecordedState(q) = "waiting" /\ RecordedState(q)' = "owned"
    BY <1>1, <1>3 DEF RecordedState, Due
  <2> QED  BY <1>2, <2>1 DEF OccurrenceStep
<1>4. CASE q \notin S
  <2>1. /\ run'[q] = run[q] /\ UNCHANGED post
        /\ \A n \in Attempts : attempt'[q][n] = attempt[q][n]
    BY <1>1, <1>4
  <2>2. RecordedState(q)' = RecordedState(q)
    BY <2>1 DEF RecordedState
  <2> QED  BY <1>2, <2>2 DEF OccurrenceStep
<1> QED  BY <1>3, <1>4

(* A waiting run has nothing on Discord. *)
LEMMA WaitingIsUnpublished ==
    ASSUME TypeOK, DeliveryInv, NEW q \in Runs, run[q].status = "pending"
    PROVE  RecordedState(q) = "waiting" /\ Publication(q) = "never"
<1>1. ASSUME NEW n \in Attempts PROVE post[q][n] \notin {"wire", "accepted"}
  <2>1. attempt[q][n].status \in {"none", "failed"}
    BY InvAt DEF NumberingInv, LatestInv
  <2> QED  BY <2>1, InvAt DEF RequestInv
<1> QED  BY <1>1 DEF RecordedState, Publication

LEMMA RecoverProcessingRefines ==
    ASSUME TypeOK, DeliveryInv, TypeOK', DeliveryInv',
           NEW w \in Workers, RecoverProcessing(w), NEW q \in Runs
    PROVE  OccurrenceStep(q)
<1>1. PICK S \in SUBSET ExpiredProcessing(proc[w].cutoff) :
          /\ run' = [r \in Runs |-> IF r \in S
                       THEN RecoveredRun(r, proc[w].cutoff) ELSE run[r]]
          /\ attempt' = [r \in Runs |-> IF r \in S
                           THEN RecoveredAttempts(r) ELSE attempt[r]]
          /\ UNCHANGED post
  BY DEF RecoverProcessing, Selections
<1>2. CASE q \notin S
  BY <1>1, <1>2, OccurrenceStays
<1>3. CASE q \in S
  <2>1. run[q].status = "processing" /\ RecordedState(q) = "owned"
    BY <1>3 DEF ExpiredProcessing, RecordedState
  <2>2. IsConsistent(q) /\ run[q].attempt_count \in Attempts
    BY <2>1, ProcessingIsConsistent
  <2>3. /\ run'[q].status = IF ReturnsToPending(q) THEN "pending" ELSE "failed"
        /\ run'[q].attempt_count = run[q].attempt_count
    <3>1. run'[q] = RecoveredRun(q, proc[w].cutoff) /\ run[q] \in RunRow
      BY <1>1, <1>3 DEF TypeOK
    <3> QED  BY <3>1 DEF RecoveredRun, Finished, RunRow
  <2>4. attempt'[q][run[q].attempt_count].status =
          IF InterruptedBeforeSend(q) THEN "failed" ELSE "unknown"
    <3>1. attempt'[q] = [attempt[q] EXCEPT ![run[q].attempt_count].status =
                            IF InterruptedBeforeSend(q) THEN "failed"
                                                        ELSE "unknown"]
      BY <1>1, <1>3, <2>2 DEF RecoveredAttempts
    <3>2. /\ DOMAIN attempt[q] = Attempts
          /\ \A k \in Attempts :
                DOMAIN attempt[q][k] = {"status", "claimed_by"}
      BY DEF TypeOK, AttemptRow
    <3> QED  BY <2>2, <3>1, <3>2
  <2>5. Publication(q)' = Publication(q)
    BY <1>1 DEF Publication
  <2>6. InterruptedBeforeSend(q) => Publication(q) = "never"
    <3>1. InterruptedBeforeSend(q) =>
            attempt[q][run[q].attempt_count].status = "claimed"
      BY DEF InterruptedBeforeSend
    <3>2. InterruptedBeforeSend(q) => post[q][run[q].attempt_count] = "none"
      BY <2>2, <3>1, InvAt DEF RequestInv
    <3>3. run[q].attempt_count # 0
      BY <2>2 DEF Attempts
    <3> QED  BY <3>2, <3>3, StepFacts DEF LatestDecides
  <2>7. CASE ReturnsToPending(q)
    <3>1. RecordedState(q)' = "waiting" /\ InterruptedBeforeSend(q)
      BY <2>3, <2>7 DEF RecordedState, ReturnsToPending
    <3> QED  BY <2>1, <2>5, <2>6, <3>1 DEF OccurrenceStep
  <2>8. CASE ~ReturnsToPending(q)
    <3>1. RecordedState(q)' = IF InterruptedBeforeSend(q) THEN "undelivered"
                              ELSE "undetermined"
      BY <2>3, <2>4, <2>8, StepFacts DEF LatestDecides
    <3> QED  BY <2>1, <2>5, <2>6, <3>1 DEF OccurrenceStep
  <2> QED  BY <2>7, <2>8
<1> QED  BY <1>2, <1>3

LEMMA RecoverPendingRefines ==
    ASSUME TypeOK, DeliveryInv, NEW w \in Workers, RecoverPending(w),
           NEW q \in Runs
    PROVE  OccurrenceStep(q)
<1>1. PICK S \in SUBSET StartupPending(proc[w].cutoff) :
          /\ run' = [r \in Runs |-> IF r \in S
                       THEN Finished(r, PendingOutcome(r), 0) ELSE run[r]]
          /\ UNCHANGED <<attempt, post>>
  BY DEF RecoverPending, Selections
<1>2. CASE q \notin S
  BY <1>1, <1>2, OccurrenceStays
<1>3. CASE q \in S
  <2>1. run[q].status = "pending"
    BY <1>3 DEF StartupPending
  <2>2. PendingOutcome(q) = "skipped"
    BY <2>1, PendingIsHealthy DEF PendingOutcome
  <2>3. run'[q].status = "skipped"
    BY <1>1, <1>3, <2>2 DEF Finished, TypeOK, RunRow
  <2>4. RecordedState(q)' = "undelivered"
    BY <2>3 DEF RecordedState
  <2>5. Publication(q)' = Publication(q)
    BY <1>1 DEF Publication
  <2> QED  BY <2>1, <2>4, <2>5, WaitingIsUnpublished DEF OccurrenceStep
<1> QED  BY <1>2, <1>3

(* What a run looks like when its counted attempt n has nothing posted. *)
LEMMA CountedPublication ==
    ASSUME TypeOK, DeliveryInv, NEW q \in Runs, NEW n \in Attempts,
           n = run[q].attempt_count
    PROVE  Publication(q) = CASE post[q][n] = "accepted" -> "done"
                              [] post[q][n] = "wire" -> "possible"
                              [] OTHER -> "never"
<1>1. n # 0
  BY DEF Attempts
<1> QED  BY <1>1, LatestIsDecisive DEF LatestDecides

(* The attempt of a processing run whose task saves a result. *)
LEMMA HeldIsCounted ==
    ASSUME TypeOK, DeliveryInv, NEW r \in Runs, NEW n \in Attempts,
           Holds(r, n, {"claimed", "sending"})
    PROVE  n = run[r].attempt_count /\ RecordedState(r) = "owned"
BY InvAt DEF Holds, NumberingInv, RecordedState

(* A result is saved: the run leaves processing, nothing is sent. *)
LEMMA SaveRefines ==
    ASSUME TypeOK, DeliveryInv, TypeOK', DeliveryInv',
           NEW r \in Runs, NEW n \in Attempts,
           Holds(r, n, {"claimed", "sending"}),
           NEW closed, SetAttempt(r, n, closed),
           NEW status, NEW retryAt, SetRun(r, status, retryAt),
           UNCHANGED post,
           \/ status = "succeeded" /\ post[r][n] = "accepted"
           \/ /\ status \in {"pending", "skipped"}
              /\ post[r][n] \in {"none", "refused"}
           \/ /\ status = "failed" /\ closed = "failed"
              /\ post[r][n] \in {"none", "refused"}
           \/ status = "failed" /\ closed = "unknown",
           NEW q \in Runs
    PROVE  OccurrenceStep(q)
<1>1. /\ run'[q].status = IF q = r THEN status ELSE run[q].status
      /\ run'[q].attempt_count = run[q].attempt_count
  BY SetRunAt
<1>2. CASE q # r
  <2>1. attempt'[q] = attempt[q]
    BY <1>2 DEF SetAttempt, TypeOK
  <2> QED  BY <1>1, <1>2, <2>1, OccurrenceStays
<1>3. CASE q = r
  <2>1. n = run[r].attempt_count /\ RecordedState(q) = "owned"
    BY <1>3, HeldIsCounted
  <2>2. Publication(q)' = Publication(q)
    BY DEF Publication
  <2>3. Publication(q) = CASE post[q][n] = "accepted" -> "done"
                           [] post[q][n] = "wire" -> "possible"
                           [] OTHER -> "never"
    BY <1>3, <2>1, CountedPublication
  <2>4. CASE status = "succeeded" /\ post[r][n] = "accepted"
    <3>1. RecordedState(q)' = "delivered"
      BY <1>1, <1>3, <2>4 DEF RecordedState
    <3> QED  BY <1>3, <2>1, <2>2, <2>3, <2>4, <3>1 DEF OccurrenceStep
  <2>5. CASE /\ status \in {"pending", "skipped"}
             /\ post[r][n] \in {"none", "refused"}
    <3>1. RecordedState(q)' = IF status = "pending" THEN "waiting"
                              ELSE "undelivered"
      BY <1>1, <1>3, <2>5 DEF RecordedState
    <3>2. Publication(q) = "never"
      BY <1>3, <2>3, <2>5
    <3> QED  BY <2>1, <2>2, <2>5, <3>1, <3>2 DEF OccurrenceStep
  <2>6. attempt'[q][run'[q].attempt_count].status = closed
    BY <1>1, <1>3, <2>1, SetAttemptAt
  <2>7. CASE /\ status = "failed" /\ closed = "failed"
             /\ post[r][n] \in {"none", "refused"}
    <3>1. RecordedState(q)' = "undelivered"
      BY <1>1, <1>3, <2>6, <2>7, StepFacts DEF LatestDecides
    <3>2. Publication(q) = "never"
      BY <1>3, <2>3, <2>7
    <3> QED  BY <2>1, <2>2, <3>1, <3>2 DEF OccurrenceStep
  <2>8. CASE status = "failed" /\ closed = "unknown"
    <3>1. RecordedState(q)' = "undetermined"
      BY <1>1, <1>3, <2>6, <2>8, StepFacts DEF LatestDecides
    <3> QED  BY <2>1, <2>2, <3>1 DEF OccurrenceStep
  <2> QED  BY <2>4, <2>5, <2>7, <2>8
<1> QED  BY <1>2, <1>3

(* The request leaves: its run is still owned, or written off as unknown. *)
LEMMA SendRefines ==
    ASSUME TypeOK, DeliveryInv, TypeOK', DeliveryInv',
           NEW r \in Runs, NEW n \in Attempts, Send(r, n), NEW q \in Runs
    PROVE  OccurrenceStep(q)
<1>1. /\ UNCHANGED <<run, attempt>>
      /\ post'[r][n] = "wire"
      /\ q # r => post'[q] = post[q]
  BY DEF Send, db, TypeOK
<1>2. CASE q # r
  BY <1>1, <1>2, OccurrenceStays
<1>3. CASE q = r
  <2>1. /\ attempt[r][n].status \in {"sending", "unknown"}
        /\ post[r][n] = "none"
    BY InvAt DEF Send, Step, RequestInv, StepInv, AttemptStatuses
  <2>2. n = run[r].attempt_count
    BY <2>1, InvAt DEF NumberingInv
  <2>3. RecordedState(q) \in {"owned", "undetermined"}
    <3>1. run[r].status \in {"processing", "failed"}
      BY <2>1, <2>2, InvAt DEF LatestInv, RunStatuses
    <3>2. run[r].status = "failed" => attempt[r][n].status = "unknown"
      BY <2>1, <2>2, InvAt DEF LatestInv
    <3> QED  BY <1>3, <3>1, <3>2 DEF RecordedState
  <2>4. RecordedState(q)' = RecordedState(q)
    BY <1>1 DEF RecordedState
  <2>5. Publication(q) = "never"
    BY <1>3, <2>1, <2>2, CountedPublication
  <2>6. Publication(q)' = "possible"
    <3>1. n # 0
      BY DEF Attempts
    <3> QED  BY <1>1, <1>3, <2>2, <3>1, StepFacts DEF LatestDecides
  <2> QED  BY <2>3, <2>4, <2>5, <2>6 DEF OccurrenceStep
<1> QED  BY <1>2, <1>3

LEMMA DiscordRefines ==
    ASSUME TypeOK, DeliveryInv, TypeOK', DeliveryInv',
           NEW r \in Runs, NEW n \in Attempts, Discord(r, n), NEW q \in Runs
    PROVE  OccurrenceStep(q)
<1>1. /\ UNCHANGED <<run, attempt>> /\ post[r][n] = "wire"
      /\ post'[r][n] \in {"accepted", "refused"}
      /\ q # r => post'[q] = post[q]
  BY DEF Discord, db, TypeOK
<1>2. CASE q # r
  BY <1>1, <1>2, OccurrenceStays
<1>3. CASE q = r
  <2>1. n = run[r].attempt_count /\ n # 0
    BY <1>1, PostedIsLatest DEF MayBePosted, Attempts
  <2>2. RecordedState(q)' = RecordedState(q)
    BY <1>1 DEF RecordedState
  <2>3. Publication(q) = "possible"
    BY <1>1, <1>3, <2>1, CountedPublication
  <2>4. Publication(q)' \in {"done", "never"}
    BY <1>1, <1>3, <2>1, StepFacts DEF LatestDecides
  <2> QED  BY <2>2, <2>3, <2>4 DEF OccurrenceStep
<1> QED  BY <1>2, <1>3

LEMMA TaskStepRefines ==
    ASSUME TypeOK, DeliveryInv, TypeOK', DeliveryInv',
           NEW r \in Runs, NEW n \in Attempts, TaskStep(r, n), NEW q \in Runs
    PROVE  OccurrenceStep(q)
<1>1. CASE PrepareSend(r, n)
  <2>1. /\ UNCHANGED <<run, post>> /\ run[r].status = "processing"
        /\ q # r => attempt'[q] = attempt[q]
    BY <1>1 DEF PrepareSend, Holds, SetAttempt, TypeOK
  <2>2. RecordedState(q)' = RecordedState(q)
    BY <2>1 DEF RecordedState
  <2>3. Publication(q)' = Publication(q)
    BY <2>1 DEF Publication
  <2> QED  BY <2>2, <2>3 DEF OccurrenceStep
<1>2. CASE \/ SendRefusedLocally(r, n) \/ ReplyAccepted(r, n)
           \/ ReplyRefused(r, n) \/ ReplyUnknown(r, n)
           \/ Finalize(r, n) \/ Raise(r, n)
  <2>1. UNCHANGED <<run, attempt, post>>
    BY <1>2 DEF SendRefusedLocally, ReplyAccepted, ReplyRefused, ReplyUnknown,
                Finalize, Raise, db
  <2> QED  BY <2>1, OccurrenceStays
<1>3. CASE Send(r, n)
  BY <1>3, SendRefines
<1>4. CASE PrepareSkip(r, n)
  <2>1. post[r][n] = "none" /\ Holds(r, n, {"claimed", "sending"})
    BY <1>4, InvAt DEF PrepareSkip, Holds, RequestInv
  <2>2. /\ SetAttempt(r, n, "failed") /\ SetRun(r, "skipped", 0)
        /\ UNCHANGED post
    BY <1>4 DEF PrepareSkip
  <2> QED  BY <2>1, <2>2, SaveRefines
<1>5. CASE SaveSuccess(r, n)
  <2>1. post[r][n] = "accepted" /\ Holds(r, n, {"claimed", "sending"})
    BY <1>5, InvAt DEF SaveSuccess, Holds, Step, StepInv
  <2>2. /\ SetAttempt(r, n, "succeeded") /\ SetRun(r, "succeeded", 0)
        /\ UNCHANGED post
    BY <1>5 DEF SaveSuccess
  <2> QED  BY <2>1, <2>2, SaveRefines
<1>6. CASE SaveRetry(r, n)
  <2>1. /\ post[r][n] \in {"none", "refused"}
        /\ Holds(r, n, {"claimed", "sending"})
    BY <1>6, InvAt DEF SaveRetry, Step, StepInv
  <2>2. /\ SetAttempt(r, n, "failed")
        /\ SetRun(r, "pending", task[r][n].retry_at) /\ UNCHANGED post
    BY <1>6 DEF SaveRetry
  <2> QED  BY <2>1, <2>2, SaveRefines
<1>7. CASE SaveFailure(r, n)
  <2>1. /\ post[r][n] \in {"none", "refused"}
        /\ Holds(r, n, {"claimed", "sending"})
    BY <1>7, InvAt DEF SaveFailure, Step, StepInv
  <2>2. /\ SetAttempt(r, n, "failed") /\ SetRun(r, "failed", 0)
        /\ UNCHANGED post
    BY <1>7 DEF SaveFailure
  <2> QED  BY <2>1, <2>2, SaveRefines
<1>8. CASE SaveUnknown(r, n)
  <2>1. Holds(r, n, {"claimed", "sending"})
    BY <1>8 DEF SaveUnknown, Holds
  <2>2. /\ SetAttempt(r, n, "unknown") /\ SetRun(r, "failed", 0)
        /\ UNCHANGED post
    BY <1>8 DEF SaveUnknown
  <2> QED  BY <2>1, <2>2, SaveRefines
<1> QED  BY <1>1, <1>2, <1>3, <1>4, <1>5, <1>6, <1>7, <1>8, TaskStep(r, n)
         DEF TaskStep

LEMMA OtherStepRefines ==
    ASSUME TypeOK, DeliveryInv, NEW q \in Runs,
           \/ Tick \/ UNCHANGED vars
           \/ \E w \in Workers : Start(w) \/ StartLoops(w) \/ Crash(w) \/ StartupFails(w)
           \/ \E r \in Runs : EditContent(r) \/ Delete(r)
    PROVE  OccurrenceStep(q)
<1>1. CASE \/ Tick \/ UNCHANGED vars
           \/ \E w \in Workers : Start(w) \/ StartLoops(w) \/ Crash(w) \/ StartupFails(w)
           \/ \E r \in Runs : EditContent(r)
  <2>1. UNCHANGED <<run, attempt, post>>
    BY <1>1 DEF Tick, Start, StartLoops, Crash, StartupFails, EditContent, vars, db
  <2> QED  BY <2>1, OccurrenceStays
<1>2. ASSUME NEW r \in Runs, Delete(r) PROVE OccurrenceStep(q)
  <2>1. /\ UNCHANGED <<attempt, post>>
        /\ q # r => run'[q] = run[q]
        /\ q = r => run'[q] = IF run[q].status = "pending"
                              THEN Finished(q, "skipped", 0) ELSE run[q]
    BY <1>2 DEF Delete, TypeOK
  <2>2. CASE q = r /\ run[q].status = "pending"
    <3>1. run'[q].status = "skipped"
      BY <2>1, <2>2 DEF Finished, TypeOK, RunRow
    <3>2. RecordedState(q)' = "undelivered"
      BY <3>1 DEF RecordedState
    <3>3. Publication(q)' = Publication(q)
      BY <2>1 DEF Publication
    <3> QED  BY <2>2, <3>2, <3>3, WaitingIsUnpublished DEF OccurrenceStep
  <2>3. CASE ~(q = r /\ run[q].status = "pending")
    BY <2>1, <2>3, OccurrenceStays
  <2> QED  BY <2>2, <2>3
<1> QED  BY <1>1, <1>2

(* Delivery implements PublishOnce: however workers, answers, crashes,      *)
(* recoveries and user commands interleave, each occurrence moves only as   *)
(* the abstract promise allows.                                             *)
THEOREM Implements == Spec => PublishesOnce
<1>1. Init => Occurrences!Init
  <2> SUFFICES ASSUME Init PROVE Occurrences!Init
    OBVIOUS
  <2>1. ASSUME NEW r \in Runs
        PROVE  RecordedState(r) = "waiting" /\ Publication(r) = "never"
    BY DEF Init, RecordedState, Publication
  <2> QED  BY <2>1 DEF Occurrences!Init
<1>2. TypeOK /\ DeliveryInv /\ TypeOK' /\ DeliveryInv' /\ [Next]_vars
        => Occurrences!Next
  <2> SUFFICES ASSUME TypeOK, DeliveryInv, TypeOK', DeliveryInv', [Next]_vars
               PROVE  Occurrences!Next
    OBVIOUS
  <2>1. ASSUME NEW q \in Runs PROVE OccurrenceStep(q)
    BY TaskStepRefines, DiscordRefines, ClaimRefines,
       RecoverProcessingRefines, RecoverPendingRefines, OtherStepRefines
       DEF Next, StartupStep
  <2> QED  BY <2>1, OccurrencesStep
<1> QED  BY <1>1, <1>2, DeliveryInvariant, PTL
         DEF Spec, PublishesOnce, Occurrences!Spec
=============================================================================
