-------------------------- MODULE NotificationProofs --------------------------
(* The safety of the notification outbox.  That nobody is told twice rests   *)
(* on two facts: a route has a row exactly if the one before it failed for   *)
(* good (RoutesInv), and of that route's attempts only the latest has not    *)
(* failed (NumberingInv, LatestInv, StepInv).  The last sections are about   *)
(* reports, which are kept, and about why bootstrap may select a draft again.*)
EXTENDS Notification, TLAPS

(* A route but the first has a row exactly if the one before it has failed.  *)
RoutesInv ==
    \A k \in Keys : k.route # "log" =>
        (Fallback(k) \in Rows <=> k \in Rows /\ log[k].status = "failed")

(* Attempts are numbered up to the row's count, and all before it failed. *)
NumberingInv ==
    \A k \in Rows : \A n \in Attempts : <<k, n>> \in Tries =>
        /\ n <= log[k].attempt_count
        /\ n < log[k].attempt_count => attempt[<<k, n>>].status = "failed"

(* What a row's status says of its latest attempt. *)
Agrees(rowStatus, status) ==
    /\ rowStatus = "processing" <=> status \in {"claimed", "sending"}
    /\ rowStatus = "unknown" <=> status = "unknown"
    /\ rowStatus = "succeeded" <=> status = "succeeded"

LatestAgrees(k) ==
    /\ log[k].attempt_count = 0 => log[k].status \in {"pending", "cancelled"}
    /\ log[k].attempt_count # 0 =>
          /\ Latest(k) \in Tries
          /\ Agrees(log[k].status, attempt[Latest(k)].status)
          /\ log[k].status = "processing" =>
                attempt[Latest(k)].claimed_by = log[k].claimed_by

LatestInv == \A k \in Rows : LatestAgrees(k)

(* An attempt whose request may leave, is out or was accepted is recorded as *)
(* sending, or with a result that admits it.                                 *)
StepAgrees(a) ==
    /\ task[a] = "send" => attempt[a].status \in {"sending", "unknown"}
    /\ MayBeTold(a) => attempt[a].status \in {"sending", "unknown", "succeeded"}

StepInv == \A a \in Tries : StepAgrees(a)

(* The inductive invariant. *)
IInv == TypeOK /\ RoutesInv /\ NumberingInv /\ LatestInv /\ StepInv

-----------------------------------------------------------------------------
(* Keys and routes *)

LEMMA KeyParts ==
    ASSUME NEW k \in Keys
    PROVE  /\ k.run \in Runs /\ k.kind \in DraftKinds \cup EventKinds
           /\ k.route \in Routes /\ k.kind \in Kinds[k.run]
           /\ k.kind \in EventKinds => k.route # "creator_dm"
           /\ k = [run |-> k.run, kind |-> k.kind, route |-> k.route]
BY DEF Keys

LEMMA NextRoutes ==
    /\ NextRoute["creator_dm"] = "operator_channel"
    /\ NextRoute["operator_channel"] = "operator_dm"
    /\ NextRoute["operator_dm"] = "log"
BY DEF NextRoute

LEMMA FallbackParts ==
    ASSUME NEW k \in Keys, k.route # "log"
    PROVE  /\ Fallback(k) \in Keys
           /\ Fallback(k).run = k.run /\ Fallback(k).kind = k.kind
           /\ Fallback(k).route = NextRoute[k.route]
           /\ Fallback(k).route # FirstRoute(k.kind)
           /\ Fallback(k) # k
<1>1. Fallback(k) = [run |-> k.run, kind |-> k.kind, route |-> NextRoute[k.route]]
  BY KeyParts DEF Fallback
<1>2. k.route \in {"creator_dm", "operator_channel", "operator_dm"}
  BY KeyParts DEF Routes
<1>3. /\ NextRoute[k.route] \in Routes
      /\ NextRoute[k.route] # "creator_dm"
      /\ NextRoute[k.route] # k.route
  BY <1>2, NextRoutes DEF Routes
<1>4. NextRoute[k.route] # FirstRoute(k.kind)
  BY <1>2, NextRoutes, KeyParts DEF FirstRoute, EventKinds, DraftKinds
<1> QED
  BY <1>1, <1>3, <1>4, KeyParts DEF Keys

LEMMA FallbackInjective ==
    ASSUME NEW k \in Keys, NEW j \in Keys, k.route # "log", j.route # "log",
           Fallback(k) = Fallback(j)
    PROVE  k = j
<1>1. k.run = j.run /\ k.kind = j.kind /\ NextRoute[k.route] = NextRoute[j.route]
  BY FallbackParts
<1>2. k.route = j.route
  BY <1>1, NextRoutes, KeyParts DEF Routes
<1> QED
  BY <1>1, <1>2, KeyParts

(* Before an existing row every route has failed for good. *)
LEMMA OneOpenRoute ==
    ASSUME TypeOK, RoutesInv, NEW k \in Rows, NEW j \in Rows,
           Of([run |-> k.run, kind |-> k.kind], j),
           log[k].status # "failed", log[j].status # "failed"
    PROVE  k = j
<1> DEFINE At(route) == [run |-> k.run, kind |-> k.kind, route |-> route]
<1>1. /\ k \in Keys /\ j \in Keys /\ k = At(k.route) /\ j = At(j.route)
      /\ k.route \in Routes /\ j.route \in Routes
  BY KeyParts DEF TypeOK, Of
<1>2. ASSUME NEW route \in Routes, At(route) \in Keys, route # "log",
             At(NextRoute[route]) \in Rows
      PROVE  At(route) \in Rows /\ log[At(route)].status = "failed"
  <2>1. Fallback(At(route)) = At(NextRoute[route]) /\ At(route).route = route
    BY DEF Fallback
  <2> QED
    BY <1>2, <2>1 DEF RoutesInv
<1>3. ASSUME NEW route \in Routes, At(route) \in Keys
      PROVE  /\ At("operator_channel") \in Keys /\ At("operator_dm") \in Keys
             /\ At("log") \in Keys
  BY <1>3, <1>1 DEF Keys, Routes
<1>4. /\ At("log") \in Rows => At("operator_dm") \in Rows
                               /\ log[At("operator_dm")].status = "failed"
      /\ At("operator_dm") \in Rows => At("operator_channel") \in Rows
                               /\ log[At("operator_channel")].status = "failed"
  BY <1>1, <1>2, <1>3, NextRoutes DEF Routes
<1>5. At("operator_channel") \in Rows /\ At("creator_dm") \in Keys
      => At("creator_dm") \in Rows /\ log[At("creator_dm")].status = "failed"
  BY <1>2, NextRoutes DEF Routes
<1> QED
  BY <1>1, <1>4, <1>5 DEF Routes

-----------------------------------------------------------------------------
(* Rows *)

LEMMA NewRowOK ==
    ASSUME NEW at \in Int, NEW due \in Int
    PROVE  /\ NewRow(at, due) \in LogRow
           /\ NewRow(at, due).status = "pending"
           /\ NewRow(at, due).attempt_count = 0
BY AttemptAssumption DEF NewRow, LogRow, LogStatuses, ErrorCodes

LEMMA ClosedOK ==
    ASSUME TypeOK, NEW k \in Rows, NEW status \in LogStatuses, NEW error \in ErrorCodes
    PROVE  /\ Closed(k, status, error) \in LogRow
           /\ Closed(k, status, error).status = status
           /\ Closed(k, status, error).attempt_count = log[k].attempt_count
           /\ Closed(k, status, error).scheduled_at = log[k].scheduled_at
           /\ Closed(k, status, error).error_code = error
<1>1. log[k] \in LogRow
  BY DEF TypeOK
<1> QED
  BY <1>1 DEF LogRow, Closed

LEMMA BackToPendingOK ==
    ASSUME TypeOK, NEW k \in Rows, NEW at \in Int
    PROVE  /\ BackToPending(k, at) \in LogRow
           /\ BackToPending(k, at).status = "pending"
           /\ BackToPending(k, at).attempt_count = log[k].attempt_count
<1>1. /\ Closed(k, "pending", "none") \in LogRow
      /\ Closed(k, "pending", "none").status = "pending"
      /\ Closed(k, "pending", "none").attempt_count = log[k].attempt_count
  BY ClosedOK DEF LogStatuses, ErrorCodes
<1> QED
  BY <1>1 DEF BackToPending, LogRow

Fresh(row) == row.status = "pending" /\ row.attempt_count = 0
FallbacksOf(failed) == {Fallback(k) : k \in WithFallback(failed)}

LEMMA FallbackRows ==
    ASSUME NEW D \in SUBSET Keys, NEW rows \in [D -> LogRow],
           NEW failed \in SUBSET D, NEW at \in Int
    PROVE  /\ WithFallbacks(rows, failed, at) \in [D \cup FallbacksOf(failed) -> LogRow]
           /\ FallbacksOf(failed) \subseteq Keys
           /\ \A k \in D : WithFallbacks(rows, failed, at)[k] = rows[k]
           /\ \A k \in FallbacksOf(failed) \ D :
                 Fresh(WithFallbacks(rows, failed, at)[k])
<1> DEFINE new == WithFallbacks(rows, failed, at)
<1>1. WithFallback(failed) \subseteq D
      /\ \A k \in WithFallback(failed) : k \in Keys /\ k.route # "log"
  BY DEF WithFallback
<1>2. FallbacksOf(failed) \subseteq Keys
  BY <1>1, FallbackParts DEF FallbacksOf
<1>3. /\ DOMAIN new = D \cup FallbacksOf(failed)
      /\ \A k \in D : new[k] = rows[k]
      /\ new = [k \in DOMAIN new |-> new[k]]
  BY DEF WithFallbacks, FallbacksOf
<1>4. ASSUME NEW j \in FallbacksOf(failed), j \notin D
      PROVE  new[j] \in LogRow /\ Fresh(new[j])
  <2> DEFINE k == CHOOSE i \in WithFallback(failed) : j = Fallback(i)
  <2>1. new[j] = NewRow(rows[k].scheduled_at, at)
    BY <1>4 DEF WithFallbacks, FallbacksOf
  <2>2. k \in WithFallback(failed)
    BY DEF FallbacksOf
  <2>3. rows[k] \in LogRow
    BY <1>1, <2>2
  <2>4. rows[k].scheduled_at \in Int
    BY <2>3 DEF LogRow
  <2> QED
    BY <2>1, <2>4, NewRowOK DEF Fresh
<1> HIDE DEF new
<1>5. \A k \in DOMAIN new : new[k] \in LogRow
  BY <1>3, <1>4
<1>6. new \in [D \cup FallbacksOf(failed) -> LogRow]
  BY <1>3, <1>5
<1> QED
  BY <1>2, <1>3, <1>4, <1>6 DEF new

-----------------------------------------------------------------------------
(* The parts of TypeOK, and what settlements, commands and bootstrap do to   *)
(* the rows                                                                  *)

LogOK == Rows \subseteq Keys /\ log \in [Rows -> LogRow]

TriesOK ==
    /\ Tries \subseteq Rows \X Attempts /\ attempt \in [Tries -> AttemptRow]
    /\ task \in [Tries -> Steps] /\ wire \in [Tries -> Wires]

LEMMA TypeParts ==
    TypeOK <=> /\ now \in Nat /\ proc \in [Workers -> ProcessRecord]
               /\ schedule \in [Runs -> ScheduleRow]
               /\ run \in [Runs -> RunStatuses] /\ LogOK /\ TriesOK
BY DEF TypeOK, LogOK, TriesOK

NoticeInv == LogOK /\ TriesOK /\ RoutesInv /\ NumberingInv /\ LatestInv /\ StepInv

(* A row that a transaction outside the worker touches is a reminder nobody  *)
(* has claimed, and comes back only from a pause.                            *)
RowKept(k) ==
    \/ log'[k] = log[k]
    \/ /\ k.kind \in DraftKinds
       /\ log'[k].attempt_count = log[k].attempt_count
       /\ \/ log[k].status = "pending" /\ log'[k].status \in {"pending", "cancelled"}
          \/ /\ log[k].status = "cancelled" /\ log'[k].status = "pending"
             /\ log[k].error_code = "schedule_paused" /\ log[k].attempt_count = 0

LogGrows ==
    /\ Rows \subseteq Rows'
    /\ \A k \in Rows : RowKept(k)
    /\ \A k \in Rows' \ Rows : /\ k.route = FirstRoute(k.kind)
                               /\ log'[k].status = "pending"
                               /\ log'[k].attempt_count = 0

RemindersOnly == \A k \in Rows' \ Rows : k.kind \in DraftKinds

LEMMA EventGrows ==
    ASSUME TypeOK, NEW r \in Runs, NEW kind \in EventKinds, NEW at \in Int,
           log' = WithEvent(r, kind, at)
    PROVE  /\ LogOK' /\ LogGrows
           /\ \A k \in Rows : log'[k] = log[k]
           /\ Rows' = Rows \cup ({KeyOf(r, kind, "operator_channel")} \cap Keys)
<1> DEFINE new == KeyOf(r, kind, "operator_channel")
<1>1. /\ Rows' = Rows \cup ({new} \cap Keys)
      /\ \A k \in Rows : log'[k] = log[k]
      /\ \A k \in Rows' \ Rows : k = new /\ log'[k] = NewRow(at, at)
  BY DEF WithEvent, Rows
<1>2. \A k \in Rows' : log'[k] \in LogRow
  BY <1>1, NewRowOK DEF TypeOK
<1>3. LogOK'
  <2>1. log' \in [Rows' -> LogRow]
    BY <1>1, <1>2 DEF WithEvent
  <2> QED
    BY <1>1, <2>1 DEF LogOK, TypeOK
<1>4. new.route = FirstRoute(new.kind)
  BY DEF KeyOf, FirstRoute, EventKinds, DraftKinds
<1> QED
  BY <1>1, <1>3, <1>4, NewRowOK DEF LogGrows, RowKept

LEMMA ReminderOK ==
    ASSUME NEW r \in Runs, NEW at \in Int, NEW k \in Reminders(r, at)
    PROVE  /\ k \in Keys /\ k.kind \in DraftKinds /\ k.route = FirstRoute(k.kind)
           /\ k.run = r
<1>1. k \in Keys /\ k.route = "creator_dm" /\ k.kind \in PlannedKinds(r, at) /\ k.run = r
  BY DEF Reminders
<1>2. k.kind \in DraftKinds
  BY <1>1, KeyParts DEF DraftKinds, EventKinds
<1> QED
  BY <1>1, <1>2 DEF FirstRoute

LEMMA PlanTimeOK ==
    ASSUME NEW r \in Runs, NEW kind \in DraftKinds, NEW at \in Int
    PROVE  PlanTime(r, kind, at) \in Int
<1>1. ScheduledFor[r] \in Int /\ Day \in Int /\ Hour \in Int
  BY TimeAssumption
<1> QED
  BY <1>1 DEF PlanTime, DraftKinds

LEMMA PlannedGrows ==
    ASSUME TypeOK, NEW rows, DOMAIN rows = Rows, rows \in [Rows -> LogRow],
           \A k \in Rows :
               \/ rows[k] = log[k]
               \/ /\ k.kind \in DraftKinds /\ log[k].status = "pending"
                  /\ rows[k].status = "cancelled"
                  /\ rows[k].error_code # "schedule_paused"
                  /\ rows[k].attempt_count = log[k].attempt_count,
           NEW planned,
           \A k \in planned : /\ k \in Keys /\ k.kind \in DraftKinds
                              /\ k.route = FirstRoute(k.kind),
           NEW at \in Int, log' = WithPlanned(rows, planned, at)
    PROVE  LogOK' /\ LogGrows /\ RemindersOnly
<1>1. \A k \in planned : /\ PlanTime(k.run, k.kind, at) \in Int
                         /\ k.run \in Runs
  BY PlanTimeOK, KeyParts
<1> DEFINE Planned(k) == NewRow(PlanTime(k.run, k.kind, at), PlanTime(k.run, k.kind, at))
<1>2. \A k \in planned : /\ Planned(k) \in LogRow
                         /\ Planned(k).status = "pending"
                         /\ Planned(k).attempt_count = 0
  BY <1>1, NewRowOK
<1> HIDE DEF Planned
<1>3. /\ Rows' = Rows \cup planned
      /\ \A k \in Rows' :
            log'[k] = IF k \in planned /\ (k \in Rows => WithdrawnByPause(rows[k]))
                      THEN Planned(k) ELSE rows[k]
      /\ log' = [k \in Rows' |-> log'[k]]
  BY DEF WithPlanned, Planned, Rows
<1>4. \A k \in Rows' : log'[k] \in LogRow
  BY <1>2, <1>3
<1>5. LogOK'
  <2>1. log' \in [Rows' -> LogRow]
    BY <1>3, <1>4
  <2>2. Rows' \subseteq Keys
    BY <1>3 DEF TypeOK
  <2> QED
    BY <2>1, <2>2 DEF LogOK
<1>6. ASSUME NEW k \in Rows
      PROVE  RowKept(k)
  <2>1. CASE k \in planned /\ WithdrawnByPause(rows[k])
    <3>1. /\ rows[k] = log[k] /\ log[k].status = "cancelled"
          /\ log[k].error_code = "schedule_paused" /\ log[k].attempt_count = 0
      BY <2>1 DEF WithdrawnByPause
    <3>2. log'[k] = Planned(k)
      BY <1>3, <2>1
    <3> QED
      BY <1>2, <2>1, <3>1, <3>2 DEF RowKept
  <2>2. CASE ~(k \in planned /\ WithdrawnByPause(rows[k]))
    <3>1. log'[k] = rows[k]
      BY <1>3, <2>2
    <3> QED
      BY <3>1 DEF RowKept
  <2> QED
    BY <2>1, <2>2
<1>7. \A k \in Rows' \ Rows : /\ k.route = FirstRoute(k.kind)
                              /\ log'[k].status = "pending"
                              /\ log'[k].attempt_count = 0
  BY <1>2, <1>3
<1>8. RemindersOnly
  BY <1>3 DEF RemindersOnly
<1> QED
  BY <1>3, <1>5, <1>6, <1>7, <1>8 DEF LogGrows

(* What grows the log so keeps the invariants of notices. *)
LEMMA GrowthKeeps ==
    ASSUME IInv, LogOK', LogGrows, UNCHANGED <<attempt, task, wire>>
    PROVE  NoticeInv'
<1> USE DEF IInv
<1>0. Tries' = Tries /\ TriesOK /\ LogOK
  BY TypeParts DEF Tries
<1>1. TriesOK'
  BY <1>0 DEF TriesOK, LogGrows
<1>2. \A k \in Rows : /\ log'[k].attempt_count = log[k].attempt_count
                      /\ log'[k].status = log[k].status
                         \/ /\ log[k].status \in {"pending", "cancelled"}
                            /\ log'[k].status \in {"pending", "cancelled"}
                      /\ log[k].status = "processing" => log'[k] = log[k]
  BY DEF LogGrows, RowKept
<1>3. RoutesInv'
  <2> SUFFICES ASSUME NEW k \in Keys, k.route # "log"
               PROVE  Fallback(k) \in Rows' <=> k \in Rows' /\ log'[k].status = "failed"
    BY DEF RoutesInv
  <2>1. Fallback(k) \in Rows' => Fallback(k) \in Rows
    BY FallbackParts DEF LogGrows
  <2>2. Fallback(k) \in Rows <=> k \in Rows /\ log[k].status = "failed"
    BY DEF RoutesInv
  <2>3. k \in Rows' \ Rows => log'[k].status = "pending"
    BY DEF LogGrows
  <2> QED
    BY <1>2, <2>1, <2>2, <2>3 DEF LogGrows
<1>4. NumberingInv'
  BY <1>0, <1>2 DEF NumberingInv, TriesOK
<1>5. LatestInv'
  <2> SUFFICES ASSUME NEW k \in Rows'
               PROVE  LatestAgrees(k)'
    BY DEF LatestInv
  <2>1. CASE k \notin Rows
    BY <2>1 DEF LogGrows, LatestAgrees
  <2>2. CASE k \in Rows
    <3>1. LatestAgrees(k) /\ Latest(k)' = Latest(k)
      BY <1>2, <2>2 DEF LatestInv, Latest
    <3> QED
      BY <1>0, <1>2, <2>2, <3>1 DEF LatestAgrees, Agrees
  <2> QED
    BY <2>1, <2>2
<1>6. StepInv'
  BY <1>0 DEF StepInv, StepAgrees, MayBeTold
<1> QED
  BY <1>1, <1>3, <1>4, <1>5, <1>6 DEF NoticeInv

-----------------------------------------------------------------------------
(* The worker *)

LEMMA InvParts ==
    ASSUME IInv
    PROVE  /\ NoticeInv
           /\ \A a \in Tries : /\ a \in Rows \X Attempts
                               /\ attempt[a].status \in AttemptStatuses
                               /\ attempt[a].claimed_by \in Workers \cup {NoWorker}
           /\ \A k \in Rows : /\ k \in Keys /\ log[k] \in LogRow
                              /\ log[k].attempt_count \in 0..MaxAttempts
                              /\ log[k].status \in LogStatuses
           /\ MaxAttempts \in Nat
BY TypeParts, AttemptAssumption
   DEF IInv, NoticeInv, LogOK, TriesOK, LogRow, AttemptRow

LEMMA AttemptSet ==
    ASSUME IInv, NEW a \in Tries, NEW status \in AttemptStatuses,
           attempt' = [attempt EXCEPT ![a].status = status]
    PROVE  /\ Tries' = Tries /\ attempt' \in [Tries -> AttemptRow]
           /\ attempt'[a].status = status
           /\ \A b \in Tries : b # a => attempt'[b] = attempt[b]
           /\ \A b \in Tries : attempt'[b].claimed_by = attempt[b].claimed_by
<1>1. attempt \in [Tries -> AttemptRow]
  BY TypeParts DEF IInv, TriesOK
<1>2. attempt[a] \in AttemptRow
  BY <1>1
<1>3. attempt' = [attempt EXCEPT ![a] = [attempt[a] EXCEPT !.status = status]]
  OBVIOUS
<1>4. /\ [attempt[a] EXCEPT !.status = status] \in AttemptRow
      /\ [attempt[a] EXCEPT !.status = status].status = status
      /\ [attempt[a] EXCEPT !.status = status].claimed_by = attempt[a].claimed_by
  BY <1>2 DEF AttemptRow
<1>5. attempt' \in [Tries -> AttemptRow]
  BY <1>1, <1>3, <1>4
<1>6. Tries' = Tries
  BY <1>5 DEF Tries
<1> QED
  BY <1>1, <1>3, <1>4, <1>5, <1>6

(* What a worker holds is its row's latest attempt. *)
LEMMA HeldIsLatest ==
    ASSUME IInv, NEW k, NEW n, <<k, n>> \in Tries,
           attempt[<<k, n>>].status \in {"claimed", "sending", "unknown", "succeeded"}
    PROVE  /\ k \in Rows /\ n \in Attempts /\ log[k].attempt_count = n /\ n # 0
           /\ Latest(k) = <<k, n>>
           /\ Agrees(log[k].status, attempt[<<k, n>>].status)
<1>1. k \in Rows /\ n \in Attempts
  BY InvParts
<1>2. n <= log[k].attempt_count /\ ~(n < log[k].attempt_count)
  BY <1>1 DEF IInv, NumberingInv
<1>3. log[k].attempt_count = n /\ n # 0
  BY <1>1, <1>2, InvParts DEF Attempts
<1>4. LatestAgrees(k)
  BY <1>1 DEF IInv, LatestInv
<1> QED
  BY <1>1, <1>3, <1>4 DEF LatestAgrees, Latest

(* A step of the worker or of its recovery: it claims rows that wait, leaves *)
(* claims, withdraws only what has become untrue, and adds next routes.      *)
Handled ==
    /\ Rows \subseteq Rows'
    /\ \A k \in Rows : \/ log'[k] = log[k]
                       \/ log[k].status = "processing"
                       \/ log[k].status = "pending" /\ log'[k].status = "processing"
    /\ \A k \in Rows : log'[k].status = "cancelled" =>
                         log[k].status = "cancelled" \/ \E at \in Int : ~Applies(k, at)
    /\ \A k \in Rows' \ Rows : /\ Fresh(log'[k])
                               /\ \E j \in Rows : j.run = k.run /\ j.kind = k.kind

LEMMA ClaimKeeps ==
    ASSUME IInv, NEW w \in Workers, Claim(w)
    PROVE  NoticeInv' /\ Handled
<1>1. PICK S \in Selections(Due) :
          /\ log' = [k \in Rows |-> IF k \in S THEN ClaimedRow(k, w) ELSE log[k]]
          /\ LET new == {<<k, log[k].attempt_count + 1>> : k \in S} IN
             /\ attempt' = [a \in Tries \cup new |->
                   IF a \in new THEN [status |-> "claimed", claimed_by |-> w]
                   ELSE attempt[a]]
             /\ task' = [a \in Tries \cup new |->
                   IF a \in new THEN "prepare" ELSE task[a]]
             /\ wire' = [a \in Tries \cup new |->
                   IF a \in new THEN "none" ELSE wire[a]]
  BY DEF Claim
<1> DEFINE new == {<<k, log[k].attempt_count + 1>> : k \in S}
<1>2. \A k \in S : /\ k \in Rows /\ log[k].status = "pending"
                   /\ log[k].attempt_count + 1 \in Attempts
                   /\ log[k].attempt_count \in Nat
  BY <1>1, InvParts DEF Selections, Due, Attempts
<1>3. /\ Rows' = Rows /\ Tries' = Tries \cup new
      /\ \A k \in Rows : log'[k] = IF k \in S THEN ClaimedRow(k, w) ELSE log[k]
      /\ \A a \in new : /\ attempt'[a] = [status |-> "claimed", claimed_by |-> w]
                        /\ task'[a] = "prepare" /\ wire'[a] = "none"
      /\ \A a \in Tries \ new : /\ attempt'[a] = attempt[a]
                                /\ task'[a] = task[a] /\ wire'[a] = wire[a]
  BY <1>1 DEF Rows, Tries
<1>4. \A k \in S : ClaimedRow(k, w) \in LogRow
  <2> SUFFICES ASSUME NEW k \in S PROVE ClaimedRow(k, w) \in LogRow
    OBVIOUS
  <2>1. log[k] \in LogRow
    BY <1>2, InvParts
  <2>2. now + LeaseTimeout \in Nat
    BY TypeParts, TimeAssumption DEF IInv
  <2>3. log[k].attempt_count + 1 \in 0..MaxAttempts
    BY <1>2, AttemptAssumption DEF Attempts
  <2> QED
    BY <2>1, <2>2, <2>3 DEF LogRow, ClaimedRow, LogStatuses
<1>5. LogOK'
  BY <1>1, <1>3, <1>4, TypeParts, InvParts DEF LogOK, IInv
<1>6. TriesOK'
  <2>1. new \subseteq Rows \X Attempts
    BY <1>2
  <2>2. [status |-> "claimed", claimed_by |-> w] \in AttemptRow
    BY DEF AttemptRow, AttemptStatuses
  <2>3. attempt' \in [Tries' -> AttemptRow]
    BY <1>1, <1>3, <2>2, TypeParts DEF IInv, TriesOK
  <2>4. task' \in [Tries' -> Steps]
    BY <1>1, <1>3, TypeParts DEF IInv, TriesOK, Steps
  <2>5. wire' \in [Tries' -> Wires]
    BY <1>1, <1>3, TypeParts DEF IInv, TriesOK, Wires
  <2> QED
    BY <1>3, <2>1, <2>3, <2>4, <2>5, TypeParts DEF TriesOK, IInv
<1>7. \A k \in S : /\ log'[k].status = "processing" /\ log'[k].claimed_by = w
                   /\ log'[k].attempt_count = log[k].attempt_count + 1
  <2>1. ASSUME NEW k \in S
        PROVE  /\ ClaimedRow(k, w).status = "processing"
               /\ ClaimedRow(k, w).claimed_by = w
               /\ ClaimedRow(k, w).attempt_count = log[k].attempt_count + 1
    BY DEF ClaimedRow
  <2> QED
    BY <1>2, <1>3, <2>1
<1>8. RoutesInv'
  <2>1. \A k \in Rows : log'[k].status = "failed" <=> log[k].status = "failed"
    BY <1>2, <1>3, <1>7
  <2> QED
    BY <1>3, <2>1 DEF RoutesInv, IInv
<1>9. NumberingInv'
  <2> SUFFICES ASSUME NEW k \in Rows, NEW n \in Attempts, <<k, n>> \in Tries'
               PROVE  /\ n <= log'[k].attempt_count
                      /\ n < log'[k].attempt_count => attempt'[<<k, n>>].status = "failed"
    BY <1>3 DEF NumberingInv
  <2>1. CASE k \notin S
    <3>1. <<k, n>> \notin new /\ log'[k] = log[k]
      BY <1>3, <2>1
    <3> QED
      BY <1>3, <3>1 DEF IInv, NumberingInv
  <2>2. CASE k \in S /\ <<k, n>> \in new
    BY <1>2, <1>7, <2>2 DEF Attempts
  <2>3. CASE k \in S /\ <<k, n>> \notin new
    <3>1. /\ <<k, n>> \in Tries /\ attempt'[<<k, n>>] = attempt[<<k, n>>]
          /\ n <= log[k].attempt_count
      BY <1>3, <2>3 DEF IInv, NumberingInv
    <3>2. attempt[<<k, n>>].status \in {"claimed", "sending", "unknown", "succeeded"}
          => Agrees(log[k].status, attempt[<<k, n>>].status)
      BY <3>1, HeldIsLatest
    <3>3. attempt[<<k, n>>].status \in AttemptStatuses
      BY <3>1, InvParts
    <3>4. attempt[<<k, n>>].status = "failed"
      BY <1>2, <2>3, <3>2, <3>3 DEF Agrees, AttemptStatuses
    <3> QED
      BY <1>2, <1>7, <2>3, <3>1, <3>4 DEF Attempts
  <2> QED
    BY <2>1, <2>2, <2>3
<1>10. LatestInv'
  <2> SUFFICES ASSUME NEW k \in Rows
               PROVE  LatestAgrees(k)'
    BY <1>3 DEF LatestInv
  <2>1. CASE k \in S
    <3>1. Latest(k)' = <<k, log[k].attempt_count + 1>> /\ Latest(k)' \in new
      BY <1>7, <2>1 DEF Latest
    <3>2. log'[k].attempt_count # 0
      BY <1>2, <1>7, <2>1 DEF Attempts
    <3> QED
      BY <1>3, <1>7, <2>1, <3>1, <3>2 DEF LatestAgrees, Agrees
  <2>2. CASE k \notin S
    <3>1. Latest(k)' = Latest(k) /\ Latest(k) \notin new /\ log'[k] = log[k]
      BY <1>3, <2>2 DEF Latest
    <3> QED
      BY <1>3, <3>1 DEF IInv, LatestInv, LatestAgrees
  <2> QED
    BY <2>1, <2>2
<1>11. StepInv'
  BY <1>3 DEF IInv, StepInv, StepAgrees, MayBeTold
<1>12. Handled
  BY <1>2, <1>3, <1>7 DEF Handled
<1> QED
  BY <1>5, <1>6, <1>8, <1>9, <1>10, <1>11, <1>12 DEF NoticeInv

(* The end of an attempt, whatever the result: if the route has failed for   *)
(* good, with the next one.                                                  *)
LEMMA ResultKeeps ==
    ASSUME IInv, NEW k, NEW n, <<k, n>> \in Tries,
           Holds(k, n, {"claimed", "sending"}),
           NEW status \in {"failed", "succeeded", "unknown"},
           SetAttempt(k, n, status), SetTask(k, n, "none"), wire' = wire,
           MayBeTold(<<k, n>>) => status # "failed",
           LogOK', Rows \subseteq Rows',
           \A j \in Rows : j # k => log'[j] = log[j],
           log'[k].attempt_count = log[k].attempt_count,
           log'[k].status # "processing", Agrees(log'[k].status, status),
           Rows' = Rows \cup (IF log'[k].status = "failed" /\ k.route # "log"
                              THEN {Fallback(k)} ELSE {}),
           \A j \in Rows' \ Rows : Fresh(log'[j]),
           log'[k].status = "cancelled" => \E at \in Int : ~Applies(k, at)
    PROVE  NoticeInv' /\ Handled
<1> DEFINE a == <<k, n>>
<1>1. /\ k \in Rows /\ n \in Attempts /\ log[k].attempt_count = n /\ n # 0
      /\ Latest(k) = a /\ log[k].status = "processing"
  BY HeldIsLatest DEF Holds
<1>2. /\ Tries' = Tries /\ attempt' \in [Tries -> AttemptRow]
      /\ attempt'[a].status = status
      /\ \A b \in Tries : b # a => attempt'[b] = attempt[b]
  BY AttemptSet DEF SetAttempt, AttemptStatuses
<1>3. /\ task' \in [Tries -> Steps] /\ task'[a] = "none"
      /\ \A b \in Tries : b # a => task'[b] = task[b]
  BY TypeParts DEF SetTask, Steps, IInv, TriesOK
<1>4. TriesOK'
  BY <1>2, <1>3, TypeParts DEF TriesOK, IInv
<1>5. k \in Keys /\ (k.route # "log" => Fallback(k) \notin Rows)
  BY <1>1, InvParts DEF IInv, RoutesInv
<1>6. RoutesInv'
  <2> SUFFICES ASSUME NEW j \in Keys, j.route # "log"
               PROVE  Fallback(j) \in Rows' <=> j \in Rows' /\ log'[j].status = "failed"
    BY DEF RoutesInv
  <2>1. Fallback(j) \in Rows <=> j \in Rows /\ log[j].status = "failed"
    BY DEF IInv, RoutesInv
  <2>2. CASE j = k
    BY <1>1, <1>5, <2>2
  <2>3. CASE j # k
    <3>1. Fallback(j) \in Rows' <=> Fallback(j) \in Rows
      BY <1>5, <2>3, FallbackInjective
    <3>2. j \in Rows' \ Rows => log'[j].status # "failed"
      BY DEF Fresh
    <3> QED
      BY <2>1, <2>3, <3>1, <3>2
  <2> QED
    BY <2>2, <2>3
<1>7. NumberingInv'
  <2> SUFFICES ASSUME NEW j \in Rows', NEW m \in Attempts, <<j, m>> \in Tries
               PROVE  /\ m <= log'[j].attempt_count
                      /\ m < log'[j].attempt_count => attempt'[<<j, m>>].status = "failed"
    BY <1>2 DEF NumberingInv
  <2>1. j \in Rows /\ log'[j].attempt_count = log[j].attempt_count
    BY InvParts
  <2>2. /\ m <= log[j].attempt_count
        /\ m < log[j].attempt_count => attempt[<<j, m>>].status = "failed"
    BY <2>1 DEF IInv, NumberingInv
  <2>3. <<j, m>> = a => ~(m < log[j].attempt_count)
    BY <1>1 DEF Attempts
  <2> QED
    BY <1>2, <2>1, <2>2, <2>3
<1>8. LatestInv'
  <2> SUFFICES ASSUME NEW j \in Rows'
               PROVE  LatestAgrees(j)'
    BY DEF LatestInv
  <2>1. CASE j \notin Rows
    BY <2>1 DEF LatestAgrees, Fresh
  <2>2. CASE j = k
    BY <1>1, <1>2, <2>2 DEF LatestAgrees, Latest
  <2>3. CASE j \in Rows /\ j # k
    <3>1. Latest(j)' = Latest(j) /\ Latest(j) # a /\ log'[j] = log[j]
      BY <2>3 DEF Latest
    <3> QED
      BY <1>2, <2>3, <3>1 DEF IInv, LatestInv, LatestAgrees
  <2> QED
    BY <2>1, <2>2, <2>3
<1>9. StepInv'
  <2> SUFFICES ASSUME NEW b \in Tries
               PROVE  StepAgrees(b)'
    BY <1>2 DEF StepInv
  <2>1. CASE b = a
    BY <1>2, <1>3, <2>1 DEF StepAgrees, MayBeTold
  <2>2. CASE b # a
    BY <1>2, <1>3, <2>2 DEF IInv, StepInv, StepAgrees, MayBeTold
  <2> QED
    BY <2>1, <2>2
<1>10. Handled
  BY <1>1, <1>5, FallbackParts DEF Handled
<1> QED
  BY <1>4, <1>6, <1>7, <1>8, <1>9, <1>10 DEF NoticeInv

LEMMA LogWithFallbacks ==
    ASSUME Rows \subseteq Keys, NEW rows \in [Rows -> LogRow],
           NEW failed \in SUBSET Rows, NEW at \in Int,
           log' = WithFallbacks(rows, failed, at)
    PROVE  /\ LogOK' /\ Rows' = Rows \cup FallbacksOf(failed)
           /\ \A k \in Rows : log'[k] = rows[k]
           /\ \A k \in Rows' \ Rows : Fresh(log'[k])
<1>1. WithFallbacks(rows, failed, at) \in [Rows \cup FallbacksOf(failed) -> LogRow]
  BY FallbackRows
<1>2. FallbacksOf(failed) \subseteq Keys
  BY FallbackRows
<1>3. \A k \in Rows : WithFallbacks(rows, failed, at)[k] = rows[k]
  BY DEF WithFallbacks
<1>4. \A k \in FallbacksOf(failed) \ Rows : Fresh(WithFallbacks(rows, failed, at)[k])
  BY FallbackRows
<1>5. Rows' = Rows \cup FallbacksOf(failed)
  BY <1>1 DEF Rows
<1> QED
  BY <1>1, <1>2, <1>3, <1>4, <1>5 DEF LogOK

(* The row of an ended attempt that has no next route. *)
LEMMA RowSet ==
    ASSUME IInv, NEW k \in Rows, NEW row \in LogRow, SetLog(k, row)
    PROVE  /\ LogOK' /\ Rows' = Rows /\ log'[k] = row
           /\ \A j \in Rows : j # k => log'[j] = log[j]
BY TypeParts DEF IInv, LogOK, SetLog, Rows

LEMMA ClosedResult ==
    ASSUME IInv, NEW k, NEW n, <<k, n>> \in Tries,
           Holds(k, n, {"claimed", "sending"}),
           NEW status \in {"failed", "succeeded", "unknown"},
           SetAttempt(k, n, status), SetTask(k, n, "none"), wire' = wire,
           MayBeTold(<<k, n>>) => status # "failed",
           NEW rowStatus \in LogStatuses \ {"processing", "failed"},
           NEW error \in ErrorCodes, Agrees(rowStatus, status),
           SetLog(k, Closed(k, rowStatus, error)),
           rowStatus = "cancelled" => \E at \in Int : ~Applies(k, at)
    PROVE  NoticeInv' /\ Handled
<1>1. k \in Rows
  BY HeldIsLatest DEF Holds
<1>2. /\ Closed(k, rowStatus, error) \in LogRow
      /\ Closed(k, rowStatus, error).status = rowStatus
      /\ Closed(k, rowStatus, error).attempt_count = log[k].attempt_count
  BY <1>1, ClosedOK DEF IInv
<1> HIDE DEF Closed
<1>3. /\ LogOK' /\ Rows' = Rows /\ log'[k] = Closed(k, rowStatus, error)
      /\ \A j \in Rows : j # k => log'[j] = log[j]
  BY <1>1, <1>2, RowSet
<1> QED
  BY <1>2, <1>3, ResultKeeps

LEMMA PrepareCancelKeeps ==
    ASSUME IInv, NEW k, NEW n, <<k, n>> \in Tries, PrepareCancel(k, n)
    PROVE  NoticeInv' /\ Handled
<1>1. Holds(k, n, {"claimed"})
  BY DEF PrepareCancel, OwnedClaim
<1>2. ~MayBeTold(<<k, n>>)
  BY <1>1 DEF IInv, StepInv, StepAgrees, Holds
<1>3. Holds(k, n, {"claimed", "sending"})
  BY <1>1 DEF Holds
<1>4. \E at \in Int : ~Applies(k, at)
  <2>1. k \in Rows /\ log[k] \in LogRow
    BY <1>3, HeldIsLatest, InvParts DEF Holds
  <2>2. log[k].lease_expires_at \in Nat
    BY <2>1 DEF LogRow
  <2>3. ReadTimes(k) \subseteq Int
    BY <2>2, TypeParts, TimeAssumption DEF IInv, ReadTimes
  <2> QED
    BY <2>3 DEF PrepareCancel
<1> QED
  BY <1>2, <1>3, <1>4, ClosedResult DEF PrepareCancel, LogStatuses, ErrorCodes, Agrees

LEMMA SaveSuccessKeeps ==
    ASSUME IInv, NEW k, NEW n, <<k, n>> \in Tries, SaveSuccess(k, n)
    PROVE  NoticeInv' /\ Handled
<1>1. Holds(k, n, {"claimed", "sending"})
  BY DEF SaveSuccess, Saves, Holds
<1> QED
  BY <1>1, ClosedResult DEF SaveSuccess, Saves, LogStatuses, ErrorCodes, Agrees

LEMMA SaveUnknownKeeps ==
    ASSUME IInv, NEW k, NEW n, <<k, n>> \in Tries, SaveUnknown(k, n)
    PROVE  NoticeInv' /\ Handled
<1>1. Holds(k, n, {"claimed", "sending"})
  BY DEF SaveUnknown, Saves, Holds
<1> QED
  BY <1>1, ClosedResult DEF SaveUnknown, Saves, LogStatuses, ErrorCodes, Agrees

LEMMA SaveRetryKeeps ==
    ASSUME IInv, NEW k, NEW n, <<k, n>> \in Tries, SaveRetry(k, n)
    PROVE  NoticeInv' /\ Handled
<1>1. Holds(k, n, {"claimed", "sending"}) /\ ~MayBeTold(<<k, n>>)
  BY DEF SaveRetry, Saves, NotSent, MayBeTold
<1>2. k \in Rows
  BY <1>1, HeldIsLatest DEF Holds
<1>3. PICK at \in Int : SetLog(k, BackToPending(k, at))
  <2>1. now + 1..now + MaxRetryAfter \subseteq Int
    BY TypeParts, TimeAssumption DEF IInv
  <2> QED
    BY <2>1 DEF SaveRetry
<1>4. /\ BackToPending(k, at) \in LogRow
      /\ BackToPending(k, at).status = "pending"
      /\ BackToPending(k, at).attempt_count = log[k].attempt_count
  BY <1>2, BackToPendingOK DEF IInv
<1>5. /\ LogOK' /\ Rows' = Rows /\ log'[k] = BackToPending(k, at)
      /\ \A j \in Rows : j # k => log'[j] = log[j]
  BY <1>2, <1>3, <1>4, RowSet
<1>6. SetAttempt(k, n, "failed") /\ SetTask(k, n, "none") /\ wire' = wire
  BY DEF SaveRetry, Saves
<1>7. Agrees(log'[k].status, "failed")
  BY <1>4, <1>5 DEF Agrees
<1> QED
  BY <1>1, <1>4, <1>5, <1>6, <1>7, ResultKeeps

LEMMA SaveFailureKeeps ==
    ASSUME IInv, NEW k, NEW n, <<k, n>> \in Tries, SaveFailure(k, n)
    PROVE  NoticeInv' /\ Handled
<1>1. Holds(k, n, {"claimed", "sending"}) /\ ~MayBeTold(<<k, n>>)
  BY DEF SaveFailure, Saves, NotSent, MayBeTold
<1>2. k \in Rows /\ k \in Keys
  BY <1>1, HeldIsLatest, InvParts DEF Holds
<1> DEFINE row == Closed(k, "failed", "none")
<1>3. /\ row \in LogRow /\ row.status = "failed"
      /\ row.attempt_count = log[k].attempt_count
  BY <1>2, ClosedOK DEF IInv, LogStatuses, ErrorCodes
<1> HIDE DEF row
<1>4. PICK rows \in [Rows -> LogRow] :
          /\ rows = [log EXCEPT ![k] = row] /\ Rows \subseteq Keys
          /\ rows[k] = row /\ \A j \in Rows : j # k => rows[j] = log[j]
  <2> DEFINE r == [log EXCEPT ![k] = row]
  <2>1. /\ Rows \subseteq Keys /\ r \in [Rows -> LogRow]
        /\ r[k] = row /\ \A j \in Rows : j # k => r[j] = log[j]
    BY <1>2, <1>3, TypeParts DEF IInv, LogOK, Rows
  <2> QED
    BY <2>1
<1>5. now \in Int /\ log' = WithFallbacks(rows, {k}, now)
  BY <1>4, TypeParts DEF SaveFailure, FailedOver, IInv, row
<1>6. /\ Rows' = Rows \cup FallbacksOf({k})
      /\ LogOK' /\ \A j \in Rows : log'[j] = rows[j]
      /\ \A j \in Rows' \ Rows : Fresh(log'[j])
  <2>1. {k} \in SUBSET Rows
    BY <1>2
  <2>2. Rows \subseteq Keys
    BY <1>4
  <2> QED
    BY <1>5, <2>1, <2>2, LogWithFallbacks
<1>7. Rows' = Rows \cup (IF log'[k].status = "failed" /\ k.route # "log"
                         THEN {Fallback(k)} ELSE {})
  BY <1>2, <1>3, <1>4, <1>6 DEF WithFallback, FallbacksOf
<1>8. SetAttempt(k, n, "failed") /\ SetTask(k, n, "none") /\ wire' = wire
  BY DEF SaveFailure, Saves
<1>9. /\ log'[k].status = "failed" /\ log'[k].attempt_count = log[k].attempt_count
      /\ \A j \in Rows : j # k => log'[j] = log[j]
      /\ Agrees(log'[k].status, "failed")
  BY <1>2, <1>3, <1>4, <1>6 DEF Agrees
<1> QED
  BY <1>1, <1>6, <1>7, <1>8, <1>9, ResultKeeps

(* Steps that leave the rows alone. *)
LEMMA PrepareSendKeeps ==
    ASSUME IInv, NEW k, NEW n, <<k, n>> \in Tries, PrepareSend(k, n)
    PROVE  NoticeInv' /\ Handled
<1> DEFINE a == <<k, n>>
<1>1. attempt[a].status = "claimed" /\ UNCHANGED <<log, wire>>
  BY DEF PrepareSend, OwnedClaim, Holds
<1>2. /\ Tries' = Tries /\ attempt' \in [Tries -> AttemptRow]
      /\ attempt'[a].status = "sending"
      /\ \A b \in Tries : b # a => attempt'[b] = attempt[b]
      /\ \A b \in Tries : attempt'[b].claimed_by = attempt[b].claimed_by
  BY AttemptSet DEF PrepareSend, SetAttempt, AttemptStatuses
<1>3. /\ task' \in [Tries -> Steps]
      /\ \A b \in Tries : b # a => task'[b] = task[b]
  BY TypeParts DEF PrepareSend, SetTask, Steps, IInv, TriesOK
<1>4. LogOK' /\ TriesOK' /\ RoutesInv' /\ Rows' = Rows
  BY <1>1, <1>2, <1>3, TypeParts DEF LogOK, TriesOK, IInv, RoutesInv, Rows
<1>5. NumberingInv'
  BY <1>1, <1>2, <1>4 DEF IInv, NumberingInv
<1>6. LatestInv'
  <2> SUFFICES ASSUME NEW j \in Rows PROVE LatestAgrees(j)'
    BY <1>4 DEF LatestInv
  <2>1. Latest(j)' = Latest(j) /\ LatestAgrees(j)
    BY <1>1 DEF Latest, IInv, LatestInv
  <2>2. CASE Latest(j) = a
    BY <1>1, <1>2, <2>1, <2>2 DEF LatestAgrees, Agrees
  <2>3. CASE Latest(j) # a
    BY <1>1, <1>2, <2>1, <2>3 DEF LatestAgrees
  <2> QED
    BY <2>2, <2>3
<1>7. StepInv'
  <2> SUFFICES ASSUME NEW b \in Tries PROVE StepAgrees(b)'
    BY <1>2 DEF StepInv
  <2>1. CASE b = a
    BY <1>2, <2>1 DEF StepAgrees
  <2>2. CASE b # a
    BY <1>1, <1>2, <1>3, <2>2 DEF IInv, StepInv, StepAgrees, MayBeTold
  <2> QED
    BY <2>1, <2>2
<1>8. Handled
  BY <1>1, <1>4 DEF Handled
<1> QED
  BY <1>4, <1>5, <1>6, <1>7, <1>8 DEF NoticeInv

LEMMA RecordsKept ==
    ASSUME IInv, UNCHANGED <<log, attempt>>,
           task' \in [Tries -> Steps], wire' \in [Tries -> Wires], StepInv'
    PROVE  NoticeInv' /\ Handled
<1>1. Tries' = Tries /\ Rows' = Rows
  BY DEF Tries, Rows
<1>2. LogOK' /\ TriesOK' /\ RoutesInv' /\ NumberingInv'
  BY <1>1, TypeParts DEF LogOK, TriesOK, IInv, RoutesInv, NumberingInv
<1>3. LatestInv'
  BY <1>1 DEF IInv, LatestInv, LatestAgrees, Latest
<1> QED
  BY <1>1, <1>2, <1>3 DEF NoticeInv, Handled

LEMMA WireKeeps ==
    ASSUME IInv, NEW k, NEW n, <<k, n>> \in Tries,
           Send(k, n) \/ Discord(k, n)
    PROVE  NoticeInv' /\ Handled
<1> DEFINE a == <<k, n>>
<1>1. /\ UNCHANGED <<log, attempt, task>>
      /\ wire' \in [Tries -> Wires]
      /\ \A b \in Tries : b # a => wire'[b] = wire[b]
      /\ task[a] = "send" \/ MayBeTold(a)
  BY TypeParts DEF IInv, TriesOK, Send, Discord, db, Wires, MayBeTold
<1>2. StepInv'
  BY <1>1 DEF IInv, StepInv, StepAgrees, MayBeTold, Tries
<1> QED
  BY <1>1, <1>2, RecordsKept, TypeParts DEF IInv, TriesOK

LEMMA TaskEndKeeps ==
    ASSUME IInv, UNCHANGED <<log, attempt, wire>>, task' \in [Tries -> Steps],
           \A a \in Tries : task'[a] \in {task[a], "none"}
    PROVE  NoticeInv' /\ Handled
<1>1. StepInv'
  BY DEF IInv, StepInv, StepAgrees, MayBeTold, Tries
<1> QED
  BY <1>1, RecordsKept, TypeParts DEF IInv, TriesOK

-----------------------------------------------------------------------------
(* Startup *)

LEMMA ProcessingIsConsistent ==
    ASSUME IInv, NEW k \in Rows, log[k].status = "processing"
    PROVE  /\ IsConsistent(k) /\ Latest(k) \in Tries
           /\ log[k].attempt_count \in Attempts
           /\ attempt[Latest(k)].status \in {"claimed", "sending"}
<1>1. LatestAgrees(k) /\ log[k].attempt_count \in 0..MaxAttempts /\ MaxAttempts \in Nat
  BY InvParts DEF IInv, LatestInv
<1>2. /\ Latest(k) \in Tries /\ attempt[Latest(k)].status \in {"claimed", "sending"}
      /\ attempt[Latest(k)].claimed_by = log[k].claimed_by
  BY <1>1 DEF LatestAgrees, Agrees
<1>3. log[k].attempt_count \in Attempts
  BY <1>2, InvParts DEF Latest
<1>4. <<k, log[k].attempt_count + 1>> \notin Tries
  <2>1. SUFFICES ASSUME <<k, log[k].attempt_count + 1>> \in Tries PROVE FALSE
    OBVIOUS
  <2>2. log[k].attempt_count + 1 \in Attempts
    BY <2>1, InvParts
  <2>3. log[k].attempt_count + 1 <= log[k].attempt_count
    BY <2>1, <2>2 DEF IInv, NumberingInv
  <2> QED
    BY <1>1, <2>3
<1> QED
  BY <1>2, <1>3, <1>4 DEF IsConsistent

LEMMA RecoveredOK ==
    ASSUME IInv, NEW k \in Rows, log[k].status = "processing", NEW cutoff \in Nat
    PROVE  /\ RecoveredRow(k, cutoff) \in LogRow
           /\ RecoveredRow(k, cutoff).attempt_count = log[k].attempt_count
           /\ RecoveredRow(k, cutoff).status \in {"failed", "pending", "unknown"}
           /\ RecoveredRow(k, cutoff).status = "failed" <=> GivenUp(k)
           /\ RecoveredStatus(k) \in {"failed", "unknown"}
           /\ RecoveredStatus(k) = "failed" <=> attempt[Latest(k)].status = "claimed"
           /\ Agrees(RecoveredRow(k, cutoff).status, RecoveredStatus(k))
<1>1. InterruptedBeforeSend(k) <=> attempt[Latest(k)].status = "claimed"
  BY ProcessingIsConsistent DEF InterruptedBeforeSend
<1>2. GivenUp(k) => InterruptedBeforeSend(k)
  BY DEF GivenUp
<1>3. CASE GivenUp(k)
  <2>1. RecoveredRow(k, cutoff) = Closed(k, "failed", "none")
    BY <1>2, <1>3 DEF RecoveredRow
  <2>2. /\ RecoveredRow(k, cutoff) \in LogRow
        /\ RecoveredRow(k, cutoff).status = "failed"
        /\ RecoveredRow(k, cutoff).attempt_count = log[k].attempt_count
    BY <2>1, ClosedOK DEF IInv, LogStatuses, ErrorCodes
  <2> QED
    BY <1>1, <1>2, <1>3, <2>2 DEF RecoveredStatus, Agrees
<1>4. CASE InterruptedBeforeSend(k) /\ ~GivenUp(k)
  <2> DEFINE at == cutoff + RetryDelay[log[k].attempt_count]
  <2>1. RecoveredRow(k, cutoff) = BackToPending(k, at)
    BY <1>4 DEF RecoveredRow
  <2>2. at \in Int
    BY ProcessingIsConsistent, TimeAssumption DEF Attempts
  <2>3. /\ RecoveredRow(k, cutoff) \in LogRow
        /\ RecoveredRow(k, cutoff).status = "pending"
        /\ RecoveredRow(k, cutoff).attempt_count = log[k].attempt_count
    BY <2>1, <2>2, BackToPendingOK DEF IInv
  <2> QED
    BY <1>1, <1>4, <2>3 DEF RecoveredStatus, Agrees
<1>5. CASE ~InterruptedBeforeSend(k)
  <2>1. RecoveredRow(k, cutoff) = Closed(k, "unknown", "none")
    BY <1>2, <1>5 DEF RecoveredRow
  <2>2. /\ RecoveredRow(k, cutoff) \in LogRow
        /\ RecoveredRow(k, cutoff).status = "unknown"
        /\ RecoveredRow(k, cutoff).attempt_count = log[k].attempt_count
    BY <2>1, ClosedOK DEF IInv, LogStatuses, ErrorCodes
  <2> QED
    BY <1>1, <1>2, <1>5, <2>2 DEF RecoveredStatus, Agrees
<1> QED
  BY <1>3, <1>4, <1>5

LEMMA RecoverKeeps ==
    ASSUME IInv, NEW w \in Workers, RecoverNotifications(w)
    PROVE  NoticeInv' /\ Handled
<1> DEFINE cutoff == proc[w].cutoff
<1>1. cutoff \in Nat
  BY TypeParts DEF IInv, ProcessRecord
<1>2. PICK S \in Selections(ExpiredNotices(cutoff)) :
          /\ log' = WithFallbacks(
                [k \in Rows |-> IF k \in S THEN RecoveredRow(k, cutoff)
                                ELSE log[k]],
                {k \in S : GivenUp(k)}, cutoff)
          /\ attempt' = [a \in Tries |->
                IF \E k \in S : a = Latest(k) /\ IsConsistent(k)
                THEN [attempt[a] EXCEPT !.status = RecoveredStatus(a[1])]
                ELSE attempt[a]]
  BY DEF RecoverNotifications
<1> HIDE DEF cutoff
<1>3. S \subseteq Rows /\ \A k \in S : log[k].status = "processing"
  BY DEF Selections, ExpiredNotices
<1> DEFINE F == {k \in S : GivenUp(k)}
<1>4. PICK rows \in [Rows -> LogRow] :
          /\ log' = WithFallbacks(rows, F, cutoff)
          /\ \A k \in S : rows[k] = RecoveredRow(k, cutoff)
          /\ \A k \in Rows \ S : rows[k] = log[k]
  <2> DEFINE r == [k \in Rows |-> IF k \in S THEN RecoveredRow(k, cutoff) ELSE log[k]]
  <2>1. \A k \in Rows : r[k] \in LogRow
    BY <1>1, <1>3, RecoveredOK, InvParts
  <2>2. r \in [Rows -> LogRow]
    BY <2>1
  <2> QED
    BY <1>2, <1>3, <2>2
<1>5. /\ LogOK' /\ Rows' = Rows \cup FallbacksOf(F)
      /\ \A k \in Rows : log'[k] = rows[k]
      /\ \A k \in Rows' \ Rows : Fresh(log'[k])
  <2>1. Rows \subseteq Keys /\ F \in SUBSET Rows /\ cutoff \in Int
    BY <1>1, <1>3, InvParts
  <2> QED
    BY <1>4, <2>1, LogWithFallbacks
<1>6. UNCHANGED <<task, wire>>
  BY DEF RecoverNotifications
<1>7. \A k \in Rows : /\ log'[k].attempt_count = log[k].attempt_count
                      /\ k \notin S => log'[k] = log[k]
                      /\ k \in S => /\ log'[k].status \in {"failed", "pending", "unknown"}
                                    /\ log'[k].status = "failed" <=> k \in F
                                    /\ Agrees(log'[k].status, RecoveredStatus(k))
  BY <1>1, <1>3, <1>4, <1>5, RecoveredOK
<1>8. \A k \in S : /\ Latest(k) \in Tries /\ Latest(k)[1] = k
                   /\ attempt'[Latest(k)] =
                         [attempt[Latest(k)] EXCEPT !.status = RecoveredStatus(k)]
  BY <1>2, <1>3, ProcessingIsConsistent DEF Latest
<1>9. \A a \in Tries : attempt'[a] = attempt[a] \/ \E k \in S : a = Latest(k)
  BY <1>2
<1>10. /\ Tries' = Tries /\ attempt' \in [Tries -> AttemptRow]
       /\ \A k \in S : attempt'[Latest(k)].status = RecoveredStatus(k)
  <2>1. Tries' = Tries
    BY <1>2 DEF Tries
  <2>2. ASSUME NEW k \in S
        PROVE  /\ attempt'[Latest(k)] \in AttemptRow
               /\ attempt'[Latest(k)].status = RecoveredStatus(k)
    <3>1. attempt[Latest(k)] \in AttemptRow
      BY <1>8, TypeParts DEF IInv, TriesOK
    <3>2. RecoveredStatus(k) \in AttemptStatuses
      BY <1>1, <1>3, RecoveredOK DEF AttemptStatuses
    <3> QED
      BY <1>8, <3>1, <3>2 DEF AttemptRow
  <2>3. \A a \in Tries : attempt'[a] \in AttemptRow
    BY <1>9, <2>2, TypeParts DEF IInv, TriesOK
  <2> QED
    BY <1>2, <2>1, <2>2, <2>3
<1>11. TriesOK'
  BY <1>5, <1>6, <1>10, TypeParts DEF IInv, TriesOK
<1>12. \A k \in S : log[k].status = "processing"
  BY <1>3
<1>13. RoutesInv'
  <2> SUFFICES ASSUME NEW j \in Keys, j.route # "log"
               PROVE  Fallback(j) \in Rows' <=> j \in Rows' /\ log'[j].status = "failed"
    BY DEF RoutesInv
  <2>1. Fallback(j) \in Rows <=> j \in Rows /\ log[j].status = "failed"
    BY DEF IInv, RoutesInv
  <2>2. Fallback(j) \in FallbacksOf(F) <=> j \in F
    <3>1. \A k \in F : k \in Keys
      BY <1>3, InvParts
    <3> QED
      BY <3>1, FallbackInjective DEF FallbacksOf, WithFallback
  <2>3. j \in Rows => (log'[j].status = "failed" <=> log[j].status = "failed" \/ j \in F)
    BY <1>3, <1>7
  <2>4. j \in Rows' \ Rows => log'[j].status # "failed" /\ j \notin F
    BY <1>3, <1>5 DEF Fresh
  <2> QED
    BY <1>3, <1>5, <2>1, <2>2, <2>3, <2>4
<1>14. NumberingInv'
  <2> SUFFICES ASSUME NEW j \in Rows', NEW m \in Attempts, <<j, m>> \in Tries
               PROVE  /\ m <= log'[j].attempt_count
                      /\ m < log'[j].attempt_count => attempt'[<<j, m>>].status = "failed"
    BY <1>10 DEF NumberingInv
  <2>1. j \in Rows /\ log'[j].attempt_count = log[j].attempt_count
    BY <1>7, InvParts
  <2>2. /\ m <= log[j].attempt_count
        /\ m < log[j].attempt_count => attempt[<<j, m>>].status = "failed"
    BY <2>1 DEF IInv, NumberingInv
  <2>3. m < log[j].attempt_count => \A k \in S : <<j, m>> # Latest(k)
    BY <2>1, InvParts DEF Latest, Attempts
  <2> QED
    BY <1>9, <2>1, <2>2, <2>3
<1>15. LatestInv'
  <2> SUFFICES ASSUME NEW j \in Rows'
               PROVE  LatestAgrees(j)'
    BY DEF LatestInv
  <2>1. CASE j \notin Rows
    BY <1>5, <2>1 DEF LatestAgrees, Fresh
  <2>2. CASE j \in S
    <3>1. /\ j \in Rows /\ log[j].attempt_count \in Attempts
          /\ log'[j].attempt_count = log[j].attempt_count
      BY <1>3, <1>7, <2>2, ProcessingIsConsistent
    <3>2. Latest(j)' = Latest(j) /\ log'[j].attempt_count # 0
      BY <3>1 DEF Latest, Attempts
    <3>3. log'[j].status # "processing"
      BY <1>7, <2>2, <3>1
    <3>4. Latest(j) \in Tries /\ attempt'[Latest(j)].status = RecoveredStatus(j)
      BY <1>8, <1>10, <2>2
    <3>5. Agrees(log'[j].status, attempt'[Latest(j)].status)
      BY <1>7, <2>2, <3>1, <3>4
    <3> QED
      BY <1>10, <3>2, <3>3, <3>4, <3>5 DEF LatestAgrees
  <2>3. CASE j \in Rows /\ j \notin S
    <3>1. Latest(j)' = Latest(j) /\ log'[j] = log[j]
      BY <1>7, <2>3 DEF Latest
    <3>2. Latest(j) \in Tries => attempt'[Latest(j)] = attempt[Latest(j)]
      BY <1>9, <2>3 DEF Latest
    <3> QED
      BY <1>10, <2>3, <3>1, <3>2 DEF IInv, LatestInv, LatestAgrees
  <2> QED
    BY <2>1, <2>2, <2>3
<1>16. StepInv'
  <2> SUFFICES ASSUME NEW a \in Tries
               PROVE  StepAgrees(a)'
    BY <1>10 DEF StepInv
  <2>1. StepAgrees(a)
    BY DEF IInv, StepInv
  <2>2. CASE attempt'[a] = attempt[a]
    BY <1>6, <2>1, <2>2 DEF StepAgrees, MayBeTold
  <2>3. CASE \E k \in S : a = Latest(k)
    <3>1. PICK k \in S : a = Latest(k)
      BY <2>3
    <3>2. /\ attempt'[a].status = RecoveredStatus(k)
          /\ attempt[a].status \in {"claimed", "sending"}
          /\ RecoveredStatus(k) \in {"failed", "unknown"}
          /\ RecoveredStatus(k) = "failed" => attempt[a].status = "claimed"
      BY <1>1, <1>3, <1>10, <3>1, RecoveredOK, ProcessingIsConsistent
    <3> QED
      BY <1>6, <2>1, <3>2 DEF StepAgrees, MayBeTold
  <2> QED
    BY <1>9, <2>2, <2>3
<1>17. Handled
  <2>1. \A k \in Rows' \ Rows : \E j \in Rows : j.run = k.run /\ j.kind = k.kind
    <3> SUFFICES ASSUME NEW k \in FallbacksOf(F)
                 PROVE  \E j \in Rows : j.run = k.run /\ j.kind = k.kind
      BY <1>5
    <3>1. PICK j \in F : j.route # "log" /\ k = Fallback(j)
      BY DEF FallbacksOf, WithFallback
    <3>2. j \in Rows /\ j \in Keys
      BY <1>3, InvParts
    <3> QED
      BY <3>1, <3>2, FallbackParts
  <2> QED
    BY <1>3, <1>5, <1>7, <2>1 DEF Handled
<1> QED
  BY <1>5, <1>11, <1>13, <1>14, <1>15, <1>16, <1>17 DEF NoticeInv

-----------------------------------------------------------------------------
(* Settlements, commands and bootstrap *)

LEMMA UnchangedGrows ==
    ASSUME TypeOK, log' = log
    PROVE  LogOK' /\ LogGrows /\ RemindersOnly
BY TypeParts DEF LogOK, LogGrows, RowKept, RemindersOnly, Rows

LEMMA RemindersGrow ==
    ASSUME TypeOK, NEW r \in Runs, log' = WithPlanned(log, Reminders(r, now), now)
    PROVE  LogOK' /\ LogGrows /\ RemindersOnly
<1>1. /\ DOMAIN log = Rows /\ log \in [Rows -> LogRow] /\ now \in Int
      /\ \A k \in Reminders(r, now) : /\ k \in Keys /\ k.kind \in DraftKinds
                                      /\ k.route = FirstRoute(k.kind)
  BY TypeParts, ReminderOK DEF LogOK, Rows
<1> QED
  BY <1>1, PlannedGrows

LEMMA PauseGrows ==
    ASSUME TypeOK, NEW r \in Runs, Pause(r)
    PROVE  LogOK' /\ LogGrows /\ RemindersOnly
<1>1. /\ Rows' = Rows /\ log' = [k \in Rows |-> log'[k]]
      /\ \A k \in Rows : log'[k] = IF k.run = r /\ k.kind \in DraftKinds
                                   THEN PausedRow(k) ELSE log[k]
  BY DEF Pause, Rows
<1>2. ASSUME NEW k \in Rows, k.kind \in DraftKinds, log'[k] = PausedRow(k)
      PROVE  log'[k] \in LogRow /\ RowKept(k)
  <2>1. CASE log[k].status = "pending" /\ log[k].attempt_count = 0
    <3> DEFINE row == Closed(k, "cancelled", "schedule_paused")
    <3>1. /\ row \in LogRow /\ row.status = "cancelled"
          /\ row.attempt_count = log[k].attempt_count
      BY ClosedOK DEF LogStatuses, ErrorCodes
    <3>2. log'[k] = [row EXCEPT !.scheduled_at = now]
      BY <1>2, <2>1 DEF PausedRow
    <3>3. now \in Int
      BY TypeParts
    <3> HIDE DEF row
    <3>4. /\ log'[k] \in LogRow /\ log'[k].status = "cancelled"
          /\ log'[k].attempt_count = log[k].attempt_count
      BY <3>1, <3>2, <3>3 DEF LogRow
    <3> QED
      BY <1>2, <2>1, <3>4 DEF RowKept
  <2>2. CASE ~(log[k].status = "pending" /\ log[k].attempt_count = 0)
    BY <1>2, <2>2, TypeParts DEF PausedRow, RowKept, LogOK
  <2> QED
    BY <2>1, <2>2
<1>3. \A k \in Rows : log'[k] \in LogRow /\ RowKept(k)
  BY <1>1, <1>2, TypeParts DEF LogOK, RowKept
<1>4. log' \in [Rows' -> LogRow]
  BY <1>1, <1>3
<1> QED
  BY <1>1, <1>3, <1>4, TypeParts DEF LogOK, LogGrows, RemindersOnly

LEMMA BootstrapGrows ==
    ASSUME TypeOK, NEW w \in Workers, Bootstrap(w)
    PROVE  LogOK' /\ LogGrows /\ RemindersOnly
<1> DEFINE cutoff == proc[w].cutoff
<1>1. cutoff \in Int
  BY TypeParts DEF ProcessRecord
<1>2. PICK S \in Selections(BootstrapCandidates(cutoff)) :
          log' = WithPlanned(
                [k \in Rows |->
                    IF k.run \in S /\ k.kind \in DraftKinds /\ Elapsed(k, cutoff)
                    THEN Closed(k, "cancelled", "elapsed") ELSE log[k]],
                UNION {ToBootstrap(r, cutoff) : r \in S}, cutoff)
  BY DEF Bootstrap
<1> HIDE DEF cutoff
<1>3. S \subseteq Runs
  BY DEF Selections, BootstrapCandidates
<1> DEFINE rows == [k \in Rows |->
                IF k.run \in S /\ k.kind \in DraftKinds /\ Elapsed(k, cutoff)
                THEN Closed(k, "cancelled", "elapsed") ELSE log[k]]
           planned == UNION {ToBootstrap(r, cutoff) : r \in S}
<1>4. \A k \in planned : /\ k \in Keys /\ k.kind \in DraftKinds
                         /\ k.route = FirstRoute(k.kind)
  BY <1>1, <1>3, ReminderOK DEF ToBootstrap
<1>5. ASSUME NEW k \in Rows
      PROVE  /\ rows[k] \in LogRow
             /\ \/ rows[k] = log[k]
                \/ /\ k.kind \in DraftKinds /\ log[k].status = "pending"
                   /\ rows[k].status = "cancelled"
                   /\ rows[k].error_code # "schedule_paused"
                   /\ rows[k].attempt_count = log[k].attempt_count
  <2>1. CASE k.run \in S /\ k.kind \in DraftKinds /\ Elapsed(k, cutoff)
    <3>1. rows[k] = Closed(k, "cancelled", "elapsed")
      BY <2>1
    <3>2. /\ Closed(k, "cancelled", "elapsed") \in LogRow
          /\ Closed(k, "cancelled", "elapsed").status = "cancelled"
          /\ Closed(k, "cancelled", "elapsed").error_code = "elapsed"
          /\ Closed(k, "cancelled", "elapsed").attempt_count = log[k].attempt_count
      BY ClosedOK DEF LogStatuses, ErrorCodes
    <3> HIDE DEF rows
    <3> QED
      BY <2>1, <3>1, <3>2 DEF Elapsed
  <2>2. CASE ~(k.run \in S /\ k.kind \in DraftKinds /\ Elapsed(k, cutoff))
    BY <2>2, TypeParts DEF LogOK
  <2> QED
    BY <2>1, <2>2
<1>6. DOMAIN rows = Rows /\ rows \in [Rows -> LogRow]
  BY <1>5
<1> HIDE DEF rows, planned
<1>7. log' = WithPlanned(rows, planned, cutoff)
  BY <1>2 DEF rows, planned
<1> QED
  BY <1>1, <1>4, <1>5, <1>6, <1>7, PlannedGrows

-----------------------------------------------------------------------------
(* What the runs have come to, and what is reported of it *)

Failed == {"failed", "startup_overdue"}

(* Every new report is true, and every failure is reported. *)
RunsReported ==
    /\ \A r \in Runs : run'[r] = run[r] \/ run[r] \in {"pending", "processing"}
    /\ \A r \in Runs :
          run'[r] # run[r] /\ run'[r] \in Failed /\ "run_failed" \in Kinds[r]
          => KeyOf(r, "run_failed", "operator_channel") \in Rows'
    /\ \A k \in Rows' \ Rows :
          /\ k.kind = "run_failed" => run'[k.run] \in Failed
          /\ k.kind = "run_skipped" => run'[k.run] = "draft_without_content"

LEMMA SettleReports ==
    ASSUME TypeOK, NEW r \in Runs, NEW status \in RunStatuses, NEW kind \in EventKinds,
           NEW at \in Int, SettleRun(r, status, kind, at),
           run[r] \in {"pending", "processing"},
           status \in Failed <=> kind = "run_failed",
           kind = "run_skipped" => status = "draft_without_content"
    PROVE  /\ LogOK' /\ LogGrows /\ RunsReported
           /\ run' \in [Runs -> RunStatuses]
<1>1. /\ LogOK' /\ LogGrows
      /\ Rows' = Rows \cup ({KeyOf(r, kind, "operator_channel")} \cap Keys)
  BY EventGrows DEF SettleRun
<1>2. /\ run' \in [Runs -> RunStatuses] /\ run'[r] = status
      /\ \A q \in Runs : q # r => run'[q] = run[q]
  BY TypeParts DEF SettleRun
<1>3. "run_failed" \in Kinds[r] => KeyOf(r, "run_failed", "operator_channel") \in Keys
  BY DEF Keys, KeyOf, DraftKinds, EventKinds, Routes
<1>4. \A k \in Rows' \ Rows : k.run = r /\ k.kind = kind
  BY <1>1 DEF KeyOf
<1> QED
  BY <1>1, <1>2, <1>3, <1>4 DEF RunsReported

(* A step that settles no run and adds at most reminders. *)
LEMMA QuietReports ==
    ASSUME LogGrows, \A r \in Runs : \/ run'[r] = run[r]
                                     \/ /\ run[r] \in {"pending", "processing"}
                                        /\ run'[r] \notin Failed,
           \A k \in Rows' \ Rows : k.kind \notin {"run_failed", "run_skipped"}
    PROVE  RunsReported
BY DEF RunsReported, Failed

(* What every such transaction leaves behind. *)
Outside ==
    /\ LogOK' /\ LogGrows /\ RunsReported
    /\ schedule' \in [Runs -> ScheduleRow] /\ run' \in [Runs -> RunStatuses]
    /\ UNCHANGED <<now, attempt, task, wire>>

LEMMA ScheduleSet ==
    ASSUME TypeOK, NEW r \in Runs, NEW status \in ScheduleStatuses,
           NEW content \in BOOLEAN,
           schedule' = [schedule EXCEPT ![r] = [status |-> status, content |-> content]]
    PROVE  schedule' \in [Runs -> ScheduleRow]
BY TypeParts DEF ScheduleRow

LEMMA RunSet ==
    ASSUME TypeOK, NEW r \in Runs, NEW status \in RunStatuses \ Failed,
           run' = [run EXCEPT ![r] = status], run[r] \in {"pending", "processing"}
    PROVE  /\ run' \in [Runs -> RunStatuses]
           /\ \A q \in Runs : \/ run'[q] = run[q]
                              \/ /\ run[q] \in {"pending", "processing"}
                                 /\ run'[q] \notin Failed
BY TypeParts

(* A step that writes no notice, and a run that does not fail. *)
LEMMA QuietStep ==
    ASSUME TypeOK, NEW r \in Runs, log' = log,
           run' = run \/ /\ run[r] \in {"pending", "processing"}
                         /\ \E status \in RunStatuses \ Failed :
                               run' = [run EXCEPT ![r] = status],
           schedule' \in [Runs -> ScheduleRow],
           UNCHANGED <<now, attempt, task, wire>>
    PROVE  Outside
<1>1. LogOK' /\ LogGrows /\ RemindersOnly
  BY UnchangedGrows
<1>2. /\ run' \in [Runs -> RunStatuses]
      /\ \A q \in Runs : \/ run'[q] = run[q]
                         \/ /\ run[q] \in {"pending", "processing"}
                            /\ run'[q] \notin Failed
  BY RunSet, TypeParts
<1>3. RunsReported
  BY <1>1, <1>2, QuietReports DEF RemindersOnly, DraftKinds
<1> QED
  BY <1>1, <1>2, <1>3 DEF Outside

(* A step that plans or withdraws reminders, and settles nothing. *)
LEMMA ReminderStep ==
    ASSUME TypeOK, LogOK', LogGrows, RemindersOnly,
           schedule' \in [Runs -> ScheduleRow],
           UNCHANGED <<now, run, attempt, task, wire>>
    PROVE  Outside
<1>1. RunsReported
  BY QuietReports DEF RemindersOnly, DraftKinds
<1> QED
  BY <1>1, TypeParts DEF Outside

LEMMA RunStepOutside ==
    ASSUME TypeOK, NEW r \in Runs, RunStep(r)
    PROVE  Outside
<1>0. now \in Int /\ schedule \in [Runs -> ScheduleRow]
  BY TypeParts
<1>1. CASE DeliveryClaims(r)
  BY <1>0, <1>1, QuietStep DEF DeliveryClaims, RunStatuses, Failed
<1>2. CASE DeliverySucceeds(r)
  <2>1. schedule' \in [Runs -> ScheduleRow]
    BY <1>2, ScheduleSet DEF DeliverySucceeds, CloseSchedule, ScheduleStatuses
  <2> QED
    BY <1>2, <2>1, QuietStep DEF DeliverySucceeds, RunStatuses, Failed
<1>3. CASE DeliveryFails(r)
  <2>1. schedule' \in [Runs -> ScheduleRow]
    BY <1>3, ScheduleSet DEF DeliveryFails, CloseSchedule, ScheduleStatuses
  <2>2. LogOK' /\ LogGrows /\ RunsReported /\ run' \in [Runs -> RunStatuses]
    BY <1>0, <1>3, SettleReports DEF DeliveryFails, RunStatuses, Failed, EventKinds
  <2> QED
    BY <1>3, <2>1, <2>2 DEF Outside, DeliveryFails
<1>4. CASE DeliverySkipsDraft(r)
  <2>1. LogOK' /\ LogGrows /\ RunsReported /\ run' \in [Runs -> RunStatuses]
    BY <1>0, <1>4, SettleReports DEF DeliverySkipsDraft, RunStatuses, Failed, EventKinds
  <2> QED
    BY <1>0, <1>4, <2>1 DEF Outside, DeliverySkipsDraft
<1> QED
  BY <1>1, <1>2, <1>3, <1>4 DEF RunStep

LEMMA RecoverRunOutside ==
    ASSUME TypeOK, NEW w \in Workers, NEW r \in Runs, RecoverRun(w, r)
    PROVE  Outside
<1> DEFINE cutoff == proc[w].cutoff
<1>0. /\ cutoff \in Int /\ schedule \in [Runs -> ScheduleRow]
      /\ UNCHANGED <<now, attempt, task, wire>>
  BY TypeParts DEF ProcessRecord, RecoverRun
<1> HIDE DEF cutoff
<1>1. ASSUME run[r] = "processing" \/ run[r] = "pending",
             NEW status \in Failed, SettleRun(r, status, "run_failed", cutoff),
             CloseSchedule(r)
      PROVE  Outside
  <2>1. schedule' \in [Runs -> ScheduleRow]
    BY <1>1, ScheduleSet DEF CloseSchedule, ScheduleStatuses
  <2>2. LogOK' /\ LogGrows /\ RunsReported /\ run' \in [Runs -> RunStatuses]
    BY <1>0, <1>1, SettleReports DEF RunStatuses, Failed, EventKinds
  <2> QED
    BY <1>0, <2>1, <2>2 DEF Outside
<1>2. ASSUME run[r] = "pending", UNCHANGED schedule,
             SettleRun(r, "draft_without_content", "run_skipped", cutoff)
      PROVE  Outside
  <2>1. LogOK' /\ LogGrows /\ RunsReported /\ run' \in [Runs -> RunStatuses]
    BY <1>0, <1>2, SettleReports DEF RunStatuses, Failed, EventKinds
  <2> QED
    BY <1>0, <1>2, <2>1 DEF Outside
<1>3. ASSUME log' = WithEvent(r, "run_delayed", cutoff), UNCHANGED <<schedule, run>>
      PROVE  Outside
  <2>1. /\ LogOK' /\ LogGrows
        /\ \A k \in Rows' \ Rows : k.kind = "run_delayed"
    BY <1>0, <1>3, EventGrows DEF EventKinds, KeyOf
  <2>2. RunsReported
    BY <1>3, <2>1, QuietReports
  <2> QED
    BY <1>0, <1>3, <2>1, <2>2, TypeParts DEF Outside
<1> QED
  BY <1>1, <1>2, <1>3 DEF RecoverRun, Failed, cutoff

LEMMA CommandOutside ==
    ASSUME TypeOK, NEW r \in Runs, Command(r)
    PROVE  Outside
<1>0. /\ schedule \in [Runs -> ScheduleRow] /\ schedule[r].content \in BOOLEAN
      /\ UNCHANGED <<now, attempt, task, wire>>
  BY TypeParts DEF ScheduleRow, Command, CreateActive, CreateDraft, FillContent,
        ClearContent, ClearPausedContent, Pause, Resume, ResumeAfterwards, Delete
<1>1. schedule' \in [Runs -> ScheduleRow]
  BY <1>0, ScheduleSet DEF Command, CreateActive, CreateDraft, FillContent,
        ClearContent, ClearPausedContent, Pause, Resume, ResumeAfterwards, Delete,
        SetSchedule, CloseSchedule, ScheduleStatuses
<1>2. CASE CreateActive(r) \/ FillContent(r) \/ ClearPausedContent(r)
  BY <1>0, <1>1, <1>2, QuietStep DEF CreateActive, FillContent, ClearPausedContent
<1>3. CASE ResumeAfterwards(r) \/ Delete(r)
  BY <1>0, <1>1, <1>3, QuietStep DEF ResumeAfterwards, Delete, RunStatuses, Failed
<1>4. CASE CreateDraft(r) \/ ClearContent(r)
  BY <1>0, <1>1, <1>4, RemindersGrow, ReminderStep DEF CreateDraft, ClearContent
<1>5. CASE Pause(r)
  BY <1>0, <1>1, <1>5, PauseGrows, ReminderStep DEF Pause
<1>6. CASE Resume(r)
  <2>1. LogOK' /\ LogGrows /\ RemindersOnly
    BY <1>6, RemindersGrow, UnchangedGrows DEF Resume
  <2> QED
    BY <1>0, <1>1, <1>6, <2>1, ReminderStep DEF Resume
<1> QED
  BY <1>2, <1>3, <1>4, <1>5, <1>6 DEF Command

LEMMA BootstrapOutside ==
    ASSUME TypeOK, NEW w \in Workers, Bootstrap(w)
    PROVE  Outside
<1>1. LogOK' /\ LogGrows /\ RemindersOnly
  BY BootstrapGrows
<1> QED
  BY <1>1, ReminderStep, TypeParts DEF Bootstrap

-----------------------------------------------------------------------------
(* Every step, and the inductive invariant *)

LEMMA NextInv ==
    ASSUME NoticeInv', now' \in Nat, proc' \in [Workers -> ProcessRecord],
           schedule' \in [Runs -> ScheduleRow], run' \in [Runs -> RunStatuses]
    PROVE  IInv'
BY DEF IInv, NoticeInv, TypeOK, LogOK, TriesOK

LEMMA BatchOK ==
    ASSUME NEW p \in ProcessRecord, NEW size, NEW next \in Phases
    PROVE  AfterBatch(p, size, next) \in ProcessRecord
<1>1. p.cutoff \in Nat /\ p.batches + 1 \in Nat
  BY DEF ProcessRecord
<1>2. /\ Process(next, IF next = "polling" THEN 0 ELSE p.cutoff) \in ProcessRecord
      /\ Process("over", 0) \in ProcessRecord
  BY <1>1 DEF Process, ProcessRecord, Phases
<1>3. [p EXCEPT !.batches = p.batches + 1] \in ProcessRecord
  BY <1>1 DEF ProcessRecord
<1> QED
  BY <1>2, <1>3 DEF AfterBatch

LEMMA ProcSet ==
    ASSUME TypeOK, NEW w \in Workers, NEW p \in ProcessRecord,
           proc' = [proc EXCEPT ![w] = p]
    PROVE  proc' \in [Workers -> ProcessRecord]
BY TypeParts

(* The step of a worker, of Discord, or of its recovery at startup. *)
WorkerSide == Handled /\ UNCHANGED run

LEMMA TaskStepKeeps ==
    ASSUME IInv, NEW k, NEW n, <<k, n>> \in Tries, TaskStep(k, n) \/ Discord(k, n)
    PROVE  NoticeInv' /\ WorkerSide /\ UNCHANGED <<now, proc, schedule>>
<1>1. UNCHANGED <<now, proc, schedule, run>>
  BY DEF TaskStep, Discord, PrepareSend, PrepareCancel, Send, SaveSuccess, SaveRetry,
         SaveFailure, SaveUnknown, Raise, Saves, db
<1>2. CASE Raise(k, n)
  <2>1. /\ UNCHANGED <<log, attempt, wire>>
        /\ task' \in [Tries -> Steps]
        /\ \A a \in Tries : task'[a] \in {task[a], "none"}
    BY <1>2, TypeParts DEF Raise, SetTask, db, IInv, TriesOK, Steps
  <2> QED
    BY <1>1, <2>1, TaskEndKeeps DEF WorkerSide
<1>3. CASE ~Raise(k, n)
  BY <1>1, <1>3, PrepareSendKeeps, PrepareCancelKeeps, WireKeeps, SaveSuccessKeeps,
     SaveRetryKeeps, SaveFailureKeeps, SaveUnknownKeeps DEF TaskStep, WorkerSide
<1> QED
  BY <1>2, <1>3

(* Every step keeps the invariant, and is either a transaction outside the   *)
(* worker or a step of the worker.                                           *)
LEMMA EveryStep ==
    ASSUME IInv, Next
    PROVE  IInv' /\ (Outside \/ WorkerSide)
<1> USE DEF IInv
<1>0. /\ now \in Nat /\ proc \in [Workers -> ProcessRecord]
      /\ schedule \in [Runs -> ScheduleRow] /\ run \in [Runs -> RunStatuses]
      /\ \A w \in Workers : proc[w] \in ProcessRecord /\ proc[w].cutoff \in Nat
  BY TypeParts DEF ProcessRecord
<1>1. ASSUME UNCHANGED <<log, attempt, wire>>, task' \in [Tries -> Steps],
             \A a \in Tries : task'[a] \in {task[a], "none"}, UNCHANGED <<schedule, run>>,
             now' \in Nat, proc' \in [Workers -> ProcessRecord]
      PROVE  IInv' /\ WorkerSide
  <2>1. NoticeInv' /\ Handled
    BY <1>1, TaskEndKeeps
  <2> QED
    BY <1>0, <1>1, <2>1, NextInv DEF WorkerSide
<1>2. ASSUME NoticeInv', UNCHANGED <<now, schedule, run>>,
             proc' \in [Workers -> ProcessRecord]
      PROVE  IInv'
  BY <1>0, <1>2, NextInv
<1>3. ASSUME Outside, proc' \in [Workers -> ProcessRecord]
      PROVE  IInv'
  <2>1. NoticeInv'
    BY <1>3, GrowthKeeps DEF Outside
  <2> QED
    BY <1>0, <1>3, <2>1, NextInv DEF Outside
<1>4. CASE Tick
  <2>1. now' \in Nat /\ UNCHANGED <<proc, db, task, wire>>
    BY <1>0, <1>4 DEF Tick
  <2> QED
    BY <1>0, <1>1, <2>1, TypeParts DEF db, TriesOK
<1>5. ASSUME NEW w \in Workers, Start(w) \/ RunsRecovered(w)
      PROVE  IInv' /\ WorkerSide
  <2>1. UNCHANGED <<now, db, task, wire>>
    BY <1>5 DEF Start, RunsRecovered
  <2>2. proc' \in [Workers -> ProcessRecord]
    BY <1>0, <1>5, ProcSet DEF Start, RunsRecovered, Process, ProcessRecord, Phases
  <2> QED
    BY <1>0, <1>1, <2>1, <2>2, TypeParts DEF db, TriesOK
<1>6. ASSUME NEW w \in Workers, Crash(w)
      PROVE  IInv' /\ WorkerSide
  <2>1. UNCHANGED <<now, db, wire>>
    BY <1>6 DEF Crash
  <2>2. proc' \in [Workers -> ProcessRecord]
    BY <1>0, <1>6, ProcSet DEF Crash, Process, ProcessRecord, Phases
  <2>3. /\ task' \in [Tries -> Steps]
        /\ \A a \in Tries : task'[a] \in {task[a], "none"}
    BY <1>6, TypeParts DEF Crash, TriesOK, Steps
  <2> QED
    BY <1>0, <1>1, <2>1, <2>2, <2>3 DEF db
<1>7. ASSUME NEW w \in Workers, NEW r \in Runs, RecoverRun(w, r)
      PROVE  IInv' /\ Outside
  BY <1>0, <1>3, <1>7, RecoverRunOutside DEF RecoverRun
<1>8. ASSUME NEW w \in Workers, RecoverNotifications(w)
      PROVE  IInv' /\ WorkerSide
  <2>1. NoticeInv' /\ Handled /\ UNCHANGED <<now, schedule, run>>
    BY <1>8, RecoverKeeps DEF RecoverNotifications
  <2>2. proc' \in [Workers -> ProcessRecord]
    BY <1>0, <1>8, ProcSet, BatchOK DEF RecoverNotifications, Phases
  <2> QED
    BY <1>2, <2>1, <2>2 DEF WorkerSide
<1>9. ASSUME NEW w \in Workers, Bootstrap(w)
      PROVE  IInv' /\ Outside
  <2>1. PICK S \in Selections(BootstrapCandidates(proc[w].cutoff)) :
          proc' = [proc EXCEPT ![w] =
                AfterBatch([proc[w] EXCEPT !.bootstrapped = @ \cup S],
                           Cardinality(S), "polling")]
    BY <1>9 DEF Bootstrap
  <2>2. S \subseteq Runs
    BY DEF Selections, BootstrapCandidates
  <2>3. [proc[w] EXCEPT !.bootstrapped = @ \cup S] \in ProcessRecord
    BY <1>0, <2>2 DEF ProcessRecord
  <2>4. proc' \in [Workers -> ProcessRecord]
    BY <2>1, <2>3, BatchOK, ProcSet DEF Phases
  <2> QED
    BY <1>3, <1>9, <2>4, BootstrapOutside
<1>10. ASSUME NEW w \in Workers, Claim(w)
       PROVE  IInv' /\ WorkerSide
  BY <1>0, <1>2, <1>10, ClaimKeeps DEF Claim, WorkerSide
<1>11. ASSUME NEW r \in Runs, RunStep(r) \/ Command(r)
       PROVE  IInv' /\ Outside
  <2>1. Outside
    BY <1>11, RunStepOutside, CommandOutside
  <2>2. UNCHANGED proc
    BY <1>11 DEF RunStep, DeliveryClaims, DeliverySucceeds, DeliveryFails,
        DeliverySkipsDraft, Command, CreateActive, CreateDraft, FillContent,
        ClearContent, ClearPausedContent, Pause, Resume, ResumeAfterwards, Delete
  <2> QED
    BY <1>0, <1>3, <2>1, <2>2
<1>12. ASSUME NEW a \in Tries, TaskStep(a[1], a[2]) \/ Discord(a[1], a[2])
       PROVE  IInv' /\ WorkerSide
  <2>1. <<a[1], a[2]>> \in Tries
    BY InvParts
  <2>2. NoticeInv' /\ WorkerSide /\ UNCHANGED <<now, proc, schedule>>
    BY <1>12, <2>1, TaskStepKeeps
  <2> QED
    BY <1>0, <1>2, <2>2 DEF WorkerSide
<1> QED
  BY <1>1, <1>4, <1>5, <1>6, <1>7, <1>8, <1>9, <1>10, <1>11, <1>12, TypeParts DEF Next

LEMMA InitIInv ==
    ASSUME Init
    PROVE  IInv
<1>1. /\ Rows = {} /\ Tries = {}
      /\ log \in [Rows -> LogRow] /\ attempt \in [Tries -> AttemptRow]
      /\ task \in [Tries -> Steps] /\ wire \in [Tries -> Wires]
  BY DEF Init, Rows, Tries
<1>2. LogOK /\ TriesOK
  BY <1>1 DEF LogOK, TriesOK
<1>3. /\ proc \in [Workers -> ProcessRecord] /\ now \in Nat
      /\ schedule \in [Runs -> ScheduleRow] /\ run \in [Runs -> RunStatuses]
  BY DEF Init, Process, ProcessRecord, Phases, ScheduleRow, ScheduleStatuses, RunStatuses
<1>4. TypeOK
  BY <1>2, <1>3, TypeParts
<1> QED
  BY <1>1, <1>4 DEF IInv, RoutesInv, NumberingInv, LatestInv, StepInv

LEMMA StutterIInv ==
    ASSUME IInv, UNCHANGED vars
    PROVE  IInv' /\ WorkerSide
<1>1. NoticeInv' /\ Handled
  BY TaskEndKeeps, TypeParts DEF IInv, vars, db, TriesOK
<1> QED
  BY <1>1, NextInv, TypeParts DEF IInv, WorkerSide, vars, db

LEMMA Inductive == Spec => []IInv
<1>1. Init => IInv
  BY InitIInv
<1>2. IInv /\ [Next]_vars => IInv'
  BY EveryStep, StutterIInv
<1> QED
  BY <1>1, <1>2, PTL DEF Spec

(* Every variable keeps the shape of its tables, tasks and processes. *)
THEOREM NotificationTypeCorrect == Spec => []TypeOK
BY Inductive, PTL DEF IInv

(* A notice is at every moment the business of exactly one route, for any    *)
(* number of runs, processes, attempts and failures.                         *)
THEOREM OneRoute == Spec => []OneRouteAtATime
<1>1. ASSUME IInv, NEW k \in Rows
      PROVE  /\ k.route # "log" =>
                   (Fallback(k) \in Rows <=> log[k].status = "failed")
             /\ k.route # FirstRoute(k.kind) =>
                   \E j \in Rows : j.route # "log" /\ k = Fallback(j)
  <2>1. k \in Keys
    BY <1>1 DEF IInv, TypeOK
  <2>2. ASSUME k.route # FirstRoute(k.kind)
        PROVE  \E j \in Keys : j.route # "log" /\ k = Fallback(j)
    <3> DEFINE At(route) == KeyOf(k.run, k.kind, route)
    <3>1. /\ k = At(k.route) /\ k.route \in Routes \ {"creator_dm"}
          /\ k.kind \in EventKinds => k.route # "operator_channel"
      BY <2>1, <2>2, KeyParts DEF FirstRoute, KeyOf, Routes, DraftKinds, EventKinds
    <3>2. ASSUME NEW route \in Routes, route # "log", NextRoute[route] = k.route,
                 k.kind \in EventKinds => route # "creator_dm"
          PROVE  At(route) \in Keys /\ k = Fallback(At(route)) /\ At(route).route # "log"
      BY <2>1, <3>1, <3>2, KeyParts DEF Keys, KeyOf, Fallback
    <3>3. \E route \in Routes : /\ route # "log" /\ NextRoute[route] = k.route
                                /\ k.kind \in EventKinds => route # "creator_dm"
      <4>1. CASE k.route = "operator_channel"
        BY <3>1, <4>1, NextRoutes DEF Routes
      <4>2. CASE k.route = "operator_dm"
        BY <4>2, NextRoutes DEF Routes
      <4>3. CASE k.route = "log"
        BY <4>3, NextRoutes DEF Routes
      <4> QED
        BY <3>1, <4>1, <4>2, <4>3 DEF Routes
    <3> QED
      BY <3>2, <3>3
  <2> QED
    BY <1>1, <2>1, <2>2 DEF IInv, RoutesInv
<1>2. IInv => OneRouteAtATime
  BY <1>1 DEF OneRouteAtATime
<1> QED
  BY <1>2, Inductive, PTL

(* Nobody is told twice: of all the attempts of a notice, on all its routes, *)
(* at most one has a request that was accepted or may still be.              *)
THEOREM ToldOnce == Spec => []ToldAtMostOnce
<1>1. ASSUME IInv, NEW a \in Tries, NEW b \in Tries,
             MayBeTold(a), MayBeTold(b), Of(a[1], b[1])
      PROVE  a = b
  <2>1. /\ a = <<a[1], a[2]>> /\ b = <<b[1], b[2]>>
        /\ attempt[a].status \in {"sending", "unknown", "succeeded"}
        /\ attempt[b].status \in {"sending", "unknown", "succeeded"}
    BY <1>1, InvParts DEF IInv, StepInv, StepAgrees
  <2>2. /\ a[1] \in Rows /\ Latest(a[1]) = a /\ Agrees(log[a[1]].status, attempt[a].status)
        /\ b[1] \in Rows /\ Latest(b[1]) = b /\ Agrees(log[b[1]].status, attempt[b].status)
    BY <1>1, <2>1, HeldIsLatest
  <2>3. log[a[1]].status # "failed" /\ log[b[1]].status # "failed"
    BY <2>1, <2>2 DEF Agrees
  <2>4. a[1] = b[1]
    BY <1>1, <2>2, <2>3, OneOpenRoute DEF IInv, Of
  <2> QED
    BY <2>2, <2>4
<1>2. IInv => ToldAtMostOnce
  BY <1>1 DEF ToldAtMostOnce
<1> QED
  BY <1>2, Inductive, PTL

-----------------------------------------------------------------------------
(* What is settled, and what is reported *)

(* A notice that was told, logged or written off stays so; a cancelled one   *)
(* comes back only if a pause withdrew it before any worker saw it.          *)
THEOREM SettledStays == Spec => SettledIsFinal
<1>1. ASSUME IInv, Outside \/ WorkerSide, NEW k \in Rows
      PROVE  /\ log[k].status \in {"succeeded", "failed", "unknown"} =>
                   log'[k] = log[k]
             /\ log[k].status = "cancelled" /\ log'[k].status # "cancelled" =>
                   /\ log[k].error_code = "schedule_paused"
                   /\ \A a \in Tries : a[1] # k
  <2>1. CASE WorkerSide
    BY <2>1 DEF WorkerSide, Handled
  <2>2. CASE Outside
    <3>1. RowKept(k)
      BY <2>2 DEF Outside, LogGrows
    <3>2. log[k].attempt_count = 0 => \A a \in Tries : a[1] # k
      <4> SUFFICES ASSUME log[k].attempt_count = 0, NEW a \in Tries, a[1] = k
                   PROVE  FALSE
        OBVIOUS
      <4>1. a = <<k, a[2]>> /\ a[2] \in Attempts
        BY <1>1, InvParts
      <4>2. a[2] <= 0
        BY <1>1, <4>1 DEF IInv, NumberingInv
      <4> QED
        BY <4>1, <4>2 DEF Attempts
    <3> QED
      BY <3>1, <3>2 DEF RowKept
  <2> QED
    BY <1>1, <2>1, <2>2
<1>2. IInv /\ [Next]_vars => [\A k \in Rows :
         /\ log[k].status \in {"succeeded", "failed", "unknown"} =>
               log'[k] = log[k]
         /\ log[k].status = "cancelled" /\ log'[k].status # "cancelled" =>
               /\ log[k].error_code = "schedule_paused"
               /\ \A a \in Tries : a[1] # k]_vars
  BY <1>1, EveryStep
<1> QED
  BY <1>2, Inductive, PTL DEF Spec, SettledIsFinal

(* Reports exist of what failed, and say what is so. *)
Truthful(k) ==
    /\ k.kind = "run_failed" => run[k.run] \in Failed
    /\ k.kind = "run_skipped" => run[k.run] = "draft_without_content"

Withdrawable(k) ==
    /\ k.kind \notin {"run_failed", "run_skipped"}
    /\ k.kind = "run_delayed" =>
          \/ FailureReported(k.run)
          \/ run[k.run] \in {"draft_without_content", "skipped"}

ReportInv ==
    /\ \A k \in Rows : Truthful(k)
    /\ \A k \in Rows : log[k].status = "cancelled" => Withdrawable(k)
    /\ \A r \in Runs : run[r] \in Failed /\ "run_failed" \in Kinds[r]
          => KeyOf(r, "run_failed", "operator_channel") \in Rows

(* A reported failure stays reported. *)
LEMMA ReportStays ==
    ASSUME IInv, ReportInv, Outside \/ WorkerSide, NEW r \in Runs, FailureReported(r)
    PROVE  FailureReported(r)'
<1>1. PICK k \in Rows : /\ k.run = r /\ k.kind = "run_failed"
                        /\ log[k].status # "cancelled"
  BY DEF FailureReported
<1>2. k \in Rows'
  BY DEF Outside, LogGrows, WorkerSide, Handled
<1>3. log'[k].status # "cancelled"
  <2>1. CASE Outside
    BY <1>1, <2>1 DEF Outside, LogGrows, RowKept, DraftKinds
  <2>2. CASE WorkerSide
    BY <1>1, <2>2 DEF WorkerSide, Handled, Applies, ReportInv, Truthful, Failed, DraftKinds
  <2> QED
    BY <2>1, <2>2
<1> QED
  BY <1>1, <1>2, <1>3 DEF FailureReported

LEMMA ReportStep ==
    ASSUME IInv, ReportInv, Outside \/ WorkerSide
    PROVE  ReportInv'
<1>0. /\ \A k \in Rows : k \in Keys /\ k.run \in Runs /\ k.kind \in Kinds[k.run]
                         /\ k.kind \in DraftKinds \cup EventKinds
      /\ run \in [Runs -> RunStatuses]
  BY InvParts, KeyParts, TypeParts DEF IInv
<1>1. \A r \in Runs : \/ run'[r] = run[r]
                      \/ run[r] \in {"pending", "processing"}
  BY DEF Outside, RunsReported, WorkerSide
<1>2. Rows \subseteq Rows'
  BY DEF Outside, LogGrows, WorkerSide, Handled
<1>3. \A k \in Rows' : Truthful(k)'
  <2> SUFFICES ASSUME NEW k \in Rows' PROVE Truthful(k)'
    OBVIOUS
  <2>1. CASE k \in Rows
    BY <1>0, <1>1, <2>1 DEF ReportInv, Truthful, Failed
  <2>2. CASE k \notin Rows /\ Outside
    BY <2>2 DEF Outside, RunsReported, Truthful
  <2>3. CASE k \notin Rows /\ WorkerSide
    BY <2>3 DEF WorkerSide, Handled, ReportInv, Truthful
  <2> QED
    BY <2>1, <2>2, <2>3
<1>4. \A r \in Runs : run'[r] \in Failed /\ "run_failed" \in Kinds[r]
          => KeyOf(r, "run_failed", "operator_channel") \in Rows'
  <2> SUFFICES ASSUME NEW r \in Runs, run'[r] \in Failed, "run_failed" \in Kinds[r]
               PROVE  KeyOf(r, "run_failed", "operator_channel") \in Rows'
    OBVIOUS
  <2>1. CASE run'[r] = run[r]
    BY <1>2, <2>1 DEF ReportInv
  <2>2. CASE run'[r] # run[r]
    BY <2>2 DEF Outside, RunsReported, WorkerSide
  <2> QED
    BY <2>1, <2>2
<1>5. \A k \in Rows' : log'[k].status = "cancelled" => Withdrawable(k)'
  <2> SUFFICES ASSUME NEW k \in Rows', log'[k].status = "cancelled"
               PROVE  Withdrawable(k)'
    OBVIOUS
  <2>1. k \in Rows
    BY DEF Outside, LogGrows, WorkerSide, Handled, Fresh
  <2>2. CASE log[k].status = "cancelled"
    <3>1. Withdrawable(k)
      BY <2>1, <2>2 DEF ReportInv
    <3>2. FailureReported(k.run) => FailureReported(k.run)'
      BY <1>0, <2>1, ReportStays
    <3>3. run[k.run] \in {"draft_without_content", "skipped"} => run'[k.run] = run[k.run]
      BY <1>0, <1>1, <2>1
    <3> QED
      BY <3>1, <3>2, <3>3 DEF Withdrawable
  <2>3. CASE log[k].status # "cancelled" /\ Outside
    BY <2>1, <2>3 DEF Outside, LogGrows, RowKept, Withdrawable, DraftKinds
  <2>4. CASE log[k].status # "cancelled" /\ WorkerSide
    <3>1. PICK at \in Int : ~Applies(k, at)
      BY <2>1, <2>4 DEF WorkerSide, Handled
    <3>2. Truthful(k)
      BY <2>1 DEF ReportInv
    <3>3. k.kind \notin {"run_failed", "run_skipped"}
      BY <3>1, <3>2 DEF Applies, Truthful, Failed, DraftKinds
    <3>4. ASSUME k.kind = "run_delayed"
          PROVE  \/ FailureReported(k.run)'
                 \/ run'[k.run] \in {"draft_without_content", "skipped"}
      <4>1. \/ run[k.run] \notin {"pending", "processing", "succeeded"}
            \/ FailureReported(k.run)
        BY <3>1, <3>4 DEF Applies, DraftKinds
      <4>2. CASE FailureReported(k.run)
        BY <1>0, <2>1, <4>2, ReportStays
      <4>3. CASE run[k.run] \in Failed
        <5> DEFINE report == KeyOf(k.run, "run_failed", "operator_channel")
        <5>1. report \in Rows
          BY <1>0, <2>1, <3>4, <4>3, KindAssumption DEF ReportInv
        <5>2. report.run = k.run /\ report.kind = "run_failed"
          BY DEF KeyOf
        <5>3. log[report].status # "cancelled"
          BY <5>1, <5>2 DEF ReportInv, Withdrawable
        <5>4. FailureReported(k.run)
          BY <5>1, <5>2, <5>3 DEF FailureReported
        <5> QED
          BY <1>0, <2>1, <5>4, ReportStays
      <4>4. CASE run[k.run] \in {"draft_without_content", "skipped"}
        BY <1>0, <1>1, <2>1, <4>4
      <4> QED
        BY <1>0, <2>1, <4>1, <4>2, <4>3, <4>4 DEF RunStatuses, Failed
    <3> QED
      BY <3>3, <3>4 DEF Withdrawable
  <2> QED
    BY <2>2, <2>3, <2>4
<1> QED
  BY <1>3, <1>4, <1>5 DEF ReportInv

(* What became of a run is reported, however late: the notice of a failed or *)
(* skipped run is never withdrawn, and that a run is delayed is withdrawn    *)
(* only when its failure is reported or it was not delivered at all.         *)
THEOREM ReportsKept == Spec => []ReportsAreKept
<1>1. Init => IInv /\ ReportInv
  <2>1. Init => ReportInv
    BY DEF Init, ReportInv, Rows, Failed
  <2> QED
    BY <2>1, InitIInv
<1>2. IInv /\ ReportInv /\ [Next]_vars => (IInv /\ ReportInv)'
  BY EveryStep, StutterIInv, ReportStep
<1>3. ReportInv => ReportsAreKept
  BY DEF ReportInv, Withdrawable, ReportsAreKept
<1> QED
  BY <1>1, <1>2, <1>3, PTL DEF Spec

-----------------------------------------------------------------------------
(* Startup does not come back to the drafts it has bootstrapped              *)

(* How a step may change the reminders of a run, when it plans at a time:    *)
(* a row keeps its time, and waits again only after an attempt;              *)
TimeKept(k) ==
    /\ log'[k].scheduled_at = log[k].scheduled_at
    /\ log[k].attempt_count # 0 => log'[k].attempt_count # 0
    /\ log'[k].status = "pending" =>
          log[k].status = "pending" \/ log[k].attempt_count # 0
    /\ WithdrawnByPause(log[k]) => WithdrawnByPause(log'[k])

(* ... or a pause withdraws it,                                              *)
PausedNow(k) ==
    /\ log'[k].scheduled_at = now /\ WithdrawnByPause(log'[k])
    /\ log[k].attempt_count = 0

(* ... or it is planned, as a new row or a withdrawn one,                    *)
PlannedAt(k, at) ==
    /\ k \in Reminders(k.run, at)
    /\ k \in Rows => log[k].attempt_count = 0
    /\ log'[k].scheduled_at = PlanTime(k.run, k.kind, at)

(* ... or it is the next route of a row that failed.                         *)
HandedOn(k) ==
    /\ k.route # "creator_dm"
    /\ \E j \in Rows : /\ j.run = k.run /\ j.kind = k.kind
                       /\ log[j].attempt_count # 0
                       /\ log'[k].scheduled_at = log[j].scheduled_at

DraftStep(r, at) ==
    /\ DraftRows(r) \subseteq Rows'
    /\ \A k \in DraftRows(r) : TimeKept(k) \/ PausedNow(k) \/ PlannedAt(k, at)
    /\ \A k \in Rows' \ Rows : k.run = r /\ k.kind \in DraftKinds =>
                                   PlannedAt(k, at) \/ HandedOn(k)

(* The times of reminders: an immediate one lies within the last hour and    *)
(* not ahead, that of the hour is at its threshold unless it is withdrawn.   *)
TimesOK(k) ==
    /\ k.kind = "draft_immediate" =>
          /\ ScheduledFor[k.run] - Hour < log[k].scheduled_at
          /\ log[k].scheduled_at <= now
    /\ k.kind = "draft_1h" /\ k.route = "creator_dm" =>
          \/ WithdrawnByPause(log[k])
          \/ log[k].scheduled_at = ScheduledFor[k.run] - Hour

TimesInv == \A k \in Rows : TimesOK(k)

(* Only runs that have reminders are without content. *)
ContentInv ==
    \A r \in Runs :
        \/ schedule[r].status = "draft"
        \/ schedule[r].status = "paused" /\ ~schedule[r].content
        => MayBeDraft(r)

(* What keeps a bootstrapped draft out of the next selection, or in it for a *)
(* reminder somebody tried: before the cutoff nothing waits, and a reminder  *)
(* is to come or is an immediate one.                                        *)
Tried(r, cutoff) ==
    \E k \in DraftRows(r) :
        log[k].scheduled_at < cutoff /\ log[k].attempt_count # 0

Reminded(r, cutoff) ==
    /\ \A k \in DraftRows(r) : ~Elapsed(k, cutoff)
    /\ \E k \in DraftRows(r) : \/ log[k].scheduled_at >= cutoff
                               \/ k.kind = "draft_immediate"

(* ... and for good it has an immediate reminder, or one of an hour ahead.   *)
Covers(k, cutoff) ==
    \/ k.kind = "draft_immediate"
    \/ /\ k.kind = "draft_1h" /\ ScheduledFor[k.run] - Hour >= cutoff
       /\ log[k].scheduled_at >= cutoff

Covered(r, cutoff) == \E k \in DraftRows(r) : Covers(k, cutoff)

Bootstrapped(r, cutoff) ==
    Covered(r, cutoff) /\ (Tried(r, cutoff) \/ Reminded(r, cutoff))

BootstrappedOK(w) ==
    /\ proc[w].cutoff <= now
    /\ proc[w].phase = "bootstrap" =>
          \A r \in proc[w].bootstrapped : Bootstrapped(r, proc[w].cutoff)

BootstrapInv == TimesInv /\ ContentInv /\ \A w \in Workers : BootstrappedOK(w)

(* What is planned at a time is not due before it. *)
LEMMA PlannedAhead ==
    ASSUME NEW r \in Runs, NEW at \in Int, NEW kind \in PlannedKinds(r, at)
    PROVE  /\ PlanTime(r, kind, at) >= at /\ kind \in DraftKinds
           /\ kind = "draft_immediate" =>
                 ScheduledFor[r] - Hour < at /\ PlanTime(r, kind, at) = at
           /\ kind = "draft_1h" => PlanTime(r, kind, at) = ScheduledFor[r] - Hour
           /\ kind # "draft_immediate" => ScheduledFor[r] - at >= Hour
<1>1. ScheduledFor[r] \in Int /\ Day \in Int /\ Hour \in Int /\ Hour <= Day
  BY TimeAssumption
<1> DEFINE remaining == ScheduledFor[r] - at
<1>2. CASE remaining >= Day
  BY <1>1, <1>2 DEF PlannedKinds, PlanTime, DraftKinds
<1>3. CASE remaining >= Hour /\ remaining < Day
  BY <1>1, <1>3 DEF PlannedKinds, PlanTime, DraftKinds
<1>4. CASE remaining > 0 /\ remaining < Hour
  BY <1>1, <1>4 DEF PlannedKinds, PlanTime, DraftKinds
<1>5. CASE remaining <= 0
  <2>1. Hour > 0 /\ Day > 0
    BY TimeAssumption
  <2>2. PlannedKinds(r, at) = {}
    BY <1>1, <1>5, <2>1 DEF PlannedKinds
  <2> QED
    BY <2>2
<1> QED
  BY <1>1, <1>2, <1>3, <1>4, <1>5

LEMMA PlannedAtAhead ==
    ASSUME NEW at \in Int, NEW k, PlannedAt(k, at), k.run \in Runs
    PROVE  /\ log'[k].scheduled_at >= at
           /\ k.kind = "draft_immediate" =>
                 /\ ScheduledFor[k.run] - Hour < at
                 /\ log'[k].scheduled_at = at
           /\ k.kind = "draft_1h" =>
                 log'[k].scheduled_at = ScheduledFor[k.run] - Hour
BY PlannedAhead DEF PlannedAt, Reminders

LEMMA RowTimes ==
    ASSUME TypeOK
    PROVE  /\ now \in Int /\ Hour \in Int
           /\ \A r \in Runs : ScheduledFor[r] \in Int
           /\ \A k \in Rows : /\ log[k].scheduled_at \in Int
                              /\ log[k].attempt_count \in Nat
                              /\ k \in Keys /\ k.run \in Runs
           /\ \A w \in Workers : proc[w].cutoff \in Int
<1>1. \A k \in Rows : log[k] \in LogRow /\ k \in Keys
  BY TypeParts DEF LogOK
<1>2. \A k \in Keys : k.run \in Runs
  BY KeyParts
<1>3. 0..MaxAttempts \subseteq Nat
  BY AttemptAssumption
<1>4. \A k \in Rows : log[k].scheduled_at \in Int /\ log[k].attempt_count \in Nat
  BY <1>1, <1>3 DEF LogRow
<1>5. now \in Int /\ \A w \in Workers : proc[w].cutoff \in Int
  BY TypeParts DEF ProcessRecord
<1> QED
  BY <1>1, <1>2, <1>4, <1>5, TimeAssumption

LEMMA RowTimeAfter ==
    ASSUME TypeOK', NEW k \in Rows'
    PROVE  log'[k].scheduled_at \in Int
<1>1. log'[k] \in LogRow
  BY DEF TypeOK
<1> QED
  BY <1>1 DEF LogRow

(* The times of reminders stay so. *)
LEMMA TimesStep ==
    ASSUME TypeOK, TypeOK', TimesInv, NEW at \in Int, at <= now, now <= now',
           NEW r \in Runs, DraftStep(r, at),
           NEW k \in Rows', k.run = r
    PROVE  TimesOK(k)'
<1>0. /\ now \in Int /\ now' \in Int /\ Hour \in Int /\ ScheduledFor[r] \in Int
      /\ log'[k].scheduled_at \in Int
  BY RowTimes, RowTimeAfter DEF TypeOK
<1>1. ASSUME k.kind \notin DraftKinds PROVE TimesOK(k)'
  BY <1>1 DEF TimesOK, DraftKinds
<1>2. ASSUME PlannedAt(k, at) PROVE TimesOK(k)'
  BY <1>0, <1>2, PlannedAtAhead DEF TimesOK
<1>3. CASE k \in Rows /\ k.kind \in DraftKinds
  <2>1. TimesOK(k) /\ k \in DraftRows(r) /\ log[k].scheduled_at \in Int
    BY <1>3, RowTimes DEF TimesInv, DraftRows
  <2>2. CASE TimeKept(k)
    BY <1>0, <2>1, <2>2 DEF TimesOK, TimeKept
  <2>3. CASE PausedNow(k)
    BY <1>0, <2>1, <2>3 DEF TimesOK, PausedNow
  <2> QED
    BY <1>2, <2>1, <2>2, <2>3 DEF DraftStep
<1>4. CASE k \notin Rows /\ k.kind \in DraftKinds
  <2>1. ASSUME HandedOn(k) PROVE TimesOK(k)'
    <3>1. PICK j \in Rows : /\ j.run = k.run /\ j.kind = k.kind
                            /\ log'[k].scheduled_at = log[j].scheduled_at
      BY <2>1 DEF HandedOn
    <3>2. TimesOK(j) /\ log[j].scheduled_at \in Int /\ k.route # "creator_dm"
      BY <2>1, RowTimes DEF TimesInv, HandedOn
    <3> QED
      BY <1>0, <3>1, <3>2 DEF TimesOK
  <2> QED
    BY <1>2, <1>4, <2>1 DEF DraftStep
<1> QED
  BY <1>1, <1>3, <1>4

(* A reminder somebody tried keeps its time for good. *)
LEMMA TriedStays ==
    ASSUME NEW r, NEW at, NEW cutoff, DraftStep(r, at), Tried(r, cutoff)
    PROVE  Tried(r, cutoff)'
<1>1. PICK k \in DraftRows(r) :
          log[k].scheduled_at < cutoff /\ log[k].attempt_count # 0
  BY DEF Tried
<1>2. k \in Rows' /\ TimeKept(k) /\ k.run = r /\ k.kind \in DraftKinds
  BY <1>1 DEF DraftStep, PausedNow, PlannedAt, DraftRows
<1>3. k \in DraftRows(r)'
  BY <1>2 DEF DraftRows
<1> QED
  BY <1>1, <1>2, <1>3 DEF Tried, TimeKept

(* What covers a draft goes on to. *)
LEMMA CoveredStays ==
    ASSUME TypeOK, TypeOK', NEW r \in Runs, NEW at \in Int, NEW cutoff \in Int,
           cutoff <= now, DraftStep(r, at), Covered(r, cutoff)
    PROVE  Covered(r, cutoff)'
<1>1. PICK k \in DraftRows(r) : Covers(k, cutoff)
  BY DEF Covered
<1>2. k \in Rows' /\ k.run = r /\ k.kind \in DraftKinds
  BY DEF DraftStep, DraftRows
<1>3. k \in DraftRows(r)'
  BY <1>2 DEF DraftRows
<1>4. TimeKept(k) \/ PausedNow(k) \/ PlannedAt(k, at)
  BY DEF DraftStep
<1>5. ASSUME PlannedAt(k, at), k.kind = "draft_1h"
      PROVE  log'[k].scheduled_at = ScheduledFor[k.run] - Hour
  BY <1>2, <1>5, PlannedAtAhead
<1>6. Covers(k, cutoff)'
  BY <1>1, <1>4, <1>5 DEF Covers, TimeKept, PausedNow
<1> QED
  BY <1>3, <1>6 DEF Covered

(* A draft without one is not selected again for what is planned later. *)
LEMMA RemindedStays ==
    ASSUME TypeOK, TypeOK', NEW r \in Runs, NEW at \in Int, NEW cutoff \in Int,
           cutoff <= at, cutoff <= now, DraftStep(r, at),
           Reminded(r, cutoff), ~Tried(r, cutoff)
    PROVE  Reminded(r, cutoff)'
<1>0. ASSUME NEW k \in Rows', PlannedAt(k, at), k.run = r
      PROVE  log'[k].scheduled_at >= cutoff
  <2>1. log'[k].scheduled_at \in Int
    BY RowTimeAfter
  <2> QED
    BY <1>0, <2>1, PlannedAtAhead
<1>1. ASSUME NEW k \in DraftRows(r)', Elapsed(k, cutoff)'
      PROVE  FALSE
  <2>1. /\ k \in Rows' /\ k.run = r /\ k.kind \in DraftKinds
        /\ log'[k].status = "pending" /\ log'[k].scheduled_at < cutoff
    BY <1>1 DEF DraftRows, Elapsed
  <2>2. log'[k].scheduled_at \in Int /\ now \in Int
    BY <2>1, RowTimes, RowTimeAfter
  <2>3. ~PlannedAt(k, at)
    BY <1>0, <2>1, <2>2
  <2>4. CASE k \in Rows
    <3>1. k \in DraftRows(r) /\ ~Elapsed(k, cutoff)
      BY <2>1, <2>4 DEF DraftRows, Reminded
    <3>2. CASE TimeKept(k)
      BY <2>1, <3>1, <3>2 DEF TimeKept, Elapsed, Tried
    <3>3. CASE PausedNow(k)
      BY <2>1, <2>2, <3>3 DEF PausedNow
    <3> QED
      BY <2>3, <3>1, <3>2, <3>3 DEF DraftStep
  <2>5. CASE k \notin Rows
    <3>1. HandedOn(k)
      BY <2>1, <2>3, <2>5 DEF DraftStep
    <3>2. PICK j \in Rows : /\ j.run = k.run /\ j.kind = k.kind
                            /\ log[j].attempt_count # 0
                            /\ log'[k].scheduled_at = log[j].scheduled_at
      BY <3>1 DEF HandedOn
    <3>3. j \in DraftRows(r) /\ log[j].scheduled_at < cutoff
      BY <2>1, <3>2 DEF DraftRows
    <3> QED
      BY <3>2, <3>3 DEF Tried
  <2> QED
    BY <2>4, <2>5
<1>2. PICK k \in DraftRows(r) : \/ log[k].scheduled_at >= cutoff
                                \/ k.kind = "draft_immediate"
  BY DEF Reminded
<1>3. k \in Rows' /\ k \in Rows /\ k.run = r /\ k.kind \in DraftKinds
  BY <1>2 DEF DraftStep, DraftRows
<1>4. k \in DraftRows(r)'
  BY <1>3 DEF DraftRows
<1>5. \/ log'[k].scheduled_at >= cutoff
      \/ k.kind = "draft_immediate"
  <2>1. TimeKept(k) \/ PausedNow(k) \/ PlannedAt(k, at)
    BY <1>2 DEF DraftStep
  <2>2. now \in Int
    BY RowTimes
  <2> QED
    BY <1>0, <1>2, <1>3, <2>1, <2>2 DEF TimeKept, PausedNow
<1> QED
  BY <1>1, <1>4, <1>5 DEF Reminded

(* An earlier cutoff finds nothing to plan for such a draft. *)
LEMMA NothingToPlan ==
    ASSUME TypeOK, TimesInv, NEW cutoff \in Int, NEW earlier \in Int,
           earlier < cutoff, NEW r \in BootstrapCandidates(earlier),
           Reminded(r, cutoff)
    PROVE  ToBootstrap(r, earlier) = {}
<1>0. r \in Runs /\ Hour \in Int /\ ScheduledFor[r] \in Int
  BY RowTimes DEF BootstrapCandidates
<1>1. \A k \in DraftRows(r) : log[k].scheduled_at \in Int /\ k.run = r /\ k \in Rows
  BY RowTimes DEF DraftRows
<1>2. \A k \in DraftRows(r) : ~Elapsed(k, earlier)
  BY <1>1 DEF Reminded, Elapsed
<1>3. \A k \in DraftRows(r) : log[k].scheduled_at < earlier
  BY <1>2 DEF BootstrapCandidates
<1>4. PICK k \in DraftRows(r) : k.kind = "draft_immediate"
  BY <1>1, <1>3 DEF Reminded
<1>5. ScheduledFor[r] - Hour < earlier
  <2>1. TimesOK(k)
    BY <1>1, <1>4 DEF TimesInv
  <2> QED
    BY <1>0, <1>1, <1>3, <1>4, <2>1 DEF TimesOK
<1>6. \A kind \in PlannedKinds(r, earlier) : kind = "draft_immediate"
  BY <1>0, <1>5, PlannedAhead
<1> QED
  BY <1>4, <1>6 DEF ToBootstrap, Reminders

-----------------------------------------------------------------------------
(* The steps, as steps of reminders *)

LEMMA RowsUnchanged ==
    ASSUME NEW r, NEW at, Rows \subseteq Rows',
           \A k \in Rows : k.kind \in DraftKinds => log'[k] = log[k],
           \A k \in Rows' \ Rows : k.kind \notin DraftKinds
    PROVE  DraftStep(r, at)
BY DEF DraftStep, DraftRows, TimeKept

(* Whatever has a row waits, is worked on, or is settled; work on it changes *)
(* neither its time nor a withdrawal.                                        *)
WorkedOn(k) ==
    /\ log[k].status \in {"pending", "processing"}
    /\ log'[k].scheduled_at = log[k].scheduled_at
    /\ log[k].attempt_count # 0 => log'[k].attempt_count # 0
    /\ log'[k].status = "pending" => log[k].attempt_count # 0

LEMMA WorkerRows ==
    ASSUME NEW r, NEW at, Rows \subseteq Rows',
           \A k \in Rows : log'[k] = log[k] \/ WorkedOn(k),
           \A k \in Rows' \ Rows : HandedOn(k)
    PROVE  DraftStep(r, at)
<1>1. \A k \in Rows : TimeKept(k)
  BY DEF TimeKept, WorkedOn, WithdrawnByPause
<1> QED
  BY <1>1 DEF DraftStep, DraftRows

LEMMA BackToPendingTimes ==
    ASSUME NEW k, NEW at
    PROVE  /\ BackToPending(k, at).scheduled_at = log[k].scheduled_at
           /\ BackToPending(k, at).attempt_count = log[k].attempt_count
BY DEF BackToPending, Closed

LEMMA ProcessingTried ==
    ASSUME IInv, NEW k \in Rows, log[k].status = "processing"
    PROVE  log[k].attempt_count # 0
BY DEF IInv, LatestInv, LatestAgrees

LEMMA FallbackNotDirect ==
    ASSUME NEW k \in Keys, k.route # "log"
    PROVE  Fallback(k).route # "creator_dm"
BY FallbackParts, KeyParts DEF FirstRoute, EventKinds, DraftKinds

LEMMA TaskReminders ==
    ASSUME IInv, NEW k, NEW n, <<k, n>> \in Tries, TaskStep(k, n) \/ Discord(k, n),
           NEW r, NEW at
    PROVE  DraftStep(r, at)
<1>0. k \in Rows /\ k \in Keys
  BY InvParts
<1>1. CASE PrepareSend(k, n) \/ Send(k, n) \/ Raise(k, n) \/ Discord(k, n)
  <2>1. log' = log
    BY <1>1 DEF PrepareSend, Send, Raise, Discord, db
  <2> QED
    BY <2>1, RowsUnchanged DEF Rows
<1>2. ASSUME log[k].status = "processing", NEW row, SetLog(k, row),
             row.scheduled_at = log[k].scheduled_at,
             row.attempt_count = log[k].attempt_count
      PROVE  DraftStep(r, at)
  <2>1. /\ Rows' = Rows /\ log'[k] = row
        /\ \A j \in Rows : j # k => log'[j] = log[j]
    BY <1>0, <1>2, TypeParts DEF IInv, LogOK, SetLog, Rows
  <2>2. WorkedOn(k)
    BY <1>0, <1>2, <2>1, ProcessingTried DEF WorkedOn
  <2> QED
    BY <2>1, <2>2, WorkerRows
<1>3. ASSUME log[k].status = "processing", NEW status, NEW error,
             SetLog(k, Closed(k, status, error))
      PROVE  DraftStep(r, at)
  <2>1. /\ Closed(k, status, error).scheduled_at = log[k].scheduled_at
        /\ Closed(k, status, error).attempt_count = log[k].attempt_count
    BY DEF Closed
  <2> QED
    BY <1>2, <1>3, <2>1
<1>4. CASE PrepareCancel(k, n)
  BY <1>3, <1>4 DEF PrepareCancel, OwnedClaim, Holds
<1>5. CASE SaveSuccess(k, n)
  BY <1>3, <1>5 DEF SaveSuccess, Saves, Holds
<1>6. CASE SaveUnknown(k, n)
  BY <1>3, <1>6 DEF SaveUnknown, Saves, Holds
<1>7. CASE SaveRetry(k, n)
  <2>1. PICK retryAt : SetLog(k, BackToPending(k, retryAt))
    BY <1>7 DEF SaveRetry
  <2> QED
    BY <1>2, <1>7, <2>1, BackToPendingTimes DEF SaveRetry, Saves, Holds
<1>8. CASE SaveFailure(k, n)
  <2>1. log[k].status = "processing" /\ log' = FailedOver(k, now)
    BY <1>8 DEF SaveFailure, Saves, Holds
  <2> DEFINE rows == [log EXCEPT ![k] = Closed(k, "failed", "none")]
  <2>2. /\ DOMAIN rows = Rows /\ rows[k] = Closed(k, "failed", "none")
        /\ \A j \in Rows : j # k => rows[j] = log[j]
    BY <1>0, TypeParts DEF IInv, LogOK, Rows
  <2>3. /\ Closed(k, "failed", "none").scheduled_at = log[k].scheduled_at
        /\ Closed(k, "failed", "none").attempt_count = log[k].attempt_count
        /\ Closed(k, "failed", "none").status = "failed"
    BY DEF Closed
  <2> HIDE DEF rows
  <2>4. log' = WithFallbacks(rows, {k}, now)
    BY <2>1 DEF FailedOver, rows
  <2>5. /\ Rows \subseteq Rows' /\ \A j \in Rows : log'[j] = rows[j]
        /\ \A j \in Rows' \ Rows : j \in {Fallback(i) : i \in WithFallback({k})}
    BY <2>2, <2>4 DEF WithFallbacks, Rows
  <2>6. WorkedOn(k)
    BY <1>0, <2>1, <2>2, <2>3, <2>5, ProcessingTried DEF WorkedOn
  <2>7. ASSUME NEW j \in Rows' \ Rows PROVE HandedOn(j)
    <3>1. j = Fallback(k) /\ k.route # "log" /\ WithFallback({k}) = {k}
      BY <2>5, <2>7 DEF WithFallback
    <3>2. (CHOOSE i \in WithFallback({k}) : j = Fallback(i)) = k
      BY <3>1
    <3>3. log'[j] = NewRow(rows[k].scheduled_at, now)
      BY <2>2, <2>4, <2>5, <3>2 DEF WithFallbacks, Rows
    <3>4. log'[j].scheduled_at = log[k].scheduled_at
      BY <2>2, <2>3, <3>3 DEF NewRow
    <3>5. j.run = k.run /\ j.kind = k.kind /\ j.route # "creator_dm"
      BY <1>0, <3>1, FallbackNotDirect, FallbackParts
    <3>6. log[k].attempt_count # 0
      BY <1>0, <2>1, ProcessingTried
    <3> QED
      BY <1>0, <3>4, <3>5, <3>6 DEF HandedOn
  <2> QED
    BY <2>2, <2>5, <2>6, <2>7, WorkerRows
<1> QED
  BY <1>1, <1>4, <1>5, <1>6, <1>7, <1>8 DEF TaskStep

LEMMA RecoveredTimes ==
    ASSUME IInv, NEW k \in Rows, log[k].status = "processing", NEW cutoff
    PROVE  /\ RecoveredRow(k, cutoff).scheduled_at = log[k].scheduled_at
           /\ RecoveredRow(k, cutoff).attempt_count = log[k].attempt_count
<1>1. GivenUp(k) => InterruptedBeforeSend(k)
  BY DEF GivenUp
<1>2. ASSUME NEW status, NEW error
      PROVE  /\ Closed(k, status, error).scheduled_at = log[k].scheduled_at
             /\ Closed(k, status, error).attempt_count = log[k].attempt_count
  BY DEF Closed
<1> QED
  BY <1>1, <1>2, BackToPendingTimes DEF RecoveredRow

LEMMA RecoverReminders ==
    ASSUME IInv, NEW w \in Workers, RecoverNotifications(w), NEW r, NEW at
    PROVE  DraftStep(r, at)
<1> DEFINE cutoff == proc[w].cutoff
<1>1. PICK S \in Selections(ExpiredNotices(cutoff)) :
          log' = WithFallbacks(
                [k \in Rows |-> IF k \in S THEN RecoveredRow(k, cutoff)
                                ELSE log[k]],
                {k \in S : GivenUp(k)}, cutoff)
  BY DEF RecoverNotifications
<1> HIDE DEF cutoff
<1>2. S \subseteq Rows /\ \A k \in S : log[k].status = "processing"
  BY DEF Selections, ExpiredNotices
<1> DEFINE rows == [k \in Rows |-> IF k \in S THEN RecoveredRow(k, cutoff)
                                   ELSE log[k]]
           F == {k \in S : GivenUp(k)}
<1>3. /\ DOMAIN rows = Rows
      /\ \A k \in Rows : rows[k] = IF k \in S THEN RecoveredRow(k, cutoff)
                                    ELSE log[k]
  OBVIOUS
<1>4. F \subseteq S
  OBVIOUS
<1>5. log' = WithFallbacks(rows, F, cutoff)
  BY <1>1
<1> HIDE DEF rows, F
<1>6. /\ Rows' = Rows \cup {Fallback(i) : i \in WithFallback(F)}
      /\ \A k \in Rows : log'[k] = rows[k]
  BY <1>3, <1>5 DEF WithFallbacks, Rows
<1>7. ASSUME NEW k \in Rows PROVE log'[k] = log[k] \/ WorkedOn(k)
  <2>1. CASE k \in S
    <3>1. /\ log'[k] = RecoveredRow(k, cutoff) /\ log[k].status = "processing"
          /\ log[k].attempt_count # 0
      BY <1>2, <1>3, <1>6, <2>1, ProcessingTried
    <3> QED
      BY <3>1, RecoveredTimes DEF WorkedOn
  <2> QED
    BY <1>3, <1>6, <2>1
<1>8. ASSUME NEW j \in Rows' \ Rows PROVE HandedOn(j)
  <2> DEFINE k == CHOOSE i \in WithFallback(F) : j = Fallback(i)
  <2>1. \E i \in WithFallback(F) : j = Fallback(i)
    BY <1>6
  <2>2. k \in WithFallback(F) /\ j = Fallback(k)
    BY <2>1
  <2>3. log'[j] = NewRow(rows[k].scheduled_at, cutoff)
    BY <1>3, <1>5, <1>6 DEF WithFallbacks
  <2> HIDE DEF k
  <2>4. k \in F /\ k \in Rows /\ k.route # "log" /\ k \in Keys
    BY <1>2, <1>4, <2>2, InvParts DEF WithFallback
  <2>5. log[k].status = "processing" /\ rows[k] = RecoveredRow(k, cutoff)
    BY <1>2, <1>3, <1>4, <2>4
  <2>6. log'[j].scheduled_at = log[k].scheduled_at
    <3>1. rows[k].scheduled_at = log[k].scheduled_at
      BY <2>4, <2>5, RecoveredTimes
    <3> QED
      BY <2>3, <3>1 DEF NewRow
  <2>7. j.run = k.run /\ j.kind = k.kind /\ j.route # "creator_dm"
    BY <2>2, <2>4, FallbackNotDirect, FallbackParts
  <2> QED
    BY <2>4, <2>5, <2>6, <2>7, ProcessingTried DEF HandedOn
<1> QED
  BY <1>6, <1>7, <1>8, WorkerRows

LEMMA ClaimReminders ==
    ASSUME IInv, NEW w \in Workers, Claim(w), NEW r, NEW at
    PROVE  DraftStep(r, at)
<1>1. PICK S \in Selections(Due) :
          log' = [k \in Rows |-> IF k \in S THEN ClaimedRow(k, w) ELSE log[k]]
  BY DEF Claim
<1>2. Rows' = Rows
  BY <1>1 DEF Rows
<1>3. ASSUME NEW k \in Rows PROVE log'[k] = log[k] \/ WorkedOn(k)
  <2>1. CASE k \in S
    <3>1. log'[k] = ClaimedRow(k, w) /\ log[k].status = "pending"
      BY <1>1, <2>1 DEF Selections, Due
    <3>2. log[k].attempt_count \in Nat
      BY RowTimes DEF IInv
    <3> QED
      BY <3>1, <3>2 DEF ClaimedRow, WorkedOn
  <2> QED
    BY <1>1, <2>1
<1> QED
  BY <1>2, <1>3, WorkerRows

(* Reports are none of these rows. *)
LEMMA EventReminders ==
    ASSUME NEW q, NEW kind \in EventKinds, NEW time, log' = WithEvent(q, kind, time),
           NEW r, NEW at
    PROVE  DraftStep(r, at)
<1>1. /\ Rows' = Rows \cup ({KeyOf(q, kind, "operator_channel")} \cap Keys)
      /\ \A k \in Rows : log'[k] = log[k]
  BY DEF WithEvent, Rows
<1>2. \A k \in Rows' \ Rows : k.kind \notin DraftKinds
  BY <1>1 DEF KeyOf, DraftKinds, EventKinds
<1> QED
  BY <1>1, <1>2, RowsUnchanged

LEMMA PlanReminders ==
    ASSUME TypeOK, NEW q \in Runs, NEW at,
           log' = WithPlanned(log, Reminders(q, at), at), NEW r
    PROVE  DraftStep(r, at)
<1>1. /\ Rows' = Rows \cup Reminders(q, at)
      /\ \A k \in Rows' :
            log'[k] = IF /\ k \in Reminders(q, at)
                         /\ k \in Rows => WithdrawnByPause(log[k])
                      THEN NewRow(PlanTime(k.run, k.kind, at),
                                  PlanTime(k.run, k.kind, at))
                      ELSE log[k]
  BY DEF WithPlanned, Rows
<1>2. ASSUME NEW k \in Rows', k \in Reminders(q, at),
             k \in Rows => WithdrawnByPause(log[k])
      PROVE  PlannedAt(k, at)
  <2>1. log'[k].scheduled_at = PlanTime(k.run, k.kind, at)
    <3>1. log'[k] = NewRow(PlanTime(k.run, k.kind, at),
                           PlanTime(k.run, k.kind, at))
      BY <1>1, <1>2
    <3> QED
      BY <3>1 DEF NewRow
  <2>2. k.run = q
    BY <1>2 DEF Reminders
  <2> QED
    BY <1>2, <2>1, <2>2 DEF PlannedAt, WithdrawnByPause
<1>3. \A k \in Rows : TimeKept(k) \/ PlannedAt(k, at)
  BY <1>1, <1>2 DEF TimeKept
<1>4. \A k \in Rows' \ Rows : PlannedAt(k, at)
  BY <1>1, <1>2
<1> QED
  BY <1>1, <1>3, <1>4 DEF DraftStep, DraftRows

LEMMA PauseReminders ==
    ASSUME NEW q \in Runs, Pause(q), NEW r, NEW at
    PROVE  DraftStep(r, at)
<1>1. /\ Rows' = Rows
      /\ \A k \in Rows : log'[k] = IF k.run = q /\ k.kind \in DraftKinds
                                   THEN PausedRow(k) ELSE log[k]
  BY DEF Pause, Rows
<1>2. ASSUME NEW k \in Rows PROVE TimeKept(k) \/ PausedNow(k)
  <2>1. CASE log'[k] = log[k]
    BY <2>1 DEF TimeKept
  <2>2. CASE log'[k] # log[k]
    <3>1. /\ log[k].attempt_count = 0
          /\ log'[k] = [Closed(k, "cancelled", "schedule_paused")
                          EXCEPT !.scheduled_at = now]
      BY <1>1, <2>2 DEF PausedRow
    <3> QED
      BY <3>1 DEF PausedNow, WithdrawnByPause, Closed
  <2> QED
    BY <2>1, <2>2
<1> QED
  BY <1>1, <1>2 DEF DraftStep, DraftRows

LEMMA CommandReminders ==
    ASSUME TypeOK, NEW q \in Runs, Command(q), NEW r
    PROVE  DraftStep(r, now)
<1>1. CASE \/ CreateActive(q) \/ FillContent(q) \/ ClearPausedContent(q)
           \/ ResumeAfterwards(q) \/ Delete(q)
  <2>1. log' = log
    BY <1>1 DEF CreateActive, FillContent, ClearPausedContent, ResumeAfterwards,
                Delete
  <2> QED
    BY <2>1, RowsUnchanged DEF Rows
<1>2. CASE CreateDraft(q) \/ ClearContent(q)
  BY <1>2, PlanReminders DEF CreateDraft, ClearContent
<1>3. CASE Resume(q)
  <2>1. log' = log \/ log' = WithPlanned(log, Reminders(q, now), now)
    BY <1>3 DEF Resume
  <2> QED
    BY <2>1, PlanReminders, RowsUnchanged DEF Rows
<1>4. CASE Pause(q)
  BY <1>4, PauseReminders
<1> QED
  BY <1>1, <1>2, <1>3, <1>4 DEF Command

LEMMA RunReminders ==
    ASSUME NEW q \in Runs, RunStep(q) \/ \E w \in Workers : RecoverRun(w, q),
           NEW r, NEW at
    PROVE  DraftStep(r, at)
<1>1. \/ log' = log
      \/ \E kind \in EventKinds : \E time : log' = WithEvent(q, kind, time)
  BY DEF RunStep, DeliveryClaims, DeliverySucceeds, DeliveryFails,
         DeliverySkipsDraft, RecoverRun, SettleRun, EventKinds
<1> QED
  BY <1>1, EventReminders, RowsUnchanged DEF Rows

-----------------------------------------------------------------------------
(* A batch of the bootstrap *)

(* What a batch S at a cutoff does to the rows. *)
BootstrapBatch(S, cutoff) ==
    /\ S \subseteq BootstrapCandidates(cutoff)
    /\ log' = WithPlanned(
                [k \in Rows |->
                    IF k.run \in S /\ k.kind \in DraftKinds /\ Elapsed(k, cutoff)
                    THEN Closed(k, "cancelled", "elapsed") ELSE log[k]],
                UNION {ToBootstrap(r, cutoff) : r \in S}, cutoff)

(* A row is planned, closed because its time has passed, or left alone. *)
LEMMA BatchRows ==
    ASSUME NEW S, NEW cutoff, BootstrapBatch(S, cutoff)
    PROVE  /\ Rows' = Rows \cup UNION {ToBootstrap(r, cutoff) : r \in S}
           /\ \A k \in Rows' \ Rows :
                 /\ k.run \in S /\ k \in ToBootstrap(k.run, cutoff)
                 /\ PlannedAt(k, cutoff)
           /\ \A k \in Rows :
                 \/ /\ k.run \in S /\ k \in ToBootstrap(k.run, cutoff)
                    /\ PlannedAt(k, cutoff) /\ WithdrawnByPause(log[k])
                 \/ /\ ~(k.run \in S /\ k \in ToBootstrap(k.run, cutoff)
                                     /\ WithdrawnByPause(log[k]))
                    /\ IF k.run \in S /\ k.kind \in DraftKinds /\ Elapsed(k, cutoff)
                       THEN log'[k] = Closed(k, "cancelled", "elapsed")
                       ELSE log'[k] = log[k]
<1> DEFINE rows == [k \in Rows |->
                IF k.run \in S /\ k.kind \in DraftKinds /\ Elapsed(k, cutoff)
                THEN Closed(k, "cancelled", "elapsed") ELSE log[k]]
           planned == UNION {ToBootstrap(r, cutoff) : r \in S}
           Plan(k) == PlanTime(k.run, k.kind, cutoff)
<1>1. log' = WithPlanned(rows, planned, cutoff)
  BY DEF BootstrapBatch
<1>2. /\ DOMAIN rows = Rows
      /\ \A k \in Rows : rows[k] =
            IF k.run \in S /\ k.kind \in DraftKinds /\ Elapsed(k, cutoff)
            THEN Closed(k, "cancelled", "elapsed") ELSE log[k]
  OBVIOUS
<1>3. \A k : k \in planned <=> k.run \in S /\ k \in ToBootstrap(k.run, cutoff)
  BY DEF ToBootstrap, Reminders
<1> HIDE DEF rows, planned, Plan
<1>4. /\ Rows' = Rows \cup planned
      /\ \A k \in Rows' :
            log'[k] = IF k \in planned /\ (k \in Rows => WithdrawnByPause(rows[k]))
                      THEN NewRow(Plan(k), Plan(k)) ELSE rows[k]
  BY <1>1, <1>2 DEF WithPlanned, Rows, Plan
<1>5. ASSUME NEW k \in Rows
      PROVE  WithdrawnByPause(rows[k]) <=> WithdrawnByPause(log[k])
  <2>1. CASE k.run \in S /\ k.kind \in DraftKinds /\ Elapsed(k, cutoff)
    <3>1. rows[k] = Closed(k, "cancelled", "elapsed")
      BY <1>2, <2>1
    <3> QED
      BY <2>1, <3>1 DEF WithdrawnByPause, Closed, Elapsed
  <2> QED
    BY <1>2, <2>1
<1>6. ASSUME NEW k \in planned, k \in Rows => WithdrawnByPause(rows[k])
      PROVE  PlannedAt(k, cutoff)
  <2>1. log'[k] = NewRow(Plan(k), Plan(k))
    BY <1>4, <1>6
  <2>2. log'[k].scheduled_at = PlanTime(k.run, k.kind, cutoff)
    BY <2>1 DEF NewRow, Plan
  <2>3. k \in Reminders(k.run, cutoff)
    BY <1>3 DEF ToBootstrap
  <2> QED
    BY <1>5, <1>6, <2>2, <2>3 DEF PlannedAt, WithdrawnByPause
<1>7. ASSUME NEW k \in Rows, ~(k \in planned /\ WithdrawnByPause(log[k]))
      PROVE  IF k.run \in S /\ k.kind \in DraftKinds /\ Elapsed(k, cutoff)
             THEN log'[k] = Closed(k, "cancelled", "elapsed")
             ELSE log'[k] = log[k]
  <2>1. log'[k] = rows[k]
    BY <1>4, <1>5, <1>7
  <2> QED
    BY <1>2, <2>1
<1>8. \A k \in Rows' \ Rows : /\ k.run \in S /\ k \in ToBootstrap(k.run, cutoff)
                              /\ PlannedAt(k, cutoff)
  BY <1>3, <1>4, <1>6
<1>9. ASSUME NEW k \in Rows
      PROVE  \/ /\ k.run \in S /\ k \in ToBootstrap(k.run, cutoff)
                /\ PlannedAt(k, cutoff) /\ WithdrawnByPause(log[k])
             \/ /\ ~(k.run \in S /\ k \in ToBootstrap(k.run, cutoff)
                                 /\ WithdrawnByPause(log[k]))
                /\ IF k.run \in S /\ k.kind \in DraftKinds /\ Elapsed(k, cutoff)
                   THEN log'[k] = Closed(k, "cancelled", "elapsed")
                   ELSE log'[k] = log[k]
  <2>1. CASE k \in planned /\ WithdrawnByPause(log[k])
    BY <1>3, <1>5, <1>6, <2>1
  <2>2. CASE ~(k \in planned /\ WithdrawnByPause(log[k]))
    BY <1>3, <1>7, <2>2
  <2> QED
    BY <2>1, <2>2
<1>10. Rows' = Rows \cup UNION {ToBootstrap(r, cutoff) : r \in S}
  BY <1>4 DEF planned
<1> QED
  BY <1>8, <1>9, <1>10

LEMMA BatchReminders ==
    ASSUME NEW S, NEW cutoff, BootstrapBatch(S, cutoff), NEW r, NEW at,
           at = cutoff \/ (r \in S => ToBootstrap(r, cutoff) = {})
    PROVE  DraftStep(r, at)
<1>1. ASSUME NEW k \in DraftRows(r)
      PROVE  TimeKept(k) \/ PausedNow(k) \/ PlannedAt(k, at)
  <2>0. k \in Rows /\ k.run = r /\ k.kind \in DraftKinds
    BY <1>1 DEF DraftRows
  <2>1. CASE log'[k] = log[k]
    BY <2>1 DEF TimeKept
  <2>2. CASE log'[k] = Closed(k, "cancelled", "elapsed") /\ Elapsed(k, cutoff)
    BY <2>2 DEF TimeKept, Closed, Elapsed, WithdrawnByPause
  <2>3. CASE PlannedAt(k, cutoff) /\ k.run \in S /\ k \in ToBootstrap(k.run, cutoff)
    BY <2>0, <2>3
  <2> QED
    BY <2>0, <2>1, <2>2, <2>3, BatchRows
<1>2. ASSUME NEW k \in Rows' \ Rows, k.run = r
      PROVE  PlannedAt(k, at)
  BY <1>2, BatchRows
<1>3. Rows \subseteq Rows'
  BY BatchRows
<1> QED
  BY <1>1, <1>2, <1>3 DEF DraftStep, DraftRows

(* Whatever was in the batch has nothing elapsed, and is covered. *)
LEMMA BatchReminds ==
    ASSUME TypeOK, TypeOK', TimesInv, ContentInv, NEW cutoff \in Int, NEW S,
           BootstrapBatch(S, cutoff), NEW r \in S
    PROVE  Reminded(r, cutoff)' /\ Covered(r, cutoff)'
<1>0. /\ r \in Runs /\ ScheduledFor[r] \in Int /\ ScheduledFor[r] > cutoff
      /\ Hour \in Int /\ Day \in Int /\ Hour <= Day
      /\ MayBeDraft(r) /\ r \in S
  BY RowTimes, TimeAssumption
     DEF BootstrapBatch, BootstrapCandidates, ContentInv
<1>1. ASSUME NEW k \in Rows', PlannedAt(k, cutoff), k.run = r
      PROVE  log'[k].scheduled_at >= cutoff
  BY <1>0, <1>1, PlannedAtAhead
<1>2. ASSUME NEW k \in DraftRows(r)', Elapsed(k, cutoff)'
      PROVE  FALSE
  <2>0. /\ k \in Rows' /\ k.run = r /\ k.kind \in DraftKinds
        /\ log'[k].status = "pending" /\ log'[k].scheduled_at < cutoff
        /\ log'[k].scheduled_at \in Int
    BY <1>2, RowTimeAfter DEF DraftRows, Elapsed
  <2>1. ~PlannedAt(k, cutoff)
    BY <1>1, <2>0
  <2>2. k \in Rows
    BY <2>0, <2>1, BatchRows
  <2>3. CASE Elapsed(k, cutoff)
    <3>1. log'[k] = Closed(k, "cancelled", "elapsed")
      BY <1>0, <2>0, <2>1, <2>2, <2>3, BatchRows
    <3> QED
      BY <2>0, <3>1 DEF Closed
  <2>4. CASE ~Elapsed(k, cutoff)
    <3>1. log'[k] = log[k]
      BY <2>1, <2>2, <2>4, BatchRows
    <3> QED
      BY <2>0, <2>4, <3>1 DEF Elapsed
  <2> QED
    BY <2>3, <2>4
<1>3. \E k \in DraftRows(r)' :
          \/ k.kind = "draft_immediate"
          \/ /\ k.kind = "draft_1h" /\ ScheduledFor[k.run] - Hour >= cutoff
             /\ log'[k].scheduled_at >= cutoff
  <2> DEFINE Reminder(kind) == KeyOf(r, kind, "creator_dm")
  <2>1. \A kind \in DraftKinds :
          /\ Reminder(kind) \in Keys /\ Reminder(kind).kind = kind
          /\ Reminder(kind).run = r /\ Reminder(kind).route = "creator_dm"
    BY <1>0 DEF MayBeDraft, Keys, KeyOf, DraftKinds, EventKinds, Routes
  <2>2. CASE ScheduledFor[r] - cutoff < Hour
    <3>1. "draft_immediate" \in PlannedKinds(r, cutoff)
      BY <1>0, <2>2 DEF PlannedKinds
    <3>2. CASE \E j \in DraftRows(r) : j.kind = "draft_immediate"
      BY <3>2, BatchRows DEF DraftRows
    <3>3. CASE \A j \in DraftRows(r) : j.kind # "draft_immediate"
      <4> DEFINE k == Reminder("draft_immediate")
      <4>1. k \in ToBootstrap(r, cutoff) /\ k.kind = "draft_immediate" /\ k.run = r
        BY <2>1, <3>1, <3>3 DEF ToBootstrap, Reminders, DraftKinds
      <4> HIDE DEF k, Reminder
      <4>2. k \in Rows'
        BY <1>0, <4>1, BatchRows
      <4>3. k \in DraftRows(r)'
        BY <4>1, <4>2 DEF DraftRows, DraftKinds
      <4> QED
        BY <4>1, <4>3
    <3> QED
      BY <3>2, <3>3
  <2>3. CASE ScheduledFor[r] - cutoff >= Hour
    <3>1. "draft_1h" \in PlannedKinds(r, cutoff)
      BY <1>0, <2>3 DEF PlannedKinds
    <3> DEFINE k == Reminder("draft_1h")
    <3>2. /\ k \in ToBootstrap(r, cutoff) /\ k.kind = "draft_1h" /\ k.run = r
          /\ k.route = "creator_dm"
      BY <2>1, <3>1 DEF ToBootstrap, Reminders, DraftKinds
    <3> HIDE DEF k, Reminder
    <3>3. k \in Rows'
      BY <1>0, <3>2, BatchRows
    <3>4. k \in DraftRows(r)'
      BY <3>2, <3>3 DEF DraftRows, DraftKinds
    <3>5. log'[k].scheduled_at >= cutoff
      <4>1. CASE PlannedAt(k, cutoff)
        BY <1>1, <3>2, <3>3, <4>1
      <4>2. CASE ~PlannedAt(k, cutoff)
        <5>1. k \in Rows /\ ~WithdrawnByPause(log[k])
          BY <1>0, <3>2, <3>3, <4>2, BatchRows
        <5>2. log[k].scheduled_at = ScheduledFor[r] - Hour
          BY <3>2, <5>1 DEF TimesInv, TimesOK
        <5>3. log'[k].scheduled_at = log[k].scheduled_at
          <6>1. log'[k] = log[k] \/ log'[k] = Closed(k, "cancelled", "elapsed")
            BY <4>2, <5>1, BatchRows
          <6> QED
            BY <6>1 DEF Closed
        <5> QED
          BY <1>0, <2>3, <5>2, <5>3
      <4> QED
        BY <4>1, <4>2
    <3>6. ScheduledFor[k.run] - Hour >= cutoff
      BY <1>0, <2>3, <3>2
    <3> QED
      BY <3>2, <3>4, <3>5, <3>6
  <2> QED
    BY <1>0, <2>2, <2>3
<1>4. Reminded(r, cutoff)'
  BY <1>2, <1>3 DEF Reminded
<1>5. Covered(r, cutoff)'
  BY <1>3 DEF Covered, Covers
<1> QED
  BY <1>4, <1>5

-----------------------------------------------------------------------------
(* Processes and contents *)

(* How a step may move a process: the drafts it has bootstrapped are         *)
(* forgotten, or are those of the batches of one bootstrap.                  *)
ProcMoves(w) ==
    /\ proc'[w].cutoff \in {proc[w].cutoff, now, 0}
    /\ proc'[w].phase = "bootstrap" =>
          \/ proc'[w].bootstrapped = {}
          \/ /\ proc[w].phase = "bootstrap" /\ proc'[w].cutoff = proc[w].cutoff
             /\ \/ proc'[w].bootstrapped = proc[w].bootstrapped
                \/ \E S : /\ BootstrapBatch(S, proc[w].cutoff)
                          /\ proc'[w].bootstrapped = proc[w].bootstrapped \cup S

LEMMA BatchMoves ==
    ASSUME NEW p \in ProcessRecord, NEW size, NEW next
    PROVE  /\ AfterBatch(p, size, next).cutoff \in {p.cutoff, 0}
           /\ \/ AfterBatch(p, size, next).bootstrapped = {}
              \/ /\ AfterBatch(p, size, next).phase = p.phase
                 /\ AfterBatch(p, size, next).cutoff = p.cutoff
                 /\ AfterBatch(p, size, next).bootstrapped = p.bootstrapped
<1>1. /\ [p EXCEPT !.batches = p.batches + 1].phase = p.phase
      /\ [p EXCEPT !.batches = p.batches + 1].cutoff = p.cutoff
      /\ [p EXCEPT !.batches = p.batches + 1].bootstrapped = p.bootstrapped
  BY DEF ProcessRecord
<1> QED
  BY <1>1 DEF AfterBatch, Process

LEMMA ProcStep ==
    ASSUME TypeOK, [Next]_vars, NEW w \in Workers
    PROVE  ProcMoves(w)
<1>0. proc \in [Workers -> ProcessRecord] /\ proc[w] \in ProcessRecord
  BY TypeParts
<1>1. ASSUME proc'[w] = proc[w] PROVE ProcMoves(w)
  BY <1>1 DEF ProcMoves
<1>2. ASSUME NEW phase, NEW cutoff \in {proc[w].cutoff, now, 0},
             proc'[w] = Process(phase, cutoff)
      PROVE  ProcMoves(w)
  BY <1>2 DEF ProcMoves, Process
<1>3. ASSUME NEW u \in Workers, Start(u) \/ Crash(u) \/ RunsRecovered(u)
      PROVE  ProcMoves(w)
  <2>1. \/ proc'[w] = proc[w]
        \/ \E phase : \E cutoff \in {proc[w].cutoff, now, 0} :
              proc'[w] = Process(phase, cutoff)
    BY <1>0, <1>3 DEF Start, Crash, RunsRecovered
  <2> QED
    BY <1>1, <1>2, <2>1
<1>4. ASSUME NEW u \in Workers, RecoverNotifications(u) PROVE ProcMoves(w)
  <2>1. PICK size : proc' = [proc EXCEPT ![u] =
                                AfterBatch(proc[u], size, "bootstrap")]
    BY <1>4 DEF RecoverNotifications
  <2>2. \/ proc'[w] = proc[w]
        \/ proc'[w] = AfterBatch(proc[w], size, "bootstrap") /\ w = u
    BY <1>0, <2>1
  <2>3. w = u => proc[w].phase # "bootstrap"
    BY <1>4 DEF RecoverNotifications
  <2> QED
    BY <1>0, <1>1, <2>2, <2>3, BatchMoves DEF ProcMoves
<1>5. ASSUME NEW u \in Workers, Bootstrap(u) PROVE ProcMoves(w)
  <2>1. PICK S \in Selections(BootstrapCandidates(proc[u].cutoff)) :
          /\ BootstrapBatch(S, proc[u].cutoff)
          /\ proc' = [proc EXCEPT ![u] =
                AfterBatch([proc[u] EXCEPT !.bootstrapped = @ \cup S],
                           Cardinality(S), "polling")]
    BY <1>5 DEF Bootstrap, BootstrapBatch, Selections
  <2> DEFINE p == [proc[u] EXCEPT !.bootstrapped = @ \cup S]
  <2>2. CASE w # u
    BY <1>0, <1>1, <2>1, <2>2
  <2>3. CASE w = u
    <3>1. proc[w].phase = "bootstrap"
      BY <1>5, <2>3 DEF Bootstrap
    <3>2. /\ p \in ProcessRecord /\ p.phase = proc[w].phase
          /\ p.cutoff = proc[w].cutoff
          /\ p.bootstrapped = proc[w].bootstrapped \cup S
      <4>1. S \subseteq Runs
        BY <2>1 DEF Selections, BootstrapCandidates
      <4> QED
        BY <1>0, <2>3, <4>1 DEF ProcessRecord
    <3>3. proc'[w] = AfterBatch(p, Cardinality(S), "polling")
      BY <1>0, <2>1, <2>3
    <3>4. \E T : /\ BootstrapBatch(T, proc[w].cutoff)
                 /\ p.bootstrapped = proc[w].bootstrapped \cup T
      BY <2>1, <2>3, <3>2
    <3> HIDE DEF p
    <3>5. /\ proc'[w].cutoff \in {p.cutoff, 0}
          /\ \/ proc'[w].bootstrapped = {}
             \/ /\ proc'[w].phase = p.phase /\ proc'[w].cutoff = p.cutoff
                /\ proc'[w].bootstrapped = p.bootstrapped
      BY <3>2, <3>3, BatchMoves
    <3> QED
      BY <3>1, <3>2, <3>4, <3>5 DEF ProcMoves
  <2> QED
    BY <2>2, <2>3
<1>6. CASE \/ Tick \/ UNCHANGED vars
           \/ \E u \in Workers : Claim(u) \/ \E r \in Runs : RecoverRun(u, r)
           \/ \E r \in Runs : RunStep(r) \/ Command(r)
           \/ \E a \in Tries : TaskStep(a[1], a[2]) \/ Discord(a[1], a[2])
  <2>1. UNCHANGED proc
    BY <1>6 DEF Tick, Claim, RecoverRun, RunStep, DeliveryClaims,
         DeliverySucceeds, DeliveryFails, DeliverySkipsDraft, Command,
         CreateActive, CreateDraft, FillContent, ClearContent,
         ClearPausedContent, Pause, Resume, ResumeAfterwards, Delete, TaskStep,
         Discord, PrepareSend, PrepareCancel, Send, SaveSuccess, SaveRetry,
         SaveFailure, SaveUnknown, Raise, Saves, vars
  <2> QED
    BY <1>1, <2>1
<1> QED
  BY <1>3, <1>4, <1>5, <1>6 DEF Next

LEMMA ContentStep ==
    ASSUME TypeOK, ContentInv, [Next]_vars
    PROVE  ContentInv'
<1>0. schedule \in [Runs -> ScheduleRow]
  BY TypeParts
<1>1. ASSUME UNCHANGED schedule PROVE ContentInv'
  BY <1>1 DEF ContentInv, MayBeDraft
<1>2. ASSUME NEW r \in Runs, NEW status, NEW content,
             schedule' = [schedule EXCEPT ![r] =
                             [status |-> status, content |-> content]],
             \/ status = "draft"
             \/ status = "paused" /\ ~content
             => MayBeDraft(r)
      PROVE  ContentInv'
  BY <1>0, <1>2 DEF ContentInv, MayBeDraft
<1>3. ASSUME NEW r \in Runs, RunStep(r) \/ \E w \in Workers : RecoverRun(w, r)
      PROVE  ContentInv'
  <2>1. UNCHANGED schedule \/ CloseSchedule(r)
    BY <1>3 DEF RunStep, DeliveryClaims, DeliverySucceeds, DeliveryFails,
         DeliverySkipsDraft, RecoverRun
  <2> QED
    BY <1>1, <1>2, <2>1 DEF CloseSchedule
<1>4. ASSUME NEW r \in Runs, Command(r) PROVE ContentInv'
  <2>1. CASE CreateActive(r) \/ Pause(r)
    BY <1>2, <2>1 DEF CreateActive, Pause, SetSchedule
  <2>2. CASE ResumeAfterwards(r) \/ Delete(r)
    BY <1>2, <2>2 DEF ResumeAfterwards, Delete, CloseSchedule
  <2>3. CASE CreateDraft(r) \/ ClearContent(r) \/ ClearPausedContent(r)
    BY <1>2, <2>3 DEF CreateDraft, ClearContent, ClearPausedContent, SetSchedule
  <2>4. CASE FillContent(r)
    BY <1>2, <2>4 DEF FillContent, SetSchedule
  <2>5. CASE Resume(r)
    <3>1. ~schedule[r].content => MayBeDraft(r)
      BY <2>5 DEF Resume, ContentInv
    <3>2. PICK status, content :
            /\ SetSchedule(r, status, content)
            /\ status = (IF schedule[r].content THEN "active" ELSE "draft")
      BY <2>5 DEF Resume
    <3>3. status = "draft" => MayBeDraft(r)
      BY <3>1, <3>2
    <3>4. status # "paused"
      BY <3>2
    <3> QED
      BY <1>2, <3>2, <3>3, <3>4 DEF SetSchedule
  <2> QED
    BY <1>4, <2>1, <2>2, <2>3, <2>4, <2>5 DEF Command
<1>5. CASE \/ Tick \/ UNCHANGED vars
           \/ \E w \in Workers : \/ Start(w) \/ Crash(w) \/ RunsRecovered(w)
                                \/ RecoverNotifications(w) \/ Bootstrap(w)
                                \/ Claim(w)
           \/ \E a \in Tries : TaskStep(a[1], a[2]) \/ Discord(a[1], a[2])
  <2>1. UNCHANGED schedule
    BY <1>5 DEF Tick, Start, Crash, RunsRecovered, RecoverNotifications,
         Bootstrap, Claim, TaskStep, Discord, PrepareSend, PrepareCancel, Send,
         SaveSuccess, SaveRetry, SaveFailure, SaveUnknown, Raise, Saves, vars, db
  <2> QED
    BY <1>1, <2>1
<1> QED
  BY <1>3, <1>4, <1>5 DEF Next

(* Every step but a bootstrap plans at the present time, if at all. *)
LEMMA ReminderSteps ==
    ASSUME IInv, [Next]_vars, NEW r
    PROVE  \/ DraftStep(r, now)
           \/ \E w \in Workers : \E S : BootstrapBatch(S, proc[w].cutoff)
<1> USE DEF IInv
<1>1. CASE \/ Tick \/ UNCHANGED vars
           \/ \E w \in Workers : Start(w) \/ Crash(w) \/ RunsRecovered(w)
  <2>1. log' = log
    BY <1>1 DEF Tick, Start, Crash, RunsRecovered, vars, db
  <2> QED
    BY <2>1, RowsUnchanged DEF Rows
<1>2. ASSUME NEW w \in Workers, RecoverNotifications(w) \/ Claim(w)
      PROVE  DraftStep(r, now)
  BY <1>2, RecoverReminders, ClaimReminders
<1>3. ASSUME NEW w \in Workers, Bootstrap(w)
      PROVE  \E S : BootstrapBatch(S, proc[w].cutoff)
  BY <1>3 DEF Bootstrap, BootstrapBatch, Selections
<1>4. ASSUME NEW q \in Runs,
             RunStep(q) \/ Command(q) \/ \E w \in Workers : RecoverRun(w, q)
      PROVE  DraftStep(r, now)
  BY <1>4, RunReminders, CommandReminders
<1>5. ASSUME NEW a \in Tries, TaskStep(a[1], a[2]) \/ Discord(a[1], a[2])
      PROVE  DraftStep(r, now)
  <2>1. <<a[1], a[2]>> \in Tries
    BY InvParts
  <2> QED
    BY <1>5, <2>1, TaskReminders
<1> QED
  BY <1>1, <1>2, <1>3, <1>4, <1>5 DEF Next

LEMMA ClockStep ==
    ASSUME TypeOK, [Next]_vars
    PROVE  now \in Nat /\ now' \in Nat /\ now <= now'
<1>1. now' = now \/ now' = now + 1
  BY DEF Next, Tick, Start, Crash, RecoverRun, RunsRecovered,
       RecoverNotifications, Bootstrap, Claim, RunStep, DeliveryClaims,
       DeliverySucceeds, DeliveryFails, DeliverySkipsDraft, Command,
       CreateActive, CreateDraft, FillContent, ClearContent,
       ClearPausedContent, Pause, Resume, ResumeAfterwards, Delete, TaskStep,
       Discord, PrepareSend, PrepareCancel, Send, SaveSuccess, SaveRetry,
       SaveFailure, SaveUnknown, Raise, Saves, vars
<1> QED
  BY <1>1, TypeParts

LEMMA TimesInvStep ==
    ASSUME IInv, TypeOK', [Next]_vars, BootstrapInv
    PROVE  TimesInv'
<1> SUFFICES ASSUME NEW k \in Rows'
             PROVE  TimesOK(k)'
  BY DEF TimesInv
<1>1. /\ TypeOK /\ TimesInv /\ now \in Int /\ now <= now' /\ k.run \in Runs
      /\ \A w \in Workers : proc[w].cutoff \in Int /\ proc[w].cutoff <= now
  <2>1. TypeOK /\ k \in Keys
    BY DEF IInv, TypeOK
  <2> QED
    BY <2>1, ClockStep, RowTimes, KeyParts DEF BootstrapInv, BootstrappedOK
<1>2. CASE DraftStep(k.run, now)
  BY <1>1, <1>2, TimesStep
<1>3. ASSUME NEW w \in Workers, NEW S, BootstrapBatch(S, proc[w].cutoff)
      PROVE  TimesOK(k)'
  <2>1. DraftStep(k.run, proc[w].cutoff)
    BY <1>3, BatchReminders
  <2> QED
    BY <1>1, <2>1, TimesStep
<1> QED
  BY <1>2, <1>3, ReminderSteps

(* A bootstrapped draft stays out of the selection, whatever happens. *)
LEMMA RemindedStep ==
    ASSUME IInv, TypeOK', [Next]_vars, BootstrapInv,
           NEW r \in Runs, NEW cutoff \in Int, cutoff <= now,
           Bootstrapped(r, cutoff)
    PROVE  Bootstrapped(r, cutoff)'
<1>0. /\ TypeOK /\ TimesInv /\ now \in Int
      /\ Covered(r, cutoff) /\ (Tried(r, cutoff) \/ Reminded(r, cutoff))
      /\ \A w \in Workers : proc[w].cutoff \in Int
  BY RowTimes DEF IInv, BootstrapInv, Bootstrapped
<1>1. ASSUME NEW at \in Int, DraftStep(r, at), cutoff <= at
      PROVE  Bootstrapped(r, cutoff)'
  BY <1>0, <1>1, TriedStays, RemindedStays, CoveredStays DEF Bootstrapped
<1>2. CASE DraftStep(r, now)
  BY <1>0, <1>1, <1>2
<1>3. ASSUME NEW w \in Workers, NEW S, BootstrapBatch(S, proc[w].cutoff)
      PROVE  Bootstrapped(r, cutoff)'
  <2> DEFINE other == proc[w].cutoff
  <2>1. other \in Int /\ DraftStep(r, other)
    BY <1>0, <1>3, BatchReminders
  <2>2. CASE Tried(r, cutoff)
    BY <1>0, <2>1, <2>2, TriedStays, CoveredStays DEF Bootstrapped
  <2>3. CASE cutoff <= other
    BY <1>1, <2>1, <2>3
  <2>4. CASE Reminded(r, cutoff) /\ other < cutoff
    <3>1. r \in S => ToBootstrap(r, other) = {}
      BY <1>0, <1>3, <2>1, <2>4, NothingToPlan DEF BootstrapBatch
    <3>2. DraftStep(r, cutoff)
      BY <1>3, <3>1, BatchReminders
    <3> QED
      BY <1>1, <3>2
  <2> QED
    BY <1>0, <2>1, <2>2, <2>3, <2>4
<1> QED
  BY <1>2, <1>3, ReminderSteps

LEMMA BootstrappedStep ==
    ASSUME IInv, TypeOK', [Next]_vars, BootstrapInv, NEW w \in Workers
    PROVE  BootstrappedOK(w)'
<1>0. /\ TypeOK /\ now \in Nat /\ now' \in Nat /\ now <= now'
      /\ proc[w].cutoff \in Int /\ proc[w].cutoff <= now /\ ProcMoves(w)
      /\ BootstrappedOK(w) /\ TimesInv /\ ContentInv
      /\ proc[w].bootstrapped \subseteq Runs
  BY ClockStep, RowTimes, ProcStep, TypeParts
     DEF IInv, BootstrapInv, BootstrappedOK, ProcessRecord
<1>1. proc'[w].cutoff <= now'
  BY <1>0 DEF ProcMoves
<1>2. ASSUME proc'[w].phase = "bootstrap", NEW r \in proc'[w].bootstrapped,
             NEW cutoff, cutoff = proc'[w].cutoff
      PROVE  Bootstrapped(r, cutoff)'
  <2>1. proc[w].phase = "bootstrap" /\ cutoff = proc[w].cutoff
    BY <1>0, <1>2 DEF ProcMoves
  <2>2. ASSUME r \in proc[w].bootstrapped
        PROVE  Bootstrapped(r, cutoff)'
    <3>1. Bootstrapped(r, cutoff)
      BY <1>0, <2>1, <2>2 DEF BootstrappedOK
    <3> QED
      BY <1>0, <2>1, <2>2, <3>1, RemindedStep
  <2>3. ASSUME NEW S, BootstrapBatch(S, cutoff), r \in S
        PROVE  Bootstrapped(r, cutoff)'
    <3>1. cutoff \in Int
      BY <1>0, <2>1
    <3> QED
      BY <1>0, <2>3, <3>1, BatchReminds DEF Bootstrapped
  <2> QED
    BY <1>0, <1>2, <2>1, <2>2, <2>3 DEF ProcMoves
<1> QED
  BY <1>1, <1>2 DEF BootstrappedOK

(* A draft that a startup has bootstrapped comes up again only for an        *)
(* immediate reminder from before its cutoff, or for one that waits since    *)
(* somebody tried.                                                           *)
THEOREM BootstrappedStaysOut == Spec => []BootstrapRepeatsOnlyImmediate
<1>1. Init => BootstrapInv
  BY DEF Init, Process, BootstrapInv, TimesInv, ContentInv, BootstrappedOK, Rows
<1>2. IInv /\ IInv' /\ BootstrapInv /\ [Next]_vars => BootstrapInv'
  <2> SUFFICES ASSUME IInv, IInv', BootstrapInv, [Next]_vars
               PROVE  BootstrapInv'
    OBVIOUS
  <2>1. TypeOK /\ TypeOK' /\ ContentInv
    BY DEF IInv, BootstrapInv
  <2> QED
    BY <2>1, TimesInvStep, ContentStep, BootstrappedStep DEF BootstrapInv
<1>3. TypeOK /\ BootstrapInv => BootstrapRepeatsOnlyImmediate
  <2> SUFFICES ASSUME TypeOK, BootstrapInv, NEW w \in Workers,
                      NEW r \in proc[w].bootstrapped,
                      NEW cutoff, cutoff = proc[w].cutoff,
                      proc[w].phase = "bootstrap",
                      r \in BootstrapCandidates(cutoff),
                      NEW old,
                      old = {k \in DraftRows(r) : log[k].scheduled_at < cutoff}
               PROVE  \/ \E k \in old : k.kind = "draft_immediate"
                      \/ /\ \E k \in old : log[k].status = "pending"
                         /\ \E k \in old : log[k].attempt_count > 0
    BY DEF BootstrapRepeatsOnlyImmediate
  <2>1. /\ cutoff \in Int /\ Bootstrapped(r, cutoff)
        /\ \A k \in DraftRows(r) : /\ log[k].attempt_count \in Nat
                                   /\ log[k].scheduled_at \in Int
    BY RowTimes DEF DraftRows, BootstrapInv, BootstrappedOK
  <2>2. CASE \E k \in DraftRows(r) : Elapsed(k, cutoff)
    <3>1. \E k \in old : log[k].status = "pending"
      BY <2>2 DEF Elapsed
    <3>2. Tried(r, cutoff)
      BY <2>1, <2>2 DEF Bootstrapped, Reminded
    <3>3. \E k \in old : log[k].attempt_count > 0
      BY <2>1, <3>2 DEF Tried
    <3> QED
      BY <3>1, <3>3
  <2>3. CASE \A k \in DraftRows(r) : log[k].scheduled_at < cutoff
    <3>1. PICK k \in DraftRows(r) : Covers(k, cutoff)
      BY <2>1 DEF Bootstrapped, Covered
    <3> QED
      BY <2>1, <2>3, <3>1 DEF Covers
  <2> QED
    BY <2>2, <2>3 DEF BootstrapCandidates
<1> QED
  BY <1>1, <1>2, <1>3, Inductive, PTL DEF Spec, IInv
=============================================================================
