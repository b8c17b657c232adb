----------------------- MODULE NotificationRefinement -----------------------
(* Notification implements TellOnce.  The only route of a notice that has not *)
(* failed for good decides its outcome, and the only request that may tell   *)
(* somebody decides its telling; the rest is which statuses follow which.    *)
EXTENDS NotificationProofs

(* What is recorded as sent was accepted. *)
SuccessInv == \A a \in Tries : attempt[a].status = "succeeded" => wire[a] = "accepted"

RInv == IInv /\ ToldAtMostOnce /\ SuccessInv

(* The outcome that the status of a notice's open route stands for. *)
Shown == [pending |-> "open", processing |-> "open", succeeded |-> "told",
          unknown |-> "undetermined", cancelled |-> "dropped"]

IsOpen(notice, k) == k \in Rows /\ Of(notice, k) /\ log[k].status # "failed"
Told(notice, a) == a \in Tries /\ Of(notice, a[1]) /\ MayBeTold(a)

Decides(notice) ==
    /\ \A k \in Rows : IsOpen(notice, k) => Outcome(notice) = Shown[log[k].status]
    /\ (\A k \in Rows : ~IsOpen(notice, k)) =>
          Outcome(notice) = IF \E k \in Rows : Of(notice, k) THEN "logged" ELSE "none"
    /\ \A a \in Tries : Told(notice, a) =>
          Telling(notice) = IF wire[a] = "accepted" THEN "done" ELSE "possible"
    /\ (\A a \in Tries : ~Told(notice, a)) => Telling(notice) = "never"

(* Of what is told, dropped or logged, the telling is certain. *)
Certain(notice) ==
    /\ Outcome(notice) \in {"none", "dropped", "logged"} => Telling(notice) = "never"
    /\ Outcome(notice) = "told" => Telling(notice) = "done"

AllDecided == \A notice \in Notices : Decides(notice) /\ Certain(notice)

-----------------------------------------------------------------------------
(* States *)

LEMMA OutcomeDecided ==
    ASSUME IInv, NEW notice \in Notices
    PROVE  /\ \A k \in Rows : IsOpen(notice, k) => Outcome(notice) = Shown[log[k].status]
           /\ (\A k \in Rows : ~IsOpen(notice, k)) =>
                 Outcome(notice) = IF \E k \in Rows : Of(notice, k)
                                   THEN "logged" ELSE "none"
<1> DEFINE statuses == {log[k].status : k \in {j \in Rows : Of(notice, j)}}
<1>1. Outcome(notice) =
        CASE statuses = {}              -> "none"
          [] "succeeded" \in statuses   -> "told"
          [] "unknown" \in statuses     -> "undetermined"
          [] "cancelled" \in statuses   -> "dropped"
          [] statuses = {"failed"}      -> "logged"
          [] OTHER                      -> "open"
  BY DEF Outcome
<1>2. ASSUME NEW k \in Rows, IsOpen(notice, k)
      PROVE  Outcome(notice) = Shown[log[k].status]
  <2>1. log[k].status \in statuses /\ log[k].status # "failed"
        /\ log[k].status \in LogStatuses
    BY <1>2, InvParts DEF IsOpen
  <2>2. \A j \in Rows : Of(notice, j) => log[j].status \in {log[k].status, "failed"}
    BY <1>2, OneOpenRoute DEF IInv, IsOpen, Of
  <2>3. \A s \in statuses : s \in {log[k].status, "failed"}
    BY <2>2
  <2> HIDE DEF statuses
  <2> QED
    BY <1>1, <2>1, <2>3 DEF Shown, LogStatuses
<1>3. CASE \A k \in Rows : ~IsOpen(notice, k)
  <2>1. \A s \in statuses : s = "failed"
    BY <1>3 DEF IsOpen
  <2>2. statuses = {} <=> ~\E k \in Rows : Of(notice, k)
    OBVIOUS
  <2> HIDE DEF statuses
  <2>3. statuses # {} => statuses = {"failed"}
    BY <2>1
  <2> QED
    BY <1>1, <1>2, <2>1, <2>2, <2>3
<1> QED
  BY <1>2, <1>3

LEMMA TellingDecided ==
    ASSUME TypeOK, ToldAtMostOnce, NEW notice \in Notices
    PROVE  /\ \A a \in Tries : Told(notice, a) =>
                 Telling(notice) = IF wire[a] = "accepted" THEN "done" ELSE "possible"
           /\ (\A a \in Tries : ~Told(notice, a)) => Telling(notice) = "never"
<1> DEFINE wires == {wire[a] : a \in {b \in Tries : Of(notice, b[1])}}
<1>1. Telling(notice) =
        CASE "accepted" \in wires -> "done"
          [] "accepted" \notin wires /\ "wire" \in wires -> "possible"
          [] OTHER -> "never"
  BY DEF Telling
<1>2. ASSUME NEW a \in Tries, Told(notice, a)
      PROVE  Telling(notice) = IF wire[a] = "accepted" THEN "done" ELSE "possible"
  <2>1. wire[a] \in wires /\ wire[a] \in {"wire", "accepted"}
    BY <1>2 DEF Told, MayBeTold
  <2>2. \A b \in Tries : Told(notice, b) => b = a
    BY <1>2 DEF Told, ToldAtMostOnce, Of
  <2>3. "accepted" \in wires => wire[a] = "accepted"
    BY <2>2 DEF Told, MayBeTold
  <2> HIDE DEF wires
  <2> QED
    BY <1>1, <2>1, <2>3
<1>3. CASE \A a \in Tries : ~Told(notice, a)
  <2>1. "accepted" \notin wires /\ "wire" \notin wires
    BY <1>3 DEF Told, MayBeTold
  <2> HIDE DEF wires
  <2> QED
    BY <1>1, <1>2, <2>1
<1> QED
  BY <1>2, <1>3

(* A request that may tell somebody is that of the open route. *)
LEMMA ToldIsOpen ==
    ASSUME IInv, NEW notice \in Notices, NEW a \in Tries, Told(notice, a)
    PROVE  /\ IsOpen(notice, a[1]) /\ Latest(a[1]) = a
           /\ log[a[1]].status \in {"processing", "unknown", "succeeded"}
<1>1. /\ a = <<a[1], a[2]>>
      /\ attempt[a].status \in {"sending", "unknown", "succeeded"}
  BY InvParts DEF IInv, StepInv, StepAgrees, Told
<1>2. /\ a[1] \in Rows /\ Latest(a[1]) = a
      /\ Agrees(log[a[1]].status, attempt[a].status)
  BY <1>1, HeldIsLatest
<1> QED
  BY <1>1, <1>2 DEF Agrees, IsOpen, Told

LEMMA Decided ==
    ASSUME RInv
    PROVE  AllDecided
<1> SUFFICES ASSUME NEW notice \in Notices
             PROVE  Decides(notice) /\ Certain(notice)
  BY DEF AllDecided
<1> USE DEF RInv
<1>1. Decides(notice)
  BY OutcomeDecided, TellingDecided DEF Decides, IInv
<1>2. ASSUME Outcome(notice) \in {"none", "dropped", "logged"}
      PROVE  Telling(notice) = "never"
  <2>1. ASSUME NEW a \in Tries, Told(notice, a)
        PROVE  FALSE
    <3>1. /\ IsOpen(notice, a[1]) /\ a[1] \in Rows
          /\ log[a[1]].status \in {"processing", "unknown", "succeeded"}
      BY <2>1, ToldIsOpen DEF IsOpen
    <3> QED
      BY <1>1, <1>2, <3>1 DEF Decides, Shown
  <2> QED
    BY <1>1, <2>1 DEF Decides
<1>3. ASSUME Outcome(notice) = "told"
      PROVE  Telling(notice) = "done"
  <2>1. PICK k \in Rows : IsOpen(notice, k)
    BY <1>1, <1>3 DEF Decides
  <2>2. log[k].status \in LogStatuses /\ log[k].status # "failed"
    BY <2>1, InvParts DEF IsOpen
  <2>3. log[k].status = "succeeded"
    BY <1>1, <1>3, <2>1, <2>2 DEF Decides, Shown, LogStatuses
  <2>4. /\ Latest(k) \in Tries /\ Latest(k)[1] = k
        /\ attempt[Latest(k)].status = "succeeded"
    BY <2>3 DEF IInv, LatestInv, LatestAgrees, Agrees, Latest
  <2>5. Told(notice, Latest(k)) /\ wire[Latest(k)] = "accepted"
    BY <2>1, <2>4 DEF SuccessInv, Told, MayBeTold, IsOpen
  <2> QED
    BY <1>1, <2>4, <2>5 DEF Decides
<1> QED
  BY <1>1, <1>2, <1>3 DEF Certain

-----------------------------------------------------------------------------
(* Steps *)

(* How the statuses of rows follow each other. *)
RowsMove ==
    /\ Rows \subseteq Rows'
    /\ \A k \in Rows : \/ log'[k].status = log[k].status
                       \/ log[k].status \in {"pending", "processing"}
                       \/ log[k].status = "cancelled" /\ log'[k].status = "pending"
    /\ \A k \in Rows' \ Rows : log'[k].status = "pending"

(* No request leaves or is answered ... *)
WireRests ==
    /\ Tries \subseteq Tries'
    /\ \A a \in Tries : wire'[a] = wire[a]
    /\ \A a \in Tries' \ Tries : wire'[a] = "none"

(* ... or one is, and no row changes. *)
RequestMoves(a) ==
    /\ log' = log /\ Tries' = Tries
    /\ \/ wire[a] = "none" /\ wire'[a] = "wire"
       \/ wire[a] = "wire" /\ wire'[a] \in {"accepted", "refused"}
    /\ \A b \in Tries : b # a => wire'[b] = wire[b]

(* A row is added to a notice only for the route that has just failed. *)
LEMMA NewRowIsNext ==
    ASSUME IInv, IInv', RowsMove, NEW i \in Rows, NEW j \in Rows' \ Rows,
           j.run = i.run, j.kind = i.kind
    PROVE  \E k \in Rows : /\ k.run = i.run /\ k.kind = i.kind /\ k.route # "log"
                           /\ log[k].status # "failed" /\ log'[k].status = "failed"
<1> DEFINE At(route) == [run |-> i.run, kind |-> i.kind, route |-> route]
<1>1. /\ i \in Keys /\ j \in Keys /\ i = At(i.route) /\ j = At(j.route)
      /\ i.route \in Routes /\ j.route \in Routes
  <2>1. i \in Keys /\ j \in Keys
    BY DEF IInv, TypeOK
  <2> QED
    BY <2>1, KeyParts
<1>2. ASSUME NEW route \in Routes, At(route) \in Keys, route # "log"
      PROVE  /\ At(NextRoute[route]) \in Rows =>
                   At(route) \in Rows /\ log[At(route)].status = "failed"
             /\ At(NextRoute[route]) \in Rows' =>
                   At(route) \in Rows' /\ log'[At(route)].status = "failed"
             /\ At(route) \in Rows /\ log[At(route)].status = "failed" =>
                   At(NextRoute[route]) \in Rows
  <2>1. Fallback(At(route)) = At(NextRoute[route]) /\ At(route).route = route
    BY DEF Fallback
  <2> QED
    BY <1>2, <2>1 DEF IInv, RoutesInv
<1>3. /\ At("operator_channel") \in Keys /\ At("operator_dm") \in Keys
      /\ At("log") \in Keys
  BY <1>1 DEF Keys, Routes
<1>4. ASSUME NEW route \in Routes, At(route) \in Keys, route # "log",
             j = At(NextRoute[route])
      PROVE  \E k \in Rows : /\ k.run = i.run /\ k.kind = i.kind /\ k.route # "log"
                             /\ log[k].status # "failed" /\ log'[k].status = "failed"
  <2>1. At(route) \in Rows' /\ log'[At(route)].status = "failed"
    BY <1>2, <1>4
  <2>2. At(route) \in Rows
    BY <2>1 DEF RowsMove
  <2>3. log[At(route)].status # "failed"
    BY <1>2, <1>4, <2>2
  <2> QED
    BY <1>4, <2>1, <2>2, <2>3
<1>5. /\ At("log") \in Rows => At("operator_dm") \in Rows
      /\ At("operator_dm") \in Rows => At("operator_channel") \in Rows
      /\ At("operator_channel") \in Rows /\ At("creator_dm") \in Keys
            => At("creator_dm") \in Rows
  BY <1>2, <1>3, NextRoutes DEF Routes
<1>6. CASE j.route = "creator_dm"
  BY <1>1, <1>5, <1>6 DEF Routes
<1>7. CASE j.route = "operator_channel"
  <2>1. At("creator_dm") \in Keys
    BY <1>1, <1>5, <1>7 DEF Keys, Routes
  <2> QED
    BY <1>1, <1>4, <1>7, <2>1, NextRoutes DEF Routes
<1>8. CASE j.route \in {"operator_dm", "log"}
  BY <1>1, <1>3, <1>4, <1>8, NextRoutes DEF Routes
<1> QED
  BY <1>1, <1>6, <1>7, <1>8 DEF Routes

OutcomeMoves(notice) ==
    \/ Outcome(notice)' = Outcome(notice)
    \/ Outcome(notice) \in {"none", "dropped"} /\ Outcome(notice)' = "open"
    \/ /\ Outcome(notice) = "open"
       /\ Outcome(notice)' \in {"told", "undetermined", "logged", "dropped"}

LEMMA OutcomeSteps ==
    ASSUME IInv, IInv', RowsMove, NEW notice \in Notices,
           Decides(notice), Decides(notice)'
    PROVE  OutcomeMoves(notice)
<1>0. /\ \A k \in Rows : log[k].status \in LogStatuses
      /\ \A k \in Rows' : k \in Keys /\ log'[k].status \in LogStatuses
  <2>1. \A k \in Rows' : k \in Keys /\ log'[k] \in LogRow
    BY DEF IInv, TypeOK
  <2> QED
    BY <2>1, InvParts DEF LogRow
<1>1. ASSUME NEW k \in Rows', Of(notice, k), log'[k].status # "failed"
      PROVE  Outcome(notice)' = Shown[log'[k].status]
  BY <1>1 DEF Decides, IsOpen, Of
<1>2. ASSUME \A k \in Rows' : Of(notice, k) => log'[k].status = "failed",
             NEW i \in Rows', Of(notice, i)
      PROVE  Outcome(notice)' = "logged"
  BY <1>2 DEF Decides, IsOpen, Of
<1>3. ASSUME NEW i \in Rows, Of(notice, i), NEW j \in Rows' \ Rows, Of(notice, j)
      PROVE  \E k \in Rows : /\ IsOpen(notice, k) /\ k.route # "log"
                             /\ log'[k].status = "failed"
  <2>1. j.run = i.run /\ j.kind = i.kind
    BY <1>3 DEF Of
  <2>2. PICK k \in Rows : /\ k.run = i.run /\ k.kind = i.kind /\ k.route # "log"
                         /\ log[k].status # "failed" /\ log'[k].status = "failed"
    BY <2>1, NewRowIsNext
  <2> QED
    BY <1>3, <2>2 DEF IsOpen, Of
<1>4. ASSUME NEW k \in Rows, IsOpen(notice, k)
      PROVE  OutcomeMoves(notice)
  <2>1. /\ Outcome(notice) = Shown[log[k].status] /\ Of(notice, k)
        /\ log[k].status # "failed" /\ k \in Rows'
    BY <1>4 DEF Decides, IsOpen, RowsMove
  <2>2. CASE log'[k].status # "failed"
    <3>1. Outcome(notice)' = Shown[log'[k].status]
      BY <1>1, <2>1, <2>2
    <3> QED
      BY <1>0, <2>1, <2>2, <3>1 DEF RowsMove, OutcomeMoves, Shown, LogStatuses
  <2>3. CASE log'[k].status = "failed"
    <3>1. Outcome(notice) = "open"
      BY <2>1, <2>3 DEF RowsMove, Shown
    <3>2. CASE k.route # "log"
      <4>1. Fallback(k) \in Rows' \ Rows /\ Of(notice, Fallback(k))
        <5>1. k \in Keys /\ Fallback(k).run = k.run /\ Fallback(k).kind = k.kind
          BY <1>0, <2>1, <3>2, FallbackParts
        <5> QED
          BY <2>1, <2>3, <3>2, <5>1 DEF IInv, RoutesInv, Of
      <4>2. log'[Fallback(k)].status = "pending"
        BY <4>1 DEF RowsMove
      <4>3. Outcome(notice)' = Shown["pending"]
        BY <1>1, <4>1, <4>2
      <4> QED
        BY <3>1, <4>3 DEF OutcomeMoves, Shown
    <3>3. CASE k.route = "log"
      <4>1. \A i \in Rows : Of(notice, i) /\ i # k => log[i].status = "failed"
        BY <1>4, OneOpenRoute DEF IInv, IsOpen, Of
      <4>2. \A i \in Rows : Of(notice, i) => log'[i].status = "failed"
        BY <2>3, <4>1 DEF RowsMove
      <4>3. \A j \in Rows' \ Rows : ~Of(notice, j)
        <5>1. \A i \in Rows : IsOpen(notice, i) => i = k
          BY <4>1 DEF IsOpen
        <5> QED
          BY <1>3, <2>1, <3>3, <5>1
      <4>4. Outcome(notice)' = "logged"
        BY <1>2, <2>1, <4>2, <4>3
      <4> QED
        BY <3>1, <4>4 DEF OutcomeMoves
    <3> QED
      BY <3>2, <3>3
  <2> QED
    BY <2>2, <2>3
<1>5. ASSUME \A k \in Rows : ~IsOpen(notice, k), NEW i \in Rows, Of(notice, i)
      PROVE  OutcomeMoves(notice)
  <2>1. Outcome(notice) = "logged"
    BY <1>5 DEF Decides
  <2>2. \A k \in Rows : Of(notice, k) => log'[k].status = "failed"
    BY <1>5 DEF IsOpen, RowsMove
  <2>3. \A j \in Rows' \ Rows : ~Of(notice, j)
    BY <1>3, <1>5
  <2>4. Outcome(notice)' = "logged"
    BY <1>2, <1>5, <2>2, <2>3 DEF RowsMove
  <2> QED
    BY <2>1, <2>4 DEF OutcomeMoves
<1>6. ASSUME \A k \in Rows : ~Of(notice, k)
      PROVE  OutcomeMoves(notice)
  <2>1. Outcome(notice) = "none"
    BY <1>6 DEF Decides, IsOpen
  <2>2. ASSUME NEW j \in Rows', Of(notice, j)
        PROVE  Outcome(notice)' = "open"
    <3>1. log'[j].status = "pending"
      BY <1>6, <2>2 DEF RowsMove
    <3> QED
      BY <1>1, <2>2, <3>1 DEF Shown
  <2>3. ASSUME \A j \in Rows' : ~Of(notice, j)
        PROVE  Outcome(notice)' = "none"
    BY <2>3 DEF Decides, IsOpen, Of
  <2> QED
    BY <2>1, <2>2, <2>3 DEF OutcomeMoves
<1> QED
  BY <1>4, <1>5, <1>6

PromiseStep(notice) ==
    \/ Outcome(notice)' = Outcome(notice) /\ Telling(notice)' = Telling(notice)
    \/ Promise(notice)!Next

LEMMA RestRefines ==
    ASSUME RInv, RInv', RowsMove, WireRests, NEW notice \in Notices,
           Decides(notice), Decides(notice)', Certain(notice), Certain(notice)'
    PROVE  PromiseStep(notice)
<1>1. OutcomeMoves(notice)
  BY OutcomeSteps DEF RInv
<1>2. \A a \in Tries : Told(notice, a)' <=> Told(notice, a)
  BY DEF WireRests, Told, MayBeTold, Of
<1>3. \A a \in Tries' \ Tries : ~Told(notice, a)'
  BY DEF WireRests, Told, MayBeTold
<1>4. Telling(notice)' = Telling(notice)
  <2>1. CASE \E a \in Tries : Told(notice, a)
    <3>1. PICK a \in Tries : Told(notice, a)
      BY <2>1
    <3>2. Telling(notice) = IF wire[a] = "accepted" THEN "done" ELSE "possible"
      BY <3>1 DEF Decides
    <3>3. Told(notice, a)' /\ a \in Tries' /\ wire'[a] = wire[a]
      BY <1>2, <3>1 DEF WireRests
    <3>4. Telling(notice)' = IF wire'[a] = "accepted" THEN "done" ELSE "possible"
      BY <3>3 DEF Decides, Told, MayBeTold, Of
    <3> QED
      BY <3>2, <3>3, <3>4
  <2>2. CASE ~\E a \in Tries : Told(notice, a)
    <3>1. \A a \in Tries' : ~Told(notice, a)'
      BY <1>2, <1>3, <2>2
    <3>2. Telling(notice)' = "never"
      BY <3>1 DEF Decides, Told, MayBeTold, Of
    <3> QED
      BY <2>2, <3>2 DEF Decides
  <2> QED
    BY <2>1, <2>2
<1>5. /\ Outcome(notice) \in {"none", "dropped"} => Telling(notice) = "never"
      /\ Outcome(notice)' \in {"logged", "dropped"} => Telling(notice)' = "never"
      /\ Outcome(notice)' = "told" => Telling(notice)' = "done"
  BY DEF Certain
<1> QED
  BY <1>1, <1>4, <1>5 DEF OutcomeMoves, PromiseStep, Promise!Next, Promise!Open,
     Promise!Settle

LEMMA RequestRefines ==
    ASSUME RInv, RInv', NEW a \in Tries, RequestMoves(a), NEW notice \in Notices,
           Decides(notice), Decides(notice)', Certain(notice), Certain(notice)'
    PROVE  PromiseStep(notice)
<1>1. Outcome(notice)' = Outcome(notice)
  BY DEF RequestMoves, Outcome, Rows, Of
<1>2. /\ Tries' = Tries
      /\ \A b \in Tries : b # a => (Told(notice, b)' <=> Told(notice, b))
      /\ \A b \in Tries : Told(notice, b)' /\ Told(notice, a)' => b = a
      /\ \A b \in Tries : Told(notice, b) /\ Told(notice, a) => b = a
  BY DEF RequestMoves, RInv, ToldAtMostOnce, Told, MayBeTold, Of
<1>3. CASE ~Of(notice, a[1])
  <2>1. \A b \in Tries : Told(notice, b) => b # a
    BY <1>3 DEF Told
  <2>2. Telling(notice)' = Telling(notice)
    <3>1. CASE \E b \in Tries : Told(notice, b)
      <4>1. PICK b \in Tries : Told(notice, b)
        BY <3>1
      <4>2. Told(notice, b)' /\ wire'[b] = wire[b] /\ b \in Tries'
        BY <1>2, <2>1, <4>1 DEF RequestMoves
      <4>3. Telling(notice)' = IF wire'[b] = "accepted" THEN "done" ELSE "possible"
        BY <4>2 DEF Decides, Told, MayBeTold, Of
      <4> QED
        BY <4>1, <4>2, <4>3 DEF Decides
    <3>2. CASE ~\E b \in Tries : Told(notice, b)
      <4>1. \A b \in Tries' : ~Told(notice, b)'
        BY <1>2, <1>3, <3>2 DEF Told, Of
      <4>2. Telling(notice)' = "never"
        BY <4>1 DEF Decides, Told, MayBeTold, Of
      <4> QED
        BY <3>2, <4>2 DEF Decides
    <3> QED
      BY <3>1, <3>2
  <2> QED
    BY <1>1, <2>2 DEF PromiseStep
<1>4. CASE Of(notice, a[1]) /\ wire[a] = "none"
  <2>1. wire'[a] = "wire" /\ Told(notice, a)' /\ ~Told(notice, a)
    BY <1>2, <1>4 DEF RequestMoves, Told, MayBeTold, Of
  <2>2. \A b \in Tries : ~Told(notice, b)
    BY <1>2, <2>1
  <2>3. Telling(notice) = "never"
    BY <2>2 DEF Decides
  <2>4. Telling(notice)' = "possible"
    BY <1>2, <2>1 DEF Decides, Told, MayBeTold, Of
  <2>5. Outcome(notice) \in {"open", "undetermined"}
    <3>1. Outcome(notice)' \notin {"none", "dropped", "logged", "told"}
      BY <2>4 DEF Certain
    <3>2. PICK k \in Rows : IsOpen(notice, k)
      <4>1. a[1] \in Rows
        BY InvParts DEF RInv
      <4> QED
        BY <1>1, <1>4, <3>1, <4>1 DEF Decides
    <3>3. Outcome(notice) = Shown[log[k].status] /\ log[k].status \in LogStatuses
          /\ log[k].status # "failed"
      BY <3>2, InvParts DEF Decides, IsOpen, RInv
    <3> QED
      BY <1>1, <3>1, <3>3 DEF Shown, LogStatuses
  <2> QED
    BY <1>1, <2>3, <2>4, <2>5 DEF PromiseStep, Promise!Next, Promise!Expose
<1>5. CASE Of(notice, a[1]) /\ wire[a] = "wire"
  <2>1. Told(notice, a)
    BY <1>5 DEF Told, MayBeTold
  <2>2. Telling(notice) = "possible"
    BY <1>5, <2>1 DEF Decides
  <2>3. CASE wire'[a] = "accepted"
    <3>1. Told(notice, a)'
      BY <1>2, <1>5, <2>3 DEF Told, MayBeTold, Of
    <3>2. Telling(notice)' = "done"
      BY <1>2, <2>3, <3>1 DEF Decides, Told, MayBeTold, Of
    <3> QED
      BY <1>1, <2>2, <3>2 DEF PromiseStep, Promise!Next, Promise!Resolve
  <2>4. CASE wire'[a] = "refused"
    <3>1. \A b \in Tries' : ~Told(notice, b)'
      BY <1>2, <2>1, <2>4 DEF Told, MayBeTold
    <3>2. Telling(notice)' = "never"
      BY <3>1 DEF Decides, Told, MayBeTold, Of
    <3> QED
      BY <1>1, <2>2, <3>2 DEF PromiseStep, Promise!Next, Promise!Resolve
  <2> QED
    BY <1>5, <2>3, <2>4 DEF RequestMoves
<1> QED
  BY <1>3, <1>4, <1>5 DEF RequestMoves

-----------------------------------------------------------------------------
(* Every step is of one of the two kinds *)

(* No attempt is recorded as sent whose request was not accepted. *)
TrulySent ==
    \A a \in Tries : attempt'[a].status = "succeeded" =>
        attempt[a].status = "succeeded" \/ wire[a] = "accepted"

LEMMA RecordedAs ==
    ASSUME IInv, NEW k, NEW n, <<k, n>> \in Tries, NEW status \in AttemptStatuses,
           SetAttempt(k, n, status), status = "succeeded" => wire[<<k, n>>] = "accepted"
    PROVE  TrulySent /\ Tries' = Tries
BY AttemptSet DEF SetAttempt, TrulySent

LEMMA TaskStepMoves ==
    ASSUME IInv, NEW k, NEW n, <<k, n>> \in Tries, TaskStep(k, n) \/ Discord(k, n)
    PROVE  /\ TrulySent /\ Tries' = Tries
           /\ WireRests \/ RequestMoves(<<k, n>>)
<1> DEFINE a == <<k, n>>
<1>0. wire \in [Tries -> Wires]
  BY TypeParts DEF IInv, TriesOK
<1>1. CASE Send(k, n) \/ Discord(k, n)
  <2>1. UNCHANGED <<log, attempt>>
    BY <1>1 DEF Send, Discord, db
  <2>2. /\ \/ wire[a] = "none" /\ wire'[a] = "wire"
           \/ wire[a] = "wire" /\ wire'[a] \in {"accepted", "refused"}
        /\ \A b \in Tries : b # a => wire'[b] = wire[b]
    BY <1>0, <1>1 DEF Send, Discord
  <2>3. Tries' = Tries
    BY <2>1 DEF Tries
  <2> QED
    BY <2>1, <2>2, <2>3 DEF RequestMoves, TrulySent
<1>2. CASE Raise(k, n)
  <2>1. UNCHANGED <<attempt, wire>>
    BY <1>2 DEF Raise, db
  <2> QED
    BY <2>1 DEF WireRests, TrulySent, Tries
<1>3. CASE ~(Send(k, n) \/ Discord(k, n) \/ Raise(k, n))
  <2>1. wire' = wire
    BY <1>3 DEF TaskStep, PrepareSend, PrepareCancel, SaveSuccess, SaveRetry,
       SaveFailure, SaveUnknown, Saves
  <2>2. \E status \in AttemptStatuses :
          SetAttempt(k, n, status) /\ (status = "succeeded" => wire[a] = "accepted")
    BY <1>3 DEF TaskStep, PrepareSend, PrepareCancel, SaveSuccess, SaveRetry,
       SaveFailure, SaveUnknown, Saves, AttemptStatuses
  <2>3. TrulySent /\ Tries' = Tries
    BY <2>2, RecordedAs
  <2> QED
    BY <2>1, <2>3 DEF WireRests
<1> QED
  BY <1>1, <1>2, <1>3

LEMMA RecoverMoves ==
    ASSUME IInv, NEW w \in Workers, RecoverNotifications(w)
    PROVE  TrulySent /\ Tries' = Tries /\ WireRests
<1>1. PICK S \in Selections(ExpiredNotices(proc[w].cutoff)) :
        attempt' = [a \in Tries |->
              IF \E k \in S : a = Latest(k) /\ IsConsistent(k)
              THEN [attempt[a] EXCEPT !.status = RecoveredStatus(a[1])]
              ELSE attempt[a]]
  BY DEF RecoverNotifications
<1>2. Tries' = Tries /\ wire' = wire
  BY <1>1 DEF RecoverNotifications, Tries
<1>3. \A a \in Tries : /\ attempt[a] \in AttemptRow
                       /\ RecoveredStatus(a[1]) # "succeeded"
  BY TypeParts DEF IInv, TriesOK, RecoveredStatus
<1>4. \A a \in Tries : \/ attempt'[a] = attempt[a]
                       \/ attempt'[a] = [attempt[a] EXCEPT !.status = RecoveredStatus(a[1])]
  BY <1>1
<1>5. TrulySent
  BY <1>3, <1>4 DEF TrulySent, AttemptRow
<1> QED
  BY <1>2, <1>5 DEF WireRests

LEMMA ClaimMoves ==
    ASSUME IInv, NEW w \in Workers, Claim(w)
    PROVE  /\ TrulySent /\ WireRests
           /\ \A a \in Tries' \ Tries : attempt'[a].status = "claimed"
<1>1. PICK new :
        /\ attempt' = [a \in Tries \cup new |->
              IF a \in new THEN [status |-> "claimed", claimed_by |-> w]
              ELSE attempt[a]]
        /\ wire' = [a \in Tries \cup new |-> IF a \in new THEN "none" ELSE wire[a]]
        /\ \A a \in new : a \notin Tries
  <2>1. PICK S \in Selections(Due) :
          LET claims == {<<k, log[k].attempt_count + 1>> : k \in S} IN
             /\ attempt' = [a \in Tries \cup claims |->
                   IF a \in claims THEN [status |-> "claimed", claimed_by |-> w]
                   ELSE attempt[a]]
             /\ wire' = [a \in Tries \cup claims |->
                   IF a \in claims THEN "none" ELSE wire[a]]
    BY DEF Claim
  <2> DEFINE claims == {<<k, log[k].attempt_count + 1>> : k \in S}
  <2>2. S \subseteq Rows
    BY DEF Selections, Due
  <2>3. \A k \in S : <<k, log[k].attempt_count + 1>> \notin Tries
    BY <2>2, InvParts DEF IInv, NumberingInv
  <2>4. \A a \in claims : a \notin Tries
    BY <2>3
  <2>5. /\ attempt' = [a \in Tries \cup claims |->
              IF a \in claims THEN [status |-> "claimed", claimed_by |-> w]
              ELSE attempt[a]]
        /\ wire' = [a \in Tries \cup claims |-> IF a \in claims THEN "none" ELSE wire[a]]
    BY <2>1
  <2> HIDE DEF claims
  <2> QED
    BY <2>4, <2>5
<1>2. Tries' = Tries \cup new
  BY <1>1 DEF Tries
<1> QED
  BY <1>1, <1>2 DEF TrulySent, WireRests

LEMMA EveryMove ==
    ASSUME RInv, Next
    PROVE  /\ RowsMove /\ SuccessInv'
           /\ WireRests \/ \E a \in Tries : RequestMoves(a)
<1> USE DEF RInv
<1>1. RowsMove
  <2>1. CASE Outside
    BY <2>1 DEF Outside, LogGrows, RowKept, RowsMove
  <2>2. CASE WorkerSide
    BY <2>2 DEF WorkerSide, Handled, Fresh, RowsMove
  <2> QED
    BY <2>1, <2>2, EveryStep
<1>2. ASSUME TrulySent, Tries' = Tries, WireRests \/ \E a \in Tries : RequestMoves(a)
      PROVE  SuccessInv'
  BY <1>2 DEF SuccessInv, TrulySent, WireRests, RequestMoves
<1>3. ASSUME UNCHANGED <<attempt, wire>>
      PROVE  SuccessInv' /\ WireRests
  BY <1>3 DEF SuccessInv, WireRests, Tries
<1>4. CASE Tick
  BY <1>1, <1>3, <1>4 DEF Tick, db
<1>5. ASSUME NEW w \in Workers, Start(w) \/ Crash(w) \/ RunsRecovered(w) \/ Bootstrap(w)
      PROVE  SuccessInv' /\ WireRests
  <2>1. UNCHANGED <<attempt, wire>>
    BY <1>5 DEF Start, Crash, RunsRecovered, Bootstrap, db
  <2> QED
    BY <1>3, <2>1
<1>6. ASSUME NEW w \in Workers, NEW r \in Runs, RecoverRun(w, r)
      PROVE  SuccessInv' /\ WireRests
  BY <1>3, <1>6 DEF RecoverRun
<1>7. ASSUME NEW w \in Workers, RecoverNotifications(w)
      PROVE  SuccessInv' /\ WireRests
  BY <1>2, <1>7, RecoverMoves
<1>8. ASSUME NEW w \in Workers, Claim(w)
      PROVE  SuccessInv' /\ WireRests
  BY <1>8, ClaimMoves DEF SuccessInv, TrulySent, WireRests
<1>9. ASSUME NEW r \in Runs, RunStep(r) \/ Command(r)
      PROVE  SuccessInv' /\ WireRests
  <2>1. UNCHANGED <<attempt, wire>>
    BY <1>9 DEF RunStep, DeliveryClaims, DeliverySucceeds, DeliveryFails,
        DeliverySkipsDraft, Command, CreateActive, CreateDraft, FillContent,
        ClearContent, ClearPausedContent, Pause, Resume, ResumeAfterwards, Delete
  <2> QED
    BY <1>3, <2>1
<1>10. ASSUME NEW a \in Tries, TaskStep(a[1], a[2]) \/ Discord(a[1], a[2])
       PROVE  SuccessInv' /\ (WireRests \/ \E b \in Tries : RequestMoves(b))
  <2>1. a = <<a[1], a[2]>>
    BY InvParts
  <2>2. /\ TrulySent /\ Tries' = Tries
        /\ WireRests \/ RequestMoves(a)
    BY <1>10, <2>1, TaskStepMoves
  <2> QED
    BY <1>2, <2>2
<1> QED
  BY <1>1, <1>4, <1>5, <1>6, <1>7, <1>8, <1>9, <1>10 DEF Next

-----------------------------------------------------------------------------
LEMMA RefinementInv == Spec => []RInv
<1>1. Init => SuccessInv
  BY DEF Init, SuccessInv, Tries
<1>2. RInv /\ [Next]_vars => SuccessInv'
  <2>1. CASE UNCHANGED vars
    BY <2>1 DEF RInv, SuccessInv, vars, db, Tries
  <2> QED
    BY <2>1, EveryMove
<1> QED
  BY <1>1, <1>2, Inductive, ToldOnce, PTL DEF Spec, RInv

(* Notification implements TellOnce: however claims, answers, failures,      *)
(* recoveries and withdrawals of all its routes interleave, a notice moves   *)
(* only as the abstract promise allows, so its record is true.               *)
THEOREM ImplementsTellOnce == Spec => TellsOnce
<1>1. Init => \A notice \in Notices : Promise(notice)!Init
  <2> SUFFICES ASSUME Init, NEW notice \in Notices
               PROVE  Promise(notice)!Init
    OBVIOUS
  <2>1. Rows = {} /\ Tries = {}
    BY DEF Init, Rows, Tries
  <2>2. Outcome(notice) = "none" /\ Telling(notice) = "never"
    BY <2>1 DEF Outcome, Telling
  <2> QED
    BY <2>2 DEF Promise!Init
<1>2. RInv => AllDecided
  BY Decided
<1>3. ASSUME RInv, RInv', AllDecided, AllDecided', [Next]_vars,
             NEW notice \in Raised \cup Raised'
      PROVE  PromiseStep(notice)
  <2>1. notice \in Notices
    <3>1. \A k \in Rows \cup Rows' : k \in Keys
      BY <1>3 DEF RInv, IInv, TypeOK
    <3>2. PICK k \in Rows \cup Rows' : notice = [run |-> k.run, kind |-> k.kind]
      BY DEF Raised
    <3> QED
      BY <3>1, <3>2, KeyParts DEF Notices
  <2>2. /\ Decides(notice) /\ Decides(notice)'
        /\ Certain(notice) /\ Certain(notice)'
    BY <1>3, <2>1 DEF AllDecided
  <2>3. CASE Next
    BY <1>3, <2>1, <2>2, <2>3, EveryMove, RestRefines, RequestRefines
  <2>4. CASE UNCHANGED vars
    BY <2>4 DEF vars, db, PromiseStep, Outcome, Telling, Rows, Tries
  <2> QED
    BY <1>3, <2>3, <2>4
<1>4. RInv /\ RInv' /\ AllDecided /\ AllDecided' /\ [Next]_vars =>
        [\/ UNCHANGED <<log, attempt, wire>>
         \/ \A notice \in Raised \cup Raised' :
               \/ /\ Outcome(notice)' = Outcome(notice)
                  /\ Telling(notice)' = Telling(notice)
               \/ Promise(notice)!Next]_vars
  BY <1>3 DEF PromiseStep
<1> QED
  BY <1>1, <1>2, <1>4, RefinementInv, PTL DEF Spec, TellsOnce
=============================================================================
