----------------------------- MODULE LockOrder ------------------------------
(* The row locks of the transactions that meet at one schedule.  Everywhere  *)
(* else in this project a transaction is one action; here each SELECT ... FOR *)
(* UPDATE is one, so that two transactions can wait for each other.  A lock  *)
(* is kept until the transaction ends (PostgreSQL).  The rows are those of   *)
(* one schedule, one of its runs, that run's delivery attempt, a notice      *)
(* about the run with its attempt, and the schedule's name job.              *)
EXTENDS Naturals, Sequences

CONSTANT Transactions   \* the kinds (of DOMAIN Orders) that may be open together

VARIABLES
    held,   \* per transaction: how many of its locks it has
    open    \* per transaction: is it running?

vars == <<held, open>>

(* Transaction B of the notification worker: the notice, then its context. *)
NotificationOrder == <<"notice", "notice_attempt", "schedule", "run">>

(* Both transactions of the delivery worker around a post. *)
DeliveryOrder == <<"run", "delivery_attempt", "schedule">>
FinalizationOrder == <<"run", "schedule">>

(* A user's changes: the runs in the order of their ids, then the schedule. *)
EditOrder   == <<"run", "schedule">>
PauseOrder  == <<"run", "schedule">>
DeleteOrder == <<"run", "schedule">>
RenameOrder == <<"schedule">>

(* The name generator never touches runs. *)
NameOrder == <<"schedule", "name_job">>

Orders == [notification |-> NotificationOrder, delivery |-> DeliveryOrder,
           finalization |-> FinalizationOrder, edit |-> EditOrder,
           pause |-> PauseOrder, delete |-> DeleteOrder,
           rename |-> RenameOrder, name |-> NameOrder]

Locks(t)   == {Orders[t][i] : i \in 1..held[t]}
Wants(t)   == Orders[t][held[t] + 1]
Wanting(t) == open[t] /\ held[t] < Len(Orders[t])
WaitsFor(t, u) == t # u /\ Wanting(t) /\ Wants(t) \in Locks(u)

Init ==
    /\ held = [t \in Transactions |-> 0]
    /\ open = [t \in Transactions |-> FALSE]

Begin(t) ==
    /\ ~open[t] /\ open' = [open EXCEPT ![t] = TRUE]
    /\ UNCHANGED held

(* One SELECT ... FOR UPDATE returns; while another transaction has the row  *)
(* it waits.                                                                 *)
LockOne(t) ==
    /\ Wanting(t) /\ \A u \in Transactions : ~WaitsFor(t, u)
    /\ held' = [held EXCEPT ![t] = @ + 1]
    /\ UNCHANGED open

(* Commit, or a rollback when a check under the locks fails. *)
End(t) ==
    /\ open[t]
    /\ held' = [held EXCEPT ![t] = 0]
    /\ open' = [open EXCEPT ![t] = FALSE]

Next == \E t \in Transactions : Begin(t) \/ LockOne(t) \/ End(t)

Spec == Init /\ [][Next]_vars

-----------------------------------------------------------------------------
(* No transactions wait for each other in a circle: runs are locked before   *)
(* their schedule, never after it.  Broken by the notification worker, whose *)
(* circle with a post, an edit, a pause or a deletion PostgreSQL ends by     *)
(* rolling one of the two back: the worker's notice then stays claimed until *)
(* the next start, or the user's change or the post's bookkeeping is lost.   *)
NoDeadlock ==
    \A D \in SUBSET Transactions \ {{}} :
        \E t \in D : \A u \in D : ~WaitsFor(t, u)
=============================================================================
