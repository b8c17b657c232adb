------------------------------ MODULE TellOnce ------------------------------
(* What the notification outbox promises of a notice, without rows, routes,  *)
(* attempts, leases or clocks: somebody is told at most once, the outcome    *)
(* that is recorded is true, and a notice that was given up without telling  *)
(* anybody is the only one that may be taken up again.                       *)
VARIABLES
    outcome,   \* "none", "open", "told", "undetermined", "logged", "dropped"
    telling    \* its message: "never", "possible" (in flight) or "done"

Init == outcome = "none" /\ telling = "never"

(* The notice is raised, or raised again after it was dropped unsent. *)
Open ==
    /\ outcome \in {"none", "dropped"} /\ telling = "never"
    /\ outcome' = "open" /\ telling' = "never"

(* A request leaves, at the latest from a worker whose claim was written     *)
(* off as undetermined meanwhile.                                            *)
Expose ==
    /\ outcome \in {"open", "undetermined"} /\ telling = "never"
    /\ telling' = "possible" /\ outcome' = outcome

Resolve ==
    /\ telling = "possible"
    /\ telling' \in {"done", "never"} /\ outcome' = outcome

(* Only a notice that certainly reached nobody is logged or dropped. *)
Settle ==
    /\ outcome = "open"
    /\ \/ telling = "done"  /\ outcome' = "told"
       \/ telling = "never" /\ outcome' \in {"logged", "dropped"}
       \/ outcome' = "undetermined"
    /\ telling' = telling

Next == Open \/ Expose \/ Resolve \/ Settle

Spec == Init /\ [][Next]_<<outcome, telling>>
=============================================================================
