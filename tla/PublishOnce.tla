---------------------------- MODULE PublishOnce ----------------------------
(* What delivery promises of each occurrence, without workers, leases,       *)
(* attempts or clocks: it is published at most once, it goes back to waiting *)
(* only when nothing was or will be published, and the result it ends with   *)
(* is true of the channel.  "undetermined" admits not knowing.               *)
CONSTANT Runs

VARIABLES
    state,        \* what is recorded of each occurrence
    publication   \* its message: "never", "possible" (in flight) or "done"

Init == /\ state = [r \in Runs |-> "waiting"]
        /\ publication = [r \in Runs |-> "never"]

(* A worker takes the occurrence. *)
Take(r) ==
    /\ state[r] = "waiting" /\ state'[r] = "owned"
    /\ publication'[r] = publication[r]

(* It is put back for another attempt: certainly unpublished. *)
GiveBack(r) ==
    /\ state[r] = "owned" /\ publication[r] = "never"
    /\ state'[r] = "waiting" /\ publication'[r] = "never"

(* A request leaves for Discord, at the latest from a worker whose claim was *)
(* written off as undetermined meanwhile.                                    *)
Expose(r) ==
    /\ state[r] \in {"owned", "undetermined"} /\ publication[r] = "never"
    /\ publication'[r] = "possible" /\ state'[r] = state[r]

Resolve(r) ==
    /\ publication[r] = "possible"
    /\ publication'[r] \in {"done", "never"} /\ state'[r] = state[r]

Settle(r) ==
    /\ \/ state[r] = "owned" /\ publication[r] = "done"
             /\ state'[r] = "delivered"
       \/ state[r] \in {"waiting", "owned"} /\ publication[r] = "never"
             /\ state'[r] = "undelivered"
       \/ state[r] = "owned" /\ state'[r] = "undetermined"
    /\ publication'[r] = publication[r]

Stay(r) == state'[r] = state[r] /\ publication'[r] = publication[r]

(* One transaction may move several occurrences, each by a step of its own. *)
Next == \A r \in Runs :
           Take(r) \/ GiveBack(r) \/ Expose(r) \/ Resolve(r) \/ Settle(r)
             \/ Stay(r)

Spec == Init /\ [][Next]_<<state, publication>>
=============================================================================
