--------------------------- MODULE MCNotification ---------------------------
(* Small instances of Notification for TLC, one schedule at a time: a draft  *)
(* made early, with both its reminders ahead and one claim; one made so late *)
(* (tight) that it has the immediate reminder only, with two claims; and a   *)
(* failing and a delayed run with their reports.  A startup may find each    *)
(* reminder elapsed before the run is due.  The reminder thresholds, the     *)
(* leads and the delays keep their order, not their proportions.             *)
EXTENDS Notification, TLC

CONSTANTS w1, w2, early, tight, failing, delayed

MCKinds ==
    [r \in Runs |-> CASE r = early -> DraftKinds
                      [] r = tight -> DraftKinds \cup {"run_skipped"}
                      [] r = failing -> {"run_failed"}
                      [] r = delayed -> {"run_failed", "run_delayed"}]
MCScheduledFor ==
    [r \in Runs |-> CASE r = early -> Day [] r = tight -> 2
                      [] r = failing -> 1 [] r = delayed -> 2]
MCMaxClaims ==
    [r \in Runs |-> CASE r = early -> 1 [] r = failing -> 3
                      [] r \in {tight, delayed} -> 2]
MCRetryDelay   == [n \in 1..MaxAttempts |-> n]

Interchangeable == Permutations(Workers)
=============================================================================
