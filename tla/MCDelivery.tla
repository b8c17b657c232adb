----------------------------- MODULE MCDelivery -----------------------------
(* Small instances of Delivery for TLC.  One minute of the code is one tick; *)
(* the shortest delays are kept apart from the longer ones, not to scale.    *)
EXTENDS Delivery, TLC

CONSTANTS w1, w2, w3, r1, r2

MCScheduledFor == [r \in Runs |-> 1]
MCRetryDelay   == [n \in 1..MaxAttempts |-> n]

Interchangeable == Permutations(Workers)
=============================================================================
