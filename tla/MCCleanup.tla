------------------------------ MODULE MCCleanup ------------------------------
(* A small instance of Cleanup for TLC: a tick is a day, a month has two.    *)
(* One schedule is named, the other one can never be deleted.                *)
EXTENDS Cleanup

CONSTANTS named, stuck

MCMaxVersion == [s \in Schedules |-> IF s = named THEN 2 ELSE 1]
=============================================================================
