----------------------------- MODULE MCRecurring -----------------------------
(* Small instances of Recurring for TLC: days of three ticks. *)
EXTENDS Recurring
=============================================================================
