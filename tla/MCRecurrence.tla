---------------------------- MODULE MCRecurrence ----------------------------
(* The occurrences of every rule of a small calendar, walked one by one from *)
(* every instant, against the definition of Occurs.                          *)
EXTENDS Recurrence

CONSTANTS Ends, MaxTime   \* the end dates, and the latest start of a walk

ASSUME WalkAssumption == Ends \subseteq Nat \cup {None} /\ MaxTime \in Nat

VARIABLES rule, at   \* a rule, and the instant the walk has reached

Init ==
    /\ rule \in [local : 0..(Day - 1), weekday : (0..(Week - 1)) \cup {None},
                 end : Ends]
    /\ at \in 0..MaxTime

Walk ==
    /\ at # None /\ at <= MaxTime
    /\ at' = NextRun(rule, at)
    /\ UNCHANGED rule

Spec == Init /\ [][Walk]_<<rule, at>>

(* The instant found is the least occurrence from "from" on; none is found   *)
(* only where a whole period has none, which is past the end date.           *)
IsFirstFrom(from, found) ==
    IF found = None
    THEN \A t \in from..(from + Period(rule)) : ~Occurs(rule, t)
    ELSE /\ found >= from /\ Occurs(rule, found)
         /\ \A t \in from..(found - 1) : ~Occurs(rule, t)

(* next_daily_run and next_weekly_run return the first occurrence strictly   *)
(* after the reference, the one that equals it included in what is passed.   *)
NextIsFirstAfter == at # None => IsFirstFrom(at + 1, NextRun(rule, at))

(* first_daily_run and first_weekly_run include the boundary: a schedule     *)
(* whose first time is exactly five minutes ahead starts at that time.       *)
FirstIsInclusive == at # None => IsFirstFrom(at, FirstRun(rule, at))

(* The loop of an edit and of startup recovery ends at the first free        *)
(* occurrence, whatever instants are taken, and its bound is long enough.    *)
SteppingFindsUnused ==
    at # None =>
        LET near == {t \in at..(at + 2 * Period(rule)) :
                        Occurs(rule, t) \/ t = at}
        IN \A taken \in SUBSET near :
              /\ FirstUnused(rule, at, taken) = SteppedUnused(rule, at, taken)
              /\ FirstUnused(rule, at, taken) \notin taken
=============================================================================
