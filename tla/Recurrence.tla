----------------------------- MODULE Recurrence -----------------------------
(* When a daily or weekly schedule occurs.  Instants are minutes of Tokyo   *)
(* time (no daylight saving, so a fixed shift of the stored UTC), seconds   *)
(* being zero.                                                              *)
EXTENDS Integers, FiniteSets

CONSTANTS
    Day,    \* minutes of a day
    Week,   \* days of a week
    None    \* no instant, no end date, no weekday (a daily schedule)

ASSUME CalendarAssumption == {Day, Week} \subseteq Nat \ {0} /\ None \notin Int

Date(t)    == t \div Day
Weekday(t) == Date(t) % Week

Rules == [local : 0..(Day - 1), weekday : (0..(Week - 1)) \cup {None},
          end : Nat \cup {None}]

WithinEnd(rule, t) == rule.end # None => Date(t) <= rule.end

(* Mutant: the reference instant itself counts as later than itself. *)
NextDailyInclusive(rule, after) ==
    LET today == Date(after) * Day + rule.local
        candidate == IF today < after THEN today + Day ELSE today
    IN IF WithinEnd(rule, candidate) THEN candidate ELSE None

(* next_daily_run: strictly after the reference. *)
NextDaily(rule, after) ==
    LET today == Date(after) * Day + rule.local
        candidate == IF today <= after THEN today + Day ELSE today
    IN IF WithinEnd(rule, candidate) THEN candidate ELSE None

(* next_weekly_run *)
NextWeekly(rule, after) ==
    LET ahead == (rule.weekday - Weekday(after)) % Week
        day == (Date(after) + ahead) * Day + rule.local
        candidate == IF day <= after THEN day + Week * Day ELSE day
    IN IF WithinEnd(rule, candidate) THEN candidate ELSE None

(* recurring_next_run *)
NextRun(rule, after) ==
    IF rule.weekday = None THEN NextDaily(rule, after)
                           ELSE NextWeekly(rule, after)

(* Mutant: the boundary is passed on as the reference. *)
FirstRunExclusive(rule, notBefore) == NextRun(rule, notBefore)

(* first_daily_run, first_weekly_run: at or after the boundary. *)
FirstRun(rule, notBefore) == NextRun(rule, notBefore - 1)

Period(rule) == IF rule.weekday = None THEN Day ELSE Week * Day

(* The occurrences of a rule, said without an algorithm. *)
Occurs(rule, t) ==
    /\ t % Day = rule.local
    /\ rule.weekday \in {None, Weekday(t)}
    /\ WithinEnd(rule, t)

IsLeast(t, S) == t \in S /\ \A u \in S : t <= u

Least(S) == IF \E t \in S : IsLeast(t, S) THEN CHOOSE t \in S : IsLeast(t, S)
                                           ELSE None

(* Mutant: as many steps as there are taken instants. *)
FirstUnusedShort(rule, from, taken) ==
    Least({t \in from..(from + Period(rule) * Cardinality(taken) - 1) :
              Occurs(rule, t) /\ t \notin taken})

(* The loops that step from an occurrence to the next until one is not taken *)
(* (an edit, startup recovery): each step passes a taken one.                *)
FirstUnused(rule, from, taken) ==
    Least({t \in from..(from + Period(rule) * (Cardinality(taken) + 1)) :
              Occurs(rule, t) /\ t \notin taken})

(* The same as the code computes it, one occurrence at a time. *)
SteppedUnused(rule, from, taken) ==
    LET step[n \in 0..Cardinality(taken)] ==
            IF n = 0 THEN FirstRun(rule, from)
            ELSE IF step[n - 1] \notin taken THEN step[n - 1]
            ELSE NextRun(rule, step[n - 1])
    IN step[Cardinality(taken)]
=============================================================================
