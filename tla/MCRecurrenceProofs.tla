------------------------- MODULE MCRecurrenceProofs -------------------------
(* The walk over the occurrences of a rule, for every calendar, every set of *)
(* end dates and every start: what TLC checks on the small calendar.         *)
EXTENDS MCRecurrence, RecurrenceProofs

WalkTypeOK == rule \in Rules /\ at \in Int \cup {None}

LEMMA WalkTypes == Spec => []WalkTypeOK
<1>1. Init => WalkTypeOK
  <2> SUFFICES ASSUME Init
               PROVE  WalkTypeOK
    OBVIOUS
  <2>1. rule \in Rules
    BY WalkAssumption DEF Init, Rules
  <2>2. at \in Int
    BY WalkAssumption DEF Init
  <2> QED
    BY <2>1, <2>2 DEF WalkTypeOK
<1>2. WalkTypeOK /\ [Walk]_<<rule, at>> => WalkTypeOK'
  <2> SUFFICES ASSUME WalkTypeOK, [Walk]_<<rule, at>>
               PROVE  WalkTypeOK'
    OBVIOUS
  <2>1. CASE Walk
    <3>1. rule \in Rules /\ at \in Int /\ rule' = rule /\ at' = NextRun(rule, at)
      BY <2>1 DEF WalkTypeOK, Walk
    <3>2. NextRun(rule, at) \in Int \cup {None}
      BY <3>1, NextRunIsFirst
    <3> QED
      BY <3>1, <3>2 DEF WalkTypeOK
  <2>2. CASE UNCHANGED <<rule, at>>
    BY <2>2 DEF WalkTypeOK
  <2> QED
    BY <2>1, <2>2
<1> QED
  BY <1>1, <1>2, PTL DEF Spec

(* The least occurrence from "from" on, with no bound on what is looked at,  *)
(* is what IsFirstFrom asks for within the bounds it looks at.               *)
LEMMA LeastIsFirstFrom ==
    ASSUME WalkTypeOK, NEW from \in Int, NEW found \in Int \cup {None},
           found # None => found >= from /\ Occurs(rule, found),
           \A t \in Int : t >= from /\ Occurs(rule, t) => found # None /\ found <= t
    PROVE  IsFirstFrom(from, found)
<1>1. CASE found = None
  <2>1. ASSUME NEW t \in from..(from + Period(rule))
        PROVE  ~Occurs(rule, t)
    <3>1. t \in Int /\ t >= from
      OBVIOUS
    <3> QED
      BY <1>1, <3>1
  <2> QED
    BY <1>1, <2>1 DEF IsFirstFrom
<1>2. CASE found # None
  <2>1. ASSUME NEW t \in from..(found - 1)
        PROVE  ~Occurs(rule, t)
    <3>1. found \in Int /\ t \in Int /\ t >= from /\ ~(found <= t)
      BY <1>2
    <3> QED
      BY <3>1
  <2> QED
    BY <1>2, <2>1 DEF IsFirstFrom
<1> QED
  BY <1>1, <1>2

(* From wherever a walk has come, next_daily_run and next_weekly_run return  *)
(* the first occurrence strictly after the reference.                        *)
THEOREM NextAlwaysFirst == Spec => []NextIsFirstAfter
<1>1. WalkTypeOK => NextIsFirstAfter
  <2> SUFFICES ASSUME WalkTypeOK, at # None
               PROVE  IsFirstFrom(at + 1, NextRun(rule, at))
    BY DEF NextIsFirstAfter
  <2> DEFINE next == NextRun(rule, at)
  <2>1. at \in Int /\ at + 1 \in Int /\ rule \in Rules
    BY DEF WalkTypeOK
  <2>2. /\ next \in Int \cup {None}
        /\ next # None => next > at /\ Occurs(rule, next)
        /\ \A t \in Int : t > at /\ Occurs(rule, t) => next # None /\ next <= t
    BY <2>1, NextRunIsFirst
  <2> HIDE DEF next
  <2>3. next # None => next >= at + 1
    BY <2>1, <2>2
  <2>4. \A t \in Int : t >= at + 1 => t > at
    BY <2>1
  <2> QED
    BY <2>1, <2>2, <2>3, <2>4, LeastIsFirstFrom DEF next
<1> QED
  BY <1>1, WalkTypes, PTL

(* The inclusive variants return the boundary itself where it is one.        *)
THEOREM FirstAlwaysInclusive == Spec => []FirstIsInclusive
<1>1. WalkTypeOK => FirstIsInclusive
  <2> SUFFICES ASSUME WalkTypeOK, at # None
               PROVE  IsFirstFrom(at, FirstRun(rule, at))
    BY DEF FirstIsInclusive
  <2> DEFINE first == FirstRun(rule, at)
  <2>1. at \in Int /\ rule \in Rules
    BY DEF WalkTypeOK
  <2>2. /\ first \in Int \cup {None}
        /\ first # None => first >= at /\ Occurs(rule, first)
        /\ \A t \in Int : t >= at /\ Occurs(rule, t) => first # None /\ first <= t
    BY <2>1, FirstRunIsFirst
  <2> HIDE DEF first
  <2> QED
    BY <2>1, <2>2, LeastIsFirstFrom DEF first
<1> QED
  BY <1>1, WalkTypes, PTL

(* Whatever instants near the reference are taken, the loop of an edit and   *)
(* of startup recovery ends within its bound at the first free occurrence.   *)
THEOREM SteppingAlwaysFindsUnused == Spec => []SteppingFindsUnused
<1>1. WalkTypeOK => SteppingFindsUnused
  <2> SUFFICES ASSUME WalkTypeOK, at # None
               PROVE  SteppingFindsUnused
    BY DEF SteppingFindsUnused
  <2> DEFINE last == at + 2 * Period(rule)
             near == {t \in at..last : Occurs(rule, t) \/ t = at}
  <2>1. at \in Int /\ rule \in Rules
    BY DEF WalkTypeOK
  <2>2. last \in Int
    <3>1. Period(rule) \in Int
      BY <2>1, RuleParts DEF Period
    <3> QED
      BY <2>1, <3>1
  <2>3. near \subseteq Int /\ IsFiniteSet(near)
    <3> HIDE DEF last
    <3>1. IsFiniteSet(at..last)
      BY <2>1, <2>2, FS_Interval
    <3>2. near \subseteq at..last /\ near \subseteq Int
      BY <2>1, <2>2
    <3> QED
      BY <3>1, <3>2, FS_Subset
  <2> HIDE DEF near
  <2>4. ASSUME NEW taken \in SUBSET near
        PROVE  /\ FirstUnused(rule, at, taken) = SteppedUnused(rule, at, taken)
               /\ FirstUnused(rule, at, taken) \notin taken
    <3>1. taken \in SUBSET Int /\ IsFiniteSet(taken)
      BY <2>3, FS_Subset
    <3> QED
      BY <2>1, <3>1, SteppingIsFirstUnused
  <2> QED
    BY <2>4 DEF SteppingFindsUnused, near
<1> QED
  BY <1>1, WalkTypes, PTL
=============================================================================
