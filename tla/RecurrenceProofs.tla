-------------------------- MODULE RecurrenceProofs --------------------------
(* The code's occurrence functions, for every calendar, rule and reference: *)
(* what they return is an occurrence, later than the reference, and the      *)
(* first such; they return nothing only where there is none.  The loops that *)
(* step over taken instants end at the first free occurrence.                *)
EXTENDS Recurrence, FiniteSetTheorems, WellFoundedInduction, TLAPS

-----------------------------------------------------------------------------
(* Division *)

LEMMA DivisionFacts ==
    ASSUME NEW t \in Int, NEW d \in Nat \ {0}
    PROVE  /\ t \div d \in Int /\ t % d \in 0..(d - 1)
           /\ t = (t \div d) * d + (t % d)
           /\ (t \div d) * d <= t /\ t < (t \div d) * d + d
OBVIOUS

(* Multiples of d are at least d apart. *)
LEMMA MultiplesApart ==
    ASSUME NEW k \in Int, NEW m \in Int, NEW d \in Nat \ {0}
    PROVE  /\ k * d \in Int
           /\ k < m => k * d + d <= m * d
           /\ k <= m => k * d <= m * d
<1>1. (m - k) * d = m * d - k * d /\ k * d \in Int /\ m * d \in Int
  OBVIOUS
<1>2. (m - k >= 1 => (m - k) * d >= d) /\ (m - k >= 0 => (m - k) * d >= 0)
  OBVIOUS
<1> QED
  BY <1>1, <1>2

(* A date and a time of the day determine an instant, and the other way. *)
LEMMA DivisionUnique ==
    ASSUME NEW k \in Int, NEW d \in Nat \ {0}, NEW l \in 0..(d - 1)
    PROVE  (k * d + l) \div d = k /\ (k * d + l) % d = l
<1> DEFINE t == k * d + l
           q == t \div d
           r == t % d
<1>1. t \in Int /\ l \in Int /\ 0 <= l /\ l < d
  OBVIOUS
<1>2. q \in Int /\ r \in Int /\ t = q * d + r /\ 0 <= r /\ r < d
  <2> HIDE DEF t
  <2> QED
    BY <1>1
<1>3. (k - q) * d = r - l
  <2>1. (k - q) * d = k * d - q * d
    BY <1>2
  <2>2. k * d + l = q * d + r
    BY <1>2
  <2> HIDE DEF q, r
  <2>3. k * d \in Int /\ q * d \in Int
    BY <1>2
  <2> QED
    BY <1>1, <1>2, <2>1, <2>2, <2>3
<1>4. k = q
  <2> HIDE DEF q, r
  <2>1. (k - q >= 1 => (k - q) * d >= d) /\ (k - q <= -1 => (k - q) * d <= -d)
    BY <1>2
  <2> QED
    BY <1>1, <1>2, <1>3, <2>1
<1>5. r = l
  <2> HIDE DEF q, r
  <2>1. (k - q) * d = 0
    BY <1>2, <1>4
  <2> QED
    BY <1>1, <1>2, <1>3, <2>1
<1> QED
  BY <1>4, <1>5

LEMMA DivisionMonotone ==
    ASSUME NEW t \in Int, NEW u \in Int, t <= u, NEW d \in Nat \ {0}
    PROVE  t \div d <= u \div d
<1> DEFINE k == t \div d
           m == u \div d
<1>1. k \in Int /\ m \in Int /\ k * d <= t /\ u < m * d + d
  BY DivisionFacts
<1> HIDE DEF k, m
<1>2. m < k => m * d + d <= k * d
  BY <1>1, MultiplesApart
<1>3. m * d \in Int /\ k * d \in Int
  BY <1>1
<1>4. k <= m
  BY <1>1, <1>2, <1>3
<1> QED
  BY <1>4 DEF k, m

(* The days the code adds lead to the weekday it wants. *)
LEMMA WeekdayReached ==
    ASSUME NEW date \in Int, NEW w \in Nat \ {0}, NEW wanted \in 0..(w - 1)
    PROVE  (date + ((wanted - (date % w)) % w)) % w = wanted
<1> DEFINE q == date \div w
           m == date % w
           x == wanted - m
           j == x \div w
           ahead == x % w
<1>1. q \in Int /\ m \in Int /\ date = q * w + m
  OBVIOUS
<1>2. x \in Int
  BY <1>1
<1>3. j \in Int /\ ahead \in Int /\ x = j * w + ahead
  <2> HIDE DEF x
  <2> QED
    BY <1>2
<1>4. date + ahead = (q - j) * w + wanted
  <2>1. q * w \in Int /\ j * w \in Int /\ (q - j) * w = q * w - j * w
    BY <1>1, <1>3
  <2>2. x = wanted - m
    OBVIOUS
  <2> HIDE DEF q, m, x, j, ahead
  <2> QED
    BY <1>1, <1>2, <1>3, <2>1, <2>2
<1>5. ((q - j) * w + wanted) % w = wanted
  <2>1. q - j \in Int
    BY <1>1, <1>3
  <2> HIDE DEF q, j
  <2> QED
    BY <2>1, DivisionUnique
<1> QED
  BY <1>4, <1>5

(* ... and to no later one than needed: a later date of that weekday is a    *)
(* whole number of weeks further on.                                         *)
LEMMA WeeksAhead ==
    ASSUME NEW date \in Int, NEW later \in Int, date <= later, NEW w \in Nat \ {0}
    PROVE  \E weeks \in Nat :
              later = date + (((later % w) - (date % w)) % w) + weeks * w
<1> DEFINE q == date \div w
           m == date % w
           p == later \div w
           n == later % w
           x == n - m
           j == x \div w
           ahead == x % w
           weeks == p - q + j
<1>1. /\ q \in Int /\ m \in Int /\ date = q * w + m
      /\ p \in Int /\ n \in Int /\ later = p * w + n
  BY DivisionFacts
<1>2. x \in Int
  BY <1>1
<1>3. j \in Int /\ ahead \in 0..(w - 1) /\ x = j * w + ahead
  <2> HIDE DEF x
  <2> QED
    BY <1>2, DivisionFacts
<1>4. weeks \in Int /\ weeks * w = p * w - q * w + j * w
  <2> HIDE DEF q, p, j
  <2> QED
    BY <1>1, <1>3
<1>5. later = date + ahead + weeks * w
  <2>1. x = n - m
    OBVIOUS
  <2>2. p * w \in Int /\ q * w \in Int /\ j * w \in Int
    BY <1>1, <1>3
  <2> HIDE DEF q, m, p, n, x, j, ahead, weeks
  <2> QED
    BY <1>1, <1>2, <1>3, <1>4, <2>1, <2>2
<1>6. weeks >= 0
  <2> HIDE DEF weeks, ahead
  <2>1. weeks <= -1 => weeks * w <= -w
    BY <1>4
  <2> QED
    BY <1>3, <1>4, <1>5, <2>1
<1>7. weeks \in Nat /\ later = date + (((later % w) - (date % w)) % w) + weeks * w
  <2>1. ahead = ((later % w) - (date % w)) % w
    OBVIOUS
  <2> HIDE DEF weeks, ahead
  <2> QED
    BY <1>4, <1>5, <1>6, <2>1
<1> HIDE DEF weeks
<1> QED
  BY <1>7

-----------------------------------------------------------------------------
(* Occurrences *)

LEMMA RuleParts ==
    ASSUME NEW rule \in Rules
    PROVE  /\ Day \in Nat \ {0} /\ Week \in Nat \ {0} /\ None \notin Int
           /\ rule.local \in 0..(Day - 1) /\ rule.local \in Nat
           /\ rule.weekday # None => rule.weekday \in 0..(Week - 1)
           /\ rule.end # None => rule.end \in Nat
<1>1. Day \in Nat \ {0} /\ Week \in Nat \ {0} /\ None \notin Int
  BY CalendarAssumption
<1>2. /\ rule.local \in 0..(Day - 1)
      /\ rule.weekday \in (0..(Week - 1)) \cup {None}
      /\ rule.end \in Nat \cup {None}
  BY DEF Rules
<1> QED
  BY <1>1, <1>2

LEMMA DateOf ==
    ASSUME NEW rule \in Rules, NEW date \in Int
    PROVE  /\ date * Day + rule.local \in Int
           /\ Date(date * Day + rule.local) = date
           /\ (date * Day + rule.local) % Day = rule.local
<1>1. Day \in Nat \ {0} /\ rule.local \in 0..(Day - 1) /\ rule.local \in Nat
  BY RuleParts
<1>2. date * Day \in Int /\ rule.local \in Int
  BY <1>1
<1>3. /\ (date * Day + rule.local) \div Day = date
      /\ (date * Day + rule.local) % Day = rule.local
  BY <1>1, DivisionUnique
<1>4. date * Day + rule.local \in Int
  BY <1>2
<1> QED
  BY <1>3, <1>4 DEF Date

LEMMA DatesOrdered ==
    ASSUME NEW t \in Int, NEW u \in Int, t <= u
    PROVE  Date(t) \in Int /\ Date(u) \in Int /\ Date(t) <= Date(u)
<1>1. Day \in Nat \ {0}
  BY CalendarAssumption
<1>2. t \div Day \in Int /\ u \div Day \in Int /\ t \div Day <= u \div Day
  BY <1>1, DivisionMonotone, DivisionFacts
<1> QED
  BY <1>2 DEF Date

LEMMA OccurrenceParts ==
    ASSUME NEW rule \in Rules, NEW t \in Int, Occurs(rule, t)
    PROVE  Date(t) \in Int /\ t = Date(t) * Day + rule.local
BY RuleParts, DivisionFacts DEF Occurs, Date

(* What both functions do with the candidate they found. *)
LEMMA CandidateIsFirst ==
    ASSUME NEW rule \in Rules, NEW at \in Int, NEW candidate \in Int,
           candidate > at, candidate % Day = rule.local,
           rule.weekday \in {None, Weekday(candidate)},
           \A t \in Int : t > at /\ Occurs(rule, t) => candidate <= t,
           NEW next, next = IF WithinEnd(rule, candidate) THEN candidate ELSE None
    PROVE  /\ next \in Int \cup {None}
           /\ next # None => next > at /\ Occurs(rule, next)
           /\ \A t \in Int : t > at /\ Occurs(rule, t)
                             => next # None /\ next <= t
<1>1. CASE WithinEnd(rule, candidate)
  BY <1>1, RuleParts DEF Occurs
<1>2. CASE ~WithinEnd(rule, candidate)
  <2>1. ASSUME NEW t \in Int, t > at, Occurs(rule, t)
        PROVE  FALSE
    <3>1. Date(candidate) <= Date(t) /\ Date(t) \in Int /\ Date(candidate) \in Int
      BY <2>1, DatesOrdered
    <3>2. rule.end \in Nat /\ Date(t) <= rule.end /\ ~(Date(candidate) <= rule.end)
      BY <1>2, <2>1, RuleParts DEF Occurs, WithinEnd
    <3> QED
      BY <3>1, <3>2
  <2> QED
    BY <1>2, <2>1
<1> QED
  BY <1>1, <1>2

LEMMA NextDailyIsFirst ==
    ASSUME NEW rule \in Rules, NEW at \in Int, rule.weekday = None,
           NEW next, next = NextDaily(rule, at)
    PROVE  /\ next \in Int \cup {None}
           /\ next # None => next > at /\ Occurs(rule, next)
           /\ \A t \in Int : t > at /\ Occurs(rule, t)
                             => next # None /\ next <= t
<1> DEFINE D == Date(at)
           today == D * Day + rule.local
           candidate == IF today <= at THEN today + Day ELSE today
<1>1. /\ Day \in Nat \ {0} /\ rule.local \in Nat /\ rule.local \in 0..(Day - 1)
  BY RuleParts
<1>2. D \in Int /\ D * Day <= at /\ at < D * Day + Day /\ D * Day \in Int
  BY <1>1, DivisionFacts, MultiplesApart DEF Date
<1> HIDE DEF D
<1>3. today \in Int /\ today % Day = rule.local
  BY <1>2, DateOf
<1>4. today + Day = (D + 1) * Day + rule.local
  BY <1>1, <1>2
<1>5. today + Day \in Int /\ (today + Day) % Day = rule.local
  <2>1. D + 1 \in Int
    BY <1>2
  <2>2. /\ (D + 1) * Day + rule.local \in Int
        /\ ((D + 1) * Day + rule.local) % Day = rule.local
    BY <2>1, DateOf
  <2> QED
    BY <1>4, <2>2
<1>6. candidate \in Int /\ candidate > at /\ candidate % Day = rule.local
  BY <1>1, <1>2, <1>3, <1>5
<1>7. ASSUME NEW t \in Int, t > at, Occurs(rule, t)
      PROVE  candidate <= t
  <2> DEFINE E == Date(t)
  <2>1. E \in Int /\ t = E * Day + rule.local
    BY <1>7, OccurrenceParts
  <2>2. D <= E
    BY <1>7, DatesOrdered DEF D
  <2> HIDE DEF E
  <2>3. E * Day \in Int /\ D * Day <= E * Day /\ (D < E => D * Day + Day <= E * Day)
    BY <1>1, <1>2, <2>1, <2>2, MultiplesApart
  <2>4. CASE D < E
    BY <1>1, <1>2, <2>1, <2>3, <2>4
  <2>5. CASE D = E
    BY <1>1, <1>2, <1>7, <2>1, <2>5
  <2> QED
    BY <1>2, <2>1, <2>2, <2>4, <2>5
<1>8. next = IF WithinEnd(rule, candidate) THEN candidate ELSE None
  BY DEF NextDaily, D
<1>9. rule.weekday \in {None, Weekday(candidate)}
  OBVIOUS
<1> HIDE DEF candidate
<1> QED
  BY <1>6, <1>7, <1>8, <1>9, CandidateIsFirst

LEMMA NextWeeklyIsFirst ==
    ASSUME NEW rule \in Rules, NEW at \in Int, rule.weekday # None,
           NEW next, next = NextWeekly(rule, at)
    PROVE  /\ next \in Int \cup {None}
           /\ next # None => next > at /\ Occurs(rule, next)
           /\ \A t \in Int : t > at /\ Occurs(rule, t)
                             => next # None /\ next <= t
<1> DEFINE D == Date(at)
           ahead == (rule.weekday - Weekday(at)) % Week
           F == D + ahead
           day == F * Day + rule.local
           candidate == IF day <= at THEN day + Week * Day ELSE day
<1>1. /\ Day \in Nat \ {0} /\ rule.local \in Nat /\ rule.local \in 0..(Day - 1)
      /\ Week \in Nat \ {0} /\ rule.weekday \in 0..(Week - 1)
  BY RuleParts
<1>2. D \in Int /\ D * Day <= at /\ at < D * Day + Day /\ D * Day \in Int
  BY <1>1, DivisionFacts, MultiplesApart DEF Date
<1>3. /\ Weekday(at) = D % Week
      /\ ahead = (rule.weekday - (D % Week)) % Week
  BY DEF Weekday
<1>4. ahead \in Nat /\ F % Week = rule.weekday
  <2> HIDE DEF D
  <2>1. rule.weekday - (D % Week) \in Int
    BY <1>1, <1>2
  <2> DEFINE x == rule.weekday - (D % Week)
  <2>2. ahead \in Nat
    <3>1. x \in Int /\ ahead = x % Week
      BY <1>3, <2>1
    <3> HIDE DEF x, ahead
    <3> QED
      BY <1>1, <3>1
  <2>3. (D + ((rule.weekday - (D % Week)) % Week)) % Week = rule.weekday
    BY <1>1, <1>2, WeekdayReached
  <2> QED
    BY <1>3, <2>2, <2>3
<1> HIDE DEF D, ahead
<1>5. F \in Int /\ D <= F
  BY <1>2, <1>4
<1>6. day \in Int /\ Date(day) = F /\ day % Day = rule.local
  BY <1>5, DateOf
<1>7. D * Day <= F * Day /\ F * Day \in Int
  BY <1>1, <1>2, <1>5, MultiplesApart
<1>8. day + Week * Day = (F + Week) * Day + rule.local /\ Week * Day >= Day /\ Week * Day \in Int
  BY <1>1, <1>5, <1>7
<1>9. /\ day + Week * Day \in Int /\ Date(day + Week * Day) = F + Week
      /\ (day + Week * Day) % Day = rule.local
  <2>1. F + Week \in Int
    BY <1>1, <1>5
  <2>2. /\ (F + Week) * Day + rule.local \in Int
        /\ Date((F + Week) * Day + rule.local) = F + Week
        /\ ((F + Week) * Day + rule.local) % Day = rule.local
    BY <2>1, DateOf
  <2> QED
    BY <1>8, <2>2
<1>10. (F + Week) % Week = rule.weekday
  <2>1. F = (F \div Week) * Week + rule.weekday /\ F \div Week \in Int
    BY <1>1, <1>4, <1>5, DivisionFacts
  <2> DEFINE k == F \div Week
  <2>2. k + 1 \in Int /\ F + Week = (k + 1) * Week + rule.weekday
    <3> HIDE DEF k, F
    <3>1. F = k * Week + rule.weekday /\ k \in Int
      BY <2>1 DEF k
    <3> QED
      BY <1>1, <3>1
  <2> HIDE DEF k, F
  <2>3. ((k + 1) * Week + rule.weekday) % Week = rule.weekday
    BY <1>1, <2>2, DivisionUnique
  <2> QED
    BY <2>2, <2>3
<1>11. /\ candidate \in Int /\ candidate > at /\ candidate % Day = rule.local
       /\ Weekday(candidate) = rule.weekday
  <2>1. candidate > at
    BY <1>1, <1>2, <1>6, <1>7, <1>8
  <2>2. CASE day <= at
    BY <1>9, <1>10, <2>1, <2>2 DEF Weekday
  <2>3. CASE ~(day <= at)
    BY <1>4, <1>6, <2>1, <2>3 DEF Weekday
  <2> QED
    BY <2>2, <2>3
<1>12. ASSUME NEW t \in Int, t > at, Occurs(rule, t)
       PROVE  candidate <= t
  <2> DEFINE E == Date(t)
  <2>1. E \in Int /\ t = E * Day + rule.local
    BY <1>12, OccurrenceParts
  <2>2. D <= E
    BY <1>12, DatesOrdered DEF D
  <2>3. E % Week = rule.weekday
    BY <1>12, RuleParts DEF Occurs, Weekday
  <2> HIDE DEF E
  <2>4. PICK weeks \in Nat : E = F + weeks * Week
    <3>1. \E weeks \in Nat :
             E = D + (((E % Week) - (D % Week)) % Week) + weeks * Week
      BY <1>1, <1>2, <2>1, <2>2, WeeksAhead, ZenonT(60)
    <3> QED
      BY <1>3, <2>3, <3>1
  <2> HIDE DEF F
  <2>5. weeks * Week \in Nat /\ (weeks >= 1 => weeks * Week >= Week)
    BY <1>1
  <2>6. CASE weeks = 0
    <3>1. E = F
      BY <1>1, <1>5, <2>4, <2>6
    <3> QED
      BY <1>6, <1>12, <2>1, <3>1
  <2>7. CASE weeks >= 1
    <3>1. F + Week <= E /\ F + Week \in Int
      BY <1>1, <1>5, <2>1, <2>4, <2>5, <2>7
    <3>2. (F + Week) * Day <= E * Day /\ (F + Week) * Day \in Int /\ E * Day \in Int
      BY <1>1, <2>1, <3>1, MultiplesApart
    <3>3. day + Week * Day <= t
      BY <1>1, <1>8, <2>1, <3>2
    <3> QED
      BY <1>1, <1>6, <1>8, <3>3
  <2> QED
    BY <2>6, <2>7
<1>13. next = IF WithinEnd(rule, candidate) THEN candidate ELSE None
  BY <1>3 DEF NextWeekly, D, ahead
<1>14. rule.weekday \in {None, Weekday(candidate)}
  BY <1>11
<1> HIDE DEF candidate
<1> QED
  BY <1>11, <1>12, <1>13, <1>14, CandidateIsFirst

(* For every calendar and rule, what recurring_next_run returns is the first *)
(* occurrence strictly after the reference, and it returns nothing only when *)
(* the end date leaves none.                                                 *)
THEOREM NextRunIsFirst ==
    ASSUME NEW rule \in Rules, NEW at \in Int
    PROVE  LET next == NextRun(rule, at) IN
           /\ next \in Int \cup {None}
           /\ next # None => next > at /\ Occurs(rule, next)
           /\ \A t \in Int : t > at /\ Occurs(rule, t)
                             => next # None /\ next <= t
<1>1. CASE rule.weekday = None
  BY <1>1, NextDailyIsFirst DEF NextRun
<1>2. CASE rule.weekday # None
  BY <1>2, NextWeeklyIsFirst DEF NextRun
<1> QED
  BY <1>1, <1>2

(* first_daily_run and first_weekly_run return the first occurrence at or    *)
(* after the boundary.                                                       *)
THEOREM FirstRunIsFirst ==
    ASSUME NEW rule \in Rules, NEW notBefore \in Int
    PROVE  LET first == FirstRun(rule, notBefore) IN
           /\ first \in Int \cup {None}
           /\ first # None => first >= notBefore /\ Occurs(rule, first)
           /\ \A t \in Int : t >= notBefore /\ Occurs(rule, t)
                             => first # None /\ first <= t
<1> DEFINE first == NextRun(rule, notBefore - 1)
<1>1. notBefore - 1 \in Int
  OBVIOUS
<1>2. /\ first \in Int \cup {None}
      /\ first # None => first > notBefore - 1 /\ Occurs(rule, first)
      /\ \A t \in Int : t > notBefore - 1 /\ Occurs(rule, t)
                        => first # None /\ first <= t
  BY <1>1, NextRunIsFirst
<1> HIDE DEF first
<1>3. /\ first # None => first >= notBefore
      /\ \A t \in Int : t >= notBefore => t > notBefore - 1
  BY <1>2
<1>4. first = FirstRun(rule, notBefore)
  BY DEF first, FirstRun
<1> QED
  BY <1>2, <1>3, <1>4

-----------------------------------------------------------------------------
(* Iteration.  The library's induction theorems take an operator, so the     *)
(* arguments below look at the least number that would be an exception.      *)

LEMMA LeastNumber ==
    ASSUME NEW T \in SUBSET Nat, T # {}
    PROVE  \E n \in T : \A m \in T : n <= m
<1> DEFINE R == OpToRel(<, Nat)
<1>1. IsWellFoundedOn(R, Nat)
  BY NatLessThanWellFounded
<1>2. PICK n \in T : \A m \in T : <<m, n>> \notin R
  <2> HIDE DEF R
  <2> QED
    BY <1>1, WFMin
<1>3. \A m \in T : ~(m < n)
  BY <1>2 DEF OpToRel
<1> HIDE DEF R
<1> QED
  BY <1>3

(* A set of numbers with 0 that is closed under successors holds them all. *)
LEMMA NoLeastException ==
    ASSUME NEW H \in SUBSET Nat, 0 \in H, \A n \in H : n + 1 \in H
    PROVE  H = Nat
<1>1. SUFFICES ASSUME Nat \ H # {} PROVE FALSE
  OBVIOUS
<1>2. PICK n \in Nat \ H : \A m \in Nat \ H : n <= m
  BY <1>1, LeastNumber
<1>3. n # 0 /\ n - 1 \in Nat /\ ~(n <= n - 1)
  BY <1>2
<1>4. n - 1 \in H /\ (n - 1) + 1 = n
  BY <1>2, <1>3
<1> QED
  BY <1>2, <1>4

Iterates(s, n, g, a) == s[0] = a /\ \A k \in 1..n : s[k] = g[s[k - 1]]

LEMMA IterationExists ==
    ASSUME NEW S, NEW g \in [S -> S], NEW a \in S, NEW N \in Nat
    PROVE  \E s \in [0..N -> S] : Iterates(s, N, g, a)
<1> DEFINE H == {n \in Nat : \E s \in [0..n -> S] : Iterates(s, n, g, a)}
<1>1. 0 \in H
  <2> DEFINE s == [k \in 0..0 |-> a]
  <2>1. s \in [0..0 -> S] /\ Iterates(s, 0, g, a)
    BY DEF Iterates
  <2> QED
    BY <2>1
<1>2. ASSUME NEW n \in H
      PROVE  n + 1 \in H
  <2>1. PICK s \in [0..n -> S] : Iterates(s, n, g, a)
    OBVIOUS
  <2> DEFINE t == [k \in 0..(n + 1) |-> IF k = n + 1 THEN g[s[n]] ELSE s[k]]
  <2>2. n \in Nat /\ n + 1 \in Nat /\ n \in 0..n /\ s[n] \in S
    OBVIOUS
  <2>3. t \in [0..(n + 1) -> S]
    <3>1. \A k \in 0..(n + 1) : k # n + 1 => k \in 0..n
      BY <2>2
    <3> QED
      BY <2>2, <3>1
  <2>4. t[0] = a
    <3>1. 0 \in 0..(n + 1) /\ 0 # n + 1
      BY <2>2
    <3> QED
      BY <2>1, <3>1 DEF Iterates
  <2>5. ASSUME NEW k \in 1..(n + 1)
        PROVE  t[k] = g[t[k - 1]]
    <3>1. k \in 0..(n + 1) /\ k - 1 \in 0..(n + 1) /\ k - 1 # n + 1
      BY <2>2
    <3>2. t[k - 1] = s[k - 1]
      BY <3>1
    <3>3. CASE k = n + 1
      <4>1. k - 1 = n
        BY <2>2, <3>3
      <4> QED
        BY <3>1, <3>2, <3>3, <4>1
    <3>4. CASE k # n + 1
      <4>1. k \in 1..n
        BY <2>2, <3>4
      <4> QED
        BY <2>1, <3>1, <3>2, <3>4, <4>1 DEF Iterates
    <3> QED
      BY <3>3, <3>4
  <2> HIDE DEF t
  <2>6. Iterates(t, n + 1, g, a)
    BY <2>4, <2>5 DEF Iterates
  <2> QED
    BY <2>2, <2>3, <2>6
<1>3. H = Nat
  <2> HIDE DEF H
  <2>1. H \in SUBSET Nat
    BY DEF H
  <2> QED
    BY <1>1, <1>2, <2>1, NoLeastException
<1> QED
  BY <1>3

-----------------------------------------------------------------------------
(* The loops that look for an unused occurrence *)

(* An end date leaves no gap: what occurs also occurred a period before. *)
LEMMA OccursBefore ==
    ASSUME NEW rule \in Rules, NEW t \in Int, Occurs(rule, t)
    PROVE  /\ Period(rule) \in Nat \ {0} /\ t - Period(rule) \in Int
           /\ Occurs(rule, t - Period(rule))
<1>1. /\ Day \in Nat \ {0} /\ Week \in Nat \ {0}
      /\ rule.local \in 0..(Day - 1) /\ rule.local \in Nat
      /\ rule.end # None => rule.end \in Nat
  BY RuleParts
<1> DEFINE D == Date(t)
<1>2. D \in Int /\ t = D * Day + rule.local
  BY OccurrenceParts
<1>3. (rule.end # None => D <= rule.end) /\ rule.weekday \in {None, D % Week}
  BY DEF Occurs, WithinEnd, Weekday
<1> HIDE DEF D
<1>4. CASE rule.weekday = None
  <2>1. Period(rule) = Day /\ D - 1 \in Int /\ t - Day = (D - 1) * Day + rule.local
    BY <1>1, <1>2, <1>4 DEF Period
  <2>2. /\ Date(t - Day) = D - 1 /\ (t - Day) % Day = rule.local
        /\ t - Day \in Int
    BY <2>1, DateOf
  <2>3. rule.end # None => D - 1 <= rule.end
    BY <1>1, <1>2, <1>3
  <2> QED
    BY <1>1, <1>4, <2>1, <2>2, <2>3 DEF Occurs, WithinEnd
<1>5. CASE rule.weekday # None
  <2> DEFINE E == D - Week
  <2>1. Period(rule) = Week * Day
    BY <1>5 DEF Period
  <2>2. E \in Int /\ Week * Day \in Nat \ {0} /\ E * Day = D * Day - Week * Day
    BY <1>1, <1>2
  <2>3. t - Period(rule) = E * Day + rule.local
    <3>1. D * Day \in Int /\ Week * Day \in Int
      BY <1>1, <1>2
    <3> HIDE DEF E
    <3> QED
      BY <1>1, <1>2, <2>1, <2>2, <3>1
  <2>4. E % Week = D % Week
    <3> DEFINE q == D \div Week
               r == D % Week
    <3>1. q \in Int /\ r \in 0..(Week - 1) /\ D = q * Week + r
      BY <1>1, <1>2, DivisionFacts
    <3> HIDE DEF q, r
    <3>2. q - 1 \in Int /\ E = (q - 1) * Week + r
      BY <1>1, <3>1
    <3>3. ((q - 1) * Week + r) % Week = r
      BY <1>1, <3>1, <3>2, DivisionUnique
    <3> QED
      BY <3>2, <3>3 DEF r
  <2>5. rule.end # None => E <= rule.end
    BY <1>1, <1>2, <1>3
  <2> HIDE DEF E
  <2>6. /\ Date(t - Period(rule)) = E /\ (t - Period(rule)) % Day = rule.local
        /\ t - Period(rule) \in Int
    BY <2>2, <2>3, DateOf
  <2> QED
    BY <1>3, <1>5, <2>1, <2>2, <2>4, <2>5, <2>6 DEF Occurs, WithinEnd, Weekday
<1> QED
  BY <1>4, <1>5

LEMMA NextWithinPeriod ==
    ASSUME NEW rule \in Rules, NEW at \in Int, NextRun(rule, at) # None
    PROVE  NextRun(rule, at) <= at + Period(rule)
<1> DEFINE next == NextRun(rule, at)
           before == next - Period(rule)
<1>1. /\ next \in Int /\ next > at /\ Occurs(rule, next)
      /\ \A t \in Int : t > at /\ Occurs(rule, t) => next <= t
  BY NextRunIsFirst
<1> HIDE DEF next
<1>2. before \in Int /\ Occurs(rule, before) /\ Period(rule) \in Nat \ {0}
  BY <1>1, OccursBefore
<1>3. ~(before > at)
  BY <1>1, <1>2
<1> QED
  BY <1>1, <1>2, <1>3 DEF next

(* After n steps: no unused occurrence was passed, and all instants taken so *)
(* far are behind or at the one reached.                                     *)
Reached(rule, from, taken, n, x) ==
    /\ x # None => /\ from <= x /\ Occurs(rule, x)
                   /\ x <= from + Period(rule) * (n + 1)
    /\ \A t \in Int : /\ t >= from /\ Occurs(rule, t)
                      /\ x # None => t < x
                      => t \in taken
    /\ x \in taken => Cardinality({t \in taken : t <= x}) >= n + 1

Step(rule, taken, x) == IF x \notin taken THEN x ELSE NextRun(rule, x)

LEMMA ReachedFirst ==
    ASSUME NEW rule \in Rules, NEW from \in Int,
           NEW taken \in SUBSET Int, IsFiniteSet(taken)
    PROVE  Reached(rule, from, taken, 0, FirstRun(rule, from))
<1> DEFINE x == FirstRun(rule, from)
           behind == {t \in taken : t <= x}
<1>1. /\ x \in Int \cup {None}
      /\ x # None => x >= from /\ Occurs(rule, x)
      /\ \A t \in Int : t >= from /\ Occurs(rule, t) => x # None /\ x <= t
  BY FirstRunIsFirst
<1>2. None \notin Int
  BY CalendarAssumption
<1>3. ASSUME x # None
      PROVE  x <= from + Period(rule) * (0 + 1)
  <2>1. x = NextRun(rule, from - 1) /\ from - 1 \in Int
    BY DEF FirstRun
  <2>2. x <= (from - 1) + Period(rule)
    BY <1>3, <2>1, NextWithinPeriod
  <2>3. Period(rule) \in Nat \ {0}
    BY <1>1, <1>3, OccursBefore
  <2> HIDE DEF x
  <2> QED
    BY <1>1, <1>3, <2>2, <2>3
<1>4. ASSUME x \in taken
      PROVE  Cardinality(behind) >= 0 + 1
  <2>1. IsFiniteSet(behind) /\ x \in behind
    <3>1. behind \subseteq taken /\ x \in Int
      BY <1>4
    <3>2. IsFiniteSet(behind)
      BY <3>1, FS_Subset
    <3> HIDE DEF x
    <3> QED
      BY <1>4, <3>1, <3>2
  <2> HIDE DEF behind
  <2>2. Cardinality(behind) \in Nat /\ Cardinality(behind) # 0
    BY <2>1, FS_CardinalityType, FS_EmptySet
  <2> QED
    BY <2>2
<1> HIDE DEF x
<1>5. \A t \in Int : t >= from /\ Occurs(rule, t) /\ (x # None => t < x) => FALSE
  BY <1>1, <1>2
<1> QED
  BY <1>1, <1>3, <1>4, <1>5 DEF Reached, x

LEMMA ReachedNext ==
    ASSUME NEW rule \in Rules, NEW from \in Int,
           NEW taken \in SUBSET Int, IsFiniteSet(taken),
           NEW n \in Nat, NEW x \in Int \cup {None},
           Reached(rule, from, taken, n, x)
    PROVE  Reached(rule, from, taken, n + 1, Step(rule, taken, x))
<1>0. None \notin Int
  BY CalendarAssumption
<1>1. CASE x \notin taken
  <2>1. Step(rule, taken, x) = x
    BY <1>1 DEF Step
  <2>2. ASSUME x # None
        PROVE  x <= from + Period(rule) * ((n + 1) + 1)
    <3> DEFINE p == Period(rule)
    <3>1. x \in Int /\ Occurs(rule, x) /\ x <= from + p * (n + 1)
      BY <2>2 DEF Reached
    <3>2. p \in Nat \ {0}
      BY <3>1, OccursBefore
    <3> HIDE DEF p
    <3>3. p * ((n + 1) + 1) = p * (n + 1) + p /\ p * (n + 1) \in Int
      BY <3>2
    <3> QED
      BY <3>1, <3>2, <3>3 DEF p
  <2> QED
    BY <1>1, <2>1, <2>2 DEF Reached
<1>2. CASE x \in taken
  <2> DEFINE y == NextRun(rule, x)
             behind == {t \in taken : t <= x}
             behindNext == {t \in taken : t <= y}
  <2>1. x \in Int /\ x # None /\ Step(rule, taken, x) = y
    BY <1>0, <1>2 DEF Step
  <2>2. /\ from <= x /\ Occurs(rule, x) /\ x <= from + Period(rule) * (n + 1)
        /\ \A t \in Int : t >= from /\ Occurs(rule, t) /\ t < x => t \in taken
        /\ Cardinality(behind) >= n + 1
    BY <1>2, <2>1 DEF Reached
  <2>3. /\ y \in Int \cup {None}
        /\ y # None => y > x /\ Occurs(rule, y)
        /\ \A t \in Int : t > x /\ Occurs(rule, t) => y # None /\ y <= t
    BY <2>1, NextRunIsFirst
  <2>4. y # None => y <= x + Period(rule)
    BY <2>1, NextWithinPeriod
  <2> HIDE DEF y
  <2>5. ASSUME y # None
        PROVE  from <= y /\ y <= from + Period(rule) * ((n + 1) + 1)
    <3> DEFINE p == Period(rule)
    <3>1. p \in Nat \ {0}
      BY <2>1, <2>2, OccursBefore
    <3>2. x <= from + p * (n + 1) /\ y <= x + p /\ y > x /\ from <= x
      BY <2>2, <2>3, <2>4, <2>5
    <3> HIDE DEF p
    <3>3. p * ((n + 1) + 1) = p * (n + 1) + p /\ p * (n + 1) \in Int
      BY <3>1
    <3>4. y \in Int
      BY <2>3, <2>5
    <3> QED
      BY <2>1, <3>1, <3>2, <3>3, <3>4 DEF p
  <2>6. ASSUME NEW t \in Int, t >= from, Occurs(rule, t), y # None => t < y
        PROVE  t \in taken
    <3>1. CASE t < x
      BY <2>2, <2>6, <3>1
    <3>2. CASE t = x
      BY <1>2, <3>2
    <3>3. CASE t > x
      BY <2>3, <2>6, <3>3
    <3> QED
      BY <2>1, <3>1, <3>2, <3>3
  <2>7. ASSUME y \in taken
        PROVE  Cardinality(behindNext) >= (n + 1) + 1
    <3>1. y \in Int /\ y > x
      BY <1>0, <2>3, <2>7
    <3>2. behind \subseteq taken /\ behindNext \subseteq taken
      OBVIOUS
    <3>3. IsFiniteSet(behind) /\ IsFiniteSet(behindNext)
      BY <3>2, FS_Subset
    <3>4. y \notin behind /\ behind \cup {y} \subseteq behindNext
      <4>1. \A t \in behind : t \in taken /\ t \in Int /\ t <= x
        OBVIOUS
      <4>2. (\A t \in behind : t <= y /\ t # y) /\ y <= y
        BY <2>1, <3>1, <4>1
      <4> HIDE DEF behind
      <4>3. \A t \in behind : t \in behindNext
        BY <4>1, <4>2
      <4>4. y \in behindNext
        BY <2>7, <4>2
      <4> QED
        BY <4>2, <4>3, <4>4
    <3> HIDE DEF behind, behindNext
    <3>5. /\ Cardinality(behind \cup {y}) = Cardinality(behind) + 1
          /\ Cardinality(behind) \in Nat /\ Cardinality(behindNext) \in Nat
      BY <3>3, <3>4, FS_AddElement, FS_CardinalityType
    <3>6. Cardinality(behind \cup {y}) <= Cardinality(behindNext)
      BY <3>3, <3>4, FS_Subset
    <3> QED
      BY <2>2, <3>5, <3>6
  <2> QED
    BY <2>1, <2>3, <2>5, <2>6, <2>7 DEF Reached
<1> QED
  BY <1>1, <1>2

(* The sequence of instants that the loop goes through. *)
LEMMA StepsReach ==
    ASSUME NEW rule \in Rules, NEW from \in Int,
           NEW taken \in SUBSET Int, IsFiniteSet(taken),
           NEW N \in Nat, NEW s \in [0..N -> Int \cup {None}],
           s[0] = FirstRun(rule, from),
           \A k \in 1..N : s[k] = Step(rule, taken, s[k - 1])
    PROVE  Reached(rule, from, taken, N, s[N])
<1> DEFINE H == {n \in Nat : n <= N => Reached(rule, from, taken, n, s[n])}
<1>1. 0 \in H
  BY ReachedFirst
<1>2. ASSUME NEW n \in H, n + 1 <= N
      PROVE  Reached(rule, from, taken, n + 1, s[n + 1])
  <2>1. n \in Nat /\ n \in 0..N /\ n + 1 \in 1..N /\ (n + 1) - 1 = n
    BY <1>2
  <2>2. Reached(rule, from, taken, n, s[n]) /\ s[n] \in Int \cup {None}
    BY <2>1
  <2>3. s[n + 1] = Step(rule, taken, s[n])
    BY <2>1
  <2> HIDE DEF H
  <2> QED
    BY <2>1, <2>2, <2>3, ReachedNext
<1>3. H = Nat
  <2>1. H \in SUBSET Nat /\ \A n \in H : n + 1 \in H
    BY <1>2
  <2> HIDE DEF H
  <2> QED
    BY <1>1, <2>1, NoLeastException
<1> QED
  BY <1>3

(* The recursive function of SteppedUnused is well defined. *)
LEMMA StepsExist ==
    ASSUME NEW rule \in Rules, NEW from \in Int,
           NEW taken \in SUBSET Int, IsFiniteSet(taken)
    PROVE  \E s \in [0..Cardinality(taken) -> Int \cup {None}] :
              /\ s[0] = FirstRun(rule, from)
              /\ \A k \in 1..Cardinality(taken) : s[k] = Step(rule, taken, s[k - 1])
              /\ SteppedUnused(rule, from, taken) = s[Cardinality(taken)]
<1> DEFINE N == Cardinality(taken)
           S == Int \cup {None}
           first == FirstRun(rule, from)
           g == [x \in S |-> Step(rule, taken, x)]
           Body(s) == [n \in 0..N |-> IF n = 0 THEN FirstRun(rule, from)
                                      ELSE IF s[n - 1] \notin taken THEN s[n - 1]
                                      ELSE NextRun(rule, s[n - 1])]
           step == CHOOSE s : s = Body(s)
<1>1. N \in Nat
  BY FS_CardinalityType
<1>2. first \in S
  BY FirstRunIsFirst
<1>3. g \in [S -> S]
  <2>1. ASSUME NEW x \in S
        PROVE  Step(rule, taken, x) \in S
    <3>1. CASE x \in taken
      BY <3>1, NextRunIsFirst DEF Step
    <3>2. CASE x \notin taken
      BY <3>2 DEF Step
    <3> QED
      BY <3>1, <3>2
  <2> QED
    BY <2>1
<1>4. SteppedUnused(rule, from, taken) = step[N]
  BY DEF SteppedUnused
<1> HIDE DEF N, g, first
<1>5. PICK s \in [0..N -> S] : Iterates(s, N, g, first)
  <2> HIDE DEF S
  <2> QED
    BY <1>1, <1>2, <1>3, IterationExists
<1>6. s = Body(s)
  <2>1. ASSUME NEW n \in 0..N
        PROVE  s[n] = IF n = 0 THEN FirstRun(rule, from)
                      ELSE IF s[n - 1] \notin taken THEN s[n - 1]
                      ELSE NextRun(rule, s[n - 1])
    <3>1. CASE n = 0
      BY <1>5, <3>1 DEF Iterates, first
    <3>2. CASE n # 0
      <4>1. n \in 1..N /\ n - 1 \in 0..N
        BY <1>1, <3>2
      <4>2. s[n] = g[s[n - 1]] /\ s[n - 1] \in S
        BY <1>5, <4>1 DEF Iterates
      <4> QED
        BY <3>2, <4>2 DEF g, Step
    <3> QED
      BY <3>1, <3>2
  <2> QED
    BY <1>5, <2>1
<1>7. step = Body(step)
  BY <1>6
<1> HIDE DEF step
<1>8. step[0] = first
  BY <1>1, <1>7 DEF first
<1>9. ASSUME NEW k \in 1..N
      PROVE  step[k] = Step(rule, taken, step[k - 1])
  <2>1. k \in 0..N /\ k # 0
    BY <1>1
  <2> QED
    BY <1>7, <2>1 DEF Step
<1>10. step \in [0..N -> S]
  <2> DEFINE H == {n \in Nat : n <= N => step[n] \in S}
  <2>1. 0 \in H
    BY <1>2, <1>8
  <2>2. ASSUME NEW n \in H
        PROVE  n + 1 \in H
    <3>1. CASE n + 1 <= N
      <4>1. n \in Nat /\ n <= N /\ n + 1 \in 1..N /\ (n + 1) - 1 = n
        BY <1>1, <3>1
      <4>2. step[n + 1] = Step(rule, taken, step[n]) /\ step[n] \in S
        BY <1>9, <4>1
      <4>3. g[step[n]] \in S /\ g[step[n]] = Step(rule, taken, step[n])
        BY <1>3, <4>2 DEF g
      <4> QED
        BY <4>1, <4>2, <4>3
    <3>2. CASE ~(n + 1 <= N)
      BY <3>2
    <3> QED
      BY <3>1, <3>2
  <2>3. H = Nat
    <3>1. H \in SUBSET Nat
      OBVIOUS
    <3> HIDE DEF H
    <3> QED
      BY <2>1, <2>2, <3>1, NoLeastException
  <2>4. \A n \in 0..N : step[n] \in S
    BY <1>1, <2>3
  <2> QED
    BY <1>7, <2>4
<1> QED
  BY <1>4, <1>8, <1>9, <1>10 DEF N, first

(* The loops of an edit and of startup recovery, which step from occurrence  *)
(* to occurrence, end within as many steps as instants are taken, at the     *)
(* first free occurrence, or with nothing only where the rule has ended      *)
(* before any is free; and that is the instant FirstUnused defines.          *)
THEOREM SteppingIsFirstUnused ==
    ASSUME NEW rule \in Rules, NEW from \in Int,
           NEW taken \in SUBSET Int, IsFiniteSet(taken)
    PROVE  LET found == SteppedUnused(rule, from, taken) IN
           /\ found = FirstUnused(rule, from, taken)
           /\ found \in Int \cup {None} /\ found \notin taken
           /\ found # None => found >= from /\ Occurs(rule, found)
           /\ \A t \in Int : t >= from /\ Occurs(rule, t) /\ t \notin taken
                             => found # None /\ found <= t
<1> DEFINE N == Cardinality(taken)
           found == SteppedUnused(rule, from, taken)
           last == from + Period(rule) * (N + 1)
           free == {t \in from..last : Occurs(rule, t) /\ t \notin taken}
<1>1. N \in Nat /\ None \notin Int
  BY FS_CardinalityType, CalendarAssumption
<1>2. found \in Int \cup {None} /\ Reached(rule, from, taken, N, found)
  <2>1. PICK s \in [0..N -> Int \cup {None}] :
           /\ s[0] = FirstRun(rule, from)
           /\ \A k \in 1..N : s[k] = Step(rule, taken, s[k - 1])
           /\ found = s[N]
    BY StepsExist
  <2>2. N \in 0..N
    BY <1>1
  <2> HIDE DEF N, found
  <2>3. Reached(rule, from, taken, N, s[N])
    BY <1>1, <2>1, StepsReach
  <2> QED
    BY <2>1, <2>2, <2>3
<1>3. found \notin taken
  <2>1. SUFFICES ASSUME found \in taken PROVE FALSE
    OBVIOUS
  <2> DEFINE behind == {t \in taken : t <= found}
  <2>2. Cardinality(behind) >= N + 1
    BY <1>2, <2>1 DEF Reached
  <2>3. behind \subseteq taken
    OBVIOUS
  <2> HIDE DEF behind, found
  <2>4. Cardinality(behind) \in Nat /\ Cardinality(behind) <= N
    BY <2>3, FS_Subset, FS_CardinalityType
  <2> HIDE DEF N
  <2> QED
    BY <1>1, <2>2, <2>4
<1> HIDE DEF found, N
<1>4. /\ found # None => found >= from /\ Occurs(rule, found) /\ found <= last
      /\ \A t \in Int : /\ t >= from /\ Occurs(rule, t)
                        /\ found # None => t < found
                        => t \in taken
  BY <1>2 DEF Reached
<1>5. ASSUME NEW t \in Int, t >= from, Occurs(rule, t), t \notin taken
      PROVE  found # None /\ found <= t
  BY <1>2, <1>4, <1>5
<1>6. FirstUnused(rule, from, taken) = Least(free)
  BY DEF FirstUnused, N
<1>7. found = Least(free)
  <2>1. CASE found = None
    <3>1. free = {}
      <4>1. ASSUME NEW t \in free
            PROVE  FALSE
        <5>1. t \in from..last /\ Occurs(rule, t) /\ t \notin taken
          OBVIOUS
        <5>2. t \in Int /\ t >= from
          BY <5>1
        <5> QED
          BY <1>5, <2>1, <5>1, <5>2
      <4> QED
        BY <4>1
    <3> QED
      BY <2>1, <3>1 DEF Least
  <2>2. CASE found # None
    <3>1. Period(rule) \in Nat \ {0} /\ found \in Int
      BY <1>2, <1>4, <2>2, OccursBefore
    <3>2. last \in Int
      BY <1>1, <3>1
    <3> HIDE DEF last
    <3>3. found \in free
      BY <1>3, <1>4, <2>2, <3>1, <3>2
    <3>4. \A t \in free : t \in Int /\ found <= t
      BY <1>5, <3>2
    <3> HIDE DEF free
    <3>5. IsLeast(found, free)
      BY <3>3, <3>4 DEF IsLeast
    <3>6. \A t \in free : IsLeast(t, free) => t = found
      BY <3>1, <3>3, <3>4 DEF IsLeast
    <3> QED
      BY <3>3, <3>5, <3>6 DEF Least
  <2> QED
    BY <2>1, <2>2
<1> QED
  BY <1>2, <1>3, <1>4, <1>5, <1>6, <1>7 DEF found
=============================================================================
