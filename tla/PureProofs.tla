------------------------------ MODULE PureProofs ------------------------------
(***************************************************************************)
(* What two of the functions that only work on their arguments come to,    *)
(* for any arguments: the days and stretches of period.ts, whatever the    *)
(* zone, the months and the hour, and the pick of allocateFefo, whatever   *)
(* the lots, the dates and the balances.                                   *)
(***************************************************************************)
EXTENDS Periods, Fefo, SumLemmas, FiniteSetTheorems, TLAPS

-----------------------------------------------------------------------------
(* The days of period.ts. *)

LEMMA DaysOnDays ==
  /\ DayHours \in Nat \ {0}
  /\ \A a \in Int : a * DayHours \in Int /\ (a + 1) * DayHours = a * DayHours + DayHours
  /\ \A a, b \in Int : a < b => a * DayHours + DayHours <= b * DayHours
<1>1. DayHours \in Nat \ {0}
  BY PeriodsAssumption
<1>2. \A a \in Int : a * DayHours \in Int /\ (a + 1) * DayHours = a * DayHours + DayHours
  BY ONLY <1>1
<1>3. ASSUME NEW a \in Int, NEW b \in Int, a < b PROVE a * DayHours + DayHours <= b * DayHours
  <2>1. b - (a + 1) \in Nat
    BY ONLY <1>3
  <2>2. (b - (a + 1)) * DayHours >= 0
    BY ONLY <1>1, <2>1
  <2>3. (b - (a + 1)) * DayHours = b * DayHours - (a + 1) * DayHours
    BY ONLY <1>1
  <2>4. QED
    BY ONLY <1>1, <1>2, <2>2, <2>3
<1>4. QED
  BY <1>1, <1>2, <1>3

LEMMA DayOfReading ==
  ASSUME NEW x \in Int
  PROVE  /\ x \div DayHours \in Int /\ x % DayHours \in 0..(DayHours - 1)
         /\ x = (x \div DayHours) * DayHours + (x % DayHours)
         /\ \A d \in Int : x \div DayHours = d <=> d * DayHours <= x /\ x < d * DayHours + DayHours
         /\ \A d \in Int : d <= x \div DayHours <=> d * DayHours <= x
<1>1. DayHours \in Nat \ {0}
  BY PeriodsAssumption
<1> DEFINE q == x \div DayHours
           r == x % DayHours
<1>2. q \in Int /\ r \in 0..(DayHours - 1) /\ x = q * DayHours + r
  BY ONLY <1>1, x \in Int
<1> HIDE DEF q, r
<1>3. \A d \in Int : q = d <=> d * DayHours <= x /\ x < d * DayHours + DayHours
  <2> SUFFICES ASSUME NEW d \in Int PROVE q = d <=> d * DayHours <= x /\ x < d * DayHours + DayHours
    OBVIOUS
  <2>1. q < d => q * DayHours + DayHours <= d * DayHours
    BY <1>2, DaysOnDays
  <2>2. d < q => d * DayHours + DayHours <= q * DayHours
    BY <1>2, DaysOnDays
  <2>3. q * DayHours \in Int /\ d * DayHours \in Int
    BY <1>2, DaysOnDays
  <2>4. QED
    BY ONLY <1>1, <1>2, <2>1, <2>2, <2>3, d \in Int, x \in Int
<1>4. \A d \in Int : d <= q <=> d * DayHours <= x
  <2> SUFFICES ASSUME NEW d \in Int PROVE d <= q <=> d * DayHours <= x
    OBVIOUS
  <2>1. q < d => q * DayHours + DayHours <= d * DayHours
    BY <1>2, DaysOnDays
  <2>2. d < q => d * DayHours + DayHours <= q * DayHours
    BY <1>2, DaysOnDays
  <2>3. q * DayHours \in Int /\ d * DayHours \in Int
    BY <1>2, DaysOnDays
  <2>4. QED
    BY ONLY <1>1, <1>2, <2>1, <2>2, <2>3, d \in Int, x \in Int
<1>5. QED
  BY <1>2, <1>3, <1>4 DEF q, r

\* Where in the zone's time an instant is.
LEMMA ZoneIs ==
  ASSUME PeriodsTypeOK
  PROVE  /\ zone.before \in Int /\ zone.after \in Int /\ zone.moves \in Int
         /\ -DayHours < zone.before /\ zone.before < DayHours
         /\ -DayHours < zone.after /\ zone.after < DayHours
         /\ zone.after - zone.before <= DayHours /\ zone.before - zone.after <= DayHours
         /\ \A t \in Int : Offset(t) \in Int /\ Reading(t) \in Int
<1>1. zone \in Zones
  BY DEF PeriodsTypeOK
<1>2. zone.before \in Int /\ zone.after \in Int /\ zone.moves \in Int
  BY <1>1, PeriodsAssumption
<1>3. -DayHours < zone.before /\ zone.before < DayHours /\ -DayHours < zone.after /\ zone.after < DayHours
  BY <1>1, PeriodsAssumption
<1>4. zone.after - zone.before \in -DayHours..DayHours /\ DayHours \in Nat
  BY <1>1, PeriodsAssumption
<1>5. zone.after - zone.before <= DayHours /\ zone.before - zone.after <= DayHours
  BY <1>2, <1>4
<1>6. \A t \in Int : Offset(t) \in Int /\ Reading(t) \in Int
  BY <1>2 DEF Offset, Reading
<1>7. QED
  BY <1>2, <1>3, <1>5, <1>6

\* Where a day's midnight comes once, zonedStartOfDay finds it, and the clock reads the day
\* or later from there on and never before.
LEMMA MidnightIsFound ==
  ASSUME PeriodsTypeOK, NEW d \in Int, PlainMidnight(d)
  PROVE  /\ StartOfLocalDay(d) \in Int /\ Reading(StartOfLocalDay(d)) = d * DayHours
         /\ \A t \in Int : StartOfLocalDay(d) <= t <=> d * DayHours <= Reading(t)
<1> DEFINE x == d * DayHours
           W == (d * DayHours - DayHours)..(d * DayHours + DayHours)
           M == {t \in W : Reading(t) = d * DayHours}
           a == zone.before
           b == zone.after
           v == zone.moves
           from == StartOfLocalDay(d)
<1>1. x \in Int /\ DayHours \in Nat /\ a \in Int /\ b \in Int /\ v \in Int
  BY DaysOnDays, ZoneIs
<1>2. -DayHours < a /\ a < DayHours /\ -DayHours < b /\ b < DayHours
  BY ZoneIs
<1>3. PICK m : M = {m}
  <2>1. x - DayHours \in Int /\ x + DayHours \in Int
    BY ONLY <1>1
  <2>2. IsFiniteSet(W)
    BY ONLY <2>1, FS_Interval
  <2>3. IsFiniteSet(M) /\ Cardinality(M) = 1
    BY <2>2, FS_Subset DEF PlainMidnight
  <2>4. QED
    BY ONLY <2>3, FS_Singleton
<1>4. \A t \in Int : Reading(t) = IF t < v THEN t + a ELSE t + b
  BY DEF Reading, Offset
<1>5. from = IF (IF x < v THEN x - a ELSE x - b) < v THEN x - a ELSE x - b
  BY DEF StartOfLocalDay, Offset
<1>6. m \in W /\ Reading(m) = x /\ \A t \in W : Reading(t) = x => t = m
  BY <1>3
<1>7. W = (x - DayHours)..(x + DayHours)
  OBVIOUS
<1> HIDE DEF x, W, M, a, b, v, from
<1>8. m \in Int /\ ((m = x - a /\ m < v) \/ (m = x - b /\ ~(m < v)))
  BY ONLY <1>1, <1>4, <1>6, <1>7
<1>9. (x - a < v => x - a = m) /\ (~(x - b < v) => x - b = m)
  <2>1. x - a \in W /\ x - b \in W /\ x - a \in Int /\ x - b \in Int
    BY ONLY <1>1, <1>2, <1>7
  <2>2. x - a < v => Reading(x - a) = x
    BY ONLY <1>1, <1>4, <2>1
  <2>3. ~(x - b < v) => Reading(x - b) = x
    BY ONLY <1>1, <1>4, <2>1
  <2>4. QED
    BY <1>6, <2>1, <2>2, <2>3
<1>10. from = m
  BY ONLY <1>1, <1>5, <1>8, <1>9
<1>11. \A t \in Int : m <= t <=> x <= Reading(t)
  BY ONLY <1>1, <1>4, <1>8, <1>9
<1>12. QED
  BY <1>6, <1>8, <1>10, <1>11 DEF x, from

\* So an instant between two such midnights is of one of the days between them.
LEMMA DaysBetween ==
  ASSUME PeriodsTypeOK, NEW d \in Int, PlainMidnight(d), NEW e \in Int, PlainMidnight(e), NEW t \in Int
  PROVE  /\ LocalDay(t) \in Int
         /\ StartOfLocalDay(d) <= t <=> d <= LocalDay(t)
         /\ t < StartOfLocalDay(e) <=> LocalDay(t) < e
<1>1. Reading(t) \in Int
  BY ZoneIs
<1>2. LocalDay(t) \in Int /\ \A n \in Int : n <= LocalDay(t) <=> n * DayHours <= Reading(t)
  BY <1>1, DayOfReading DEF LocalDay
<1>3. StartOfLocalDay(d) <= t <=> d <= LocalDay(t)
  BY <1>2, MidnightIsFound
<1>4. StartOfLocalDay(e) <= t <=> e <= LocalDay(t)
  BY <1>2, MidnightIsFound
<1>5. StartOfLocalDay(e) \in Int
  BY MidnightIsFound
<1>6. QED
  BY ONLY <1>2, <1>3, <1>4, <1>5, t \in Int, e \in Int

LEMMA TodayHoldsNow ==
  ASSUME PeriodsTypeOK PROVE TodayIsNow
<1> SUFFICES ASSUME PlainMidnight(Today), PlainMidnight(Today + 1)
             PROVE  LET p == Resolved("today")
                    IN  /\ p.from <= instant /\ instant < p.to
                        /\ \A t \in p.from..(p.to - 1) : LocalDay(t) = Today
  BY DEF TodayIsNow
<1>1. instant \in Int
  BY DEF PeriodsTypeOK, Instants
<1>2. Today \in Int /\ Today + 1 \in Int
  <2>1. Reading(instant) \in Int
    BY <1>1, ZoneIs
  <2>2. QED
    BY <2>1, DayOfReading DEF Today, LocalDay
<1>3. \A t \in Int : /\ LocalDay(t) \in Int
                     /\ StartOfLocalDay(Today) <= t <=> Today <= LocalDay(t)
                     /\ t < StartOfLocalDay(Today + 1) <=> LocalDay(t) < Today + 1
  BY ONLY PeriodsTypeOK, PlainMidnight(Today), PlainMidnight(Today + 1), <1>2, DaysBetween
<1>4. StartOfLocalDay(Today) \in Int /\ StartOfLocalDay(Today + 1) \in Int
  BY <1>2, MidnightIsFound
<1>5. Resolved("today").from = StartOfLocalDay(Today) /\ Resolved("today").to = StartOfLocalDay(Today + 1)
  BY DEF Resolved, Period
<1>6. StartOfLocalDay(Today) <= instant /\ instant < StartOfLocalDay(Today + 1)
  BY <1>1, <1>2, <1>3 DEF Today
<1>7. ASSUME NEW t \in StartOfLocalDay(Today)..(StartOfLocalDay(Today + 1) - 1) PROVE LocalDay(t) = Today
  <2>1. t \in Int /\ StartOfLocalDay(Today) <= t /\ t < StartOfLocalDay(Today + 1)
    BY <1>4
  <2>2. QED
    BY <1>2, <1>3, <2>1
<1>8. QED
  BY <1>5, <1>6, <1>7

LEMMA RangesAreTheDaysNamed ==
  ASSUME PeriodsTypeOK PROVE CustomIsTheDaysNamed
<1> SUFFICES ASSUME zone.before >= 0, zone.after >= 0, NEW f \in {Today - 1, Today}, NEW t \in {Today - 1, Today},
                    f <= t, 0 <= f, PlainMidnight(f), PlainMidnight(t + 1), NEW i \in Instants
             PROVE  LocalDay(i) \in f..t <=> (CustomPeriod(f, t).from <= i /\ i < CustomPeriod(f, t).to)
  BY DEF CustomIsTheDaysNamed
<1>1. instant \in Int /\ i \in Int
  BY DEF PeriodsTypeOK, Instants
<1>2. Today \in Int
  BY <1>1, ZoneIs, DayOfReading DEF Today, LocalDay
<1>3. f \in Int /\ t \in Int /\ t + 1 \in Int
  BY <1>2
<1>4. \A d \in Int : LocalDay(d * DayHours) = d
  <2> SUFFICES ASSUME NEW d \in Int PROVE LocalDay(d * DayHours) = d
    OBVIOUS
  <2>1. d * DayHours \in Int /\ DayHours \in Nat
    BY DaysOnDays
  <2>2. d * DayHours <= Reading(d * DayHours) /\ Reading(d * DayHours) < d * DayHours + DayHours /\ Reading(d * DayHours) \in Int
    BY <2>1, ZoneIs DEF Reading, Offset
  <2>3. QED
    BY <2>2, DayOfReading DEF LocalDay
<1>5. CustomPeriod(f, t).from = StartOfLocalDay(f) /\ CustomPeriod(f, t).to = StartOfLocalDay(t + 1)
  BY <1>3, <1>4 DEF CustomPeriod, Period
<1>6. /\ LocalDay(i) \in Int
      /\ StartOfLocalDay(f) <= i <=> f <= LocalDay(i)
      /\ i < StartOfLocalDay(t + 1) <=> LocalDay(i) < t + 1
  BY ONLY PeriodsTypeOK, PlainMidnight(f), PlainMidnight(t + 1), <1>1, <1>3, DaysBetween
<1>7. QED
  BY ONLY <1>3, <1>5, <1>6

\* Something is the least of any natural numbers.
LEMMA LeastNat ==
  ASSUME NEW S \in SUBSET Nat, S # {}
  PROVE  \E n \in S : \A m \in S : n <= m
<1>1. PICK n \in S : \A m \in S : <<m, n>> \notin OpToRel(<, Nat)
  BY NatLessThanWellFounded, WFMin
<1>2. \A m \in S : ~(m < n)
  BY <1>1 DEF OpToRel
<1>3. \A m \in S : m \in Nat
  OBVIOUS
<1>4. \A m \in S : n <= m
  BY ONLY <1>2, <1>3, n \in S
<1>5. QED
  BY <1>4

\* The calendar: months follow one another.
LEMMA MonthsFollow ==
  /\ DOMAIN DaysInMonth = 1..Len(DaysInMonth) /\ Len(DaysInMonth) \in Nat \ {0}
  /\ \A m \in DOMAIN DaysInMonth : DaysInMonth[m] \in Nat \ {0}
  /\ CalendarDays \in Int /\ CalendarDays > 1
  /\ DayOf(1, 1) = 0
  /\ \A m \in DOMAIN DaysInMonth : \A n \in Int : DayOf(m, n) \in Int /\ DayOf(m, n) = DayOf(m, 1) + n - 1
  /\ \A m \in DOMAIN DaysInMonth : m > 1 => DayOf(m, 1) = DayOf(m - 1, 1) + DaysInMonth[m - 1]
<1> DEFINE h == DaysInMonth
           N == Len(DaysInMonth)
<1>1. N \in Nat /\ DOMAIN h = 1..N /\ \A m \in 1..N : h[m] \in Nat \ {0}
  BY PeriodsAssumption
<1>2. \A m \in 1..N : 1..(m - 1) \subseteq 1..N /\ IsFiniteSet(1..(m - 1))
  <2> SUFFICES ASSUME NEW m \in 1..N PROVE 1..(m - 1) \subseteq 1..N /\ IsFiniteSet(1..(m - 1))
    OBVIOUS
  <2>1. m - 1 \in Int
    BY <1>1
  <2>2. IsFiniteSet(1..(m - 1))
    BY ONLY <2>1, FS_Interval
  <2>3. QED
    BY <1>1, <2>2
<1>3. CalendarDays = SumFunctionOnSet(h, 1..N)
  BY <1>1 DEF CalendarDays, SumFunction
<1>4. IsFiniteSet(1..N)
  BY <1>1, FS_Interval
<1>5. CalendarDays > 1
  BY PeriodsAssumption
<1> HIDE DEF h, N
<1>6. CalendarDays \in Int
  BY <1>1, <1>3, <1>4, SumType
<1>7. N # 0
  <2>1. SUFFICES ASSUME N = 0 PROVE FALSE
    OBVIOUS
  <2>2. 1..N = {}
    BY <2>1
  <2>3. CalendarDays = SumFunctionOnSet(h, {})
    BY ONLY <1>3, <2>2
  <2>4. CalendarDays = 0
    BY ONLY <2>3, SumEmpty
  <2>5. QED
    BY ONLY <1>5, <2>4
<1>8. \A m \in 1..N : SumFunctionOnSet(h, 1..(m - 1)) \in Int
  <2> SUFFICES ASSUME NEW m \in 1..N PROVE SumFunctionOnSet(h, 1..(m - 1)) \in Int
    OBVIOUS
  <2>1. IsFiniteSet(1..(m - 1)) /\ \A k \in 1..(m - 1) : h[k] \in Int
    BY <1>1, <1>2
  <2>2. QED
    BY ONLY <2>1, SumType
<1>9. \A m \in 1..N : m > 1 => SumFunctionOnSet(h, 1..(m - 1)) = SumFunctionOnSet(h, 1..(m - 2)) + h[m - 1]
  <2> SUFFICES ASSUME NEW m \in 1..N, m > 1
               PROVE  SumFunctionOnSet(h, 1..(m - 1)) = SumFunctionOnSet(h, 1..(m - 2)) + h[m - 1]
    OBVIOUS
  <2>1. m - 1 \in 1..(m - 1) /\ (1..(m - 1)) \ {m - 1} = 1..(m - 2) /\ m - 1 \in 1..N /\ m - 1 - 1 = m - 2
    BY <1>1
  <2>2. IsFiniteSet(1..(m - 1)) /\ \A k \in 1..(m - 1) : h[k] \in Int
    BY <1>1, <1>2
  <2>3. SumFunctionOnSet(h, 1..(m - 1)) = h[m - 1] + SumFunctionOnSet(h, (1..(m - 1)) \ {m - 1})
    BY ONLY <2>1, <2>2, SumWithout
  <2>4. SumFunctionOnSet(h, 1..(m - 1 - 1)) \in Int
    BY ONLY <1>8, <2>1
  <2>5. h[m - 1] \in Int /\ SumFunctionOnSet(h, 1..(m - 2)) \in Int
    <3>1. SumFunctionOnSet(h, 1..(m - 2)) \in Int
      BY ONLY <2>1, <2>4
    <3>2. QED
      BY <1>1, <2>1, <3>1
  <2>6. SumFunctionOnSet(h, 1..(m - 1)) = h[m - 1] + SumFunctionOnSet(h, 1..(m - 2))
    BY ONLY <2>1, <2>3
  <2>7. QED
    BY ONLY <2>5, <2>6
<1>10. SumFunctionOnSet(h, 1..(1 - 1)) = 0
  <2>1. 1..(1 - 1) = {}
    OBVIOUS
  <2>2. QED
    BY <2>1, SumEmpty
<1>11. DayOf(1, 1) = 0
  BY <1>10 DEF DayOf, h
<1>12. \A m \in 1..N : \A n \in Int : DayOf(m, n) \in Int /\ DayOf(m, n) = DayOf(m, 1) + n - 1
  <2> SUFFICES ASSUME NEW m \in 1..N, NEW n \in Int PROVE DayOf(m, n) \in Int /\ DayOf(m, n) = DayOf(m, 1) + n - 1
    OBVIOUS
  <2>1. SumFunctionOnSet(h, 1..(m - 1)) \in Int
    BY <1>8
  <2>2. \A k : DayOf(m, k) = SumFunctionOnSet(h, 1..(m - 1)) + k - 1
    BY DEF DayOf, h
  <2>3. QED
    BY <2>1, <2>2
<1>13. \A m \in 1..N : m > 1 => DayOf(m, 1) = DayOf(m - 1, 1) + h[m - 1]
  <2> SUFFICES ASSUME NEW m \in 1..N, m > 1 PROVE DayOf(m, 1) = DayOf(m - 1, 1) + h[m - 1]
    OBVIOUS
  <2>1. m - 1 \in 1..N /\ m - 1 - 1 = m - 2
    BY <1>1
  <2>2. SumFunctionOnSet(h, 1..(m - 2)) \in Int /\ h[m - 1] \in Int
    <3>1. SumFunctionOnSet(h, 1..(m - 1 - 1)) \in Int
      BY ONLY <1>8, <2>1
    <3>2. SumFunctionOnSet(h, 1..(m - 2)) \in Int
      BY ONLY <2>1, <3>1
    <3>3. QED
      BY <1>1, <2>1, <3>2
  <2>3. DayOf(m, 1) = SumFunctionOnSet(h, 1..(m - 1)) + 1 - 1 /\ DayOf(m - 1, 1) = SumFunctionOnSet(h, 1..(m - 2)) + 1 - 1
    BY <2>1 DEF DayOf, h
  <2>4. QED
    BY <1>9, <2>2, <2>3
<1>14. QED
  BY <1>1, <1>5, <1>6, <1>7, <1>11, <1>12, <1>13 DEF h, N

\* Today is a day of the calendar, of a month it has.
LEMMA TodayIsADay ==
  ASSUME PeriodsTypeOK
  PROVE  /\ instant \in Int /\ Today \in Nat /\ Today < CalendarDays
         /\ ThisMonth \in DOMAIN DaysInMonth /\ DayOfMonth(Today) \in Int
<1>1. instant \in Int /\ DayHours <= instant /\ instant <= (CalendarDays - 1) * DayHours
  <2>1. CalendarDays - 1 \in Int
    BY MonthsFollow
  <2>2. DayHours \in Int /\ (CalendarDays - 1) * DayHours \in Int
    BY <2>1, DaysOnDays
  <2>3. QED
    BY <2>2 DEF PeriodsTypeOK, Instants
<1>2. Reading(instant) \in Int /\ 0 <= Reading(instant) /\ Reading(instant) < (CalendarDays - 1) * DayHours + DayHours
  <2>1. Offset(instant) \in {zone.before, zone.after}
    BY DEF Offset
  <2>2. (CalendarDays - 1) * DayHours \in Int /\ DayHours \in Nat
    BY MonthsFollow, DaysOnDays
  <2>3. QED
    BY <1>1, <2>1, <2>2, ZoneIs DEF Reading
<1>3. Today \in Int /\ \A d \in Int : d <= Today <=> d * DayHours <= Reading(instant)
  BY <1>2, DayOfReading DEF Today, LocalDay
<1>4. 0 <= Today
  <2>1. 0 * DayHours = 0
    BY DaysOnDays
  <2>2. QED
    BY <1>2, <1>3, <2>1
<1>5. ~(CalendarDays <= Today)
  <2>1. CalendarDays - 1 \in Int /\ CalendarDays \in Int /\ CalendarDays - 1 + 1 = CalendarDays
    BY MonthsFollow
  <2>2. CalendarDays * DayHours = (CalendarDays - 1) * DayHours + DayHours /\ CalendarDays * DayHours \in Int
    BY <2>1, DaysOnDays
  <2>3. QED
    BY <1>2, <1>3, <2>1, <2>2
<1>6. ThisMonth \in DOMAIN DaysInMonth
  <2> DEFINE S == {m \in DOMAIN DaysInMonth : DayOf(m, 1) <= Today}
             f == [m \in S |-> m]
  <2>1. 1 \in S
    BY <1>4, MonthsFollow
  <2>2. IsFiniteSet(DOMAIN DaysInMonth)
    BY MonthsFollow, FS_Interval
  <2>3. IsFiniteSet(S) /\ S # {}
    BY <2>1, <2>2, FS_Subset
  <2>4. f \in [S -> Int] /\ \A m \in S : f[m] = m /\ m \in Int
    BY MonthsFollow
  <2> HIDE DEF f
  <2>5. PICK x \in S : \A y \in S : f[y] <= f[x]
    BY ONLY <2>3, <2>4, MostThere
  <2>6. \A y \in S : x >= y
    BY <2>4, <2>5
  <2>7. Max(S) \in S
    BY <2>6 DEF Max
  <2>8. QED
    BY <2>7 DEF ThisMonth, MonthOf
<1>7. DayOfMonth(Today) \in Int
  <2>1. DayOf(ThisMonth, 1) \in Int
    BY <1>6, MonthsFollow
  <2>2. DayOfMonth(Today) = Today - DayOf(ThisMonth, 1) + 1
    BY DEF DayOfMonth, ThisMonth
  <2>3. QED
    BY <1>3, <2>1, <2>2
<1>8. QED
  BY <1>1, <1>3, <1>4, <1>5, <1>6, <1>7, MonthsFollow

LEMMA StartIs ==
  ASSUME PeriodsTypeOK, NEW d \in Int
  PROVE  StartOfLocalDay(d) \in Int
<1>1. d * DayHours \in Int
  BY DaysOnDays
<1>2. Offset(d * DayHours) \in Int
  BY <1>1, ZoneIs
<1>3. Offset(d * DayHours - Offset(d * DayHours)) \in Int
  BY <1>1, <1>2, ZoneIs
<1>4. QED
  BY <1>1, <1>3 DEF StartOfLocalDay

LEMMA SpansAreAsFar ==
  ASSUME PeriodsTypeOK PROVE SameSpanIsAsFar
<1> DEFINE day == DayOf(ThisMonth - 1, DayOfMonth(Today))
           first == DayOf(ThisMonth, 1)
           start == StartOfLocalDay(first)
           hour == LocalHour(instant)
           to == IF DayOfMonth(Today) > DaysInMonth[ThisMonth - 1] THEN start
                 ELSE StartOfLocalDay(day) + hour
           p == SameSpanLastMonth
<1> SUFFICES ASSUME ThisMonth > 1
             PROVE  /\ Resolved("last-month").from = p.from /\ p.to <= Resolved("last-month").to
                    /\ Resolved("last-month").to = Resolved("month").from
                    /\ DayOfMonth(Today) > DaysInMonth[ThisMonth - 1] => p.to = Resolved("last-month").to
                    /\ (/\ DayOfMonth(Today) <= DaysInMonth[ThisMonth - 1]
                        /\ \A d \in {day, day + 1, first} : PlainMidnight(d)
                        /\ StartOfLocalDay(day + 1) - StartOfLocalDay(day) = DayHours)
                       => LocalDay(p.to) = day /\ LocalHour(p.to) = LocalHour(instant)
  BY DEF SameSpanIsAsFar
<1>1. /\ ThisMonth \in DOMAIN DaysInMonth /\ ThisMonth - 1 \in DOMAIN DaysInMonth
      /\ DayOfMonth(Today) \in Int /\ instant \in Int /\ DaysInMonth[ThisMonth - 1] \in Nat
  <2>1. ThisMonth \in DOMAIN DaysInMonth /\ DayOfMonth(Today) \in Int /\ instant \in Int
    BY TodayIsADay
  <2>2. ThisMonth - 1 \in DOMAIN DaysInMonth
    <3>1. DOMAIN DaysInMonth = 1..Len(DaysInMonth) /\ Len(DaysInMonth) \in Nat
      BY MonthsFollow
    <3>2. QED
      BY ONLY <2>1, <3>1, ThisMonth > 1
  <2>3. DaysInMonth[ThisMonth - 1] \in Nat
    BY <2>2, MonthsFollow
  <2>4. QED
    BY <2>1, <2>2, <2>3
<1>2. /\ first \in Int /\ first = DayOf(ThisMonth - 1, 1) + DaysInMonth[ThisMonth - 1]
      /\ day \in Int /\ day = DayOf(ThisMonth - 1, 1) + DayOfMonth(Today) - 1 /\ DayOf(ThisMonth - 1, 1) \in Int
  <2>1. 1 \in Int
    OBVIOUS
  <2>2. QED
    BY <1>1, <2>1, MonthsFollow
<1>3. start \in Int /\ StartOfLocalDay(day) \in Int /\ day + 1 \in Int
  BY <1>2, StartIs
<1>4. hour \in 0..(DayHours - 1) /\ DayHours \in Nat \ {0}
  BY <1>1, ZoneIs, DayOfReading, DaysOnDays DEF LocalHour
<1>5. /\ p.from = StartOfLocalDay(DayOf(ThisMonth - 1, 1))
      /\ p.to = IF to < start THEN to ELSE start
  BY DEF SameSpanLastMonth
<1>6. /\ Resolved("last-month").from = StartOfLocalDay(DayOf(ThisMonth - 1, 1))
      /\ Resolved("last-month").to = start /\ Resolved("month").from = start
  BY DEF Resolved, Period
<1> HIDE DEF p, to, start, day, first, hour
<1>7. to \in Int
  BY <1>3, <1>4 DEF to
<1>8. p.to <= start
  BY ONLY <1>3, <1>5, <1>7
<1>9. DayOfMonth(Today) > DaysInMonth[ThisMonth - 1] => p.to = start
  BY <1>3, <1>5 DEF to
<1>10. ASSUME DayOfMonth(Today) <= DaysInMonth[ThisMonth - 1], PlainMidnight(day), PlainMidnight(day + 1),
              PlainMidnight(first), StartOfLocalDay(day + 1) - StartOfLocalDay(day) = DayHours
       PROVE  LocalDay(p.to) = day /\ LocalHour(p.to) = hour
  <2> DEFINE s == StartOfLocalDay(day)
             e == StartOfLocalDay(day + 1)
  <2>1. to = s + hour
    BY <1>1, <1>10 DEF to
  <2>2. s \in Int /\ Reading(s) = day * DayHours /\ e \in Int /\ Reading(e) = (day + 1) * DayHours
    BY <1>2, <1>3, <1>10, MidnightIsFound
  <2>3. (day + 1) * DayHours = day * DayHours + DayHours /\ day * DayHours \in Int
    BY <1>2, DaysOnDays
  <2>4. e - s = DayHours
    BY <1>10
  <2>5. zone.before \in Int /\ zone.after \in Int /\ zone.moves \in Int
    BY ZoneIs
  <2>6. \A t : Reading(t) = IF t < zone.moves THEN t + zone.before ELSE t + zone.after
    BY DEF Reading, Offset
  <2> HIDE DEF s, e
  <2>7. Reading(to) = day * DayHours + hour /\ Reading(to) \in Int
    BY ONLY <1>4, <2>1, <2>2, <2>3, <2>4, <2>5, <2>6
  <2>8. LocalDay(to) = day
    <3>1. day * DayHours <= Reading(to) /\ Reading(to) < day * DayHours + DayHours
      BY ONLY <1>4, <2>3, <2>7
    <3>2. \A d \in Int : Reading(to) \div DayHours = d <=> d * DayHours <= Reading(to) /\ Reading(to) < d * DayHours + DayHours
      BY <2>7, DayOfReading
    <3>3. QED
      BY <1>2, <3>1, <3>2 DEF LocalDay
  <2>9. LocalHour(to) = hour
    <3>1. Reading(to) = (Reading(to) \div DayHours) * DayHours + (Reading(to) % DayHours) /\ Reading(to) % DayHours \in Int
      BY <2>7, DayOfReading
    <3>2. Reading(to) \div DayHours = day
      BY <2>8 DEF LocalDay
    <3>3. Reading(to) = day * DayHours + (Reading(to) % DayHours)
      BY ONLY <3>1, <3>2
    <3> DEFINE rest == Reading(to) % DayHours
               whole == day * DayHours
    <3>4. rest \in Int /\ whole \in Int /\ Reading(to) = whole + rest /\ Reading(to) = whole + hour
      BY ONLY <2>3, <2>7, <3>1, <3>3
    <3>5. rest = hour
      <4> HIDE DEF rest, whole
      <4>1. QED
        BY ONLY <1>4, <3>4
    <3>6. QED
      BY <3>5 DEF LocalHour
  <2>10. ~(start <= to)
    <3>1. start <= to <=> first * DayHours <= Reading(to)
      BY <1>2, <1>7, <1>10, MidnightIsFound DEF start
    <3>2. first * DayHours <= Reading(to) <=> first <= LocalDay(to)
      BY <1>2, <2>7, DayOfReading DEF LocalDay
    <3>3. ~(first <= day)
      BY <1>1, <1>2, <1>10
    <3>4. QED
      BY <2>8, <3>1, <3>2, <3>3
  <2>11. p.to = to
    BY <1>3, <1>5, <1>7, <2>10
  <2>12. QED
    BY <2>8, <2>9, <2>11
<1>11. QED
  BY <1>5, <1>6, <1>8, <1>9, <1>10 DEF hour

\* The equation the cursors of eachDayKey are chosen by.
AreCursors(from, n, c) == c = [k \in 0..n |-> IF k = 0 THEN from ELSE CursorAfter(c[k - 1])]

LEMMA CursorsAreThose ==
  ASSUME NEW from
  PROVE  CursorsFrom(from) = CHOOSE c : AreCursors(from, CalendarDays, c)
  BY DEF CursorsFrom, AreCursors

LEMMA CursorsExist ==
  ASSUME NEW from, NEW N \in Nat
  PROVE  \E c : AreCursors(from, N, c)
<1> DEFINE Without == {n \in Nat : ~\E c : AreCursors(from, n, c)}
<1> SUFFICES ASSUME Without # {} PROVE FALSE
  OBVIOUS
<1> HIDE DEF Without
<1>1. Without \in SUBSET Nat
  BY DEF Without
<1>2. PICK n \in Without : \A m \in Without : n <= m
  BY <1>1, LeastNat
<1>3. n \in Nat /\ ~\E c : AreCursors(from, n, c)
  BY <1>2 DEF Without
<1>4. CASE n = 0
  <2> DEFINE c == [k \in 0..n |-> from]
  <2>1. c = [k \in 0..n |-> IF k = 0 THEN from ELSE CursorAfter(c[k - 1])]
    BY <1>4
  <2>2. QED
    BY <1>3, <2>1 DEF AreCursors
<1>5. CASE n # 0
  <2>1. n - 1 \in Nat /\ n - 1 \notin Without
    BY <1>2, <1>3, <1>5
  <2>2. PICK b : AreCursors(from, n - 1, b)
    BY <2>1 DEF Without
  <2>3. \A k \in 0..(n - 1) : b[k] = IF k = 0 THEN from ELSE CursorAfter(b[k - 1])
    BY <2>2 DEF AreCursors
  <2> DEFINE c == [k \in 0..n |-> IF k = n THEN CursorAfter(b[n - 1]) ELSE b[k]]
  <2>4. \A k \in 0..n : c[k] = IF k = 0 THEN from ELSE CursorAfter(c[k - 1])
    <3> SUFFICES ASSUME NEW k \in 0..n PROVE c[k] = IF k = 0 THEN from ELSE CursorAfter(c[k - 1])
      OBVIOUS
    <3>1. CASE k = n
      <4>1. n - 1 \in 0..n /\ n - 1 # n
        BY <1>3, <1>5
      <4>2. c[n - 1] = b[n - 1] /\ c[n] = CursorAfter(b[n - 1])
        BY <1>3, <4>1
      <4>3. QED
        BY <1>5, <3>1, <4>2
    <3>2. CASE k # n /\ k # 0
      <4>1. k \in 0..(n - 1) /\ k - 1 \in 0..n /\ k - 1 # n
        BY <1>3, <3>2
      <4>2. c[k] = b[k] /\ c[k - 1] = b[k - 1]
        BY <3>2, <4>1
      <4>3. QED
        BY <2>3, <3>2, <4>1, <4>2
    <3>3. CASE k # n /\ k = 0
      <4>1. k \in 0..(n - 1)
        BY <1>3, <3>3
      <4>2. QED
        BY <2>3, <3>3, <4>1
    <3>4. QED
      BY <3>1, <3>2, <3>3
  <2>5. c = [k \in 0..n |-> c[k]]
    OBVIOUS
  <2> HIDE DEF c
  <2>6. c = [k \in 0..n |-> IF k = 0 THEN from ELSE CursorAfter(c[k - 1])]
    BY <2>4, <2>5
  <2>7. QED
    BY <1>3, <2>6 DEF AreCursors
<1>6. QED
  BY <1>4, <1>5

\* From one of its days to the next the trend misses none and adds none.
LEMMA TrendHasTheDays ==
  ASSUME PeriodsTypeOK PROVE TrendHasEachDay
<1> SUFFICES ASSUME Today >= 7, \A d \in (Today - 6)..(Today + 1) : PlainMidnight(d)
             PROVE  EachDay(Resolved("last-7-days")) = [n \in 1..7 |-> Today - 7 + n]
  BY DEF TrendHasEachDay
<1> DEFINE N == CalendarDays
           S(k) == StartOfLocalDay(Today - 6 + k)
           from == Resolved("last-7-days").from
           to == Resolved("last-7-days").to
           c == CursorsFrom(from)
<1>1. Today \in Nat /\ N \in Nat /\ 8 <= N
  BY TodayIsADay, MonthsFollow
<1>2. from = S(0) /\ to = S(7)
  <2>1. Today - 6 + 0 = Today - 6 /\ Today - 6 + 7 = Today + 1
    BY <1>1
  <2>2. from = StartOfLocalDay(Today - 6) /\ to = StartOfLocalDay(Today + 1)
    BY DEF Resolved, Period
  <2>3. QED
    BY <2>1, <2>2
<1>3. \A k \in 0..7 : /\ Today - 6 + k \in Int /\ PlainMidnight(Today - 6 + k)
                      /\ S(k) \in Int /\ LocalDay(S(k)) = Today - 6 + k
  <2> SUFFICES ASSUME NEW k \in 0..7
               PROVE  /\ Today - 6 + k \in Int /\ PlainMidnight(Today - 6 + k)
                      /\ S(k) \in Int /\ LocalDay(S(k)) = Today - 6 + k
    OBVIOUS
  <2>1. Today - 6 + k \in (Today - 6)..(Today + 1) /\ Today - 6 + k \in Int
    BY <1>1
  <2>2. PlainMidnight(Today - 6 + k)
    BY <2>1
  <2>3. S(k) \in Int /\ Reading(S(k)) = (Today - 6 + k) * DayHours
    BY <2>1, <2>2, MidnightIsFound
  <2>4. (Today - 6 + k) * DayHours \in Int /\ DayHours \in Nat \ {0}
    BY <2>1, DaysOnDays
  <2>5. Reading(S(k)) \div DayHours = Today - 6 + k
    BY <2>1, <2>3, <2>4, DayOfReading
  <2>6. QED
    BY <2>1, <2>2, <2>3, <2>5 DEF LocalDay
<1> HIDE DEF from, to, c, N
<1>4. \A k \in 0..N : c[k] = IF k = 0 THEN from ELSE CursorAfter(c[k - 1])
  <2>1. AreCursors(from, N, c)
    BY <1>1, CursorsExist, CursorsAreThose DEF c, N
  <2>2. QED
    BY <2>1 DEF AreCursors
<1>5. \A k \in 0..7 : c[k] = S(k)
  <2>1. \A k \in 0..6 : c[k] = S(k) => c[k + 1] = S(k + 1)
    <3> SUFFICES ASSUME NEW k \in 0..6, c[k] = S(k) PROVE c[k + 1] = S(k + 1)
      OBVIOUS
    <3>1. k \in 0..7 /\ k + 1 \in 0..N /\ k + 1 # 0 /\ k + 1 - 1 = k
      BY <1>1
    <3>2. c[k + 1] = CursorAfter(S(k))
      BY <1>4, <3>1
    <3>3. LocalDay(S(k)) + 1 = Today - 6 + (k + 1)
      BY <1>1, <1>3, <3>1
    <3>4. QED
      BY <3>2, <3>3 DEF CursorAfter
  <2>2. c[0] = S(0)
    BY <1>1, <1>2, <1>4
  <2> DEFINE P(k) == c[k] = S(k)
  <2>3. P(0) /\ \A k \in 0..6 : P(k) => P(k + 1)
    BY <2>1, <2>2
  <2> HIDE DEF P
  <2>4. P(0) /\ P(1) /\ P(2) /\ P(3) /\ P(4) /\ P(5) /\ P(6) /\ P(7)
    <3>1. P(1)
      BY <2>3
    <3>2. P(2)
      BY <2>3, <3>1
    <3>3. P(3)
      BY <2>3, <3>2
    <3>4. P(4)
      BY <2>3, <3>3
    <3>5. P(5)
      BY <2>3, <3>4
    <3>6. P(6)
      BY <2>3, <3>5
    <3>7. P(7)
      BY <2>3, <3>6
    <3>8. QED
      BY <2>3, <3>1, <3>2, <3>3, <3>4, <3>5, <3>6, <3>7
  <2>5. \A k \in 0..7 : k = 0 \/ k = 1 \/ k = 2 \/ k = 3 \/ k = 4 \/ k = 5 \/ k = 6 \/ k = 7
    OBVIOUS
  <2>6. \A k \in 0..7 : P(k)
    BY ONLY <2>4, <2>5
  <2>7. QED
    BY <2>6 DEF P
<1>6. \A k \in 0..6 : c[k] < to
  <2> SUFFICES ASSUME NEW k \in 0..6 PROVE c[k] < to
    OBVIOUS
  <2>1. k \in 0..7 /\ 7 \in 0..7
    OBVIOUS
  <2>2. /\ Today - 6 + 7 \in Int /\ PlainMidnight(Today - 6 + 7)
        /\ S(k) \in Int /\ LocalDay(S(k)) = Today - 6 + k
    BY <1>3, <2>1
  <2>3. S(k) < S(7) <=> LocalDay(S(k)) < Today - 6 + 7
    BY <2>2, DaysBetween
  <2>4. QED
    BY <1>1, <1>2, <1>5, <2>1, <2>2, <2>3
\* A day on from after its end is after its end.
<1>7. \A k \in 7..N : c[k] \in Int /\ ~(c[k] < to)
  <2> DEFINE Bad == {k \in 7..N : ~(c[k] \in Int /\ ~(c[k] < to))}
  <2> SUFFICES ASSUME Bad # {} PROVE FALSE
    OBVIOUS
  <2>1. Bad \in SUBSET Nat
    BY <1>1
  <2> HIDE DEF Bad
  <2>2. PICK k \in Bad : \A m \in Bad : k <= m
    BY <2>1, LeastNat
  <2>3. k \in 7..N /\ ~(c[k] \in Int /\ ~(c[k] < to))
    BY <2>2 DEF Bad
  <2>4. to \in Int /\ PlainMidnight(Today + 1) /\ Today + 1 \in Int /\ to = StartOfLocalDay(Today + 1)
    <3>1. 7 \in 0..7 /\ Today - 6 + 7 = Today + 1
      BY <1>1
    <3>2. QED
      BY <1>1, <1>2, <1>3, <3>1
  <2>5. k # 7
    <3>1. 7 \in 0..7
      OBVIOUS
    <3>2. c[7] = to
      BY <1>2, <1>5, <3>1
    <3>3. QED
      BY ONLY <2>3, <2>4, <3>2
  <2>6. k - 1 \in 7..N /\ k \in 0..N /\ k # 0 /\ ~(k <= k - 1)
    BY <1>1, <2>3, <2>5
  <2>7. c[k - 1] \in Int /\ ~(c[k - 1] < to)
    BY <2>2, <2>6 DEF Bad
  <2>8. c[k] = StartOfLocalDay(LocalDay(c[k - 1]) + 1)
    BY <1>4, <2>6 DEF CursorAfter
  <2> DEFINE t == c[k - 1]
             d == LocalDay(t) + 1
             u == StartOfLocalDay(d)
  <2>9. t \in Int /\ to <= t
    BY <2>4, <2>7
  <2>10. LocalDay(t) \in Int /\ Today + 1 <= LocalDay(t)
    BY <2>4, <2>9, DaysBetween
  <2> HIDE DEF t
  <2>11. d \in Int /\ Today + 1 < d
    BY <1>1, <2>10
  <2> HIDE DEF d
  <2>12. u \in Int
    BY <2>11, StartIs
  <2>13. (Today + 1) * DayHours + DayHours <= d * DayHours /\ (Today + 1) * DayHours \in Int /\ d * DayHours \in Int
    BY <2>4, <2>11, DaysOnDays
  <2>14. d * DayHours - DayHours <= Reading(u) /\ Reading(u) \in Int
    <3>1. u = d * DayHours - Offset(d * DayHours - Offset(d * DayHours))
      BY DEF StartOfLocalDay
    <3>2. PICK o \in {zone.before, zone.after} : u = d * DayHours - o
      BY <3>1 DEF Offset
    <3>3. Offset(u) \in {zone.before, zone.after} /\ Reading(u) = u + Offset(u)
      BY DEF Offset, Reading
    <3> HIDE DEF u
    <3>4. zone.before \in Int /\ zone.after \in Int /\ zone.after - zone.before <= DayHours /\ zone.before - zone.after <= DayHours
      BY ZoneIs
    <3>5. DayHours \in Nat
      BY DaysOnDays
    <3>6. QED
      BY ONLY <2>12, <2>13, <3>2, <3>3, <3>4, <3>5
  <2>15. (Today + 1) * DayHours <= Reading(u)
    <3>1. DayHours \in Nat
      BY DaysOnDays
    <3>2. QED
      BY ONLY <2>13, <2>14, <3>1
  <2>16. to <= u
    BY <2>4, <2>12, <2>15, MidnightIsFound
  <2>17. c[k] = u
    BY <2>8 DEF u, d, t
  <2>18. QED
    BY ONLY <2>3, <2>4, <2>12, <2>16, <2>17
<1> DEFINE steps == {n \in 0..N : c[n] < to}
<1>8. steps = 0..6
  <2>1. \A n \in 0..N : n \in 0..6 \/ n \in 7..N
    BY <1>1
  <2>2. 0..6 \subseteq 0..N
    BY <1>1
  <2>3. \A n \in 7..N : ~(c[n] < to)
    BY <1>7
  <2>4. QED
    BY <1>6, <2>1, <2>2, <2>3
<1>9. Cardinality(steps) = 7
  <2>1. Cardinality(0..6) = 7
    <3>1. Cardinality(0..6) = IF 0 > 6 THEN 0 ELSE 6 - 0 + 1
      <4>1. 0 \in Int /\ 6 \in Int
        OBVIOUS
      <4>2. QED
        BY ONLY <4>1, FS_Interval
    <3>2. QED
      BY <3>1
  <2>2. QED
    BY <1>8, <2>1
<1>10. EachDay(Resolved("last-7-days")) = [n \in 1..Cardinality(steps) |-> LocalDay(c[n - 1])]
  BY DEF EachDay, from, to, c, N
<1>11. \A n \in 1..7 : LocalDay(c[n - 1]) = Today - 7 + n
  <2> SUFFICES ASSUME NEW n \in 1..7 PROVE LocalDay(c[n - 1]) = Today - 7 + n
    OBVIOUS
  <2>1. n - 1 \in 0..7 /\ Today - 6 + (n - 1) = Today - 7 + n
    BY <1>1
  <2>2. c[n - 1] = S(n - 1) /\ LocalDay(S(n - 1)) = Today - 6 + (n - 1)
    BY <1>3, <1>5, <2>1
  <2>3. QED
    BY <2>1, <2>2
<1>12. QED
  BY <1>9, <1>10, <1>11

LEMMA PeriodsStartTyped == PeriodsInit => PeriodsTypeOK
<1> SUFFICES ASSUME PeriodsInit PROVE PeriodsTypeOK
  OBVIOUS
<1>1. CalendarDays - 1 \in Int /\ 1 <= CalendarDays - 1
  BY MonthsFollow
<1>2. DayHours <= (CalendarDays - 1) * DayHours /\ (CalendarDays - 1) * DayHours \in Int /\ DayHours \in Nat
  <2>1. 1 * DayHours = DayHours /\ DayHours \in Nat \ {0}
    BY DaysOnDays
  <2> DEFINE days == CalendarDays - 1
  <2>2. 1 = days \/ 1 < days
    <3>1. days \in Int /\ 1 <= days
      BY <1>1
    <3> HIDE DEF days
    <3>2. QED
      BY ONLY <3>1
  <2>3. (CalendarDays - 1) * DayHours \in Int /\ (1 < CalendarDays - 1 => 1 * DayHours + DayHours <= (CalendarDays - 1) * DayHours)
    BY <1>1, DaysOnDays
  <2>4. QED
    BY <2>1, <2>2, <2>3
<1>3. QED
  BY <1>2 DEF PeriodsInit, PeriodsTypeOK, Instants

LEMMA PeriodsStayTyped == PeriodsTypeOK /\ [PeriodsNext]_periodsVars => PeriodsTypeOK'
  BY DEF PeriodsTypeOK, PeriodsNext, Hour, periodsVars

LEMMA DaysFromTypes == PeriodsTypeOK => DaysAreWhole
  BY TodayHoldsNow, TrendHasTheDays, RangesAreTheDaysNamed, SpansAreAsFar DEF DaysAreWhole

\* Whatever the zone, the months and the hour: today holds now and nothing of another day,
\* the trend has each of its days once, what is typed in is the days named, and last
\* month's stretch is as far into its day as now is.
THEOREM DaysAlwaysWhole == PeriodsSpec => []DaysAreWhole
  BY PeriodsStartTyped, PeriodsStayTyped, DaysFromTypes, PTL DEF PeriodsSpec

-----------------------------------------------------------------------------
(* The pick of allocateFefo. *)

\* The order of lots is total, so some of any are first and last in it.
LEMMA LotsAreOrdered ==
  /\ \A a \in Lots : ~Earlier(a, a)
  /\ \A a, b \in Lots : a = b \/ Earlier(a, b) \/ Earlier(b, a)
  /\ \A a, b, c \in Lots : Earlier(a, b) /\ Earlier(b, c) => Earlier(a, c)
<1>1. \A a \in Lots : a \in Nat /\ ReceivedAt[a] \in Nat /\ Expiry[a] \in Nat \cup {NoExpiry}
  BY LotsAssumption
<1>2. NoExpiry \notin Nat
  BY LotsAssumption
<1>3. \A a \in Lots : ~Earlier(a, a)
  BY <1>1 DEF Earlier
<1>4. \A a, b \in Lots : a = b \/ Earlier(a, b) \/ Earlier(b, a)
  BY <1>1, <1>2 DEF Earlier
<1>5. \A a, b, c \in Lots : Earlier(a, b) /\ Earlier(b, c) => Earlier(a, c)
  BY <1>1, <1>2 DEF Earlier
<1>6. QED
  BY <1>3, <1>4, <1>5

LEMMA EndsOfLots ==
  ASSUME NEW T \in SUBSET Lots, T # {}
  PROVE  /\ FefoFirst(T) \in T /\ \A b \in T \ {FefoFirst(T)} : Earlier(FefoFirst(T), b)
         /\ FefoLast(T) \in T /\ \A b \in T \ {FefoLast(T)} : Earlier(b, FefoLast(T))
<1> DEFINE R == {p \in Lots \X Lots : Earlier(p[1], p[2])}
<1>1. \A a, b \in Lots : <<a, b>> \in R <=> Earlier(a, b)
  OBVIOUS
<1> HIDE DEF R
<1>2. TotalOrder(R, Lots) /\ IsFiniteSet(Lots)
  BY <1>1, LotsAreOrdered, LotsAssumption DEF TotalOrder
<1>3. \E a \in T : \A b \in T \ {a} : <<a, b>> \in R
  BY <1>2, FirstThere
<1>4. \E a \in T : \A b \in T \ {a} : <<b, a>> \in R
  BY <1>2, LastThere
<1>5. \E a \in T : \A b \in T \ {a} : Earlier(a, b)
  BY <1>1, <1>3
<1>6. \E a \in T : \A b \in T \ {a} : Earlier(b, a)
  BY <1>1, <1>4
<1>7. QED
  BY <1>5, <1>6 DEF FefoFirst, FefoLast

\* The equation the loop is chosen by.
IsLoop(holds, wanted, S, f) ==
  f = [T \in SUBSET S |->
         IF T = {} THEN [remaining |-> wanted, taken |-> [lot \in Lots |-> 0]]
         ELSE TakeFrom(holds, f[T \ {FefoLast(T)}], FefoLast(T))]

LEMMA PickIsLoop ==
  ASSUME NEW holds, NEW wanted
  PROVE  AllocateFefo(holds, wanted) = (CHOOSE f : IsLoop(holds, wanted, Lots, f))[Lots]
  BY DEF AllocateFefo, MapThenFoldSet, IsLoop

LEMMA LoopsAgree ==
  ASSUME NEW holds, NEW wanted, NEW A \in SUBSET Lots, NEW B \in SUBSET Lots, NEW f, NEW g,
         IsLoop(holds, wanted, A, f), IsLoop(holds, wanted, B, g)
  PROVE  \A T \in SUBSET (A \cap B) : f[T] = g[T]
<1> DEFINE Differ == {T \in SUBSET (A \cap B) : f[T] # g[T]}
<1> SUFFICES ASSUME Differ # {} PROVE FALSE
  OBVIOUS
<1>1. Differ \subseteq FiniteSubsetsOf(Lots)
  <2>1. \A T \in SUBSET Lots : IsFiniteSet(T)
    BY FS_Subset, LotsAssumption
  <2>2. QED
    BY <2>1 DEF FiniteSubsetsOf
<1> HIDE DEF Differ
<1>2. PICK T \in Differ : \A U \in Differ : ~(U \subseteq T /\ U # T)
  BY <1>1, SmallestSet
<1> USE DEF Differ
<1>3. T \in SUBSET A /\ T \in SUBSET B /\ T \in SUBSET Lots
  OBVIOUS
<1>4. T # {}
  BY <1>3 DEF IsLoop
<1>5. FefoLast(T) \in T
  BY <1>3, <1>4, EndsOfLots
<1>6. T \ {FefoLast(T)} \notin Differ /\ T \ {FefoLast(T)} \in SUBSET (A \cap B)
  BY <1>2, <1>5
<1>7. /\ f[T] = TakeFrom(holds, f[T \ {FefoLast(T)}], FefoLast(T))
      /\ g[T] = TakeFrom(holds, g[T \ {FefoLast(T)}], FefoLast(T))
  BY <1>3, <1>4 DEF IsLoop
<1>8. QED
  BY <1>6, <1>7

LEMMA LoopExists ==
  ASSUME NEW holds, NEW wanted
  PROVE  \E f : IsLoop(holds, wanted, Lots, f)
<1> DEFINE F(T) == CHOOSE f : IsLoop(holds, wanted, T, f)
           Without == {T \in SUBSET Lots : ~\E f : IsLoop(holds, wanted, T, f)}
<1> SUFFICES ASSUME Without # {} PROVE FALSE
  BY Lots \in SUBSET Lots
<1>1. Without \subseteq FiniteSubsetsOf(Lots)
  BY FS_Subset, LotsAssumption DEF FiniteSubsetsOf
<1> HIDE DEF Without
<1>2. PICK T \in Without : \A U \in Without : ~(U \subseteq T /\ U # T)
  BY <1>1, SmallestSet
<1> USE DEF Without
<1>3. \A U \in SUBSET T : U # T => IsLoop(holds, wanted, U, F(U))
  <2> SUFFICES ASSUME NEW U \in SUBSET T, U # T PROVE IsLoop(holds, wanted, U, F(U))
    OBVIOUS
  <2>1. \E f : IsLoop(holds, wanted, U, f)
    BY <1>2
  <2>2. QED BY <2>1
<1> DEFINE start == [remaining |-> wanted, taken |-> [lot \in Lots |-> 0]]
           g == [U \in SUBSET T |-> IF U = {} THEN start
                   ELSE TakeFrom(holds, F(U \ {FefoLast(U)})[U \ {FefoLast(U)}], FefoLast(U))]
<1> HIDE DEF F
<1>4. \A U \in SUBSET T : U # T => g[U] = F(U)[U]
  <2> SUFFICES ASSUME NEW U \in SUBSET T, U # T PROVE g[U] = F(U)[U]
    OBVIOUS
  <2>1. IsLoop(holds, wanted, U, F(U)) /\ U \in SUBSET U
    BY <1>3
  <2>2. CASE U = {}
    BY <2>1, <2>2 DEF IsLoop
  <2>3. CASE U # {}
    <3> DEFINE V == U \ {FefoLast(U)}
    <3>1. FefoLast(U) \in U
      BY <2>3, EndsOfLots
    <3>2. V \in SUBSET T /\ V # T /\ V \in SUBSET U /\ V \in SUBSET Lots /\ U \in SUBSET Lots
      BY <3>1
    <3>3. IsLoop(holds, wanted, V, F(V))
      BY <1>3, <3>2
    <3>4. F(V)[V] = F(U)[V]
      BY <2>1, <3>2, <3>3, LoopsAgree
    <3>5. F(U)[U] = TakeFrom(holds, F(U)[V], FefoLast(U))
      BY <2>1, <2>3 DEF IsLoop
    <3>6. g[U] = TakeFrom(holds, F(V)[V], FefoLast(U))
      BY <2>3
    <3>7. QED BY <3>4, <3>5, <3>6
  <2>4. QED BY <2>2, <2>3
<1>5. IsLoop(holds, wanted, T, g)
  <2>1. \A U \in SUBSET T : U # {} => g[U] = TakeFrom(holds, g[U \ {FefoLast(U)}], FefoLast(U))
    <3> SUFFICES ASSUME NEW U \in SUBSET T, U # {}
                 PROVE g[U] = TakeFrom(holds, g[U \ {FefoLast(U)}], FefoLast(U))
      OBVIOUS
    <3>1. FefoLast(U) \in U
      BY EndsOfLots
    <3>2. U \ {FefoLast(U)} \in SUBSET T /\ U \ {FefoLast(U)} # T
      BY <3>1
    <3>3. g[U \ {FefoLast(U)}] = F(U \ {FefoLast(U)})[U \ {FefoLast(U)}]
      BY <1>4, <3>2
    <3>4. g[U] = TakeFrom(holds, F(U \ {FefoLast(U)})[U \ {FefoLast(U)}], FefoLast(U))
      OBVIOUS
    <3>5. QED BY <3>3, <3>4
  <2>2. g[{}] = start
    OBVIOUS
  <2>3. g = [U \in SUBSET T |-> g[U]]
    OBVIOUS
  <2> HIDE DEF g
  <2>4. g = [U \in SUBSET T |-> IF U = {} THEN start ELSE TakeFrom(holds, g[U \ {FefoLast(U)}], FefoLast(U))]
    BY <2>1, <2>2, <2>3
  <2>5. QED BY <2>4 DEF IsLoop
<1>6. QED
  BY <1>2, <1>5

\* What the loop has come to once some of the lots have been asked.
AskedInTurn(holds, wanted, T, pick) ==
  /\ pick.remaining \in Nat /\ pick.taken \in [Lots -> Nat]
  /\ \A a \in Lots \ T : pick.taken[a] = 0
  /\ \A a \in T : pick.taken[a] <= OnHand(holds[a])
  /\ \A a, b \in T : Earlier(a, b) /\ pick.taken[b] > 0 => pick.taken[a] = OnHand(holds[a])
  /\ pick.remaining > 0 => \A a \in T : pick.taken[a] = OnHand(holds[a])
  /\ SumFunctionOnSet(pick.taken, Lots) + pick.remaining = wanted

LEMMA OneMoreAsked ==
  ASSUME NEW holds \in [Lots -> Int], NEW wanted \in Nat, NEW T \in SUBSET Lots, NEW x \in Lots \ T,
         \A a \in T : Earlier(a, x), NEW pick, AskedInTurn(holds, wanted, T, pick)
  PROVE  AskedInTurn(holds, wanted, T \cup {x}, TakeFrom(holds, pick, x))
<1> DEFINE take == Least(OnHand(holds[x]), pick.remaining)
           taken == pick.taken
           after == [taken EXCEPT ![x] = take]
           next == TakeFrom(holds, pick, x)
<1>1. /\ pick.remaining \in Nat /\ taken \in [Lots -> Nat] /\ taken[x] = 0
      /\ \A a \in Lots \ T : taken[a] = 0
      /\ \A a \in T : taken[a] <= OnHand(holds[a])
      /\ \A a, b \in T : Earlier(a, b) /\ taken[b] > 0 => taken[a] = OnHand(holds[a])
      /\ pick.remaining > 0 => \A a \in T : taken[a] = OnHand(holds[a])
      /\ SumFunctionOnSet(taken, Lots) + pick.remaining = wanted
  BY DEF AskedInTurn
<1>2. next.remaining = pick.remaining - take /\ next.taken = after
  BY DEF TakeFrom
<1>3. \A a \in Lots : OnHand(holds[a]) \in Nat
  BY DEF OnHand
<1>4. /\ take \in Nat /\ take <= OnHand(holds[x]) /\ take <= pick.remaining
      /\ take < pick.remaining => take = OnHand(holds[x])
  BY <1>1, <1>3 DEF Least
<1> HIDE DEF take, taken, next
<1>5. /\ after \in [Lots -> Nat] /\ after[x] = take
      /\ \A a \in Lots \ {x} : after[a] = taken[a]
  BY <1>1, <1>4
<1> HIDE DEF after
<1>6. SumFunctionOnSet(after, Lots) = SumFunctionOnSet(taken, Lots) + (after[x] - taken[x])
  <2>1. \A y \in Lots : taken[y] \in Int /\ after[y] \in Int
    BY <1>1, <1>5
  <2>2. IsFiniteSet(Lots) /\ x \in Lots
    BY LotsAssumption
  <2>3. \A y \in Lots \ {x} : after[y] = taken[y]
    BY <1>5
  <2>4. QED
    BY ONLY <2>1, <2>2, <2>3, SumChanges
<1>7. SumFunctionOnSet(taken, Lots) \in Int
  <2>1. \A y \in Lots : taken[y] \in Int
    BY <1>1
  <2>2. QED
    BY <2>1, SumType, LotsAssumption
<1>8. next.remaining \in Nat /\ SumFunctionOnSet(after, Lots) + next.remaining = wanted
  BY <1>1, <1>2, <1>4, <1>5, <1>6, <1>7
<1>9. \A a \in Lots \ (T \cup {x}) : after[a] = 0
  BY <1>1, <1>5
<1>10. \A a \in T \cup {x} : after[a] <= OnHand(holds[a])
  BY <1>1, <1>4, <1>5
<1>11. ASSUME NEW a \in T \cup {x}, NEW b \in T \cup {x}, Earlier(a, b), after[b] > 0
       PROVE  after[a] = OnHand(holds[a])
  <2>1. CASE a = x
    BY <1>11, <2>1, LotsAreOrdered
  <2>2. CASE a # x /\ b = x
    <3>1. pick.remaining > 0
      BY <1>1, <1>4, <1>5, <1>11, <2>2
    <3>2. QED
      BY <1>1, <1>5, <1>11, <2>2, <3>1
  <2>3. CASE a # x /\ b # x
    BY <1>1, <1>5, <1>11, <2>3
  <2>4. QED
    BY <2>1, <2>2, <2>3
<1>12. next.remaining > 0 => \A a \in T \cup {x} : after[a] = OnHand(holds[a])
  <2>1. next.remaining > 0 => pick.remaining > 0 /\ take < pick.remaining
    BY <1>1, <1>2, <1>4
  <2>2. QED
    BY <1>1, <1>4, <1>5, <2>1
<1>13. QED
  BY <1>2, <1>5, <1>8, <1>9, <1>10, <1>11, <1>12 DEF AskedInTurn, next

\* However many lots the loop has asked, it has asked them in turn.
LEMMA LoopAsksInTurn ==
  ASSUME NEW holds \in [Lots -> Int], NEW wanted \in Nat, NEW f, IsLoop(holds, wanted, Lots, f)
  PROVE  \A T \in SUBSET Lots : AskedInTurn(holds, wanted, T, f[T])
<1> DEFINE Wrong == {T \in SUBSET Lots : ~AskedInTurn(holds, wanted, T, f[T])}
<1> SUFFICES ASSUME Wrong # {} PROVE FALSE
  OBVIOUS
<1>1. Wrong \subseteq FiniteSubsetsOf(Lots)
  BY FS_Subset, LotsAssumption DEF FiniteSubsetsOf
<1> HIDE DEF Wrong
<1>2. PICK T \in Wrong : \A U \in Wrong : ~(U \subseteq T /\ U # T)
  BY <1>1, SmallestSet
<1> USE DEF Wrong
<1>3. T \in SUBSET Lots /\ ~AskedInTurn(holds, wanted, T, f[T])
  BY <1>2
<1>4. CASE T = {}
  <2> DEFINE none == [lot \in Lots |-> 0]
  <2>1. f[T] = [remaining |-> wanted, taken |-> none]
    BY <1>3, <1>4 DEF IsLoop
  <2>2. none \in [Lots -> Nat] /\ \A a \in Lots : none[a] = 0
    OBVIOUS
  <2> HIDE DEF none
  <2>3. SumFunctionOnSet(none, Lots) = 0
    BY <2>2, SumOfZeros, LotsAssumption
  <2>4. AskedInTurn(holds, wanted, T, f[T])
    BY <1>4, <2>1, <2>2, <2>3 DEF AskedInTurn
  <2>5. QED
    BY <1>3, <2>4
<1>5. CASE T # {}
  <2> DEFINE x == FefoLast(T)
             U == T \ {x}
  <2>1. x \in T /\ \A a \in U : Earlier(a, x)
    BY <1>3, <1>5, EndsOfLots
  <2>2. U \in SUBSET Lots /\ x \in Lots \ U /\ T = U \cup {x} /\ U # T
    BY <1>3, <2>1
  <2>3. AskedInTurn(holds, wanted, U, f[U])
    BY <1>2, <2>2
  <2>4. f[T] = TakeFrom(holds, f[U], x)
    BY <1>3, <1>5 DEF IsLoop
  <2> HIDE DEF x, U
  <2>5. QED
    BY <1>3, <2>1, <2>2, <2>3, <2>4, OneMoreAsked
<1>6. QED
  BY <1>4, <1>5

\* Of two picks that differ, neither takes less of the first lot they differ on.
LEMMA NoPickTakesLess ==
  ASSUME NEW holds \in [Lots -> Int], NEW wanted \in Nat,
         NEW t \in [Lots -> Nat], NEW s \in Nat, IsFefoPick(holds, wanted, t, s),
         NEW u \in [Lots -> Nat], NEW v \in Nat, IsFefoPick(holds, wanted, u, v),
         NEW x \in Lots, \A a \in Lots : Earlier(a, x) => t[a] = u[a]
  PROVE  ~(t[x] < u[x])
<1> SUFFICES ASSUME t[x] < u[x] PROVE FALSE
  OBVIOUS
<1>1. \A a \in Lots : t[a] \in Nat /\ u[a] \in Nat /\ OnHand(holds[a]) \in Nat
  BY DEF OnHand
<1>2. t[x] # OnHand(holds[x])
  BY <1>1 DEF IsFefoPick
<1>3. \A b \in Lots : Earlier(x, b) => t[b] = 0
  BY <1>1, <1>2 DEF IsFefoPick
<1>4. s = 0
  BY <1>2 DEF IsFefoPick
<1>5. \A a \in Lots : t[a] <= u[a]
  BY <1>1, <1>3, LotsAreOrdered
<1>6. SumFunction(t) = SumFunctionOnSet(t, Lots) /\ SumFunction(u) = SumFunctionOnSet(u, Lots)
  BY DEF SumFunction, SumFunctionOnSet, FoldFunction
<1> DEFINE w == [t EXCEPT ![x] = u[x]]
<1>7. w[x] = u[x] /\ (\A a \in Lots \ {x} : w[a] = t[a]) /\ \A a \in Lots : w[a] \in Int
  BY <1>1
<1> HIDE DEF w
<1>8. SumFunctionOnSet(w, Lots) = SumFunctionOnSet(t, Lots) + (w[x] - t[x])
  <2>1. \A y \in Lots : t[y] \in Int /\ w[y] \in Int
    BY <1>1, <1>7
  <2>2. IsFiniteSet(Lots) /\ \A y \in Lots \ {x} : w[y] = t[y]
    BY <1>7, LotsAssumption
  <2>3. QED
    BY ONLY <2>1, <2>2, x \in Lots, SumChanges
<1>9. SumFunctionOnSet(w, Lots) <= SumFunctionOnSet(u, Lots)
  <2>1. \A a \in Lots : w[a] \in Int /\ u[a] \in Int /\ w[a] <= u[a]
    BY <1>1, <1>5, <1>7
  <2>2. QED
    BY <2>1, SumNoMore, LotsAssumption
<1>10. SumFunctionOnSet(t, Lots) \in Int /\ SumFunctionOnSet(u, Lots) \in Int /\ SumFunctionOnSet(w, Lots) \in Int
  <2>1. \A a \in Lots : t[a] \in Int /\ u[a] \in Int /\ w[a] \in Int
    BY <1>1, <1>7
  <2>2. QED
    BY <2>1, SumType, LotsAssumption
<1>11. SumFunctionOnSet(t, Lots) + s = wanted /\ SumFunctionOnSet(u, Lots) + v = wanted
  BY <1>6 DEF IsFefoPick
<1>12. QED
  BY <1>1, <1>4, <1>7, <1>8, <1>9, <1>10, <1>11

\* There is one FEFO pick.
LEMMA OnePick ==
  ASSUME NEW holds \in [Lots -> Int], NEW wanted \in Nat,
         NEW t \in [Lots -> Nat], NEW s \in Nat, IsFefoPick(holds, wanted, t, s),
         NEW u \in [Lots -> Nat], NEW v \in Nat, IsFefoPick(holds, wanted, u, v)
  PROVE  t = u /\ s = v
<1>1. \A a \in Lots : t[a] = u[a]
  <2> DEFINE D == {a \in Lots : t[a] # u[a]}
  <2> SUFFICES ASSUME D # {} PROVE FALSE
    OBVIOUS
  <2> DEFINE x == FefoFirst(D)
  <2>1. x \in D /\ \A b \in D \ {x} : Earlier(x, b)
    BY EndsOfLots
  <2> HIDE DEF x
  <2>2. x \in Lots /\ t[x] # u[x] /\ t[x] \in Nat /\ u[x] \in Nat
    BY <2>1
  <2>3. \A a \in Lots : Earlier(a, x) => t[a] = u[a]
    BY <2>1, LotsAreOrdered
  <2>4. ~(t[x] < u[x])
    BY <2>2, <2>3, NoPickTakesLess
  <2>5. ~(u[x] < t[x])
    BY <2>2, <2>3, NoPickTakesLess
  <2>6. QED
    BY <2>2, <2>4, <2>5
<1>2. t = u
  BY <1>1
<1>3. SumFunction(t) \in Int
  <2>1. \A a \in Lots : t[a] \in Int
    OBVIOUS
  <2>2. SumFunctionOnSet(t, Lots) \in Int
    BY <2>1, SumType, LotsAssumption
  <2>3. QED
    BY <2>2 DEF SumFunction, SumFunctionOnSet, FoldFunction
<1>4. QED
  BY <1>2, <1>3 DEF IsFefoPick

\* allocateFefo returns a pick in FEFO order, never more than a lot holds and nothing
\* from a lot below zero, and it returns the only one there is: for any lots, dates and
\* balances.  StockLedger asks for such a pick without saying how it is found.
THEOREM LoopIsTheOnePick ==
  ASSUME NEW holds \in [Lots -> Int], NEW wanted \in Nat,
         NEW taken \in [Lots -> Nat], NEW shortfall \in Nat
  PROVE  IsFefoPick(holds, wanted, taken, shortfall)
           <=> taken = AllocateFefo(holds, wanted).taken /\ shortfall = AllocateFefo(holds, wanted).remaining
<1> DEFINE f == CHOOSE h : IsLoop(holds, wanted, Lots, h)
           pick == AllocateFefo(holds, wanted)
<1>1. IsLoop(holds, wanted, Lots, f) /\ pick = f[Lots]
  BY LoopExists, PickIsLoop
<1> HIDE DEF f, pick
<1>2. AskedInTurn(holds, wanted, Lots, pick)
  BY <1>1, LoopAsksInTurn
<1>3. pick.taken \in [Lots -> Nat] /\ pick.remaining \in Nat
  BY <1>2 DEF AskedInTurn
<1>4. SumFunction(pick.taken) = SumFunctionOnSet(pick.taken, Lots)
  BY <1>3 DEF SumFunction, SumFunctionOnSet, FoldFunction
<1>5. IsFefoPick(holds, wanted, pick.taken, pick.remaining)
  BY <1>2, <1>4 DEF AskedInTurn, IsFefoPick
<1>6. IsFefoPick(holds, wanted, taken, shortfall) => taken = pick.taken /\ shortfall = pick.remaining
  BY <1>3, <1>5, OnePick
<1>7. QED
  BY <1>5, <1>6 DEF pick

=============================================================================
