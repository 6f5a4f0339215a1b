--------------------------- MODULE CalendarProofs ---------------------------
(***************************************************************************)
(* The arithmetic of module Calendar is right for every day it covers.     *)
(***************************************************************************)
EXTENDS Calendar, FiniteSetTheorems, TLAPS

-----------------------------------------------------------------------------
(* The loops in closed form *)

\* Induction in the form in which it is used: a set of numbers has a least one.
LEMMA LeastNatural ==
    ASSUME NEW S \in SUBSET Nat, S # {}
    PROVE  \E m \in S : \A k \in S : m <= k
<1> DEFINE T == {0 .. n : n \in S}
<1>1. \A n \in S : 0 .. n \in FiniteSubsetsOf(Nat)
  <2>1. \A n \in S : IsFiniteSet(0 .. n)
    BY FS_Interval
  <2> QED
    BY <2>1 DEF FiniteSubsetsOf
<1>2. T \subseteq FiniteSubsetsOf(Nat) /\ T # {}
  BY <1>1
<1>3. PICK x \in T : \A y \in T : ~ (<<y, x>> \in StrictSubsetOrdering(Nat))
  <2> HIDE DEF T
  <2> QED
    BY <1>2, FS_StrictSubsetOrderingWellFounded, WFMin
<1>4. PICK m \in S : x = 0 .. m
  BY <1>3
<1>5. ASSUME NEW k \in S, ~(m <= k)
      PROVE  FALSE
  <2>1. 0 .. k \subseteq 0 .. m /\ m \in 0 .. m /\ m \notin 0 .. k
    BY <1>5
  <2>2. <<0 .. k, 0 .. m>> \in StrictSubsetOrdering(Nat)
    BY <2>1 DEF StrictSubsetOrdering
  <2> QED
    BY <1>3, <1>4, <2>2
<1> QED
  BY <1>5

\* The days before each month.
LEMMA DaysBefore ==
    /\ daysBefore[1] = 0 /\ daysBefore[2] = 31 /\ daysBefore[3] = 59
    /\ daysBefore[4] = 90 /\ daysBefore[5] = 120 /\ daysBefore[6] = 151
    /\ daysBefore[7] = 181 /\ daysBefore[8] = 212 /\ daysBefore[9] = 243
    /\ daysBefore[10] = 273 /\ daysBefore[11] = 304 /\ daysBefore[12] = 334
<1> DEFINE Step(f) == [m \in 1 .. 12 |-> IF m = 1 THEN 0 ELSE f[m - 1] + daysInMonth[m - 1]]
           table == <<0, 31, 59, 90, 120, 151, 181, 212, 243, 273, 304, 334>>
           g == [m \in 1 .. 12 |-> table[m]]
<1>1. \A m \in 1 .. 12 : g[m] = IF m = 1 THEN 0 ELSE g[m - 1] + daysInMonth[m - 1]
  BY DEF daysInMonth
<1>2. g = Step(g)
  BY <1>1
<1>3. daysBefore = CHOOSE f : f = Step(f)
  BY DEF daysBefore
<1>4. daysBefore = Step(daysBefore)
  <2> HIDE DEF g, Step
  <2> QED
    BY <1>2, <1>3
<1>5. \A m \in 1 .. 12 : daysBefore[m] = IF m = 1 THEN 0 ELSE daysBefore[m - 1] + daysInMonth[m - 1]
  BY <1>4
<1>6. /\ daysBefore[1] = 0
      /\ \A m \in 2 .. 12 : daysBefore[m] = daysBefore[m - 1] + daysInMonth[m - 1]
  BY <1>5
<1> QED
  BY <1>6 DEF daysInMonth

\* Days from the start of 2000 to that of year y.
start(y) == 365 * y + (y + 3) \div 4

\* From year to year, start counts the days of a year, leap or not.
LEMMA StartSteps ==
    ASSUME NEW y \in Nat
    PROVE  start(y) \in Nat /\ start(y + 1) = start(y) + 365 + leap(y)
BY DEF start, leap

LEMMA StartGrows ==
    ASSUME NEW y \in Nat, NEW z \in Nat, y < z
    PROVE  start(y + 1) <= start(z)
BY DEF start

LEMMA YearsLeft ==
    ASSUME NEW days \in Int
    PROVE  \A y \in 0 .. 255 : yearsLeft(days)[y] = days - start(y)
<1> DEFINE Step(f) == [y \in 0 .. 255 |-> IF y = 0 THEN days ELSE f[y - 1] - 365 - leap(y - 1)]
           g == [y \in 0 .. 255 |-> days - start(y)]
           f == yearsLeft(days)
<1>1. start(0) = 0 /\ \A y \in 1 .. 255 : start(y) = start(y - 1) + 365 + leap(y - 1)
  <2>1. start(0) = 0
    BY DEF start
  <2>2. ASSUME NEW y \in 1 .. 255
        PROVE  start(y) = start(y - 1) + 365 + leap(y - 1)
    BY StartSteps, y - 1 \in Nat, (y - 1) + 1 = y
  <2> QED
    BY <2>1, <2>2
<1>2. \A y \in 0 .. 255 : start(y) \in Int /\ leap(y) \in Int
  BY DEF start, leap
<1>3. g = Step(g)
  <2>1. ASSUME NEW y \in 0 .. 255
        PROVE  days - start(y) = IF y = 0 THEN days ELSE g[y - 1] - 365 - leap(y - 1)
    <3>1. CASE y = 0
      BY <1>1, <3>1
    <3>2. CASE y # 0
      <4>1. y - 1 \in 0 .. 255 /\ g[y - 1] = days - start(y - 1)
        BY <3>2
      <4>2. start(y) = start(y - 1) + 365 + leap(y - 1)
        BY <1>1, <3>2
      <4>3. start(y - 1) \in Int /\ leap(y - 1) \in Int
        BY <1>2, <4>1
      <4> QED
        BY <3>2, <4>1, <4>2, <4>3
    <3> QED
      BY <3>1, <3>2
  <2> QED
    BY <2>1
<1>4. f = Step(f)
  <2>1. f = CHOOSE h : h = Step(h)
    BY DEF yearsLeft
  <2> HIDE DEF g, Step, f
  <2> QED
    BY <1>3, <2>1
<1>5. /\ f[0] = days
      /\ \A y \in 1 .. 255 : f[y] = f[y - 1] - 365 - leap(y - 1)
  <2> HIDE DEF f
  <2> QED
    BY <1>4
<1> HIDE DEF f
<1>6. \A y \in 0 .. 255 : f[y] = days - start(y)
  <2> DEFINE Wrong == {y \in 0 .. 255 : f[y] # days - start(y)}
  <2>1. SUFFICES ASSUME Wrong # {}
                 PROVE  FALSE
    OBVIOUS
  <2>2. PICK y \in Wrong : \A z \in Wrong : y <= z
    <3>1. Wrong \in SUBSET Nat
      OBVIOUS
    <3> HIDE DEF Wrong
    <3> QED
      BY <2>1, <3>1, LeastNatural
  <2>3. y \in 1 .. 255 /\ y - 1 \in 0 .. 255
    BY <1>1, <1>5, <2>2
  <2>4. f[y - 1] = days - start(y - 1)
    BY <2>2, <2>3
  <2>5. start(y) = start(y - 1) + 365 + leap(y - 1) /\ f[y] = f[y - 1] - 365 - leap(y - 1)
    BY <1>1, <1>5, <2>3
  <2>6. start(y - 1) \in Int /\ leap(y - 1) \in Int
    BY <1>2, <2>3
  <2>7. f[y] = days - start(y)
    BY <2>4, <2>5, <2>6
  <2> QED
    BY <2>2, <2>7
<1> QED
  BY <1>6 DEF f

\* The loop over the years ends in the year that the day is in.
LEMMA YearLoop ==
    ASSUME NEW y \in 0 .. 254, NEW n \in 0 .. 364 + leap(y)
    PROVE  yearOf(start(y) + n) = y /\ yearsLeft(start(y) + n)[y] = n
<1> DEFINE days == start(y) + n
<1>1. start(y) \in Nat /\ start(y + 1) = start(y) + 365 + leap(y) /\ leap(y) \in {0, 1}
  BY StartSteps DEF leap
<1>2. days \in Nat
  BY <1>1
<1> HIDE DEF days
<1>3. \A z \in 0 .. 255 : yearsLeft(days)[z] = days - start(z)
  <2>1. days \in Int
    BY <1>2
  <2> QED
    BY <2>1, YearsLeft
<1>4. yearsLeft(days)[y] = n
  BY <1>1, <1>3 DEF days
<1>5. yearsLeft(days)[y] < 365 + leap(y)
  BY <1>1, <1>4
<1>6. ASSUME NEW z \in 0 .. y - 1
      PROVE  yearsLeft(days)[z] >= 365 + leap(z)
  <2>1. z \in Nat /\ z \in 0 .. 255 /\ z < y /\ leap(z) \in Int
    BY DEF leap
  <2>2. start(z) \in Nat /\ start(z + 1) = start(z) + 365 + leap(z) /\ start(z + 1) <= start(y)
    BY <2>1, StartSteps, StartGrows
  <2>3. yearsLeft(days)[z] = days - start(z) /\ days >= start(y)
    BY <1>1, <1>3, <2>1 DEF days
  <2> QED
    BY <1>1, <1>2, <2>1, <2>2, <2>3
<1>7. ASSUME NEW x \in 0 .. 255,
             yearsLeft(days)[x] < 365 + leap(x),
             \A z \in 0 .. x - 1 : yearsLeft(days)[z] >= 365 + leap(z)
      PROVE  x = y
  <2>1. \A z \in 0 .. 255 : yearsLeft(days)[z] \in Int /\ leap(z) \in Int
    <3> SUFFICES ASSUME NEW z \in 0 .. 255
                 PROVE  yearsLeft(days)[z] \in Int /\ leap(z) \in Int
      OBVIOUS
    <3>1. start(z) \in Nat
      BY StartSteps
    <3> QED
      BY <1>2, <1>3, <3>1 DEF leap
  <2>2. ASSUME x < y
        PROVE  FALSE
    <3>1. x \in 0 .. y - 1
      BY <2>2
    <3>2. yearsLeft(days)[x] >= 365 + leap(x) /\ yearsLeft(days)[x] < 365 + leap(x)
      BY <1>6, <1>7, <3>1
    <3>3. yearsLeft(days)[x] \in Int /\ leap(x) \in Int
      BY <2>1
    <3> QED
      BY <3>2, <3>3
  <2>3. ASSUME y < x
        PROVE  FALSE
    <3>1. y \in 0 .. x - 1 /\ y \in 0 .. 255
      BY <2>3
    <3>2. yearsLeft(days)[y] >= 365 + leap(y)
      BY <1>7, <3>1
    <3>3. yearsLeft(days)[y] \in Int /\ leap(y) \in Int
      BY <2>1, <3>1
    <3> QED
      BY <1>5, <3>2, <3>3
  <2> QED
    BY <2>2, <2>3
<1>8. yearOf(days) = y
  <2> DEFINE Found(x) == /\ yearsLeft(days)[x] < 365 + leap(x)
                         /\ \A z \in 0 .. x - 1 : yearsLeft(days)[z] >= 365 + leap(z)
  <2>1. y \in 0 .. 255 /\ Found(y)
    BY <1>5, <1>6
  <2>3. \A x \in 0 .. 255 : Found(x) => x = y
    BY <1>7
  <2>2. yearOf(days) = CHOOSE x \in 0 .. 255 : Found(x)
    BY DEF yearOf
  <2> HIDE DEF Found
  <2> QED
    BY <2>1, <2>2, <2>3
<1> QED
  BY <1>4, <1>8 DEF days

\* The days of year y that have passed when month m begins.
passed(y, m) == daysBefore[m] + (IF m > 2 THEN leap(y) ELSE 0)

LEMMA PassedSteps ==
    ASSUME NEW y \in Nat
    PROVE  /\ passed(y, 1) = 0
           /\ \A m \in 1 .. 12 : passed(y, m) \in Nat /\ daysPerMonth(y, m) \in 28 .. 31
           /\ \A m \in 1 .. 11 : passed(y, m + 1) = passed(y, m) + daysPerMonth(y, m)
           /\ passed(y, 12) + daysPerMonth(y, 12) = 365 + leap(y)
<1>1. leap(y) \in {0, 1}
  BY DEF leap
<1>2. /\ passed(y, 1) = 0 /\ passed(y, 2) = 31
      /\ \A m \in 3 .. 12 : passed(y, m) = daysBefore[m] + leap(y)
  BY DaysBefore DEF passed
<1>3. /\ daysPerMonth(y, 2) = 28 + leap(y)
      /\ \A m \in 1 .. 12 : m # 2 => daysPerMonth(y, m) = daysInMonth[m]
  <2>1. \A m \in 1 .. 12 : daysInMonth[m] \in Nat /\ daysInMonth[2] = 28
    BY DEF daysInMonth
  <2> QED
    BY <1>1, <2>1 DEF daysPerMonth
<1>4. ASSUME NEW m \in 1 .. 12
      PROVE  passed(y, m) \in Nat /\ daysPerMonth(y, m) \in 28 .. 31
  <2>1. passed(y, m) \in Nat
    BY <1>1, <1>2, DaysBefore, m \in {1, 2, 3, 4, 5, 6, 7, 8, 9, 10, 11, 12}
  <2>2. daysPerMonth(y, m) \in 28 .. 31
    BY <1>1, <1>3, m \in {1, 2, 3, 4, 5, 6, 7, 8, 9, 10, 11, 12} DEF daysInMonth
  <2> QED
    BY <2>1, <2>2
<1>5. ASSUME NEW m \in 1 .. 11
      PROVE  passed(y, m + 1) = passed(y, m) + daysPerMonth(y, m)
  <2>1. CASE m = 1
    BY <1>2, <1>3, <2>1 DEF daysInMonth
  <2>2. CASE m = 2
    BY <1>1, <1>2, <1>3, <2>2, DaysBefore
  <2>3. CASE m \in {3, 4, 5, 6, 7, 8, 9, 10, 11}
    <3>1. daysBefore[m + 1] = daysBefore[m] + daysInMonth[m] /\ daysBefore[m] \in Nat /\ daysInMonth[m] \in Nat
      BY <2>3, DaysBefore DEF daysInMonth
    <3>2. m \in 3 .. 12 /\ m + 1 \in 3 .. 12 /\ m # 2 /\ m \in 1 .. 12
      BY <2>3
    <3>3. passed(y, m + 1) = daysBefore[m + 1] + leap(y) /\ passed(y, m) = daysBefore[m] + leap(y)
      BY <1>2, <3>2
    <3>4. daysPerMonth(y, m) = daysInMonth[m]
      BY <1>3, <3>2
    <3> QED
      BY <1>1, <3>1, <3>3, <3>4
  <2> QED
    BY <2>1, <2>2, <2>3
<1>6. passed(y, 12) + daysPerMonth(y, 12) = 365 + leap(y)
  BY <1>1, <1>2, <1>3, DaysBefore DEF daysInMonth
<1> QED
  BY <1>2, <1>4, <1>5, <1>6

LEMMA MonthsLeft ==
    ASSUME NEW y \in Nat, NEW n \in Int
    PROVE  \A m \in 1 .. 12 : monthsLeft(n, y)[m] = n - passed(y, m)
<1> DEFINE Step(f) == [m \in 1 .. 12 |-> IF m = 1 THEN n ELSE f[m - 1] - daysPerMonth(y, m - 1)]
           g == [m \in 1 .. 12 |-> n - passed(y, m)]
           f == monthsLeft(n, y)
<1>1. /\ passed(y, 1) = 0
      /\ \A m \in 1 .. 12 : passed(y, m) \in Int /\ daysPerMonth(y, m) \in Int
      /\ \A m \in 2 .. 12 : passed(y, m) = passed(y, m - 1) + daysPerMonth(y, m - 1)
  <2>1. ASSUME NEW m \in 2 .. 12
        PROVE  passed(y, m) = passed(y, m - 1) + daysPerMonth(y, m - 1)
    <3>1. m - 1 \in 1 .. 11 /\ (m - 1) + 1 = m
      OBVIOUS
    <3>2. passed(y, (m - 1) + 1) = passed(y, m - 1) + daysPerMonth(y, m - 1)
      BY <3>1, PassedSteps
    <3> QED
      BY <3>1, <3>2
  <2>2. /\ passed(y, 1) = 0
        /\ \A m \in 1 .. 12 : passed(y, m) \in Nat /\ daysPerMonth(y, m) \in 28 .. 31
    BY PassedSteps
  <2> QED
    BY <2>1, <2>2
<1>2. g = Step(g)
  <2>1. ASSUME NEW m \in 1 .. 12
        PROVE  n - passed(y, m) = IF m = 1 THEN n ELSE g[m - 1] - daysPerMonth(y, m - 1)
    <3>1. CASE m = 1
      BY <1>1, <3>1
    <3>2. CASE m # 1
      <4>1. m - 1 \in 1 .. 12 /\ m \in 2 .. 12 /\ g[m - 1] = n - passed(y, m - 1)
        BY <3>2
      <4>2. passed(y, m - 1) \in Int /\ daysPerMonth(y, m - 1) \in Int
        BY <1>1, <4>1
      <4> QED
        BY <1>1, <3>2, <4>1, <4>2
    <3> QED
      BY <3>1, <3>2
  <2> QED
    BY <2>1
<1>3. f = Step(f)
  <2>1. f = CHOOSE h : h = Step(h)
    BY DEF monthsLeft
  <2> HIDE DEF g, Step, f
  <2> QED
    BY <1>2, <2>1
<1>4. f[1] = n /\ \A m \in 2 .. 12 : f[m] = f[m - 1] - daysPerMonth(y, m - 1)
  <2> HIDE DEF f
  <2> QED
    BY <1>3
<1> HIDE DEF f
<1>5. ASSUME NEW m \in 1 .. 12, f[m] # n - passed(y, m)
      PROVE  FALSE
  <2> DEFINE Wrong == {k \in 1 .. 12 : f[k] # n - passed(y, k)}
  <2>1. PICK k \in Wrong : \A z \in Wrong : k <= z
    <3>1. Wrong \in SUBSET Nat /\ Wrong # {}
      BY <1>5
    <3> HIDE DEF Wrong
    <3> QED
      BY <3>1, LeastNatural
  <2>2. k \in 2 .. 12 /\ k - 1 \in 1 .. 12
    BY <1>1, <1>4, <2>1
  <2>3. f[k - 1] = n - passed(y, k - 1)
    BY <2>1, <2>2
  <2>4. /\ passed(y, k) = passed(y, k - 1) + daysPerMonth(y, k - 1)
        /\ f[k] = f[k - 1] - daysPerMonth(y, k - 1)
        /\ passed(y, k - 1) \in Int /\ daysPerMonth(y, k - 1) \in Int
    BY <1>1, <1>4, <2>2
  <2>5. f[k] = n - passed(y, k)
    BY <2>3, <2>4
  <2> QED
    BY <2>1, <2>5
<1> QED
  BY <1>5 DEF f

\* What has passed of a year grows from month to month, up to the whole year.
LEMMA PassedGrows ==
    ASSUME NEW y \in Nat
    PROVE  \A j \in 1 .. 12 :
              /\ \A k \in 1 .. 12 : j < k => passed(y, j) + daysPerMonth(y, j) <= passed(y, k)
              /\ passed(y, j) + daysPerMonth(y, j) <= 365 + leap(y)
<1>1. leap(y) \in {0, 1}
  BY DEF leap
<1>2. /\ passed(y, 1) = 0 /\ passed(y, 2) = 31
      /\ \A m \in 3 .. 12 : passed(y, m) = daysBefore[m] + leap(y)
  BY DaysBefore DEF passed
<1>3. /\ passed(y, 3) = 59 + leap(y) /\ passed(y, 4) = 90 + leap(y) /\ passed(y, 5) = 120 + leap(y)
      /\ passed(y, 6) = 151 + leap(y) /\ passed(y, 7) = 181 + leap(y) /\ passed(y, 8) = 212 + leap(y)
      /\ passed(y, 9) = 243 + leap(y) /\ passed(y, 10) = 273 + leap(y) /\ passed(y, 11) = 304 + leap(y)
      /\ passed(y, 12) = 334 + leap(y)
  BY <1>2, DaysBefore
<1>4. /\ daysPerMonth(y, 12) = 31
      /\ \A m \in 1 .. 11 : passed(y, m + 1) = passed(y, m) + daysPerMonth(y, m)
  <2>1. daysPerMonth(y, 12) = 31
    BY DEF daysInMonth, daysPerMonth
  <2>2. \A m \in 1 .. 11 : passed(y, m + 1) = passed(y, m) + daysPerMonth(y, m)
    BY PassedSteps
  <2> QED
    BY <2>1, <2>2
<1> QED
  <2> SUFFICES ASSUME NEW j \in 1 .. 12
               PROVE  /\ \A k \in 1 .. 12 : j < k => passed(y, j) + daysPerMonth(y, j) <= passed(y, k)
                      /\ passed(y, j) + daysPerMonth(y, j) <= 365 + leap(y)
    OBVIOUS
  <2>1. \A k \in 1 .. 11 : \A l \in 1 .. 12 : k < l => passed(y, k + 1) <= passed(y, l)
    BY <1>1, <1>2, <1>3
  <2>2. \A k \in 1 .. 12 : passed(y, k) <= 334 + leap(y)
    BY <1>1, <1>2, <1>3
  <2>3. CASE j \in 1 .. 11
    <3>1. j + 1 \in 1 .. 12 /\ passed(y, j + 1) = passed(y, j) + daysPerMonth(y, j)
      BY <1>4, <2>3
    <3>2. passed(y, j + 1) <= 334 + leap(y)
      BY <2>2, <3>1
    <3>3. \A k \in 1 .. 12 : j < k => passed(y, j + 1) <= passed(y, k)
      BY <2>1, <2>3
    <3>4. passed(y, j + 1) \in Nat
      BY <3>1, PassedSteps
    <3> QED
      BY <1>1, <3>1, <3>2, <3>3, <3>4
  <2>4. CASE j = 12
    BY <1>1, <1>3, <1>4, <2>4
  <2> QED
    BY <2>3, <2>4

\* The loop over the months ends in the month that the day is in.
LEMMA MonthLoop ==
    ASSUME NEW y \in Nat, NEW m \in 1 .. 12, NEW n \in 0 .. daysPerMonth(y, m) - 1
    PROVE  /\ monthOf(passed(y, m) + n, y) = m
           /\ monthsLeft(passed(y, m) + n, y)[m] = n
<1> DEFINE rest == passed(y, m) + n
           Found(x) == /\ monthsLeft(rest, y)[x] < daysPerMonth(y, x)
                       /\ \A k \in 1 .. x - 1 : monthsLeft(rest, y)[k] >= daysPerMonth(y, k)
<1>1. \A x \in 1 .. 12 : passed(y, x) \in Nat /\ daysPerMonth(y, x) \in Nat
  <2>1. \A x \in 1 .. 12 : passed(y, x) \in Nat /\ daysPerMonth(y, x) \in 28 .. 31
    BY PassedSteps
  <2> QED
    BY <2>1
<1>2. rest \in Int /\ n \in Nat /\ n < daysPerMonth(y, m)
  BY <1>1
<1>3. \A x \in 1 .. 12 : monthsLeft(rest, y)[x] = rest - passed(y, x)
  <2> HIDE DEF rest
  <2> QED
    BY <1>2, MonthsLeft
<1>4. monthsLeft(rest, y)[m] = n
  BY <1>1, <1>2, <1>3
<1>5. \A k \in 1 .. 12 : k < m => passed(y, k) + daysPerMonth(y, k) <= passed(y, m)
  BY PassedGrows
<1>6. \A k \in 1 .. m - 1 : monthsLeft(rest, y)[k] >= daysPerMonth(y, k)
  <2> SUFFICES ASSUME NEW k \in 1 .. m - 1
               PROVE  monthsLeft(rest, y)[k] >= daysPerMonth(y, k)
    OBVIOUS
  <2>1. k \in 1 .. 12 /\ k < m
    OBVIOUS
  <2>2. passed(y, k) + daysPerMonth(y, k) <= passed(y, m)
    BY <1>5, <2>1
  <2>3. passed(y, k) \in Nat /\ daysPerMonth(y, k) \in Nat /\ passed(y, m) \in Nat
    BY <1>1, <2>1
  <2>4. monthsLeft(rest, y)[k] = rest - passed(y, k)
    BY <1>3, <2>1
  <2> QED
    BY <1>2, <2>2, <2>3, <2>4
<1>7. ASSUME NEW x \in 1 .. 12, Found(x)
      PROVE  x = m
  <2>1. \A z \in 1 .. 12 : monthsLeft(rest, y)[z] \in Int /\ daysPerMonth(y, z) \in Int
    BY <1>1, <1>2, <1>3
  <2>2. ASSUME x < m
        PROVE  FALSE
    <3>1. x \in 1 .. m - 1
      BY <2>2
    <3>2. monthsLeft(rest, y)[x] >= daysPerMonth(y, x) /\ monthsLeft(rest, y)[x] < daysPerMonth(y, x)
      BY <1>6, <1>7, <3>1
    <3>3. monthsLeft(rest, y)[x] \in Int /\ daysPerMonth(y, x) \in Int
      BY <2>1
    <3> QED
      BY <3>2, <3>3
  <2>3. ASSUME m < x
        PROVE  FALSE
    <3>1. m \in 1 .. x - 1
      BY <2>3
    <3>2. monthsLeft(rest, y)[m] >= daysPerMonth(y, m)
      BY <1>7, <3>1
    <3> QED
      BY <1>1, <1>2, <1>4, <3>2
  <2> QED
    BY <2>2, <2>3
<1>8. monthOf(rest, y) = m
  <2>1. Found(m) /\ \A x \in 1 .. 12 : Found(x) => x = m
    BY <1>2, <1>4, <1>6, <1>7
  <2>2. monthOf(rest, y) = CHOOSE x \in 1 .. 12 : Found(x)
    BY DEF monthOf
  <2> HIDE DEF Found, rest
  <2> QED
    BY <2>1, <2>2
<1> QED
  BY <1>4, <1>8

-----------------------------------------------------------------------------
(* The chip *)

\* Binary coded decimal is read back as it was written.
LEMMA BcdRoundTrip ==
    ASSUME NEW n \in 0 .. 99
    PROVE  bcd2bin(bcd(n)) = n /\ bcd(n) \in 0 .. 153 /\ (n < 60 => bcd(n) < 128)
BY DEF bcd, bcd2bin

\* The date is one of the calendar, and the days since 2000 are its days.
Dated ==
    /\ date \in [y : 0 .. LastYear, m : 1 .. 12, d : 1 .. 31]
    /\ date.d <= daysPerMonth(date.y, date.m)
    /\ elapsed = start(date.y) + passed(date.y, date.m) + date.d - 1

LEMMA DatedHolds == CalendarSpec => []Dated
<1>1. CalendarInit => Dated
  <2> SUFFICES ASSUME CalendarInit
               PROVE  Dated
    OBVIOUS
  <2>1. date.y = 0 /\ date.m = 1 /\ date.d = 1 /\ elapsed = 0
    BY DEF CalendarInit
  <2>2. start(0) = 0 /\ passed(0, 1) = 0 /\ daysPerMonth(0, 1) \in 28 .. 31
    BY PassedSteps DEF start
  <2>3. date \in [y : 0 .. LastYear, m : 1 .. 12, d : 1 .. 31]
    BY YearAssumption DEF CalendarInit
  <2> QED
    BY <2>1, <2>2, <2>3 DEF Dated
<1>2. Dated /\ [CalendarNext]_dvars => Dated'
  <2> SUFFICES ASSUME Dated, [CalendarNext]_dvars
               PROVE  Dated'
    OBVIOUS
  <2>1. CASE UNCHANGED dvars
    BY <2>1 DEF Dated, dvars
  <2>2. CASE Midnight
    <3> DEFINE yy == date.y
               mm == date.m
               dd == date.d
               length == IF mm = 2 /\ yy % 4 = 0 THEN 29 ELSE daysInMonth[mm]
    <3>1. /\ yy \in 0 .. LastYear /\ yy \in Nat /\ mm \in 1 .. 12 /\ dd \in 1 .. 31 /\ LastYear \in Nat
          /\ dd <= daysPerMonth(yy, mm) /\ elapsed = start(yy) + passed(yy, mm) + dd - 1
          /\ date = [y |-> yy, m |-> mm, d |-> dd]
      BY YearAssumption DEF Dated
    <3>2. length = daysPerMonth(yy, mm)
      <4>1. mm = 2 => daysInMonth[mm] = 28
        BY DEF daysInMonth
      <4>2. daysInMonth[mm] \in Int
        BY <3>1 DEF daysInMonth
      <4> QED
        BY <3>1, <4>1, <4>2 DEF daysPerMonth, leap
    <3>3. /\ NextDay(date).y <= LastYear /\ date' = NextDay(date) /\ elapsed' = elapsed + 1
          /\ NextDay(date) = IF dd < length THEN [date EXCEPT !.d = dd + 1]
                             ELSE IF mm < 12 THEN [date EXCEPT !.d = 1, !.m = mm + 1]
                             ELSE [y |-> yy + 1, m |-> 1, d |-> 1]
      BY <2>2 DEF Midnight, NextDay
    <3>4. /\ start(yy) \in Nat /\ passed(yy, mm) \in Nat /\ daysPerMonth(yy, mm) \in 28 .. 31
          /\ leap(yy) \in Nat
      BY <3>1, StartSteps, PassedSteps DEF leap
    <3> HIDE DEF yy, mm, dd, length
    <3>5. CASE dd < length
      <4>1. date' = [y |-> yy, m |-> mm, d |-> dd + 1]
        BY <3>1, <3>3, <3>5
      <4>2. dd + 1 \in 1 .. 31 /\ dd + 1 <= daysPerMonth(yy, mm)
        BY <3>1, <3>2, <3>4, <3>5
      <4>3. elapsed' = start(yy) + passed(yy, mm) + (dd + 1) - 1
        BY <3>1, <3>3, <3>4
      <4> QED
        BY <3>1, <4>1, <4>2, <4>3 DEF Dated
    <3>6. CASE dd = length /\ mm < 12
      <4>0. ~(dd < length)
        BY <3>2, <3>4, <3>6
      <4>1. date' = [y |-> yy, m |-> mm + 1, d |-> 1]
        BY <3>1, <3>3, <3>6, <4>0
      <4>2. mm \in 1 .. 11 /\ mm + 1 \in 1 .. 12
        BY <3>1, <3>6
      <4>3. passed(yy, mm + 1) = passed(yy, mm) + daysPerMonth(yy, mm) /\ daysPerMonth(yy, mm + 1) \in 28 .. 31
        BY <3>1, <4>2, PassedSteps
      <4>4. elapsed' = start(yy) + passed(yy, mm + 1) + 1 - 1
        BY <3>1, <3>2, <3>3, <3>4, <3>6, <4>3
      <4>5. date' \in [y : 0 .. LastYear, m : 1 .. 12, d : 1 .. 31]
        BY <3>1, <4>1, <4>2
      <4> QED
        BY <4>1, <4>3, <4>4, <4>5 DEF Dated
    <3>7. CASE dd = length /\ mm = 12
      <4>1. date' = [y |-> yy + 1, m |-> 1, d |-> 1] /\ yy + 1 \in 0 .. LastYear /\ yy + 1 \in Nat
        <5>1. ~(dd < length) /\ ~(mm < 12)
          BY <3>2, <3>4, <3>7
        <5>2. date' = [y |-> yy + 1, m |-> 1, d |-> 1] /\ yy + 1 <= LastYear
          BY <3>3, <5>1
        <5> QED
          BY <3>1, <5>2
      <4>2. /\ passed(yy, 12) + daysPerMonth(yy, 12) = 365 + leap(yy)
            /\ passed(yy + 1, 1) = 0 /\ daysPerMonth(yy + 1, 1) \in 28 .. 31
            /\ start(yy + 1) = start(yy) + 365 + leap(yy)
        BY <3>1, <4>1, StartSteps, PassedSteps
      <4>3. elapsed' = start(yy + 1) + passed(yy + 1, 1) + 1 - 1
        BY <3>1, <3>2, <3>3, <3>4, <3>7, <4>2
      <4> QED
        BY <4>1, <4>2, <4>3 DEF Dated
    <3> QED
      BY <3>1, <3>2, <3>4, <3>5, <3>6, <3>7
  <2> QED
    BY <2>1, <2>2 DEF CalendarNext
<1> QED
  BY <1>1, <1>2, PTL DEF CalendarSpec

\* The times of a day, their hours, minutes and seconds, and a time so many days
\* later.  The provers are kept from the numbers by these names.
Today == {hand \in Nat : hand < 86400}

Hours(hand) == hand \div 3600

Minutes(hand) == (hand \div 60) % 60

Seconds(hand) == hand % 60

Later(days, hand) == days * 86400 + hand

DayOf(t) == t \div 86400

HourOf(t) == (t \div 3600) % 24

LEMMA TimeOfDay ==
    ASSUME NEW hand \in Today
    PROVE  /\ Hours(hand) \in 0 .. 23 /\ Minutes(hand) \in 0 .. 59 /\ Seconds(hand) \in 0 .. 59
           /\ hand = (Hours(hand) * 60 + Minutes(hand)) * 60 + Seconds(hand)
<1> DEFINE q == hand \div 60
           h == q \div 60
           m == q % 60
           r == hand % 60
<1>1. q \in 0 .. 1439 /\ r \in 0 .. 59 /\ hand = q * 60 + r /\ hand \div 3600 = h
  BY SMT DEF Today
<1>2. Hours(hand) = h /\ Minutes(hand) = m /\ Seconds(hand) = r
  BY <1>1 DEF Hours, Minutes, Seconds
<1> HIDE DEF q, r
<1>3. h \in 0 .. 23 /\ m \in 0 .. 59 /\ q = h * 60 + m
  BY <1>1, SMT
<1> HIDE DEF h, m
<1>4. hand = (h * 60 + m) * 60 + r
  BY <1>1, <1>3
<1> QED
  BY <1>1, <1>2, <1>3, <1>4

LEMMA TimeOfLaterDay ==
    ASSUME NEW days \in Nat, NEW hand \in Today
    PROVE  /\ Later(days, hand) \in Nat /\ DayOf(Later(days, hand)) = days
           /\ HourOf(Later(days, hand)) = Hours(hand)
           /\ Minutes(Later(days, hand)) = Minutes(hand)
           /\ Seconds(Later(days, hand)) = Seconds(hand)
<1> DEFINE t == days * 86400 + hand
<1>1. t \in Nat /\ t \div 86400 = days /\ t % 60 = hand % 60
  BY SMT DEF Today
<1>2. (t \div 3600) % 24 = hand \div 3600
  <2>1. t \div 3600 = days * 24 + hand \div 3600 /\ hand \div 3600 \in 0 .. 23
    BY SMT DEF Today
  <2> QED
    BY <2>1, SMT
<1>3. (t \div 60) % 60 = (hand \div 60) % 60
  <2>1. t \div 60 = days * 1440 + hand \div 60 /\ hand \div 60 \in 0 .. 1439
    BY SMT DEF Today
  <2> QED
    BY <2>1, SMT
<1>4. t = Later(days, hand)
  BY DEF Later
<1> HIDE DEF t
<1> QED
  BY <1>1, <1>2, <1>3, <1>4 DEF DayOf, HourOf, Hours, Minutes, Seconds

\* A date d of year y and month m, e days after the start of 2000.
OnDay(y, m, d, e) ==
    /\ y \in 0 .. LastYear /\ m \in 1 .. 12 /\ d \in 1 .. daysPerMonth(y, m)
    /\ e = start(y) + passed(y, m) + d - 1

LEMMA DayFacts ==
    ASSUME NEW y, NEW m, NEW d, NEW e, OnDay(y, m, d, e)
    PROVE  /\ y \in 0 .. 37 /\ y \in Nat /\ m \in 1 .. 12 /\ d \in 1 .. 31 /\ e \in Nat
           /\ date2days(y, m, d) = e
           /\ d - 1 \in 0 .. daysPerMonth(y, m) - 1
           /\ passed(y, m) + (d - 1) \in 0 .. 364 + leap(y)
           /\ e = start(y) + (passed(y, m) + (d - 1))
<1>1. y \in 0 .. 37 /\ y \in Nat /\ m \in 1 .. 12
  BY YearAssumption DEF OnDay
<1>2. /\ start(y) \in Nat /\ passed(y, m) \in Nat /\ daysPerMonth(y, m) \in 28 .. 31
      /\ leap(y) \in {0, 1}
  <2>1. start(y) \in Nat
    BY <1>1, StartSteps
  <2>2. passed(y, m) \in Nat /\ daysPerMonth(y, m) \in 28 .. 31
    BY <1>1, PassedSteps
  <2> QED
    BY <2>1, <2>2 DEF leap
<1>3. passed(y, m) + daysPerMonth(y, m) <= 365 + leap(y)
  BY <1>1, PassedGrows
<1>4. d \in 1 .. daysPerMonth(y, m) /\ e = start(y) + passed(y, m) + d - 1
  BY DEF OnDay
<1>5. date2days(y, m, d) = e
  <2>1. daysBefore[m] \in Nat
    <3>1. m \in {1, 2, 3, 4, 5, 6, 7, 8, 9, 10, 11, 12}
      BY <1>1
    <3> QED
      BY <3>1, DaysBefore
  <2>2. passed(y, m) = daysBefore[m] + (IF m > 2 /\ y % 4 = 0 THEN 1 ELSE 0)
    BY <1>1, <2>1 DEF passed, leap
  <2>3. start(y) = 365 * y + (y + 3) \div 4 /\ (y + 3) \div 4 \in Nat
    BY <1>1 DEF start
  <2>4. date2days(y, m, d) = d + daysBefore[m] + (IF m > 2 /\ y % 4 = 0 THEN 1 ELSE 0)
                               + 365 * y + (y + 3) \div 4 - 1
    BY DEF date2days
  <2> QED
    BY <1>1, <1>4, <2>1, <2>2, <2>3, <2>4
<1> QED
  BY <1>1, <1>2, <1>3, <1>4, <1>5

\* The date and time of a day, and what the constructor makes, field by field.
Stamp(y, m, d, hand) ==
    [y |-> y, m |-> m, d |-> d, hh |-> Hours(hand), mm |-> Minutes(hand), ss |-> Seconds(hand)]

LEMMA Fields ==
    ASSUME NEW t \in Nat, NEW days, days = DayOf(t), NEW y, y = yearOf(days),
           NEW rest, rest = yearsLeft(days)[y], NEW m, m = monthOf(rest, y)
    PROVE  DateTime(SECONDS_FROM_1970_TO_2000 + t) =
              [y |-> y, m |-> m, d |-> monthsLeft(rest, y)[m] + 1,
               hh |-> HourOf(t), mm |-> Minutes(t), ss |-> Seconds(t)]
<1>1. (SECONDS_FROM_1970_TO_2000 + t) - SECONDS_FROM_1970_TO_2000 = t
  BY SMT DEF SECONDS_FROM_1970_TO_2000
<1> QED
  BY <1>1, SMT DEF DateTime, DayOf, HourOf, Minutes, Seconds

\* The constructor makes the date of the number of seconds.
LEMMA Constructed ==
    ASSUME NEW y, NEW m, NEW d, NEW e, OnDay(y, m, d, e), NEW hand \in Today
    PROVE  DateTime(SECONDS_FROM_1970_TO_2000 + Later(e, hand)) = Stamp(y, m, d, hand)
<1> DEFINE t == Later(e, hand)
           n == passed(y, m) + (d - 1)
           dd == d - 1
<1>1. y \in 0 .. 37 /\ y \in Nat /\ m \in 1 .. 12 /\ d \in 1 .. 31 /\ e \in Nat
  BY DayFacts
<1>2. dd \in 0 .. daysPerMonth(y, m) - 1 /\ n \in 0 .. 364 + leap(y) /\ e = start(y) + n
  BY DayFacts
<1>3. n = passed(y, m) + dd /\ dd + 1 = d /\ y \in 0 .. 254
  BY <1>1
<1>4. /\ t \in Nat /\ DayOf(t) = e /\ HourOf(t) = Hours(hand)
      /\ Minutes(t) = Minutes(hand) /\ Seconds(t) = Seconds(hand)
  BY <1>1, TimeOfLaterDay
<1> HIDE DEF t, n, dd
<1>5. yearOf(e) = y /\ yearsLeft(e)[y] = n
  <2>1. yearOf(start(y) + n) = y /\ yearsLeft(start(y) + n)[y] = n
    BY <1>2, <1>3, YearLoop
  <2> QED
    BY <1>2, <2>1
<1>6. monthOf(n, y) = m /\ monthsLeft(n, y)[m] = dd
  <2>1. monthOf(passed(y, m) + dd, y) = m /\ monthsLeft(passed(y, m) + dd, y)[m] = dd
    BY <1>1, <1>2, MonthLoop
  <2> QED
    BY <1>3, <2>1
<1>7. DateTime(SECONDS_FROM_1970_TO_2000 + t) =
         [y |-> y, m |-> m, d |-> monthsLeft(n, y)[m] + 1,
          hh |-> HourOf(t), mm |-> Minutes(t), ss |-> Seconds(t)]
  BY <1>4, <1>5, <1>6, Fields
<1>8. monthsLeft(n, y)[m] + 1 = d
  BY <1>3, <1>6
<1> QED
  BY <1>4, <1>7, <1>8 DEF Stamp, t

\* What is read of the registers is the date and the time of the day.
LEMMA ReadNow ==
    ASSUME date.y \in 0 .. 37, date.m \in 1 .. 12, date.d \in 1 .. 31, NEW hand \in Today
    PROVE  RTClib_now(hand) = Stamp(date.y, date.m, date.d, hand)
<1>1. /\ bcd2bin(bcd(date.y)) = date.y /\ bcd2bin(bcd(date.m)) = date.m
      /\ bcd2bin(bcd(date.d)) = date.d
  <2>1. date.y \in 0 .. 99 /\ date.m \in 0 .. 99 /\ date.d \in 0 .. 99
    OBVIOUS
  <2> QED
    BY <2>1, BcdRoundTrip
<1>2. \A n \in 0 .. 59 : bcd2bin(bcd(n)) = n /\ bcd2bin(bcd(n) % 128) = n
  <2> SUFFICES ASSUME NEW n \in 0 .. 59
               PROVE  bcd2bin(bcd(n)) = n /\ bcd2bin(bcd(n) % 128) = n
    OBVIOUS
  <2>1. n \in 0 .. 99 /\ n < 60
    OBVIOUS
  <2>2. bcd2bin(bcd(n)) = n /\ bcd(n) \in 0 .. 153 /\ bcd(n) < 128
    BY <2>1, BcdRoundTrip
  <2>3. bcd(n) % 128 = bcd(n)
    BY <2>2, SMT
  <2> QED
    BY <2>2, <2>3
<1>3. Hours(hand) \in 0 .. 59 /\ Minutes(hand) \in 0 .. 59 /\ Seconds(hand) \in 0 .. 59
  BY TimeOfDay
<1>4. /\ bcd2bin(bcd(Hours(hand))) = Hours(hand) /\ bcd2bin(bcd(Minutes(hand))) = Minutes(hand)
      /\ bcd2bin(bcd(Seconds(hand)) % 128) = Seconds(hand)
  BY <1>2, <1>3
<1>5. RTClib_now(hand) =
         [y |-> bcd2bin(bcd(date.y)), m |-> bcd2bin(bcd(date.m)), d |-> bcd2bin(bcd(date.d)),
          hh |-> bcd2bin(bcd(Hours(hand))), mm |-> bcd2bin(bcd(Minutes(hand))),
          ss |-> bcd2bin(bcd(Seconds(hand)) % 128)]
  BY SMT DEF RTClib_now, Registers, Hours, Minutes, Seconds
<1> QED
  BY <1>1, <1>4, <1>5 DEF Stamp

\* The seconds of a date and time.
LEMMA Counted ==
    ASSUME NEW y, NEW m, NEW d, NEW e \in Nat, date2days(y, m, d) = e, NEW hand \in Today
    PROVE  unixtime(Stamp(y, m, d, hand)) = SECONDS_FROM_1970_TO_2000 + Later(e, hand)
<1>1. unixtime(Stamp(y, m, d, hand)) =
         ((e * 24 + Hours(hand)) * 60 + Minutes(hand)) * 60 + Seconds(hand)
             + SECONDS_FROM_1970_TO_2000
  BY SMT DEF unixtime, Stamp
<1>2. /\ Hours(hand) \in Nat /\ Minutes(hand) \in Nat /\ Seconds(hand) \in Nat
      /\ hand = (Hours(hand) * 60 + Minutes(hand)) * 60 + Seconds(hand)
  BY TimeOfDay
<1> QED
  BY <1>1, <1>2, SMT DEF SECONDS_FROM_1970_TO_2000, Later

LEMMA ReadByDay == Hand \subseteq Today
<1>1. \A hand \in Hand : hand \in Nat /\ hand < 86400
  BY HandAssumption
<1> QED
  BY <1>1, SMT DEF Today

LEMMA Sums ==
    ASSUME NEW days \in Nat, NEW hand \in Today
    PROVE  SECONDS_FROM_1970_TO_2000 + Later(days, hand)
              = SECONDS_FROM_1970_TO_2000 + days * 86400 + hand
BY SMT DEF Later, Today, SECONDS_FROM_1970_TO_2000

\* What setup() makes of the registers is the number of seconds since 1970, and
\* the constructor makes the same date of it again (DS3231.cpp:47-154), on every
\* day of every year up to LastYear and at every second.
THEOREM ClockIsRight == CalendarSpec => []NowCounts
<1>1. Dated => NowCounts
  <2> SUFFICES ASSUME Dated
               PROVE  NowCounts
    OBVIOUS
  <2>1. OnDay(date.y, date.m, date.d, elapsed)
    BY DEF Dated, OnDay
  <2>2. /\ date.y \in 0 .. 37 /\ date.m \in 1 .. 12 /\ date.d \in 1 .. 31 /\ elapsed \in Nat
        /\ date2days(date.y, date.m, date.d) = elapsed
    BY <2>1, DayFacts
  <2>3. SUFFICES ASSUME NEW hand \in Today
                 PROVE  /\ unixtime(RTClib_now(hand)) = SECONDS_FROM_1970_TO_2000 + Later(elapsed, hand)
                        /\ DateTime(unixtime(RTClib_now(hand))) = RTClib_now(hand)
    BY <2>2, ReadByDay, Sums DEF NowCounts
  <2>4. RTClib_now(hand) = Stamp(date.y, date.m, date.d, hand)
    BY <2>2, ReadNow
  <2>5. unixtime(RTClib_now(hand)) = SECONDS_FROM_1970_TO_2000 + Later(elapsed, hand)
    BY <2>2, <2>4, Counted
  <2> QED
    BY <2>1, <2>4, <2>5, Constructed
<1> QED
  BY <1>1, DatedHolds, PTL
=============================================================================
