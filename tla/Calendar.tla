------------------------------ MODULE Calendar ------------------------------
(***************************************************************************)
(* What setup() reads of the DS3231: seven registers in binary coded       *)
(* decimal, from which now() makes a DateTime and unixtime() a number of   *)
(* seconds; and the constructor that takes such a number apart again.  The *)
(* chip's own calendar is the reference: it goes from day to day.          *)
(***************************************************************************)
EXTENDS Integers, Sequences

CONSTANTS
    LastYear,   \* bound: years since 2000
    Hand        \* the times of the day at which the chip is read, in seconds

\* Until 2037 the seconds are below 2^31, where all of the code's types hold them.
ASSUME YearAssumption == LastYear \in 0 .. 37
ASSUME HandAssumption == \A hand \in Hand : hand \in Nat /\ hand < 86400

VARIABLES
    date,       \* the chip's date: year since 2000, month, day
    elapsed     \* history: days since 2000-01-01

dvars == <<date, elapsed>>

SECONDS_FROM_1970_TO_2000 == 946684800

daysInMonth == <<31, 28, 31, 30, 31, 30, 31, 31, 30, 31, 30, 31>>

-----------------------------------------------------------------------------
\* The days of the months before month m, added up one after the other.
daysBefore[m \in 1 .. 12] ==
    IF m = 1 THEN 0 ELSE daysBefore[m - 1] + daysInMonth[m - 1]

\* Mutant: the day after February 28 is not counted.
date2days_Plain(y, m, d) ==
    d + daysBefore[m] + 365 * y + (y + 3) \div 4 - 1

date2days(y, m, d) ==
    d + daysBefore[m] + (IF m > 2 /\ y % 4 = 0 THEN 1 ELSE 0) + 365 * y + (y + 3) \div 4 - 1

unixtime(t) ==
    ((date2days(t.y, t.m, t.d) * 24 + t.hh) * 60 + t.mm) * 60 + t.ss
        + SECONDS_FROM_1970_TO_2000

leap(y) == IF y % 4 = 0 THEN 1 ELSE 0

daysPerMonth(y, m) == daysInMonth[m] + (IF m = 2 THEN leap(y) ELSE 0)

\* The two loops of the constructor take a year, and then a month, from the days
\* until what is left lies within one: what is left as they come to the year y,
\* which is a byte, and to the month m.
yearsLeft(days) ==
    LET left[y \in 0 .. 255] ==
            IF y = 0 THEN days ELSE left[y - 1] - 365 - leap(y - 1)
    IN  left

monthsLeft(days, y) ==
    LET left[m \in 1 .. 12] ==
            IF m = 1 THEN days ELSE left[m - 1] - daysPerMonth(y, m - 1)
    IN  left

yearOf(days) ==
    CHOOSE y \in 0 .. 255 :
        /\ yearsLeft(days)[y] < 365 + leap(y)
        /\ \A z \in 0 .. y - 1 : yearsLeft(days)[z] >= 365 + leap(z)

monthOf(days, y) ==
    CHOOSE m \in 1 .. 12 :
        /\ monthsLeft(days, y)[m] < daysPerMonth(y, m)
        /\ \A k \in 1 .. m - 1 : monthsLeft(days, y)[k] >= daysPerMonth(y, k)

\* Mutant: one day less.
DateTime_Early(seconds) ==
    LET t == seconds - SECONDS_FROM_1970_TO_2000
        year == yearOf(t \div 86400)
        rest == yearsLeft(t \div 86400)[year]
        month == monthOf(rest, year)
    IN  [y |-> year, m |-> month, d |-> monthsLeft(rest, year)[month],
         hh |-> (t \div 3600) % 24, mm |-> (t \div 60) % 60, ss |-> t % 60]

DateTime(seconds) ==
    LET t == seconds - SECONDS_FROM_1970_TO_2000
        year == yearOf(t \div 86400)
        rest == yearsLeft(t \div 86400)[year]
        month == monthOf(rest, year)
    IN  [y |-> year, m |-> month, d |-> monthsLeft(rest, year)[month] + 1,
         hh |-> (t \div 3600) % 24, mm |-> (t \div 60) % 60, ss |-> t % 60]

-----------------------------------------------------------------------------
(* The registers *)

bcd(n) == (n \div 10) * 16 + (n % 10)

bcd2bin(val) == val - 6 * (val \div 16)

\* In the 12-hour mode bit 6 is set, and bit 5 in the afternoon; nothing in the
\* program sets that mode.
Registers(hand) ==
    [y |-> bcd(date.y), m |-> bcd(date.m), d |-> bcd(date.d),
     hh |-> bcd(hand \div 3600), mm |-> bcd((hand \div 60) % 60), ss |-> bcd(hand % 60)]

\* One transfer reads all of them, so none can roll over in between.
RTClib_now(hand) ==
    LET r == Registers(hand) IN
    [y |-> bcd2bin(r.y), m |-> bcd2bin(r.m), d |-> bcd2bin(r.d),
     hh |-> bcd2bin(r.hh), mm |-> bcd2bin(r.mm), ss |-> bcd2bin(r.ss % 128)]

NextDay(t) ==
    LET length == IF t.m = 2 /\ t.y % 4 = 0 THEN 29 ELSE daysInMonth[t.m]
    IN  IF t.d < length THEN [t EXCEPT !.d = @ + 1]
        ELSE IF t.m < 12 THEN [t EXCEPT !.d = 1, !.m = @ + 1]
        ELSE [y |-> t.y + 1, m |-> 1, d |-> 1]

CalendarInit == date = [y |-> 0, m |-> 1, d |-> 1] /\ elapsed = 0

Midnight ==
    /\ NextDay(date).y <= LastYear
    /\ date' = NextDay(date) /\ elapsed' = elapsed + 1

CalendarNext == Midnight

CalendarSpec == CalendarInit /\ [][CalendarNext]_dvars

-----------------------------------------------------------------------------
\* main.cpp:59: what setup() reads is the number of seconds since 1970, on every
\* day and over every end of a month, in leap years and others; and the constructor
\* makes the same date of that number again.
NowCounts ==
    \A hand \in Hand :
        LET t == RTClib_now(hand) IN
        /\ unixtime(t) = SECONDS_FROM_1970_TO_2000 + elapsed * 86400 + hand
        /\ DateTime(unixtime(t)) = t
=============================================================================
