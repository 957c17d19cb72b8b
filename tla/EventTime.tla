----------------------------- MODULE EventTime -----------------------------
(****************************************************************************)
(* How the canonical kernel reads a civil time with an offset, compares     *)
(* times and writes them in UTC                                             *)
(* (packages/canonical-kernel/src/canonical-order.ts).                      *)
(*                                                                          *)
(* The code counts nanoseconds in a bigint.  Here the same count is an      *)
(* instant of three digits: days, seconds that may lie outside the day, and *)
(* the fraction of the second.                                              *)
(****************************************************************************)
EXTENDS Integers

CONSTANTS
    FirstDays,  \* the civil dates on which a calendar may be opened
    Span,       \* bound: how many days are turned
    Clocks,     \* times of the day: [hour, minute, second, ns]
    Offsets     \* offsets: [sign, hour, minute]

VARIABLES
    page,       \* the civil date on the open page of a calendar
    turned,     \* how many days were turned
    writing     \* how a time is written on every page: [clock, offset]

calendarVars == <<page, turned, writing>>

-----------------------------------------------------------------------------
isLeapYear(year) == year % 4 = 0 /\ (year % 100 # 0 \/ year % 400 = 0)

daysInMonth(year, month) ==
    IF month = 2 THEN (IF isLeapYear(year) THEN 29 ELSE 28)
    ELSE IF month \in {4, 6, 9, 11} THEN 30
    ELSE IF month \in 1 .. 12 THEN 31 ELSE 0

daysFromCivil(year, month, day) ==
    LET adjustedYear == year - (IF month <= 2 THEN 1 ELSE 0)
        era == adjustedYear \div 400
        yearOfEra == adjustedYear - era * 400
        adjustedMonth == month + (IF month > 2 THEN -3 ELSE 9)
        dayOfYear == (153 * adjustedMonth + 2) \div 5 + day - 1
        dayOfEra == yearOfEra * 365 + yearOfEra \div 4 - yearOfEra \div 100
                      + dayOfYear
    IN  era * 146097 + dayOfEra - 719468

\* Mutant of yearOfEraAt: the leap day that ends an era is not taken off.
YearOfEraLong(dayOfEra) ==
    (dayOfEra - dayOfEra \div 1460 + dayOfEra \div 36524) \div 365

yearOfEraAt(dayOfEra) ==
    (dayOfEra - dayOfEra \div 1460 + dayOfEra \div 36524
       - dayOfEra \div 146096) \div 365

civilFromDays(daysSinceEpoch) ==
    LET shiftedDays == daysSinceEpoch + 719468
        era == shiftedDays \div 146097
        dayOfEra == shiftedDays - era * 146097
        yearOfEra == yearOfEraAt(dayOfEra)
        dayOfYear == dayOfEra - (365 * yearOfEra + yearOfEra \div 4
                                   - yearOfEra \div 100)
        monthPrime == (5 * dayOfYear + 2) \div 153
        month == monthPrime + (IF monthPrime < 10 THEN 3 ELSE -9)
    IN  [year |-> yearOfEra + era * 400 + (IF month <= 2 THEN 1 ELSE 0),
         month |-> month,
         day |-> dayOfYear - (153 * monthPrime + 2) \div 5 + 1]

Dates == [year : Int, month : 1 .. 12, day : 1 .. 31]

ASSUME CalendarAssumption ==
    /\ \A d \in FirstDays : d \in Dates /\ d.day <= daysInMonth(d.year, d.month)
    /\ Clocks \subseteq [hour : Nat, minute : Nat, second : Nat, ns : Nat]
    /\ Offsets \subseteq [sign : {"Z", "+", "-"}, hour : Nat, minute : Nat]

-----------------------------------------------------------------------------
\* The components that parseEventTimeToEpochNanoseconds rejects.  The pattern
\* of the text admits two digits for each.
Supported(d, c, o) ==
    /\ d.month \in 1 .. 12 /\ d.day \in 1 .. daysInMonth(d.year, d.month)
    /\ c.hour <= 23 /\ c.minute <= 59 /\ c.second <= 59
    /\ o.hour <= 23 /\ o.minute <= 59

OffsetSeconds(o) ==
    (IF o.sign = "-" THEN -1 ELSE 1) * (o.hour * 3600 + o.minute * 60)

\* epochNanoseconds
Instant(d, c, o) ==
    [days |-> daysFromCivil(d.year, d.month, d.day),
     seconds |-> c.hour * 3600 + c.minute * 60 + c.second - OffsetSeconds(o),
     ns |-> c.ns]

EpochDays(i) == i.days + i.seconds \div 86400
SecondsWithinDay(i) == i.seconds % 86400

\* compareCanonicalEventTimes
Earlier(i, j) ==
    \/ EpochDays(i) < EpochDays(j)
    \/ /\ EpochDays(i) = EpochDays(j)
       /\ \/ SecondsWithinDay(i) < SecondsWithinDay(j)
          \/ SecondsWithinDay(i) = SecondsWithinDay(j) /\ i.ns < j.ns

UTC == [sign |-> "Z", hour |-> 0, minute |-> 0]

\* normalizeEventTime: the date and the clock of an instant in UTC.
normalizeEventTime(d, c, o) ==
    LET i == Instant(d, c, o)
        s == SecondsWithinDay(i)
    IN  [date |-> civilFromDays(EpochDays(i)),
         clock |-> [hour |-> s \div 3600, minute |-> (s % 3600) \div 60,
                    second |-> s % 60, ns |-> i.ns]]

\* normalizeEventTime refuses an instant whose year in UTC has no four digits.
Normalizes(utc) == utc.date.year \in 0 .. 9999

-----------------------------------------------------------------------------
(* The calendar, turned by hand: the reference the arithmetic is held to. *)

CalendarInit ==
    /\ page \in FirstDays
    /\ turned = 0
    /\ writing \in [clock : Clocks, offset : Offsets]

NextDate(d) ==
    IF d.day < daysInMonth(d.year, d.month) THEN [d EXCEPT !.day = @ + 1]
    ELSE IF d.month < 12 THEN [d EXCEPT !.day = 1, !.month = @ + 1]
    ELSE [year |-> d.year + 1, month |-> 1, day |-> 1]

Turn ==
    /\ turned < Span
    /\ NextDate(page).year <= 9999
    /\ page' = NextDate(page)
    /\ turned' = turned + 1
    /\ UNCHANGED writing

CalendarSpec == CalendarInit /\ [][Turn]_calendarVars

\* A day's number is one more than the day's before, and names that day only,
\* over leap years, centuries and eras; a time in UTC is the instant that was
\* written, on the same scale, and writing it again changes nothing.
TimesAreExact ==
    /\ civilFromDays(daysFromCivil(page.year, page.month, page.day)) = page
    /\ LET next == NextDate(page)
       IN  daysFromCivil(next.year, next.month, next.day)
             = daysFromCivil(page.year, page.month, page.day) + 1
    /\ LET written == Instant(page, writing.clock, writing.offset)
           utc == normalizeEventTime(page, writing.clock, writing.offset)
           rewritten == Instant(utc.date, utc.clock, UTC)
       IN  Supported(page, writing.clock, writing.offset) /\ Normalizes(utc) =>
               /\ Supported(utc.date, utc.clock, UTC)
               /\ ~Earlier(rewritten, written) /\ ~Earlier(written, rewritten)
               /\ normalizeEventTime(utc.date, utc.clock, UTC) = utc
=============================================================================
