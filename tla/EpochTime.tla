------------------------------ MODULE EpochTime -------------------------------
(***************************************************************************)
(* lib/etime.h, lib/etime.cpp and lib/ecal.cpp: the date and the time of   *)
(* day of a number of seconds since 1970, and the seconds of a date.       *)
(***************************************************************************)
EXTENDS Integers, Sequences, FiniteSets, SequencesExt

SECONDS_PER_HOUR == 3600
SECONDS_PER_MINUTE == 60
SECONDS_PER_DAY == 86400
SECONDS_PER_NON_LEAP_YEAR == 31536000

isLeapYear(year) == year % 4 = 0 /\ (year % 100 # 0 \/ year % 400 = 0)

(* The seconds up until each month, and at its end those of the year.      *)
DaysInMonth == <<31, 28, 31, 30, 31, 30, 31, 31, 30, 31, 30, 31>>
MonthDays(month, year) ==
    DaysInMonth[month] + (IF month = 2 /\ isLeapYear(year) THEN 1 ELSE 0)
DaysUpUntilMonth(month, year) ==
    FoldLeft(LAMBDA sum, k : sum + MonthDays(k, year), 0, [k \in 1..(month - 1) |-> k])
RunningSeconds(year) ==
    [m \in 1..13 |-> SECONDS_PER_DAY * DaysUpUntilMonth(m, year)]

secondsUpUntilMonth(month, year) == RunningSeconds(year)[month]
getNumLeapYears(year) == Cardinality({y \in 1972..(year - 1) : y % 4 = 0 /\ isLeapYear(y)})

(* The seconds up to the end of a year; LastYear bounds the search.        *)
LastYear == 2037
gregorian_count(year) ==
    (year + 1 - 1970) * SECONDS_PER_NON_LEAP_YEAR
    + Cardinality({y \in 1970..year : isLeapYear(y)}) * SECONDS_PER_DAY

YearOf(epoch_seconds) ==
    CHOOSE y \in 1970..LastYear : epoch_seconds < gregorian_count(y)
                                  /\ \A z \in 1970..(y - 1) : epoch_seconds >= gregorian_count(z)
SinceYear(epoch_seconds, year) ==
    IF year = 1970 THEN epoch_seconds
    ELSE epoch_seconds - (gregorian_count(year) - SECONDS_PER_NON_LEAP_YEAR)
         + (IF isLeapYear(year) THEN SECONDS_PER_DAY ELSE 0)
MonthIn(year, since_year) ==
    Cardinality({m \in 1..13 : RunningSeconds(year)[m] <= since_year})

Clock(epoch_seconds) ==
    LET year == YearOf(epoch_seconds)
        since_year == SinceYear(epoch_seconds, year)
        month == MonthIn(year, since_year)
        since_month == since_year - secondsUpUntilMonth(month, year)
        day == since_month \div SECONDS_PER_DAY
        since_day == since_month - day * SECONDS_PER_DAY
        hr == since_day \div SECONDS_PER_HOUR
    IN  [year |-> year, month |-> month, day |-> day + 1, hr |-> hr,
         min |-> (since_day - hr * SECONDS_PER_HOUR) \div SECONDS_PER_MINUTE,
         sec |-> since_day % SECONDS_PER_MINUTE]

EpochSeconds(t) ==
    (t.year - 1970) * SECONDS_PER_NON_LEAP_YEAR + getNumLeapYears(t.year) * SECONDS_PER_DAY
    + secondsUpUntilMonth(t.month, t.year) + (t.day - 1) * SECONDS_PER_DAY
    + t.hr * SECONDS_PER_HOUR + t.min * SECONDS_PER_MINUTE + t.sec

-----------------------------------------------------------------------------
(* The days since 1970 of a date, of the calendar that begins in March.    *)
DaysFromCivil(year, month, day) ==
    LET m == (month + 9) % 12
        y == year - (m \div 10)
    IN  365 * y + (y \div 4) - (y \div 100) + (y \div 400) + ((306 * m + 5) \div 10)
        + day - 1 - 719468

(* The dates and times of day up to LastYear, and their seconds.           *)
IsDate(t) ==
    /\ t.year \in 1970..LastYear /\ t.month \in 1..12
    /\ t.day \in 1..MonthDays(t.month, t.year)
    /\ t.hr \in 0..23 /\ t.min \in 0..59 /\ t.sec \in 0..59
CivilSeconds(t) ==
    DaysFromCivil(t.year, t.month, t.day) * 86400 + t.hr * 3600 + t.min * 60 + t.sec
=============================================================================
