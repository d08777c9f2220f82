----------------------------- MODULE CivilDate -----------------------------
(* The date arithmetic of core/metadata/embedder.cc: the calendar date of a  *)
(* POSIX time, counted in eras of 400 years that begin on March 1st, so that *)
(* the leap day is the last of its year.                                     *)
EXTENDS Integers

SecondsPerDay == 86400
DaysPerEra == 146097

\* Mutant: the quotient is truncated, as C++'s division does, and not floored.
TruncatedDays(timestamp) ==
    IF timestamp >= 0 THEN timestamp \div SecondsPerDay
                      ELSE -((-timestamp) \div SecondsPerDay)

\* Days since 1970-01-01.  The code corrects its truncating division by the
\* sign of the remainder, which makes it the flooring one of TLA+.
DaysOf(timestamp) == timestamp \div SecondsPerDay

\* The year of the era that holds its day doe: leap days are taken out first.
YearOfEra(doe) ==
    (doe - doe \div 1460 + doe \div 36524 - doe \div 146096) \div 365

\* The first day of a year of the era.
StartOfYear(yoe) == 365 * yoe + yoe \div 4 - yoe \div 100

DayOfYear(doe) == doe - StartOfYear(YearOfEra(doe))

\* Months, counted from March, and days of a day of the year.
MonthFromMarch(doy) == (5 * doy + 2) \div 153
MonthOf(doy) ==
    IF MonthFromMarch(doy) < 10 THEN MonthFromMarch(doy) + 3 ELSE MonthFromMarch(doy) - 9
DayOfMonth(doy) == doy - (153 * MonthFromMarch(doy) + 2) \div 5 + 1

Date(era, yoe, doy) ==
    [y |-> yoe + 400 * era + IF MonthOf(doy) <= 2 THEN 1 ELSE 0,
     m |-> MonthOf(doy),
     d |-> DayOfMonth(doy)]

\* The date of a day, counted from 1970-01-01; 719468 days before it an era began.
CivilFromDays(days) ==
    LET era == (days + 719468) \div DaysPerEra
        doe == (days + 719468) % DaysPerEra
    IN  Date(era, YearOfEra(doe), DayOfYear(doe))

CivilDateOf(timestamp) == CivilFromDays(DaysOf(timestamp))

-----------------------------------------------------------------------------
(* The calendar, as its rules state it                                       *)

IsLeap(y) == y % 4 = 0 /\ (y % 100 # 0 \/ y % 400 = 0)

MonthLength(y, m) ==
    IF m = 2 THEN IF IsLeap(y) THEN 29 ELSE 28
             ELSE IF m \in {4, 6, 9, 11} THEN 30 ELSE 31

Tomorrow(date) ==
    IF date.d < MonthLength(date.y, date.m)
        THEN [y |-> date.y, m |-> date.m, d |-> date.d + 1]
    ELSE IF date.m < 12 THEN [y |-> date.y, m |-> date.m + 1, d |-> 1]
    ELSE [y |-> date.y + 1, m |-> 1, d |-> 1]
=============================================================================
