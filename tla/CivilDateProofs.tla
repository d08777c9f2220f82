--------------------------- MODULE CivilDateProofs ---------------------------
(* The dates of CivilDate follow the calendar, for every time.               *)
EXTENDS CivilDate, TLAPS

\* The year of an era lies between the first day of its own and of the next year.
LEMMA YearOfEraInRange ==
    ASSUME NEW doe \in Int, 0 <= doe, doe < 146097
    PROVE  /\ YearOfEra(doe) \in Int /\ 0 <= YearOfEra(doe) /\ YearOfEra(doe) <= 399
           /\ DayOfYear(doe) \in Int /\ 0 <= DayOfYear(doe) /\ DayOfYear(doe) <= 365
BY SMTT(60) DEF YearOfEra, DayOfYear, StartOfYear

\* The next day of an era is the next of its year, or the first of the next
\* year after 365 days, 366 when the year's February has a leap day.
LEMMA NextDayOfEra ==
    ASSUME NEW doe \in Int, 0 <= doe, doe < 146096
    PROVE  \/ /\ YearOfEra(doe + 1) = YearOfEra(doe)
              /\ DayOfYear(doe + 1) = DayOfYear(doe) + 1
           \/ /\ YearOfEra(doe + 1) = YearOfEra(doe) + 1
              /\ DayOfYear(doe + 1) = 0
              /\ IsLeap(YearOfEra(doe) + 1) => DayOfYear(doe) = 365
              /\ ~IsLeap(YearOfEra(doe) + 1) => DayOfYear(doe) = 364
BY SMTT(120) DEF YearOfEra, DayOfYear, StartOfYear, IsLeap

\* An era ends with the leap day of its last year and begins with the first day
\* of its first.
LEMMA EraEnds ==
    /\ YearOfEra(146096) = 399 /\ DayOfYear(146096) = 365
    /\ YearOfEra(0) = 0 /\ DayOfYear(0) = 0
BY SMT DEF YearOfEra, DayOfYear, StartOfYear

\* Within a year, counted from March, a day is followed by the next of its month,
\* or the last day of a month other than February by the first of the next.
LEMMA NextDayOfYear ==
    ASSUME NEW doy \in Int, 0 <= doy, doy < 365, NEW y \in Int,
           doy = 364 => IsLeap(y)
    PROVE  LET m == MonthOf(doy)
               d == DayOfMonth(doy)
           IN  \/ /\ MonthOf(doy + 1) = m /\ DayOfMonth(doy + 1) = d + 1
                  /\ d < MonthLength(y, m)
               \/ /\ m # 2 /\ d = MonthLength(y, m)
                  /\ MonthOf(doy + 1) = IF m = 12 THEN 1 ELSE m + 1
                  /\ DayOfMonth(doy + 1) = 1
BY SMTT(60) DEF MonthOf, DayOfMonth, MonthFromMarch, MonthLength, IsLeap

\* February ends the year, on its 29th day in a leap year.
LEMMA YearEnds ==
    ASSUME NEW y \in Int
    PROVE  /\ MonthOf(364) = 2 /\ DayOfMonth(364) = 28
           /\ MonthOf(365) = 2 /\ DayOfMonth(365) = 29
           /\ MonthOf(0) = 3 /\ DayOfMonth(0) = 1
           /\ MonthLength(y, 2) = IF IsLeap(y) THEN 29 ELSE 28
BY SMT DEF MonthOf, DayOfMonth, MonthFromMarch, MonthLength

\* Months and days are whole numbers, and a month lies in the year.
LEMMA MonthInRange ==
    ASSUME NEW doy \in Int, 0 <= doy, doy <= 365
    PROVE  /\ MonthOf(doy) \in Int /\ 1 <= MonthOf(doy) /\ MonthOf(doy) <= 12
           /\ DayOfMonth(doy) \in Int /\ 1 <= DayOfMonth(doy) /\ DayOfMonth(doy) <= 31
BY SMT DEF MonthOf, DayOfMonth, MonthFromMarch

\* Only a year whose February has a leap day has a 366th day.
LEMMA LeapDay ==
    ASSUME NEW doe \in Int, 0 <= doe, doe < 146097, DayOfYear(doe) = 365
    PROVE  IsLeap(YearOfEra(doe) + 1)
BY SMTT(60) DEF YearOfEra, DayOfYear, StartOfYear, IsLeap

\* The day after a day that is not the last of its year.
LEMMA TomorrowInYear ==
    ASSUME NEW era \in Int, NEW yoe \in Int, NEW doy \in Int, 0 <= doy, doy < 365,
           doy = 364 => IsLeap(yoe + 1)
    PROVE  Date(era, yoe, doy + 1) = Tomorrow(Date(era, yoe, doy))
<1> DEFINE m == MonthOf(doy)
           d == DayOfMonth(doy)
           y == yoe + 400 * era + IF m <= 2 THEN 1 ELSE 0
<1>1. /\ m \in Int /\ 1 <= m /\ m <= 12 /\ d \in Int
      /\ MonthOf(doy + 1) \in Int /\ DayOfMonth(doy + 1) \in Int
  BY MonthInRange
<1>2. y \in Int
  BY <1>1
<1>3. doy = 364 => IsLeap(y)
  <2> HAVE doy = 364
  <2>1. m = 2
    BY YearEnds, <1>2
  <2>2. y = (yoe + 1) + 400 * era
    BY <2>1
  \* Leap years repeat themselves after an era.
  <2> DEFINE first == yoe + 1
  <2>3. first \in Int /\ y = first + 400 * era
    BY <2>2
  <2> HIDE DEF m, d, y, first
  <2>4. IsLeap(y) <=> IsLeap(first)
    BY <2>3, SMT DEF IsLeap
  <2> QED BY <2>4 DEF first
<1>4. Date(era, yoe, doy) = [y |-> y, m |-> m, d |-> d]
  BY DEF Date
<1>5. Date(era, yoe, doy + 1) =
        [y |-> yoe + 400 * era + IF MonthOf(doy + 1) <= 2 THEN 1 ELSE 0,
         m |-> MonthOf(doy + 1), d |-> DayOfMonth(doy + 1)]
  BY DEF Date
<1>6. \/ MonthOf(doy + 1) = m /\ DayOfMonth(doy + 1) = d + 1 /\ d < MonthLength(y, m)
      \/ /\ m # 2 /\ d = MonthLength(y, m)
         /\ MonthOf(doy + 1) = IF m = 12 THEN 1 ELSE m + 1
         /\ DayOfMonth(doy + 1) = 1
  BY NextDayOfYear, <1>2, <1>3
<1>7. MonthLength(y, m) \in Int
  BY DEF MonthLength
<1> HIDE DEF m, d
<1>8. CASE MonthOf(doy + 1) = m /\ DayOfMonth(doy + 1) = d + 1 /\ d < MonthLength(y, m)
  BY <1>1, <1>4, <1>5, <1>7, <1>8 DEF Tomorrow
<1>9. CASE /\ m # 2 /\ d = MonthLength(y, m)
           /\ MonthOf(doy + 1) = IF m = 12 THEN 1 ELSE m + 1
           /\ DayOfMonth(doy + 1) = 1
  <2>1. CASE m = 12
    BY <1>1, <1>4, <1>5, <1>7, <1>9, <2>1 DEF Tomorrow
  <2>2. CASE m # 12
    <3>1. MonthOf(doy + 1) = m + 1 /\ (m <= 2 <=> m + 1 <= 2)
      BY <1>1, <1>9, <2>2
    <3>2. y = yoe + 400 * era + IF MonthOf(doy + 1) <= 2 THEN 1 ELSE 0
      BY <1>1, <3>1
    <3> HIDE DEF y
    <3>3. Date(era, yoe, doy + 1) = [y |-> y, m |-> m + 1, d |-> 1]
      BY <1>5, <1>9, <3>1, <3>2
    <3>4. m < 12 /\ ~(d < MonthLength(y, m))
      BY <1>1, <1>7, <1>9, <2>2
    <3> QED BY <1>4, <3>3, <3>4 DEF Tomorrow
  <2> QED BY <2>1, <2>2
<1> QED BY <1>6, <1>8, <1>9

\* The day after the last day of a year, which is the last of a February.
LEMMA TomorrowAfterYear ==
    ASSUME NEW era \in Int, NEW yoe \in Int, NEW doy \in Int,
           IsLeap(yoe + 1) => doy = 365, ~IsLeap(yoe + 1) => doy = 364,
           NEW nextEra \in Int, NEW nextYoe \in Int,
           nextYoe + 400 * nextEra = yoe + 1 + 400 * era
    PROVE  Date(nextEra, nextYoe, 0) = Tomorrow(Date(era, yoe, doy))
<1> DEFINE y == yoe + 400 * era + 1
<1>1. y \in Int /\ y = (yoe + 1) + 400 * era
  OBVIOUS
<1>2. IsLeap(y) <=> IsLeap(yoe + 1)
  \* Leap years repeat themselves after an era.
  <2> DEFINE first == yoe + 1
  <2>1. first \in Int /\ y = first + 400 * era
    BY <1>1
  <2> HIDE DEF y, first
  <2>2. IsLeap(y) <=> IsLeap(first)
    BY <2>1, SMT DEF IsLeap
  <2> QED BY <2>2 DEF first
<1>3. MonthOf(doy) = 2 /\ DayOfMonth(doy) = MonthLength(y, 2)
  BY <1>1, <1>2, YearEnds
<1>4. Date(era, yoe, doy) = [y |-> y, m |-> 2, d |-> MonthLength(y, 2)]
  BY <1>3 DEF Date
<1>5. Date(nextEra, nextYoe, 0) = [y |-> y, m |-> 3, d |-> 1]
  BY YearEnds, <1>1 DEF Date
<1>6. MonthLength(y, 2) \in Int
  BY DEF MonthLength
<1> HIDE DEF y
<1>7. ~(MonthLength(y, 2) < MonthLength(y, 2))
  BY <1>6
<1> QED BY <1>4, <1>5, <1>7 DEF Tomorrow

\* The civil date of every day is the calendar's day after that of the day before.
THEOREM DaysFollowCalendar ==
    ASSUME NEW days \in Int
    PROVE  CivilFromDays(days + 1) = Tomorrow(CivilFromDays(days))
<1> DEFINE z == days + 719468
           era == z \div 146097
           doe == z % 146097
<1>1. /\ z \in Int /\ era \in Int /\ doe \in Int /\ 0 <= doe /\ doe < 146097
      /\ z = 146097 * era + doe
  BY SMT
<1>2. CivilFromDays(days) = Date(era, YearOfEra(doe), DayOfYear(doe))
  BY DEF CivilFromDays, DaysPerEra
<1>3. /\ YearOfEra(doe) \in Int
      /\ DayOfYear(doe) \in Int /\ 0 <= DayOfYear(doe) /\ DayOfYear(doe) <= 365
  BY <1>1, YearOfEraInRange
<1>4. CivilFromDays(days + 1) =
        Date((z + 1) \div 146097, YearOfEra((z + 1) % 146097), DayOfYear((z + 1) % 146097))
  BY SMT DEF CivilFromDays, DaysPerEra
<1>5. CASE doe < 146096
  <2>1. (z + 1) \div 146097 = era /\ (z + 1) % 146097 = doe + 1
    BY <1>1, <1>5, SMT
  <2>2. CASE YearOfEra(doe + 1) = YearOfEra(doe) /\ DayOfYear(doe + 1) = DayOfYear(doe) + 1
    <3>1. DayOfYear(doe) < 365
      BY <1>1, <1>3, <1>5, <2>2, YearOfEraInRange
    <3>2. DayOfYear(doe) = 364 => IsLeap(YearOfEra(doe) + 1)
      BY <1>1, <1>5, <2>2, LeapDay
    <3> HIDE DEF z, era, doe
    <3>3. Date(era, YearOfEra(doe), DayOfYear(doe) + 1)
            = Tomorrow(Date(era, YearOfEra(doe), DayOfYear(doe)))
      <4> DEFINE yoe == YearOfEra(doe)
                 doy == DayOfYear(doe)
      <4>1. /\ era \in Int /\ yoe \in Int /\ doy \in Int /\ 0 <= doy /\ doy < 365
            /\ doy = 364 => IsLeap(yoe + 1)
        BY <1>1, <1>3, <3>1, <3>2
      <4> HIDE DEF yoe, doy
      <4>2. Date(era, yoe, doy + 1) = Tomorrow(Date(era, yoe, doy))
        BY <4>1, TomorrowInYear
      <4> QED BY <4>2 DEF yoe, doy
    <3>4. /\ YearOfEra((z + 1) % 146097) = YearOfEra(doe)
          /\ DayOfYear((z + 1) % 146097) = DayOfYear(doe) + 1
      BY <2>1, <2>2
    <3> QED BY <1>2, <1>4, <2>1, <3>3, <3>4
  <2>3. CASE /\ YearOfEra(doe + 1) = YearOfEra(doe) + 1 /\ DayOfYear(doe + 1) = 0
             /\ IsLeap(YearOfEra(doe) + 1) => DayOfYear(doe) = 365
             /\ ~IsLeap(YearOfEra(doe) + 1) => DayOfYear(doe) = 364
    <3> HIDE DEF z, era, doe
    <3>1. /\ YearOfEra(doe) + 1 \in Int
          /\ (YearOfEra(doe) + 1) + 400 * era = YearOfEra(doe) + 1 + 400 * era
      BY <1>1, <1>3
    <3>2. Date(era, YearOfEra(doe) + 1, 0) = Tomorrow(Date(era, YearOfEra(doe), DayOfYear(doe)))
      <4> DEFINE yoe == YearOfEra(doe)
                 doy == DayOfYear(doe)
      <4>1. /\ era \in Int /\ yoe \in Int /\ doy \in Int /\ yoe + 1 \in Int
            /\ (yoe + 1) + 400 * era = yoe + 1 + 400 * era
            /\ IsLeap(yoe + 1) => doy = 365
            /\ ~IsLeap(yoe + 1) => doy = 364
        BY <1>1, <1>3, <2>3, <3>1
      <4> HIDE DEF yoe, doy
      <4>2. Date(era, yoe + 1, 0) = Tomorrow(Date(era, yoe, doy))
        BY <4>1, TomorrowAfterYear
      <4> QED BY <4>2 DEF yoe, doy
    <3>3. /\ YearOfEra((z + 1) % 146097) = YearOfEra(doe) + 1
          /\ DayOfYear((z + 1) % 146097) = 0
      BY <2>1, <2>3
    <3> QED BY <1>2, <1>4, <2>1, <3>2, <3>3
  <2> HIDE DEF z, era, doe
  <2> QED BY <1>1, <1>5, <2>2, <2>3, NextDayOfEra
<1>6. CASE doe = 146096
  <2>1. (z + 1) \div 146097 = era + 1 /\ (z + 1) % 146097 = 0
    BY <1>1, <1>6, SMT
  <2>2. IsLeap(YearOfEra(doe) + 1)
    BY <1>6, EraEnds, LeapDay
  <2> HIDE DEF z, era, doe
  <2> QED BY <1>1, <1>2, <1>3, <1>4, <1>6, <2>1, <2>2, EraEnds, TomorrowAfterYear
<1> QED BY <1>1, <1>5, <1>6
=============================================================================
