-------------------------------- MODULE Calendar --------------------------------
(***************************************************************************)
(* The dates of RTClib: DateTime, TimeSpan and the byte formats of the     *)
(* DS1307.  A DateTime is the record of its six fields, the year as an     *)
(* offset from 2000.  A uint32_t of seconds is the pair of its days and    *)
(* the seconds of the last one: 2^32 seconds are 49710 days and 23296 s.   *)
(***************************************************************************)
EXTENDS Integers, Sequences, FiniteSets

SecondsPerDay == 86400
DaysTo2000 == 10957  \* SECONDS_FROM_1970_TO_2000 is a whole number of days
TopDays == 49710
TopSecs == 23296

daysInMonth == <<31, 28, 31, 30, 31, 30, 31, 31, 30, 31, 30>>

Date(yOff, m, d, hh, mm, ss) ==
    [yOff |-> yOff, m |-> m, d |-> d, hh |-> hh, mm |-> mm, ss |-> ss]

--------------------------------------------------------------------------------
(* Seconds, modulo 2^32. *)

Seconds(days, secs) ==
    [days |-> days + secs \div SecondsPerDay, secs |-> secs % SecondsPerDay]

Wrapped(t) ==
    IF t.days < 0 THEN Seconds(t.days + TopDays, t.secs + TopSecs)
    ELSE IF t.days > TopDays \/ (t.days = TopDays /\ t.secs >= TopSecs)
         THEN Seconds(t.days - TopDays, t.secs - TopSecs)
         ELSE t

Sum32(s, t) == Wrapped(Seconds(s.days + t.days, s.secs + t.secs))
Diff32(s, t) == Wrapped(Seconds(s.days - t.days, s.secs - t.secs))

(* An int32_t of seconds, of either sign, as C converts it to uint32_t. *)
TimeSpan(days, hours, minutes, seconds) ==
    Wrapped(Seconds(days, hours * 3600 + minutes * 60 + seconds))

(* The accessors of a span that is not negative. *)
SpanFields(t) == <<t.days, t.secs \div 3600 % 24, t.secs \div 60 % 60, t.secs % 60>>

--------------------------------------------------------------------------------
(* From a date to days and seconds. *)

DaysBeforeMonth[m \in 1..12] ==
    IF m = 1 THEN 0 ELSE DaysBeforeMonth[m - 1] + daysInMonth[m - 1]

date2daysNoLeap(date) ==
    (date.d + DaysBeforeMonth[date.m] + 365 * date.yOff + (date.yOff + 3) \div 4 - 1)
        % 65536
date2days(date) ==
    (date.d + DaysBeforeMonth[date.m]
       + (IF date.m > 2 /\ date.yOff % 4 = 0 THEN 1 ELSE 0)
       + 365 * date.yOff + (date.yOff + 3) \div 4 - 1) % 65536

secondstime(date) ==
    Seconds(date2days(date), (date.hh * 60 + date.mm) * 60 + date.ss)
unixtime(date) == Sum32(secondstime(date), [days |-> DaysTo2000, secs |-> 0])
dayOfTheWeek(date) == (date2days(date) + 6) % 7

--------------------------------------------------------------------------------
(* From seconds to a date: the year is the first that the days do not fill, *)
(* and then the month, of which December takes what is left.                *)

Leap(yOff) == IF yOff % 4 = 0 THEN 1 ELSE 0
DaysBeforeYear ==
    [y \in 0..137 |-> 365 * y + Cardinality({z \in 0..(y - 1) : z % 4 = 0})]

LengthOf(yOff, m) == daysInMonth[m] + (IF m = 2 THEN Leap(yOff) ELSE 0)

MonthAndDay(yOff, rest) ==
    LET Left[m \in 1..12] ==  \* days left when the loop comes to month m
            IF m = 1 THEN rest ELSE Left[m - 1] - LengthOf(yOff, m - 1)
        m == CHOOSE i \in 1..12 :
                /\ i = 12 \/ Left[i] < LengthOf(yOff, i)
                /\ \A j \in 1..(i - 1) : Left[j] >= LengthOf(yOff, j)
    IN <<m, Left[m] + 1>>

DateTime(t) ==
    LET since == Diff32(t, [days |-> DaysTo2000, secs |-> 0])
        yOff == CHOOSE y \in 0..136 : /\ DaysBeforeYear[y] <= since.days
                                      /\ since.days < DaysBeforeYear[y + 1]
        md == MonthAndDay(yOff, since.days - DaysBeforeYear[yOff])
    IN Date(yOff, md[1], md[2], since.secs \div 3600, since.secs \div 60 % 60,
            since.secs % 60)

(* DateTime(year, ...) takes the year itself or its offset. *)
DateOf(year, m, d, hh, mm, ss) ==
    Date((IF year >= 2000 THEN year - 2000 ELSE year) % 256, m, d, hh, mm, ss)

isValid(date) == date.yOff < 100 /\ DateTime(unixtime(date)) = date

Plus(date, span) == DateTime(Sum32(unixtime(date), span))
Minus(date, span) == DateTime(Diff32(unixtime(date), span))
Between(date, right) == Diff32(unixtime(date), unixtime(right))

(* operator==, and operator<: the first field that differs decides. *)
Fields(date) == <<date.yOff, date.m, date.d, date.hh, date.mm, date.ss>>
SameDate(date, right) == Fields(date) = Fields(right)
Earlier(date, right) ==
    \E i \in 1..6 : /\ Fields(date)[i] < Fields(right)[i]
                    /\ \A j \in 1..(i - 1) : Fields(date)[j] = Fields(right)[j]

--------------------------------------------------------------------------------
(* Dates as bytes of the DS1307. *)

bin2bcdNoCarry(val) == val + 6 * (val \div 16)
bin2bcd(val) == val + 6 * (val \div 10)
bcd2bin(val) == (val - 6 * (val \div 16)) % 256
================================================================================
