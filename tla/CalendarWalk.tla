------------------------------ MODULE CalendarWalk ------------------------------
(***************************************************************************)
(* RTClib's dates put beside a calendar: a walk through the days of        *)
(* 2000-2099 that knows only how long a month is, and counts the days.     *)
(* Time is moved on by the library's own operator+.                        *)
(***************************************************************************)
EXTENDS CalendarText

CONSTANTS Years,   \* offsets of the years to walk through
          Moments  \* the seconds of a day to look at, in order, 0 the first

ASSUME CalendarWalkAssumption ==
    /\ Years \subseteq 0..99
    /\ Moments \in Seq(0..(SecondsPerDay - 1)) /\ Len(Moments) > 0 /\ Moments[1] = 0
    /\ \A i \in 1..(Len(Moments) - 1) : Moments[i] < Moments[i + 1]

VARIABLES dateTime,      \* the DateTime of the library
          dateBefore,    \* the one a step earlier
          calendarDay,   \* the day of the calendar: year, month, day of the month
          calendarDays,  \* days since 2000-01-01 by the calendar
          moment         \* the time of day, an index of Moments

walkVars == <<dateTime, dateBefore, calendarDay, calendarDays, moment>>

MonthLength(y, m) ==
    CASE m \in {4, 6, 9, 11} -> 30
      [] m = 2 -> IF y % 4 = 0 THEN 29 ELSE 28
      [] OTHER -> 31

DayAfter(c) ==
    IF c[3] < MonthLength(c[1], c[2]) THEN <<c[1], c[2], c[3] + 1>>
    ELSE IF c[2] < 12 THEN <<c[1], c[2] + 1, 1>> ELSE <<c[1] + 1, 1, 1>>

(* Formats of toString: __DATE__, __TIME__, ISO 8601, an hour of twelve and a day. *)
SpaceChar == " "
BuildDay == <<"M","M","M",SpaceChar,"D","D",SpaceChar,"Y","Y","Y","Y">>
BuildTime == <<"h","h",":","m","m",":","s","s">>
IsoFormat == <<"Y","Y","Y","Y","-","M","M","-","D","D","T","h","h",":","m","m",":","s","s">>
Spoken == <<"D","D","D",SpaceChar,"h","h",SpaceChar,"A","P">>

(* __DATE__ has a blank before a day of one digit. *)
Blanked(text) == IF text[5] = "0" THEN [text EXCEPT ![5] = SpaceChar] ELSE text

--------------------------------------------------------------------------------
WalkInit ==
    \E y \in Years :
        /\ dateTime = DateOf(2000 + y, 1, 1, 0, 0, 0) /\ dateBefore = dateTime
        /\ calendarDay = <<y, 1, 1>> /\ calendarDays = DaysBeforeYear[y] /\ moment = 1

LaterThatDay ==
    /\ moment < Len(Moments)
    /\ moment' = moment + 1
    /\ dateTime' = Plus(dateTime, Seconds(0, Moments[moment + 1] - Moments[moment]))
    /\ dateBefore' = dateTime
    /\ UNCHANGED <<calendarDay, calendarDays>>

NextDay ==
    /\ moment = Len(Moments) /\ DayAfter(calendarDay)[1] < 100
    /\ moment' = 1 /\ calendarDay' = DayAfter(calendarDay) /\ calendarDays' = calendarDays + 1
    /\ dateTime' = Plus(dateTime, Seconds(0, SecondsPerDay - Moments[moment]))
    /\ dateBefore' = dateTime

(* The last second of 2099 is the last that a DateTime is made for. *)
EndOfTime ==
    /\ moment = Len(Moments) /\ DayAfter(calendarDay)[1] = 100
    /\ UNCHANGED walkVars

WalkNext == LaterThatDay \/ NextDay \/ EndOfTime

WalkSpec == WalkInit /\ [][WalkNext]_walkVars

--------------------------------------------------------------------------------
(* RTClib agrees with the calendar on every day of the century: the date    *)
(* that operator+ arrives at is the day of the calendar, its days since     *)
(* 2000 are the days walked, and unixtime() leads back to it.               *)
DatesAgree ==
    /\ <<dateTime.yOff, dateTime.m, dateTime.d>> = calendarDay
    /\ (dateTime.hh * 60 + dateTime.mm) * 60 + dateTime.ss = Moments[moment]
    /\ date2days(dateTime) = calendarDays
    /\ isValid(dateTime)

(* A later date is later: by operator<, by the difference, and by the day   *)
(* of the week, which goes on by one at midnight only; and a TimeSpan is    *)
(* the one that its fields make.                                            *)
OrderAgrees ==
    dateBefore # dateTime =>
        /\ Earlier(dateBefore, dateTime) /\ ~ Earlier(dateTime, dateBefore)
        /\ LET span == Between(dateTime, dateBefore)
               fields == SpanFields(span)
           IN /\ Minus(dateTime, span) = dateBefore
              /\ TimeSpan(fields[1], fields[2], fields[3], fields[4]) = span
        /\ dayOfTheWeek(dateTime) =
               (dayOfTheWeek(dateBefore) + (IF moment = 1 THEN 1 ELSE 0)) % 7

(* Every field survives the DS1307's registers. *)
BytesAgree == \A i \in 1..6 : bcd2bin(bin2bcd(Fields(dateTime)[i])) = Fields(dateTime)[i]

(* What is written is read back as the same date: from texts in the format  *)
(* of the compiler and of ISO 8601, with a day alone as the start of that   *)
(* day, and from a text of twelve hours with the name of its day.  Looked   *)
(* at once a day, at each moment in turn.                                   *)
TextsOf(date) ==
    LET built == toString(date, BuildDay)
        time == toString(date, BuildTime)
        spoken == toString(date, Spoken)
    IN  /\ SameDate(DateOfBuild(built, time), date)
        /\ SameDate(DateOfBuild(Blanked(built), timestamp(date, "time")), date)
        /\ SameDate(DateOfIso(timestamp(date, "full")), date)
        /\ SameDate(DateOfIso(toString(date, IsoFormat)), date)
        /\ SameDate(DateOfIso(timestamp(date, "date")), [date EXCEPT !.hh = 0, !.mm = 0, !.ss = 0])
        /\ SubSeq(spoken, 1, 3) = DayNames[dayOfTheWeek(date) + 1]
        /\ conv2d(spoken, 5) \in 1..12
        /\ (conv2d(spoken, 5) % 12) + (IF spoken[8] = "P" THEN 12 ELSE 0) = date.hh
TextsAgree == moment = Len(Moments) - (calendarDays % Len(Moments)) => TextsOf(dateTime)

CalendarAgrees == DatesAgree /\ OrderAgrees /\ BytesAgree /\ TextsAgree
================================================================================
