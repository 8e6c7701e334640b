------------------------------ MODULE CalendarText ------------------------------
(***************************************************************************)
(* The texts of RTClib's dates: those that a DateTime is made from, and    *)
(* those that toString() and timestamp() make of it.  A text is a sequence *)
(* of characters; dates are valid, so a field has two digits at most.      *)
(***************************************************************************)
EXTENDS Calendar

Digits == <<"0", "1", "2", "3", "4", "5", "6", "7", "8", "9">>
Two(n) == <<Digits[(n \div 10) + 1], Digits[(n % 10) + 1]>>

MonthNames == <<<<"J","a","n">>, <<"F","e","b">>, <<"M","a","r">>, <<"A","p","r">>,
                <<"M","a","y">>, <<"J","u","n">>, <<"J","u","l">>, <<"A","u","g">>,
                <<"S","e","p">>, <<"O","c","t">>, <<"N","o","v">>, <<"D","e","c">>>>
DayNames == <<<<"S","u","n">>, <<"M","o","n">>, <<"T","u","e">>, <<"W","e","d">>,
              <<"T","h","u">>, <<"F","r","i">>, <<"S","a","t">>>>

--------------------------------------------------------------------------------
(* From a text to a date. *)

(* Two characters of a text; what is no digit counts nothing in the tens.   *)
conv2d(text, i) ==
    LET Value(c) == IF \E k \in DOMAIN Digits : Digits[k] = c
                    THEN (CHOOSE k \in DOMAIN Digits : Digits[k] = c) - 1 ELSE 0
    IN  10 * Value(text[i]) + Value(text[i + 1])

(* The month of __DATE__, by as many letters as tell it. *)
MonthOf(name) ==
    CASE name[1] = "J" -> IF name[2] = "a" THEN 1 ELSE IF name[3] = "n" THEN 6 ELSE 7
      [] name[1] = "F" -> 2
      [] name[1] = "A" -> IF name[3] = "r" THEN 4 ELSE 8
      [] name[1] = "M" -> IF name[3] = "r" THEN 3 ELSE 5
      [] name[1] = "S" -> 9
      [] name[1] = "O" -> 10
      [] name[1] = "N" -> 11
      [] name[1] = "D" -> 12

(* From __DATE__ and __TIME__, in memory or in flash. *)
DateOfBuild(date, time) ==
    Date(conv2d(date, 10), MonthOf(date), conv2d(date, 5),
         conv2d(time, 1), conv2d(time, 4), conv2d(time, 7))

(* From ISO 8601; what a short text leaves out is taken from the first      *)
(* moment of 2000.                                                          *)
StartOf2000 == <<"2","0","0","0","-","0","1","-","0","1","T","0","0",":","0","0",":","0","0">>
DateOfIso(text) ==
    LET ref == [i \in DOMAIN StartOf2000 |-> IF i <= Len(text) THEN text[i] ELSE StartOf2000[i]]
    IN  Date(conv2d(ref, 3), conv2d(ref, 6), conv2d(ref, 9),
             conv2d(ref, 12), conv2d(ref, 15), conv2d(ref, 18))

--------------------------------------------------------------------------------
(* From a date to a text. *)

(* twelveHour() and isPM(), and the hour of toString() with "ap". *)
twelveHour(hh) == IF hh \in {0, 12} THEN 12 ELSE IF hh > 12 THEN hh - 12 ELSE hh
isPM(hh) == hh >= 12

IsAt(pattern, text, i) ==
    i + Len(pattern) - 1 <= Len(text) /\ \A k \in DOMAIN pattern : text[i + k - 1] = pattern[k]

(* What toString() looks for at one place, in the order it does, and what   *)
(* it writes there, an hour being written as the format asks for.  What one *)
(* line writes no later line looks for: the first that fits is the only one. *)
Specifiers(date, hour) ==
    LET year == Two(date.yOff % 100)
        half == IF isPM(date.hh) THEN "P" ELSE "A"
        small == IF isPM(date.hh) THEN "p" ELSE "a"
    IN  <<<<<<"h","h">>, Two(hour)>>, <<<<"m","m">>, Two(date.mm)>>, <<<<"s","s">>, Two(date.ss)>>,
          <<<<"D","D","D">>, DayNames[dayOfTheWeek(date) + 1]>>, <<<<"D","D">>, Two(date.d)>>,
          <<<<"M","M","M">>, MonthNames[date.m]>>, <<<<"M","M">>, Two(date.m)>>,
          <<<<"Y","Y","Y","Y">>, <<"2", "0">> \o year>>, <<<<"Y","Y">>, year>>,
          <<<<"A","P">>, <<half, "M">>>>, <<<<"a","p">>, <<small, "m">>>>>>

(* What the format is overwritten with from one place on.                   *)
OverwriteAt(rules, text, i) ==
    LET found == {r \in DOMAIN rules : IsAt(rules[r][1], text, i)}
        rule == rules[CHOOSE r \in found : \A q \in found : r <= q]
    IN  IF found = {} THEN text
        ELSE [k \in DOMAIN text |-> IF k \in i..(i + Len(rule[1]) - 1)
                                    THEN rule[2][k - i + 1] ELSE text[k]]

(* It is overwritten from its first character to its last but one: what has *)
(* been written at one place is looked at again at the next.  A format has  *)
(* a character at least.                                                    *)
WrittenOver(rules, format) ==
    LET place[i \in 0..(Len(format) - 1)] ==
            IF i = 0 THEN format ELSE OverwriteAt(rules, place[i - 1], i)
    IN  place
toString(date, format) ==
    LET ap == \E i \in DOMAIN format : IsAt(<<"a","p">>, format, i) \/ IsAt(<<"A","P">>, format, i)
        rules == Specifiers(date, IF ap THEN twelveHour(date.hh) ELSE date.hh)
    IN  WrittenOver(rules, format)[Len(format) - 1]

timestamp(date, opt) ==
    LET day == Two(20 + (date.yOff \div 100)) \o Two(date.yOff % 100)
                 \o <<"-">> \o Two(date.m) \o <<"-">> \o Two(date.d)
        time == Two(date.hh) \o <<":">> \o Two(date.mm) \o <<":">> \o Two(date.ss)
    IN  CASE opt = "time" -> time
          [] opt = "date" -> day
          [] opt = "full" -> day \o <<"T">> \o time
================================================================================
