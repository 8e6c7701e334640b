------------------------------ MODULE DeviceProofs ------------------------------
(***************************************************************************)
(* For every wrap of millis(), period and length of a pass: the clock is   *)
(* fresh unless its refresh may have fallen behind the wrap, the LED keeps *)
(* its time, and each press is seen once.                                  *)
(*                                                                         *)
(* And what the station measures is what it publishes: a length is one of  *)
(* its readings, for every reading of the converter, every number of them  *)
(* in an average and every estimate that the Kalman filter makes of them;  *)
(* and the time in the registers is the chip's, for every date and         *)
(* everything that an uninitialized buffer may hold.                       *)
(*                                                                         *)
(* And for any number of text messages, restarts and lines of the modem:   *)
(* a text message is spoiled by a restart only, and a report that comes    *)
(* while everything is quiet is read.                                      *)
(*                                                                         *)
(* And the drivers of the clock chips: for every alarm, square wave, timer *)
(* and calibration that they offer, in any order, and whatever flags the   *)
(* chip raises meanwhile, each setting reads back as it was last asked     *)
(* for, and an alarm fires when its mode says.                             *)
(***************************************************************************)
EXTENDS Peripherals, LengthSensor, StationClock, Modem, ClockChips, SequenceTheorems,
        WellFoundedInduction, TLAPS

(* How much of a gap has gone by since the clock, and the LED, was polled.  *)
ClockSlack(p) == CASE p = "led" -> 0
                   [] p = "rest" -> 1
                   [] p = "button" -> 1 + RestTime
                   [] OTHER -> 1 + RestTime + SmsTime
LedSlack(p) == CASE p = "rest" -> 0
                 [] p = "button" -> RestTime
                 [] p = "clock" -> RestTime + SmsTime
                 [] OTHER -> RestTime + SmsTime + BusTime

Loop == {"button", "clock", "led", "rest"}

ClockOK ==
    /\ refreshed => pc \in Loop
    /\ refreshed /\ ~ MayBeMissed =>
         /\ clockAge <= Period + ClockSlack(pc)
         /\ now = Later(count_rtc, clockAge)

LedOK ==
    /\ ledSpan # 0 =>
         /\ pc \in Loop /\ ledSpan >= OnTime
         /\ ledAge <= OnTime + LedSlack(pc)
         /\ now = Later(time2, ledAge)
    /\ ledSpan = 0 => time2 = 0 /\ (ledAge >= now \/ ledAge = AgeMax)

PressOK ==
    \A b \in Buttons :
        LET sampled == polls[b] = 2 \/ (polls[b] = 1 /\ Sampled(count) = b)
        IN  /\ pin[b] = 1 => seen[b] = 0 /\ (sampled => but_new[b] = 1)
            /\ pin[b] = 0 =>
                 /\ seen[b] = 1 => but_new[b] = 0
                 /\ sampled => but_new[b] = 0
                 /\ firm[b] => seen[b] = 1 - but_new[b]

IInv == TypeOK /\ ClockOK /\ LedOK /\ PressOK

LEMMA Constants ==
    /\ Wrap \in Nat /\ Period \in Nat /\ OnTime \in Nat /\ OnTime > 0
    /\ CountWrap \in Nat /\ CountWrap > 0 /\ CountWrap % 2 = 0
    /\ RetryTime \in Nat /\ RetryTime < Wrap /\ SetupTime \in Nat /\ SetupTime < Wrap
    /\ SmsTime \in Nat /\ BusTime \in Nat /\ RestTime \in Nat /\ RestTime > 0
    /\ AgeMax \in Nat /\ Gap = SmsTime + BusTime + RestTime + 1
    /\ Period + Gap < Wrap /\ OnTime + Gap < Wrap
    /\ Period + Gap < AgeMax /\ OnTime + Gap < AgeMax
BY PeripheralsAssumption DEF PeripheralsAssumption, Gap

(* The sum of two times less than a wrap is one, and wraps at most once. *)
LEMMA LaterType ==
    ASSUME NEW a \in 0..Wrap - 1, NEW d \in Nat, d < Wrap
    PROVE  Later(a, d) \in 0..Wrap - 1 /\ Later(a, d) <= a + d
BY Constants DEF Later

LEMMA LaterAgain ==
    ASSUME NEW a \in 0..Wrap - 1, NEW d \in Nat, NEW e \in Nat, d + e < Wrap
    PROVE  Later(Later(a, d), e) = Later(a, d + e)
BY Constants DEF Later

LEMMA SinceLater ==
    ASSUME NEW a \in 0..Wrap - 1, NEW d \in 0..Wrap - 1
    PROVE  Since(Later(a, d), a) = d
BY Constants DEF Later, Since

LEMMA OlderType ==
    ASSUME NEW age \in 0..AgeMax, NEW d \in Nat
    PROVE  /\ Older(age, d) \in 0..AgeMax
           /\ age + d < AgeMax => Older(age, d) = age + d
           /\ Older(age, d) = age + d \/ Older(age, d) = AgeMax
BY Constants DEF Older

(* The button that is sampled is never the one of the pass before. *)
LEMMA Alternates ==
    ASSUME NEW c \in 0..CountWrap - 1
    PROVE  /\ CountUp(c) \in 0..CountWrap - 1
           /\ Sampled(c) \in Buttons /\ Sampled(CountUp(c)) \in Buttons
           /\ Sampled(CountUp(c)) # Sampled(c)
<1>1. CASE c + 1 = CountWrap
      <2>1. CountUp(c) = 0
            BY <1>1 DEF CountUp
      <2>2. c % 2 = 1 /\ 0 % 2 = 0
            BY <1>1, Constants
      <2> QED BY <2>1, <2>2, Constants DEF Sampled, Buttons
<1>2. CASE c + 1 # CountWrap
      <2>1. CountUp(c) = c + 1 /\ c + 1 \in 0..CountWrap - 1
            BY <1>2, Constants DEF CountUp
      <2>2. c % 2 = 1 <=> (c + 1) % 2 # 1
            OBVIOUS
      <2> QED BY <2>1, <2>2 DEF Sampled, Buttons
<1> QED BY <1>1, <1>2

(* A clock read age ago still tells what millis() is, after a further d. *)
LEMMA AgeTells ==
    ASSUME NEW start \in 0..Wrap - 1, NEW age \in 0..AgeMax, NEW d \in Nat,
           age + d <= Period + Gap \/ age + d <= OnTime + Gap
    PROVE  /\ Older(age, d) = age + d
           /\ Later(Later(start, age), d) = Later(start, Older(age, d))
<1>1. age + d < Wrap /\ age + d < AgeMax
      BY Constants
<1>2. Older(age, d) = age + d
      BY <1>1, OlderType
<1>3. Later(Later(start, age), d) = Later(start, age + d)
      BY <1>1, LaterAgain
<1> QED BY <1>2, <1>3

(* Time that goes by between two polls of the clock keeps ClockOK, and      *)
(* between two polls of the LED LedOK.                                      *)
LEMMA ClockWaits ==
    ASSUME TypeOK, ClockOK, NEW d \in Nat, d < Wrap,
           pc' \in Loop \/ ~ refreshed,
           refreshed => ClockSlack(pc) + d <= ClockSlack(pc'),
           refreshed => ClockSlack(pc') \in 0..Gap /\ ClockSlack(pc) \in 0..Gap,
           now' = Later(now, d), clockAge' = Older(clockAge, d),
           UNCHANGED timerVars
    PROVE  ClockOK' /\ now' \in 0..Wrap - 1 /\ clockAge' \in 0..AgeMax
<1>1. now \in 0..Wrap - 1 /\ count_rtc \in 0..Wrap - 1 /\ clockAge \in 0..AgeMax
      BY DEF TypeOK
<1>2. now' \in 0..Wrap - 1 /\ clockAge' \in 0..AgeMax
      BY <1>1, LaterType, OlderType
<1>3. UNCHANGED <<refreshed, count_rtc>>
      BY DEF timerVars
<1>4. MayBeMissed' = MayBeMissed
      BY <1>3 DEF MayBeMissed
<1>5. ASSUME refreshed, ~ MayBeMissed
      PROVE  clockAge' <= Period + ClockSlack(pc') /\ now' = Later(count_rtc', clockAge')
      <2>1. clockAge <= Period + ClockSlack(pc) /\ now = Later(count_rtc, clockAge)
            BY <1>5 DEF ClockOK
      <2>2. clockAge + d <= Period + ClockSlack(pc') /\ clockAge + d <= Period + Gap
            BY <1>1, <1>5, <2>1, Constants
      <2>3. clockAge' = clockAge + d /\ now' = Later(count_rtc, clockAge')
            BY <1>1, <2>1, <2>2, AgeTells
      <2> QED BY <2>2, <2>3, <1>3
<1> QED BY <1>2, <1>3, <1>4, <1>5 DEF ClockOK

LEMMA LedWaits ==
    ASSUME TypeOK, LedOK, NEW d \in Nat, d < Wrap,
           pc' \in Loop \/ ledSpan = 0,
           ledSpan # 0 => LedSlack(pc) + d <= LedSlack(pc'),
           ledSpan # 0 => LedSlack(pc') \in 0..Gap /\ LedSlack(pc) \in 0..Gap,
           now' = Later(now, d), ledAge' = Older(ledAge, d),
           UNCHANGED ledVars
    PROVE  LedOK' /\ ledAge' \in 0..AgeMax
<1>1. /\ now \in 0..Wrap - 1 /\ time2 \in 0..Wrap - 1
      /\ ledAge \in 0..AgeMax /\ ledSpan \in 0..AgeMax
      BY DEF TypeOK
<1>2. now' \in 0..Wrap - 1 /\ now' <= now + d /\ ledAge' \in 0..AgeMax
      BY <1>1, LaterType, OlderType
<1>3. UNCHANGED <<ledSpan, time2>>
      BY DEF ledVars
<1>4. ASSUME ledSpan # 0
      PROVE  /\ ledSpan >= OnTime /\ ledAge' <= OnTime + LedSlack(pc')
             /\ now' = Later(time2', ledAge')
      <2>1. /\ ledSpan >= OnTime /\ ledAge <= OnTime + LedSlack(pc)
            /\ now = Later(time2, ledAge)
            BY <1>4 DEF LedOK
      <2>2. ledAge + d <= OnTime + LedSlack(pc') /\ ledAge + d <= OnTime + Gap
            BY <1>1, <1>4, <2>1, Constants
      <2>3. ledAge' = ledAge + d /\ now' = Later(time2, ledAge')
            BY <1>1, <2>1, <2>2, AgeTells
      <2> QED BY <2>1, <2>2, <2>3, <1>3
<1>5. ledSpan = 0 => time2 = 0 /\ (ledAge' >= now' \/ ledAge' = AgeMax)
      <2>1. ledSpan = 0 => time2 = 0 /\ (ledAge >= now \/ ledAge = AgeMax)
            BY DEF LedOK
      <2>2. ledAge' = ledAge + d \/ ledAge' = AgeMax
            BY <1>1, OlderType
      <2>3. ledAge = AgeMax => ledAge' = AgeMax
            BY <1>1, Constants DEF Older
      <2> QED BY <1>1, <1>2, <2>1, <2>2, <2>3
<1> QED BY <1>2, <1>3, <1>4, <1>5 DEF LedOK

(* A poll of the clock that finds it not due has come within the period. *)
LEMMA NotDueIsFresh ==
    ASSUME TypeOK, ~ ClockIsDue, ~ MayBeMissed,
           clockAge <= Period + Gap, now = Later(count_rtc, clockAge)
    PROVE  clockAge <= Period
<1>1. count_rtc \in 0..Wrap - 1 /\ clockAge \in 0..AgeMax /\ now \in 0..Wrap - 1
      BY DEF TypeOK
<1>2. now <= Later(count_rtc, Period)
      BY <1>1, Constants DEF ClockIsDue, Later
<1> QED BY <1>1, <1>2, Constants DEF MayBeMissed, Later

(* A poll of the LED that finds it not due has come before its time is up. *)
LEMMA NotDueIsShort ==
    ASSUME TypeOK, NEW age \in 0..Wrap - 1, now = Later(time2, age)
    PROVE  LedIsDue <=> age >= OnTime
<1>1. time2 \in 0..Wrap - 1
      BY DEF TypeOK
<1> QED BY <1>1, SinceLater DEF LedIsDue

LEMMA LaterZero ==
    ASSUME NEW a \in 0..Wrap - 1
    PROVE  Later(a, 0) = a
BY Constants DEF Later

(* What a poll leaves alone is what no time at all changes. *)
LEMMA NoTime ==
    ASSUME TypeOK
    PROVE  Later(now, 0) = now /\ Older(clockAge, 0) = clockAge /\ Older(ledAge, 0) = ledAge
BY Constants DEF TypeOK, Later, Older

LEMMA PressKept ==
    ASSUME PressOK, UNCHANGED <<buttonVars, pin>>
    PROVE  PressOK'
BY DEF PressOK, buttonVars

(* TLB_Button: one of the buttons is sampled, and both have had a call more. *)
LEMMA ButtonStep ==
    ASSUME IInv, TLB_Button
    PROVE  IInv'
<1> DEFINE b == Sampled(CountUp(count))
           pressed == pin[b] = 0 /\ but_new[b] = 1
<1>1. PICK d \in 0..SmsTime : Elapse(d)
      <2>1. \E d \in IF pressed /\ b = 1 THEN 1..SmsTime ELSE {0} : Elapse(d)
            BY DEF TLB_Button
      <2>2. (IF pressed /\ b = 1 THEN 1..SmsTime ELSE {0}) \subseteq 0..SmsTime
            BY Constants
      <2> QED BY <2>1, <2>2
<1>2. /\ pc = "button" /\ pc' = "clock" /\ pin' = pin /\ firm' = firm
      /\ rtcThere' = rtcThere /\ UNCHANGED <<timerVars, ledVars>>
      /\ UNCHANGED <<LEDState, refreshed, count_rtc, time2, ledSpan>>
      /\ count' = CountUp(count)
      /\ but_new' = [but_new EXCEPT ![b] = pin[b]]
      /\ polls' = [x \in Buttons |-> IF polls[x] = 2 THEN 2 ELSE polls[x] + 1]
      /\ seen' = [seen EXCEPT ![b] = IF pressed THEN @ + 1 ELSE @]
      BY Zenon DEF TLB_Button, timerVars, ledVars
<1>3. ClockOK' /\ now' \in 0..Wrap - 1 /\ clockAge' \in 0..AgeMax
      <2>1. now' = Later(now, d) /\ clockAge' = Older(clockAge, d)
            BY <1>1 DEF Elapse
      <2> QED BY <1>2, <2>1, ClockWaits, Constants DEF IInv, Loop, ClockSlack
<1>4. LedOK' /\ ledAge' \in 0..AgeMax
      <2>1. now' = Later(now, d) /\ ledAge' = Older(ledAge, d)
            BY <1>1 DEF Elapse
      <2> QED BY <1>2, <2>1, LedWaits, Constants DEF IInv, Loop, LedSlack
<1>5. /\ b \in Buttons /\ Sampled(count) \in Buttons /\ b # Sampled(count)
      /\ count' \in 0..CountWrap - 1 /\ Sampled(count') = b
      BY <1>2, Alternates DEF IInv, TypeOK
<1>6. /\ pin \in [Buttons -> Levels] /\ but_new \in [Buttons -> Levels]
      /\ polls \in [Buttons -> 0..2] /\ seen \in [Buttons -> 0..1]
      /\ firm \in [Buttons -> BOOLEAN]
      BY DEF IInv, TypeOK
<1>7. pressed => seen[b] = 0
      BY <1>5, <1>6 DEF IInv, PressOK
<1>8. /\ but_new' \in [Buttons -> Levels] /\ polls' \in [Buttons -> 0..2]
      /\ seen' \in [Buttons -> 0..1]
      BY <1>2, <1>5, <1>6, <1>7
<1>9. ASSUME NEW x \in Buttons
      PROVE  LET sampled == polls'[x] = 2 \/ (polls'[x] = 1 /\ Sampled(count') = x)
             IN  /\ pin'[x] = 1 => seen'[x] = 0 /\ (sampled => but_new'[x] = 1)
                 /\ pin'[x] = 0 =>
                      /\ seen'[x] = 1 => but_new'[x] = 0
                      /\ sampled => but_new'[x] = 0
                      /\ firm'[x] => seen'[x] = 1 - but_new'[x]
      <2>1. LET sampled == polls[x] = 2 \/ (polls[x] = 1 /\ Sampled(count) = x)
            IN  /\ pin[x] = 1 => seen[x] = 0 /\ (sampled => but_new[x] = 1)
                /\ pin[x] = 0 =>
                     /\ seen[x] = 1 => but_new[x] = 0
                     /\ sampled => but_new[x] = 0
                     /\ firm[x] => seen[x] = 1 - but_new[x]
            BY DEF IInv, PressOK
      <2>2. /\ pin[x] \in 0..1 /\ but_new[x] \in 0..1 /\ seen[x] \in 0..1
            /\ polls[x] \in 0..2 /\ polls'[x] = IF polls[x] = 2 THEN 2 ELSE polls[x] + 1
            BY <1>2, <1>6 DEF Levels
      <2>3. CASE x = b
            <3>1. /\ but_new'[x] = pin[x]
                  /\ seen'[x] = IF pin[x] = 0 /\ but_new[x] = 1 THEN seen[x] + 1 ELSE seen[x]
                  BY <1>2, <1>6, <2>3
            <3> QED BY <1>2, <2>1, <2>2, <3>1
      <2>4. CASE x # b
            <3>1. /\ but_new'[x] = but_new[x] /\ seen'[x] = seen[x]
                  /\ Sampled(count) = x /\ Sampled(count') # x
                  BY <1>2, <1>5, <1>6, <2>4 DEF Buttons
            <3> QED BY <1>2, <2>1, <2>2, <3>1
      <2> QED BY <2>3, <2>4
<1>10. PressOK'
      BY <1>9 DEF PressOK
<1>11. TypeOK'
      <2>1. /\ count_rtc' \in 0..Wrap - 1 /\ time2' \in 0..Wrap - 1
            /\ ledSpan' \in 0..AgeMax /\ LEDState' \in Levels
            /\ rtcThere' \in BOOLEAN /\ refreshed' \in BOOLEAN
            /\ pin' \in [Buttons -> Levels] /\ firm' \in [Buttons -> BOOLEAN]
            BY <1>2, <1>6 DEF IInv, TypeOK
      <2> QED BY <1>2, <1>3, <1>4, <1>5, <1>8, <2>1 DEF TypeOK
<1> QED BY <1>3, <1>4, <1>10, <1>11 DEF IInv

(* The other steps leave the buttons alone. *)
LEMMA ClockStep ==
    ASSUME IInv, MD_Run
    PROVE  IInv'
<1>1. /\ pc = "clock" /\ pc' = "led" /\ rtcThere' = rtcThere
      /\ UNCHANGED <<buttonVars, pin>> /\ UNCHANGED ledVars
      /\ UNCHANGED <<count, but_new, polls, firm, seen, LEDState, time2, ledSpan>>
      BY DEF MD_Run, buttonVars, ledVars
<1>2. PressOK'
      BY <1>1, PressKept DEF IInv
<1>3. CASE ClockIsDue
      <2>1. PICK d \in 0..BusTime : /\ now' = Later(now, d) /\ clockAge' = 0
                                   /\ ledAge' = Older(ledAge, d)
                                   /\ count_rtc' = now' /\ refreshed' = TRUE
            BY <1>3 DEF MD_Run, ElapseToRefresh
      <2>2. LedOK' /\ ledAge' \in 0..AgeMax
            BY <1>1, <2>1, LedWaits, Constants DEF IInv, Loop, LedSlack
      <2>3. now' \in 0..Wrap - 1
            <3>1. now \in 0..Wrap - 1 /\ d \in Nat /\ d < Wrap
                  BY Constants DEF IInv, TypeOK
            <3> QED BY <2>1, <3>1, LaterType
      <2>4. ClockOK'
            <3>1. Later(now', 0) = now'
                  BY <2>3, LaterZero
            <3> QED BY <1>1, <2>1, <3>1, Constants DEF ClockOK, Loop, ClockSlack
      <2>5. TypeOK'
            BY <1>1, <2>1, <2>2, <2>3, Constants DEF IInv, TypeOK
      <2> QED BY <1>2, <2>2, <2>4, <2>5 DEF IInv
<1>4. CASE ~ ClockIsDue
      <2>1. UNCHANGED <<now, clockAge, ledAge, count_rtc, refreshed>>
            BY <1>4 DEF MD_Run, timerVars
      <2>2. LedOK'
            BY <1>1, <2>1, NoTime, LedWaits, Constants DEF IInv, Loop, LedSlack
      <2>3. ASSUME refreshed, ~ MayBeMissed
            PROVE  clockAge <= Period /\ now = Later(count_rtc, clockAge)
            <3>1. clockAge <= Period + Gap /\ now = Later(count_rtc, clockAge)
                  BY <1>1, <2>3, Constants DEF IInv, TypeOK, ClockOK, ClockSlack
            <3> QED BY <1>4, <2>3, <3>1, NotDueIsFresh DEF IInv
      <2>4. ClockOK'
            BY <1>1, <2>1, <2>3, Constants DEF ClockOK, ClockSlack, Loop, MayBeMissed, IInv, TypeOK
      <2>5. TypeOK'
            BY <1>1, <2>1 DEF IInv, TypeOK
      <2> QED BY <1>2, <2>2, <2>4, <2>5 DEF IInv
<1> QED BY <1>3, <1>4

LEMMA LedStep ==
    ASSUME IInv, TM_Run
    PROVE  IInv'
<1>1. /\ pc = "led" /\ pc' = "rest" /\ rtcThere' = rtcThere
      /\ UNCHANGED <<buttonVars, pin>> /\ UNCHANGED timerVars
      /\ UNCHANGED <<count, but_new, polls, firm, seen, count_rtc, refreshed>>
      BY DEF TM_Run, buttonVars, timerVars
<1>2. PressOK'
      BY <1>1, PressKept DEF IInv
<1>3. CASE LedIsDue
      <2>1. PICK d \in 0..1 : /\ now' = Later(now, d) /\ ledAge' = 0
                              /\ clockAge' = Older(clockAge, d)
                              /\ time2' = now' /\ ledSpan' = ledAge
                              /\ LEDState' = 1 - LEDState
            BY <1>3 DEF TM_Run, ElapseToToggle
      <2>2. ClockOK' /\ now' \in 0..Wrap - 1 /\ clockAge' \in 0..AgeMax
            BY <1>1, <2>1, ClockWaits, Constants DEF IInv, Loop, ClockSlack
      <2>3. ledAge >= OnTime
            <3>1. CASE ledSpan = 0
                  <4>1. /\ time2 = 0 /\ (ledAge >= now \/ ledAge = AgeMax)
                        /\ now \in 0..Wrap - 1 /\ ledAge \in 0..AgeMax
                        BY <3>1 DEF IInv, LedOK, TypeOK
                  <4> QED BY <1>3, <4>1, Constants DEF LedIsDue, Since
            <3>2. CASE ledSpan # 0
                  <4>1. /\ ledAge <= OnTime + Gap /\ now = Later(time2, ledAge)
                        /\ ledAge \in 0..AgeMax
                        BY <1>1, <3>2, Constants DEF IInv, LedOK, LedSlack, TypeOK
                  <4>2. ledAge \in 0..Wrap - 1
                        BY <4>1, Constants
                  <4> QED BY <1>3, <4>1, <4>2, NotDueIsShort DEF IInv
            <3> QED BY <3>1, <3>2
      <2>4. LedOK'
            <3>1. Later(now', 0) = now'
                  BY <2>2, LaterZero
            <3> QED BY <1>1, <2>1, <2>3, <3>1, Constants DEF LedOK, Loop, LedSlack, IInv, TypeOK
      <2>5. TypeOK'
            BY <1>1, <2>1, <2>2, Constants DEF IInv, TypeOK, Levels
      <2> QED BY <1>2, <2>2, <2>4, <2>5 DEF IInv
<1>4. CASE ~ LedIsDue
      <2>1. UNCHANGED <<now, clockAge, ledAge, LEDState, time2, ledSpan>>
            BY <1>4 DEF TM_Run, ledVars
      <2>2. ClockOK'
            BY <1>1, <2>1, NoTime, ClockWaits, Constants DEF IInv, Loop, ClockSlack
      <2>3. ASSUME ledSpan # 0
            PROVE  ledAge <= OnTime /\ ledSpan >= OnTime /\ now = Later(time2, ledAge)
            <3>1. /\ ledAge <= OnTime + Gap /\ now = Later(time2, ledAge)
                  /\ ledSpan >= OnTime /\ ledAge \in 0..AgeMax
                  BY <1>1, <2>3, Constants DEF IInv, LedOK, LedSlack, TypeOK
            <3>2. ledAge \in 0..Wrap - 1
                  BY <3>1, Constants
            <3>3. ~ (ledAge >= OnTime)
                  BY <1>4, <3>1, <3>2, NotDueIsShort DEF IInv
            <3> QED BY <3>1, <3>2, <3>3, Constants
      <2>4. LedOK'
            BY <1>1, <2>1, <2>3, Constants DEF LedOK, LedSlack, Loop, IInv, TypeOK
      <2>5. TypeOK'
            BY <1>1, <2>1 DEF IInv, TypeOK
      <2> QED BY <1>2, <2>2, <2>4, <2>5 DEF IInv
<1> QED BY <1>3, <1>4

LEMMA SetupStep ==
    ASSUME IInv, Setup
    PROVE  IInv'
<1>1. /\ UNCHANGED <<rtcThere, ledVars, buttonVars, pin, refreshed>>
      /\ UNCHANGED <<LEDState, time2, ledSpan, count, but_new, polls, firm, seen>>
      /\ pc \in {"rtc", "sim"} /\ pc' \in {"rtc", "sim", "button"}
      BY DEF Setup, WaitForRtc, MD_Config, TS_Setup, timerVars, ledVars, buttonVars
<1>2. PressOK'
      BY <1>1, PressKept DEF IInv
<1>3. ~ refreshed /\ ledSpan = 0
      BY <1>1 DEF IInv, ClockOK, LedOK, Loop
<1>4. CASE MD_Config
      <2>1. /\ UNCHANGED <<now, ledAge>> /\ count_rtc' = now /\ clockAge' = 0
            /\ pc' = "sim"
            BY <1>4 DEF MD_Config
      <2>2. ClockOK' /\ LedOK'
            BY <1>1, <1>3, <2>1 DEF IInv, ClockOK, LedOK
      <2>3. TypeOK'
            BY <1>1, <2>1, Constants DEF IInv, TypeOK
      <2> QED BY <1>2, <2>2, <2>3 DEF IInv
<1>5. CASE WaitForRtc \/ TS_Setup
      <2>1. PICK d \in {RetryTime, SetupTime} :
              /\ now' = Later(now, d) /\ clockAge' = Older(clockAge, d)
              /\ ledAge' = Older(ledAge, d) /\ UNCHANGED timerVars
            BY <1>5 DEF WaitForRtc, TS_Setup, Elapse
      <2>2. d \in Nat /\ d < Wrap
            BY Constants
      <2>3. ClockOK' /\ now' \in 0..Wrap - 1 /\ clockAge' \in 0..AgeMax
            BY <1>3, <2>1, <2>2, ClockWaits DEF IInv
      <2>4. LedOK' /\ ledAge' \in 0..AgeMax
            BY <1>1, <1>3, <2>1, <2>2, LedWaits DEF IInv
      <2>5. TypeOK'
            BY <1>1, <2>1, <2>3, <2>4 DEF IInv, TypeOK, timerVars
      <2> QED BY <1>2, <2>3, <2>4, <2>5 DEF IInv
<1> QED BY <1>4, <1>5 DEF Setup

LEMMA RestStep ==
    ASSUME IInv, Rest
    PROVE  IInv'
<1>1. /\ UNCHANGED <<rtcThere, timerVars, ledVars, buttonVars, pin>>
      /\ UNCHANGED <<LEDState, time2, ledSpan, count_rtc, refreshed>>
      /\ UNCHANGED <<count, but_new, polls, firm, seen>>
      /\ pc = "rest" /\ pc' = "button"
      BY DEF Rest, timerVars, ledVars, buttonVars
<1>2. PressOK'
      BY <1>1, PressKept DEF IInv
<1>3. PICK d \in 1..RestTime :
        /\ now' = Later(now, d) /\ clockAge' = Older(clockAge, d)
        /\ ledAge' = Older(ledAge, d)
      BY DEF Rest, Elapse
<1>4. d \in Nat /\ d < Wrap
      BY Constants
<1>5. ClockOK' /\ now' \in 0..Wrap - 1 /\ clockAge' \in 0..AgeMax
      BY <1>1, <1>3, <1>4, ClockWaits, Constants DEF IInv, Loop, ClockSlack
<1>6. LedOK' /\ ledAge' \in 0..AgeMax
      BY <1>1, <1>3, <1>4, LedWaits, Constants DEF IInv, Loop, LedSlack
<1>7. TypeOK'
      BY <1>1, <1>3, <1>5, <1>6 DEF IInv, TypeOK
<1> QED BY <1>2, <1>5, <1>6, <1>7 DEF IInv

LEMMA HardwareStep ==
    ASSUME IInv, Hardware
    PROVE  IInv'
<1>1. /\ UNCHANGED <<pc, now, clockAge, ledAge, timerVars, ledVars>>
      /\ UNCHANGED <<LEDState, time2, ledSpan, count_rtc, refreshed, count, but_new>>
      BY DEF Hardware, RtcAppears, PinChanges, timerVars, ledVars, buttonVars
<1>2. ClockOK' /\ LedOK'
      BY <1>1 DEF IInv, ClockOK, LedOK, MayBeMissed
<1>3. CASE RtcAppears
      <2>1. UNCHANGED <<buttonVars, pin>> /\ UNCHANGED <<polls, firm, seen>> /\ rtcThere'
            BY <1>3 DEF RtcAppears, buttonVars
      <2>2. PressOK'
            BY <2>1, PressKept DEF IInv
      <2>3. TypeOK'
            <3>1. rtcThere' \in BOOLEAN
                  BY <1>3 DEF RtcAppears
            <3> QED BY <1>1, <2>1, <3>1 DEF IInv, TypeOK
      <2> QED BY <1>2, <2>2, <2>3 DEF IInv
<1>4. ASSUME NEW b \in Buttons, PinChanges(b)
      PROVE  IInv'
      <2>1. /\ pin' = [pin EXCEPT ![b] = 1 - @]
            /\ firm' = [firm EXCEPT ![b] = pin[b] = 1 /\ polls[b] = 2]
            /\ seen' = [seen EXCEPT ![b] = 0]
            /\ polls' = [polls EXCEPT ![b] = 0]
            /\ rtcThere' = rtcThere
            BY <1>4 DEF PinChanges
      <2>2. /\ pin \in [Buttons -> Levels] /\ but_new \in [Buttons -> Levels]
            /\ polls \in [Buttons -> 0..2] /\ seen \in [Buttons -> 0..1]
            /\ firm \in [Buttons -> BOOLEAN]
            BY DEF IInv, TypeOK
      <2>3. pin' \in [Buttons -> Levels]
            BY <2>1, <2>2 DEF Levels
      <2>4. /\ polls' \in [Buttons -> 0..2] /\ seen' \in [Buttons -> 0..1]
            /\ firm' \in [Buttons -> BOOLEAN]
            BY <2>1, <2>2
      <2>5. TypeOK'
            BY <1>1, <2>1, <2>3, <2>4 DEF IInv, TypeOK
      <2>6. PressOK'
            <3>1. ASSUME NEW x \in Buttons, x # b
                  PROVE  /\ pin'[x] = pin[x] /\ firm'[x] = firm[x]
                         /\ seen'[x] = seen[x] /\ polls'[x] = polls[x]
                  BY <2>1, <2>2, <3>1
            <3>2. /\ pin'[b] = 1 - pin[b] /\ seen'[b] = 0 /\ polls'[b] = 0
                  /\ pin[b] \in 0..1 /\ but_new[b] \in 0..1
                  BY <2>1, <2>2 DEF Levels
            <3>3. firm'[b] <=> pin[b] = 1 /\ polls[b] = 2
                  BY <2>1, <2>2, Zenon
            <3>4. firm'[b] => but_new[b] = 1
                  BY <3>3 DEF IInv, PressOK
            <3> QED BY <1>1, <3>1, <3>2, <3>4 DEF IInv, PressOK
      <2> QED BY <1>2, <2>5, <2>6 DEF IInv
<1> QED BY <1>3, <1>4 DEF Hardware

LEMMA Invariance == Spec => []IInv
<1>1. Init => IInv
      <2> SUFFICES ASSUME Init PROVE IInv
          OBVIOUS
      <2>1. TypeOK
            <3>1. /\ but_new \in [Buttons -> Levels] /\ pin \in [Buttons -> Levels]
                  /\ polls \in [Buttons -> 0..2] /\ seen \in [Buttons -> 0..1]
                  BY DEF Init, Levels
            <3>2. firm \in [Buttons -> BOOLEAN]
                  BY DEF Init
            <3>3. /\ 0 \in 0..Wrap - 1 /\ 0 \in 0..AgeMax /\ 0 \in 0..CountWrap - 1
                  /\ 0 \in Levels
                  BY Constants DEF Levels
            <3> QED BY <3>1, <3>2, <3>3 DEF Init, TypeOK
      <2>2. ClockOK /\ LedOK
            BY DEF Init, ClockOK, LedOK
      <2>3. PressOK
            BY DEF Init, PressOK
      <2> QED BY <2>1, <2>2, <2>3 DEF IInv
<1>2. IInv /\ [Next]_vars => IInv'
      <2> SUFFICES ASSUME IInv, [Next]_vars PROVE IInv'
          OBVIOUS
      <2>1. CASE UNCHANGED vars
            BY <2>1 DEF vars, timerVars, ledVars, buttonVars, IInv, TypeOK, ClockOK,
                        LedOK, PressOK, MayBeMissed
      <2>2. CASE Setup
            BY <2>2, SetupStep
      <2>3. CASE Pass
            BY <2>3, ButtonStep, ClockStep, LedStep, RestStep DEF Pass
      <2>4. CASE Hardware
            BY <2>4, HardwareStep
      <2> QED BY <2>1, <2>2, <2>3, <2>4 DEF Next
<1> QED BY <1>1, <1>2, PTL DEF Spec

(* The timers, the samples and the history keep their types: every time is  *)
(* a uint32_t, and no press is counted twice.                               *)
THEOREM TypeCorrect == Spec => []TypeOK
<1>1. IInv => TypeOK
      BY DEF IInv
<1> QED BY <1>1, Invariance, PTL

(* The clock that the registers show is fresh across every wrap of millis() *)
(* but for a refresh that may fall into the last gap before one.            *)
THEOREM ClockStaysFresh == Spec => []ClockFresh
<1>1. IInv => ClockFresh
      BY Constants DEF IInv, TypeOK, ClockOK, ClockFresh, ClockSlack, Loop
<1> QED BY <1>1, Invariance, PTL

(* The status LED keeps its time across every wrap of millis(). *)
THEOREM LedOnTime == Spec => []LedKeepsTime
<1>1. IInv => LedKeepsTime
      BY Constants DEF IInv, TypeOK, LedOK, LedKeepsTime, LedSlack, Loop
<1> QED BY <1>1, Invariance, PTL

(* A press is seen if it and the release before it last for two passes, and *)
(* never twice, wherever the count that chooses the button stands.          *)
THEOREM PressesSeenOnce == Spec => []EachPressOnce
<1>1. IInv => EachPressOnce
      <2> SUFFICES ASSUME IInv, NEW b \in Buttons
                   PROVE  /\ seen[b] <= 1
                          /\ pin[b] = 0 /\ firm[b] /\ polls[b] = 2 => seen[b] = 1
          BY DEF EachPressOnce
      <2>1. seen[b] \in 0..1
            BY DEF IInv, TypeOK
      <2> QED BY <2>1 DEF IInv, PressOK
<1> QED BY <1>1, Invariance, PTL

--------------------------------------------------------------------------------
(* The lines, and sums of readings.                                         *)

LEMMA Times ==
    ASSUME NEW n \in Nat, NEW a \in Int, NEW b \in Int, a <= b
    PROVE  n * a <= n * b /\ n * a \in Int /\ n * b \in Int
<1>1. b - a \in Nat
      OBVIOUS
<1>2. n * (b - a) >= 0
      BY <1>1
<1>3. n * (b - a) = n * b - n * a
      OBVIOUS
<1> QED BY <1>2, <1>3

LEMMA Sample == SAMPLE \in Nat /\ SAMPLE >= 1 /\ TestTimes \in Nat \ {0} /\ TakeOver \in Nat \ {0}
BY LengthSensorAssumption

\* A higher reading is a shorter length, also across the bend of a line.
LEMMA KalmanFalls ==
    ASSUME NEW a \in Nat, NEW b \in Nat, a <= b
    PROVE  KalmanLength(b) <= KalmanLength(a)
<1> DEFINE L(x) == IF x < 2086 THEN 357430 + 7200 - 106 * x ELSE 388720 + 7200 - 121 * x
<1>1. L(b) <= L(a) /\ L(a) \in Int /\ L(b) \in Int
      OBVIOUS
<1>2. KalmanLength(a) = SAMPLE * L(a) /\ KalmanLength(b) = SAMPLE * L(b)
      BY DEF KalmanLength
<1> HIDE DEF L
<1> QED BY <1>1, <1>2, Times, Sample

LEMMA AverageFalls ==
    ASSUME NEW a \in Nat, NEW b \in Nat, a <= b
    PROVE  AverageLength(b) <= AverageLength(a)
BY Sample DEF AverageLength

LEMMA TestFalls ==
    ASSUME NEW a \in Nat, NEW b \in Nat, a <= b
    PROVE  TestLength(b) <= TestLength(a)
BY Sample DEF TestLength

LEMMA ReadingsAreNumbers == ASSUME NEW adc \in Readings PROVE adc \in Nat
<1>1. adc \in 0..4095
      BY LengthSensorAssumption
<1> QED BY <1>1

Windows == [low : Nat, high : Nat]

LEMMA WithWindow ==
    ASSUME NEW w \in Windows, NEW adc \in Readings
    PROVE  /\ With(w, adc) \in Windows
           /\ With(w, adc).low <= w.low /\ With(w, adc).low <= adc
           /\ w.high <= With(w, adc).high /\ adc <= With(w, adc).high
           /\ With(w, adc).low \in Nat /\ With(w, adc).high \in Nat
           /\ adc \in Nat /\ w.low \in Nat /\ w.high \in Nat
<1>1. adc \in Nat /\ w.low \in Nat /\ w.high \in Nat
      BY ReadingsAreNumbers DEF Windows
<1>2. /\ With(w, adc).low = IF adc < w.low THEN adc ELSE w.low
      /\ With(w, adc).high = IF adc > w.high THEN adc ELSE w.high
      BY DEF With
<1>3. With(w, adc).low \in Nat /\ With(w, adc).high \in Nat
      BY <1>1, <1>2
<1>4. With(w, adc) \in Windows
      BY <1>2, <1>3 DEF With, Windows
<1> QED BY <1>1, <1>2, <1>3, <1>4

\* n readings of a window, one more of them, and their sum.
Sums(n, w, sum) == n * w.low <= sum /\ sum <= n * w.high

LEMMA SumGrows ==
    ASSUME NEW n \in Nat, NEW w \in Windows, NEW sum \in Nat, Sums(n, w, sum),
           NEW adc \in Readings
    PROVE  Sums(n + 1, With(w, adc), sum + adc)
<1> DEFINE v == With(w, adc)
<1>1. /\ v.low <= w.low /\ v.low <= adc /\ w.high <= v.high /\ adc <= v.high
      /\ v.low \in Nat /\ v.high \in Nat /\ w.low \in Nat /\ w.high \in Nat /\ adc \in Nat
      BY WithWindow
<1> HIDE DEF v
<1>2. n * v.low <= n * w.low /\ n * v.low \in Int /\ n * w.low \in Int
      BY <1>1, Times
<1>3. n * w.high <= n * v.high /\ n * w.high \in Int /\ n * v.high \in Int
      BY <1>1, Times
<1>4. (n + 1) * v.low = n * v.low + v.low /\ (n + 1) * v.high = n * v.high + v.high
      BY <1>1
<1>5. n * w.low <= sum /\ sum <= n * w.high
      BY DEF Sums
<1>6. (n + 1) * v.low <= sum + adc /\ sum + adc <= (n + 1) * v.high
      BY <1>1, <1>2, <1>3, <1>4, <1>5
<1> QED BY <1>6 DEF Sums, v

--------------------------------------------------------------------------------
(* The inductive invariant.                                                 *)

LengthTypes ==
    /\ variant \in {"kalman", "average", "test"}
    /\ adc_kalman \in Nat /\ adc_sum \in Nat /\ adc_average \in Nat
    /\ sample_count \in 0..SAMPLE
    /\ window \in Windows /\ of \in Windows

\* The sum is that of the readings counted since the last average.
RightSum == Sums(sample_count, window, adc_sum)

\* The estimate lies between 0, where the filter begins, and the highest
\* reading; an average is that of SAMPLE readings of its window.
RightLast ==
    of # Empty =>
        /\ variant = "kalman" =>
              /\ of.low = 0 /\ adc_kalman <= of.high
              /\ average_length = KalmanLength(adc_kalman)
        /\ variant # "kalman" => Sums(SAMPLE, of, adc_average)
        /\ variant = "average" => average_length = AverageLength(adc_average)
        /\ variant = "test" => average_length = TestLength(adc_average)

Begins == variant = "kalman" /\ of = Empty => adc_kalman = 0

LengthInv == LengthTypes /\ RightSum /\ RightLast /\ Begins

LEMMA LengthInitInv == LengthInit => LengthInv
<1> SUFFICES ASSUME LengthInit PROVE LengthInv
    OBVIOUS
<1>1. LengthTypes
      BY Sample DEF LengthInit, LengthTypes, Windows, Empty
<1>2. RightSum
      BY DEF LengthInit, RightSum, Sums, Empty
<1> QED BY <1>1, <1>2 DEF LengthInit, LengthInv, RightLast, Begins

LEMMA KalmanKeeps == ASSUME LengthInv, KalmanFilterRead, variant' = variant PROVE LengthInv'
<1>1. PICK adc \in Readings, estimate \in Readings :
        /\ \/ adc_kalman <= estimate /\ estimate <= adc
           \/ adc <= estimate /\ estimate <= adc_kalman
        /\ adc_kalman' = estimate /\ average_length' = KalmanLength(estimate)
        /\ of' = [With(of, adc) EXCEPT !.low = 0]
      BY DEF KalmanFilterRead
<1>2. /\ variant = "kalman"
      /\ UNCHANGED <<adc_sum, sample_count, time_count, adc_average, window>>
      BY DEF KalmanFilterRead
<1>3. /\ estimate \in Nat /\ adc_kalman \in Nat /\ of \in Windows
      BY ReadingsAreNumbers DEF LengthInv, LengthTypes
<1>31. /\ With(of, adc) \in Windows /\ adc \in Nat
      /\ of.high <= With(of, adc).high /\ adc <= With(of, adc).high
      /\ of.high \in Nat /\ With(of, adc).high \in Nat
      BY <1>3, WithWindow
<1>4. of' \in Windows /\ of'.low = 0 /\ of'.high = With(of, adc).high
      BY <1>1, <1>31 DEF Windows
<1>5. adc_kalman <= of.high
      BY <1>2 DEF LengthInv, RightLast, Begins, Empty
<1>6. estimate <= of'.high
      BY <1>1, <1>3, <1>31, <1>4, <1>5
<1>61. adc_kalman' \in Nat
      BY <1>1, <1>3
<1>7. LengthTypes'
      BY <1>1, <1>2, <1>4, <1>61 DEF LengthInv, LengthTypes
<1>8. RightSum'
      BY <1>2 DEF LengthInv, RightSum
<1>9. RightLast' /\ Begins'
      <2>1. of' # Empty
            BY <1>4 DEF Empty
      <2> QED BY <1>1, <1>2, <1>4, <1>6, <2>1 DEF RightLast, Begins, KalmanLength
<1> QED BY <1>7, <1>8, <1>9 DEF LengthInv

\* A reading is added to the sum.
LEMMA AddKeeps ==
    ASSUME LengthInv, sample_count < SAMPLE, NEW adc \in Readings, Add(adc)
    PROVE  /\ RightSum' /\ adc_sum' \in Nat /\ sample_count' \in 0..SAMPLE
           /\ window' \in Windows
<1>1. /\ adc_sum' = adc_sum + adc /\ sample_count' = sample_count + 1
      /\ window' = With(window, adc)
      BY DEF Add
<1>31. /\ adc_sum \in Nat /\ sample_count \in Nat /\ window \in Windows
      BY DEF LengthInv, LengthTypes
<1>2. /\ adc \in Nat /\ With(window, adc) \in Windows /\ adc_sum \in Nat
      /\ sample_count \in Nat /\ window \in Windows
      BY <1>31, WithWindow
<1>3. Sums(sample_count + 1, With(window, adc), adc_sum + adc)
      BY <1>2, SumGrows DEF LengthInv, RightSum
<1>4. adc_sum' \in Nat /\ sample_count' \in 0..SAMPLE
      BY <1>1, <1>2, Sample
<1> QED BY <1>1, <1>2, <1>3, <1>4 DEF RightSum

\* SAMPLE readings become an average, and a new sum begins.
LEMMA ClearKeeps ==
    ASSUME LengthInv, sample_count >= SAMPLE, Clear
    PROVE  /\ RightSum' /\ adc_sum' \in Nat /\ sample_count' \in 0..SAMPLE
           /\ window' \in Windows /\ Sums(SAMPLE, window, adc_sum)
<1>1. adc_sum' = 0 /\ sample_count' = 0 /\ window' = Empty
      BY DEF Clear
<1>2. RightSum'
      BY <1>1 DEF RightSum, Sums, Empty
<1>3. window' \in Windows
      BY <1>1 DEF Windows, Empty
<1>4. sample_count = SAMPLE
      BY Sample DEF LengthInv, LengthTypes
<1> QED BY <1>1, <1>2, <1>3, <1>4, Sample DEF LengthInv, RightSum

LEMMA AverageKeeps == ASSUME LengthInv, AverageRead, variant' = variant PROVE LengthInv'
<1>1. variant = "average" /\ UNCHANGED <<adc_kalman, time_count>>
      BY DEF AverageRead
<1>2. ASSUME sample_count < SAMPLE, NEW adc \in Readings, Add(adc),
             UNCHANGED <<adc_average, average_length, of>>
      PROVE  LengthInv'
      <2>1. /\ RightSum' /\ adc_sum' \in Nat /\ sample_count' \in 0..SAMPLE
            /\ window' \in Windows
            BY <1>2, AddKeeps
      <2> QED BY <1>1, <1>2, <2>1
              DEF LengthInv, LengthTypes, RightLast, Begins, AverageLength
<1>3. ASSUME sample_count >= SAMPLE, Clear, adc_average' = adc_sum,
             average_length' = AverageLength(adc_sum), of' = window
      PROVE  LengthInv'
      <2>1. /\ RightSum' /\ adc_sum' \in Nat /\ sample_count' \in 0..SAMPLE
            /\ window' \in Windows /\ Sums(SAMPLE, window, adc_sum)
            BY <1>3, ClearKeeps
      <2> QED BY <1>1, <1>3, <2>1
              DEF LengthInv, LengthTypes, RightLast, Begins, AverageLength, Sums
<1> QED BY <1>2, <1>3 DEF AverageRead

LEMMA TestKeeps == ASSUME LengthInv, Test, variant' = variant PROVE LengthInv'
<1>1. /\ variant = "test" /\ UNCHANGED adc_kalman
      /\ average_length' = TestLength(adc_average')
      BY DEF Test
<1>2. ASSUME UNCHANGED <<adc_sum, sample_count, adc_average, window, of>>
      PROVE  LengthInv'
      BY <1>1, <1>2
         DEF LengthInv, LengthTypes, RightSum, RightLast, Begins, TestLength
<1>3. ASSUME sample_count < SAMPLE, NEW adc \in Readings, Add(adc),
             UNCHANGED <<adc_average, of>>
      PROVE  LengthInv'
      <2>1. /\ RightSum' /\ adc_sum' \in Nat /\ sample_count' \in 0..SAMPLE
            /\ window' \in Windows
            BY <1>3, AddKeeps
      <2> QED BY <1>1, <1>3, <2>1
              DEF LengthInv, LengthTypes, RightLast, Begins, TestLength
<1>4. ASSUME sample_count >= SAMPLE, Clear, adc_average' = adc_sum, of' = window
      PROVE  LengthInv'
      <2>1. /\ RightSum' /\ adc_sum' \in Nat /\ sample_count' \in 0..SAMPLE
            /\ window' \in Windows /\ Sums(SAMPLE, window, adc_sum)
            BY <1>4, ClearKeeps
      <2> QED BY <1>1, <1>4, <2>1
              DEF LengthInv, LengthTypes, RightLast, Begins, TestLength, Sums
<1> QED BY <1>2, <1>3, <1>4 DEF Test

LEMMA LengthStepInv == LengthInv /\ [LengthNext]_lengthVars => LengthInv'
<1> SUFFICES ASSUME LengthInv, [LengthNext]_lengthVars PROVE LengthInv'
    OBVIOUS
<1>1. CASE UNCHANGED <<variant, adc_kalman, adc_sum, sample_count, adc_average,
                       average_length, window, of>>
      BY <1>1 DEF LengthInv, LengthTypes, RightSum, RightLast, Begins, KalmanLength,
                  AverageLength, TestLength
<1>2. CASE LengthNext
      <2>1. variant' = variant
            BY <1>2 DEF LengthNext
      <2>2. CASE TA_Run
            BY <1>1, <2>1, <2>2 DEF TA_Run
      <2> QED BY <1>2, <2>1, <2>2, KalmanKeeps, AverageKeeps, TestKeeps DEF LengthNext
<1>3. CASE UNCHANGED lengthVars
      BY <1>1, <1>3 DEF lengthVars
<1> QED BY <1>2, <1>3

--------------------------------------------------------------------------------
LEMMA LengthFollows == LengthInv => LengthIsOfItsReadings
<1> SUFFICES ASSUME LengthInv, of # Empty PROVE LengthIsOfItsReadings
    BY DEF LengthIsOfItsReadings
<1>0. of \in Windows
      BY DEF LengthInv, LengthTypes
<1>1. /\ of.low \in Nat /\ of.high \in Nat /\ adc_kalman \in Nat /\ adc_average \in Nat
      /\ variant \in {"kalman", "average", "test"}
      BY <1>0 DEF LengthInv, LengthTypes, Windows
<1>2. CASE variant = "kalman"
      <2>1. /\ of.low <= adc_kalman /\ adc_kalman <= of.high
            /\ average_length = KalmanLength(adc_kalman)
            BY <1>1, <1>2 DEF LengthInv, RightLast
      <2>2. /\ KalmanLength(of.high) <= average_length
            /\ average_length <= KalmanLength(of.low)
            BY <1>1, <2>1, KalmanFalls
      <2> QED BY <1>2, <2>2 DEF LengthIsOfItsReadings
<1>3. SAMPLE * of.low \in Nat /\ SAMPLE * of.high \in Nat
      BY <1>1, Sample
<1>4. variant # "kalman" => SAMPLE * of.low <= adc_average /\ adc_average <= SAMPLE * of.high
      BY DEF LengthInv, RightLast, Sums
<1>5. CASE variant = "average"
      <2>1. average_length = AverageLength(adc_average)
            BY <1>5 DEF LengthInv, RightLast
      <2>2. /\ AverageLength(SAMPLE * of.high) <= average_length
            /\ average_length <= AverageLength(SAMPLE * of.low)
            BY <1>1, <1>3, <1>4, <1>5, <2>1, AverageFalls
      <2> QED BY <1>5, <2>2 DEF LengthIsOfItsReadings
<1>6. CASE variant = "test"
      <2>1. average_length = TestLength(adc_average)
            BY <1>6 DEF LengthInv, RightLast
      <2>2. /\ TestLength(SAMPLE * of.high) <= average_length
            /\ average_length <= TestLength(SAMPLE * of.low)
            BY <1>1, <1>3, <1>4, <1>6, <2>1, TestFalls
      <2> QED BY <1>6, <2>2 DEF LengthIsOfItsReadings
<1> QED BY <1>1, <1>2, <1>5, <1>6

\* Each variant of length_sensor.cpp makes its length of the readings it says,
\* for every SAMPLE: the sum is never of another average, and no reading turns
\* the order of two lengths round.
THEOREM LengthsAreOfTheirReadings == LengthSpec => []LengthIsOfItsReadings
<1> QED BY LengthInitInv, LengthStepInv, LengthFollows, PTL DEF LengthSpec

--------------------------------------------------------------------------------
(* The clock: bytes, and dates as bytes.                                    *)

StationDates == ChipDates \cup {BuildDate, FixedDate}

LEMMA DateFields ==
    ASSUME NEW d \in StationDates
    PROVE  /\ isValid(d)
           /\ d = [yOff |-> d.yOff, m |-> d.m, d |-> d.d, hh |-> d.hh, mm |-> d.mm,
                   ss |-> d.ss]
           /\ d.yOff \in 0..99 /\ d.m \in 1..12 /\ d.d \in 1..31
           /\ d.hh \in 0..23 /\ d.mm \in 0..59 /\ d.ss \in 0..59
<1>1. d \in CalendarDates /\ isValid(d)
      BY StationClockAssumption DEF StationDates
<1> QED BY <1>1 DEF CalendarDates

\* Two decimal digits in a byte, and back.
LEMMA BcdRoundTrip ==
    ASSUME NEW val \in 0..99
    PROVE  /\ bin2bcd(val) \in 0..255 /\ bcd2bin(bin2bcd(val)) = val
           /\ val < 80 => bin2bcd(val) < 128
BY DEF bin2bcd, bcd2bin

LEMMA WordRoundTrip ==
    ASSUME NEW l \in 0..255, NEW h \in 0..255
    PROVE  LowByte(WordOf(l, h)) = l /\ HighByte(WordOf(l, h)) = h
BY DEF LowByte, HighByte, WordOf

LEMMA BytesOfWord ==
    ASSUME NEW word \in Nat, word < 65536
    PROVE  /\ LowByte(word) \in 0..255 /\ HighByte(word) \in 0..255
           /\ WordOf(LowByte(word), HighByte(word)) = word
BY DEF LowByte, HighByte, WordOf

ByteDates == [yOff : 0..255, m : 0..255, d : 0..255, hh : 0..255, mm : 0..255, ss : 0..255]

\* The registers of the chip that hold a date, whichever way they came there.
Holds(held, bytes) == \A i \in 1..7 : held[i] = bytes[i]

LEMMA ReadsWhatItHolds ==
    ASSUME NEW held, NEW d \in StationDates, Holds(held, ChipBytes(d))
    PROVE  DateRead(held) = d /\ ~Halted(held) /\ \A i \in 1..7 : held[i] \in 0..255
<1>1. /\ d = [yOff |-> d.yOff, m |-> d.m, d |-> d.d, hh |-> d.hh, mm |-> d.mm, ss |-> d.ss]
      /\ d.yOff \in 0..99 /\ d.m \in 0..99 /\ d.d \in 0..99
      /\ d.hh \in 0..99 /\ d.mm \in 0..99 /\ d.ss \in 0..99 /\ d.ss < 80
      BY DateFields
<1>2. /\ held[1] = bin2bcd(d.ss) /\ held[2] = bin2bcd(d.mm) /\ held[3] = bin2bcd(d.hh)
      /\ held[4] = 0 /\ held[5] = bin2bcd(d.d) /\ held[6] = bin2bcd(d.m)
      /\ held[7] = bin2bcd(d.yOff)
      BY DEF Holds, ChipBytes
<1>3. /\ held[1] \in 0..127 /\ held[2] \in 0..255 /\ held[3] \in 0..255
      /\ held[5] \in 0..255 /\ held[6] \in 0..255 /\ held[7] \in 0..255
      /\ bcd2bin(held[1]) = d.ss /\ bcd2bin(held[2]) = d.mm /\ bcd2bin(held[3]) = d.hh
      /\ bcd2bin(held[5]) = d.d /\ bcd2bin(held[6]) = d.m /\ bcd2bin(held[7]) = d.yOff
      <2>1. bin2bcd(d.ss) \in 0..255 /\ bin2bcd(d.ss) < 128 /\ bcd2bin(bin2bcd(d.ss)) = d.ss
            BY <1>1, BcdRoundTrip
      <2>2. bin2bcd(d.mm) \in 0..255 /\ bcd2bin(bin2bcd(d.mm)) = d.mm
            BY <1>1, BcdRoundTrip
      <2>3. bin2bcd(d.hh) \in 0..255 /\ bcd2bin(bin2bcd(d.hh)) = d.hh
            BY <1>1, BcdRoundTrip
      <2>4. bin2bcd(d.d) \in 0..255 /\ bcd2bin(bin2bcd(d.d)) = d.d
            BY <1>1, BcdRoundTrip
      <2>5. bin2bcd(d.m) \in 0..255 /\ bcd2bin(bin2bcd(d.m)) = d.m
            BY <1>1, BcdRoundTrip
      <2>6. bin2bcd(d.yOff) \in 0..255 /\ bcd2bin(bin2bcd(d.yOff)) = d.yOff
            BY <1>1, BcdRoundTrip
      <2> QED BY <1>2, <2>1, <2>2, <2>3, <2>4, <2>5, <2>6
<1>4. held[1] % 128 = held[1] /\ (d.yOff + 2000 - 2000) % 256 = d.yOff /\ d.yOff + 2000 >= 2000
      BY <1>1, <1>3
<1>5. DateRead(held) = d
      BY <1>1, <1>3, <1>4 DEF DateRead, DateOf, Date
<1>6. ~Halted(held)
      BY <1>3 DEF Halted
<1>7. \A i \in 1..7 : held[i] \in 0..255
      BY <1>2, <1>3
<1> QED BY <1>5, <1>6, <1>7

LEMMA ReadIsOfBytes ==
    ASSUME NEW held, \A i \in 1..7 : held[i] \in Int
    PROVE  DateRead(held) \in ByteDates
<1>1. \A val \in Int : bcd2bin(val) \in 0..255
      BY DEF bcd2bin
<1>2. /\ bcd2bin(held[1] % 128) \in 0..255 /\ bcd2bin(held[2]) \in 0..255
      /\ bcd2bin(held[3]) \in 0..255 /\ bcd2bin(held[5]) \in 0..255
      /\ bcd2bin(held[6]) \in 0..255 /\ bcd2bin(held[7]) \in 0..255
      BY <1>1
<1>3. (IF bcd2bin(held[7]) + 2000 >= 2000 THEN bcd2bin(held[7]) + 2000 - 2000
       ELSE bcd2bin(held[7]) + 2000) % 256 \in 0..255
      BY <1>2
<1> QED BY <1>2, <1>3 DEF DateRead, DateOf, Date, ByteDates

\* An order: no date is earlier than one that is earlier.
LEMMA EarlierIsAnOrder ==
    ASSUME NEW a \in ByteDates, NEW b \in ByteDates, Earlier(a, b)
    PROVE  ~Earlier(b, a) /\ a # b
<1>1. \A i \in 1..6 : Fields(a)[i] \in Int /\ Fields(b)[i] \in Int
      BY DEF Fields, ByteDates
<1>2. PICK i \in 1..6 : /\ Fields(a)[i] < Fields(b)[i]
                        /\ \A j \in 1..(i - 1) : Fields(a)[j] = Fields(b)[j]
      BY DEF Earlier
<1>3. SUFFICES ASSUME NEW k \in 1..6, Fields(b)[k] < Fields(a)[k] \/ a = b,
                      a # b => \A j \in 1..(k - 1) : Fields(b)[j] = Fields(a)[j]
               PROVE  FALSE
      BY DEF Earlier
<1>4. CASE a = b
      BY <1>1, <1>2, <1>4
<1>5. CASE a # b /\ k = i
      BY <1>1, <1>2, <1>3, <1>5
<1>6. CASE a # b /\ k < i
      BY <1>1, <1>2, <1>3, <1>6
<1>7. CASE a # b /\ i < k
      BY <1>1, <1>2, <1>3, <1>7
<1> QED BY <1>4, <1>5, <1>6, <1>7

--------------------------------------------------------------------------------
(* The clock: what its chip, the station and the registers hold.            *)

(* The chip shows the date that the history says; without failed transfers  *)
(* that is one of a calendar, or the chip is as it came to power.           *)
ChipShows ==
    /\ \A i \in 1..7 : chip[i] \in 0..255
    /\ DateRead(chip) = latest
    /\ clean => chip = PowerUp \/ (latest \in StationDates /\ ~Halted(chip))

\* MD_Config finds a chip that runs, or sets it.
ConfigSets ==
    clean =>
        /\ pcClock = "adjust to build date" => Halted(chip)
        /\ pcClock = "loop" => ~Halted(chip)

\* The seven bytes that MD_Run keeps, of a date.
Kept7(date) == <<LowByte(date.yOff + 2000), HighByte(date.yOff + 2000), date.m, date.d,
                 date.hh, date.mm, date.ss>>

TimeRead ==
    read.good =>
        read.date \in ByteDates /\ md_time = Kept7(read.date) /\ (clean => isValid(read.date))
TimeShown ==
    shown.good => MasterReads = shown.date /\ (clean => isValid(shown.date))

ClockInv ==
    /\ clean \in BOOLEAN
    /\ ChipShows /\ ConfigSets /\ TimeRead /\ TimeShown

LEMMA PowerUpFacts ==
    /\ \A i \in 1..7 : PowerUp[i] \in 0..255
    /\ Halted(PowerUp)
BY DEF PowerUp, Halted

LEMMA ChipBytesHeld ==
    ASSUME NEW d \in StationDates
    PROVE  /\ DateRead(ChipBytes(d)) = d /\ ~Halted(ChipBytes(d))
           /\ \A i \in 1..7 : ChipBytes(d)[i] \in 0..255
<1>1. Holds(ChipBytes(d), ChipBytes(d))
      BY DEF Holds
<1> QED BY <1>1, ReadsWhatItHolds

LEMMA ClockInitInv == ClockInit => ClockInv
<1> SUFFICES ASSUME ClockInit PROVE ClockInv
    OBVIOUS
<1>1. clean = TRUE /\ pcClock = "begin" /\ read.good = FALSE /\ shown.good = FALSE
      BY DEF ClockInit, NothingRead
<1>2. CASE chip = PowerUp /\ latest = DateRead(PowerUp)
      BY <1>1, <1>2, PowerUpFacts
         DEF ClockInv, ChipShows, ConfigSets, TimeRead, TimeShown
<1>3. ASSUME NEW d \in ChipDates, chip = ChipBytes(d), latest = d
      PROVE  ClockInv
      <2>1. d \in StationDates
            BY DEF StationDates
      <2> QED BY <1>1, <1>3, <2>1, ChipBytesHeld
              DEF ClockInv, ChipShows, ConfigSets, TimeRead, TimeShown
<1> QED BY <1>2, <1>3 DEF ClockInit

\* Steps that leave the chip and what was made of it alone, and no transfer
\* becomes clean by them.
LEMMA SameChip ==
    ASSUME ClockInv, UNCHANGED <<chip, latest>>, clean' => clean, clean' \in BOOLEAN,
           ConfigSets', TimeRead', TimeShown'
    PROVE  ClockInv'
BY DEF ClockInv, ChipShows

LEMMA TimesStay ==
    ASSUME ClockInv, UNCHANGED <<md_time, hreg, read, shown>>, clean' => clean
    PROVE  TimeRead' /\ TimeShown'
BY DEF ClockInv, TimeRead, TimeShown, MasterReads

LEMMA BeginKeeps == ASSUME ClockInv, Begin PROVE ClockInv'
<1>1. /\ pcClock' = "isrunning"
      /\ UNCHANGED <<chip, md_time, hreg, latest, read, shown, clean>>
      BY DEF Begin
<1>2. ConfigSets'
      BY <1>1 DEF ConfigSets
<1> QED BY <1>1, <1>2, SameChip, TimesStay DEF ClockInv

LEMMA IsRunningKeeps == ASSUME ClockInv, IsRunning PROVE ClockInv'
<1>1. PICK failed \in BOOLEAN :
        /\ clean' = (clean /\ ~failed)
        /\ \E running \in IF failed THEN BOOLEAN ELSE {~Halted(chip)} :
               pcClock' = IF running THEN "loop" ELSE "adjust to build date"
      BY DEF IsRunning
<1>2. UNCHANGED <<chip, md_time, hreg, latest, read, shown>>
      BY DEF IsRunning
<1>3. (clean' => clean) /\ clean' \in BOOLEAN
      BY <1>1
<1>4. ASSUME clean'
      PROVE  pcClock' = IF ~Halted(chip) THEN "loop" ELSE "adjust to build date"
      BY <1>1, <1>4
<1>5. ConfigSets'
      BY <1>2, <1>4 DEF ConfigSets, Halted
<1> QED BY <1>2, <1>3, <1>5, SameChip, TimesStay

LEMMA WholeIsKept == ASSUME NEW bytes PROVE Holds(Kept(bytes, 7), bytes)
BY DEF Holds, Kept

LEMMA AdjustKeeps ==
    ASSUME ClockInv, NEW d \in StationDates, NEW to \in {"adjust to fixed date", "loop"},
           Adjust(d, to)
    PROVE  ClockInv'
<1>1. PICK n \in 0..7 :
        /\ chip' = Kept(ChipBytes(d), n)
        /\ clean' = (clean /\ n = 7)
        /\ latest' = IF n = 7 THEN d ELSE DateRead(chip')
      BY DEF Adjust
<1>2. pcClock' = to /\ UNCHANGED <<md_time, hreg, read, shown>>
      BY DEF Adjust
<1>3. (clean' => clean /\ n = 7) /\ clean' \in BOOLEAN
      BY <1>1
<1>4. \A i \in 1..7 : chip'[i] = IF i <= n THEN ChipBytes(d)[i] ELSE chip[i]
      BY <1>1 DEF Kept
<1>5. \A i \in 1..7 : chip'[i] \in 0..255
      BY <1>4, ChipBytesHeld DEF ClockInv, ChipShows
<1>6. n = 7 => DateRead(chip') = d /\ ~Halted(chip')
      <2>1. n = 7 => Holds(chip', ChipBytes(d))
            BY <1>1, WholeIsKept
      <2> QED BY <2>1, ReadsWhatItHolds
<1>7. DateRead(chip') = latest'
      BY <1>1, <1>6
<1>8. ChipShows'
      <2>1. clean' => n = 7 /\ latest' = d
            BY <1>1, <1>3
      <2>2. clean' => latest' \in StationDates /\ ~Halted(chip')
            BY <1>6, <2>1
      <2> QED BY <1>5, <1>7, <2>2 DEF ChipShows
<1>9. ConfigSets'
      BY <1>2, <1>3, <1>6 DEF ConfigSets, Halted
<1>10. TimeRead' /\ TimeShown'
      BY <1>2, <1>3, TimesStay
<1> QED BY <1>3, <1>8, <1>9, <1>10 DEF ClockInv

LEMMA TickKeeps == ASSUME ClockInv, ChipTicks PROVE ClockInv'
<1>1. PICK d \in ChipDates : chip' = ChipBytes(d) /\ latest' = d
      BY DEF ChipTicks
<1>2. ~Halted(chip) /\ UNCHANGED <<pcClock, md_time, hreg, read, shown, clean>>
      BY DEF ChipTicks
<1>3. d \in StationDates
      BY DEF StationDates
<1>4. /\ DateRead(chip') = d /\ ~Halted(chip') /\ \A i \in 1..7 : chip'[i] \in 0..255
      BY <1>1, <1>3, ChipBytesHeld
<1>5. ChipShows'
      BY <1>1, <1>3, <1>4 DEF ChipShows, DateRead, Halted
<1>6. ConfigSets'
      BY <1>2, <1>4 DEF ClockInv, ConfigSets, Halted
<1>7. TimeRead' /\ TimeShown'
      BY <1>2, TimesStay
<1> QED BY <1>2, <1>5, <1>6, <1>7 DEF ClockInv

LEMMA RestartKeeps == ASSUME ClockInv, RestartStation PROVE ClockInv'
<1>1. pcClock' = "begin" /\ read'.good = FALSE /\ shown'.good = FALSE
      BY DEF RestartStation, NothingRead
<1>2. ConfigSets' /\ TimeRead' /\ TimeShown'
      BY <1>1 DEF ConfigSets, TimeRead, TimeShown
<1>3. CASE UNCHANGED <<chip, latest, clean>>
      BY <1>2, <1>3, SameChip DEF ClockInv
<1>4. CASE chip' = PowerUp /\ latest' = DateRead(PowerUp) /\ clean' = TRUE
      BY <1>2, <1>4, PowerUpFacts DEF ClockInv, ChipShows, DateRead
<1> QED BY <1>3, <1>4 DEF RestartStation

\* A refresh that goes well keeps the date the chip shows, which is one of a
\* calendar where nothing has failed.
LEMMA RunKeeps == ASSUME ClockInv, Refresh PROVE ClockInv'
<1>1. PICK failed \in BOOLEAN :
        /\ \E buffer \in IF failed THEN {<<0>> \o j : j \in Junk} ELSE {chip} :
               LET date == DateRead(buffer)
                   year == date.yOff + 2000
               IN md_time' = <<LowByte(year), HighByte(year), date.m, date.d, date.hh,
                               date.mm, date.ss>>
        /\ read' = [date |-> latest, good |-> ~failed]
        /\ clean' = (clean /\ ~failed)
      BY DEF Refresh
<1>2. pcClock = "loop" /\ UNCHANGED <<pcClock, chip, hreg, latest, shown>>
      BY DEF Refresh
<1>3. (clean' => clean) /\ clean' \in BOOLEAN
      BY <1>1
<1>4. ConfigSets'
      BY <1>2, <1>3 DEF ClockInv, ConfigSets, Halted
<1>5. TimeShown'
      BY <1>2, <1>3 DEF ClockInv, TimeShown, MasterReads
<1>6. TimeRead'
      <2> SUFFICES ASSUME read'.good
                   PROVE  /\ read'.date \in ByteDates /\ md_time' = Kept7(read'.date)
                          /\ clean' => isValid(read'.date)
          BY DEF TimeRead, Kept7, LowByte, HighByte, isValid
      <2>1. failed = FALSE /\ read'.date = latest
            BY <1>1
      <2>2. latest = DateRead(chip)
            BY DEF ClockInv, ChipShows
      <2>3. md_time' = Kept7(latest)
            BY <1>1, <2>1, <2>2 DEF Kept7
      <2>4. latest \in ByteDates
            BY <2>2, ReadIsOfBytes DEF ClockInv, ChipShows
      <2>5. ASSUME clean' PROVE isValid(latest)
            <3>1. ~Halted(chip)
                  BY <1>2, <1>3, <2>5 DEF ClockInv, ConfigSets
            <3>2. latest \in StationDates
                  BY <1>3, <2>5, <3>1, PowerUpFacts DEF ClockInv, ChipShows
            <3> QED BY <3>2, DateFields
      <2> QED BY <2>1, <2>3, <2>4, <2>5
<1> QED BY <1>2, <1>3, <1>4, <1>5, <1>6, SameChip

\* The registers that the master reads hold the date that was kept.
LEMMA PublishKeeps == ASSUME ClockInv, PublishTime PROVE ClockInv'
<1>1. /\ hreg' = [i \in 1..4 |->
                    WordOf(md_time[2 * i - 1], IF i = 4 THEN 100 ELSE md_time[2 * i])]
      /\ shown' = read
      /\ UNCHANGED <<pcClock, chip, md_time, latest, read, clean>>
      BY DEF PublishTime
<1>2. ConfigSets' /\ TimeRead'
      BY <1>1 DEF ClockInv, ConfigSets, TimeRead, Halted
<1>3. TimeShown'
      <2> SUFFICES ASSUME read.good PROVE MasterReads' = read.date
          BY <1>1 DEF ClockInv, TimeRead, TimeShown
      <2> DEFINE d == read.date
      <2>1. d \in ByteDates /\ md_time = Kept7(d)
            BY DEF ClockInv, TimeRead
      <2>2. /\ d = [yOff |-> d.yOff, m |-> d.m, d |-> d.d, hh |-> d.hh, mm |-> d.mm,
                    ss |-> d.ss]
            /\ d.yOff \in 0..255 /\ d.m \in 0..255 /\ d.d \in 0..255
            /\ d.hh \in 0..255 /\ d.mm \in 0..255 /\ d.ss \in 0..255
            BY <2>1 DEF ByteDates
      <2>3. /\ hreg'[1] = WordOf(LowByte(d.yOff + 2000), HighByte(d.yOff + 2000))
            /\ hreg'[2] = WordOf(d.m, d.d)
            /\ hreg'[3] = WordOf(d.hh, d.mm)
            /\ hreg'[4] = WordOf(d.ss, 100)
            BY <1>1, <2>1 DEF Kept7
      <2> HIDE DEF d
      <2>4. hreg'[1] = d.yOff + 2000
            <3>1. d.yOff + 2000 \in Nat /\ d.yOff + 2000 < 65536
                  BY <2>2
            <3> QED BY <2>3, <3>1, BytesOfWord
      <2>5. /\ LowByte(hreg'[2]) = d.m /\ HighByte(hreg'[2]) = d.d
            /\ LowByte(hreg'[3]) = d.hh /\ HighByte(hreg'[3]) = d.mm
            /\ LowByte(hreg'[4]) = d.ss
            <3>1. LowByte(WordOf(d.m, d.d)) = d.m /\ HighByte(WordOf(d.m, d.d)) = d.d
                  BY <2>2, WordRoundTrip
            <3>2. LowByte(WordOf(d.hh, d.mm)) = d.hh /\ HighByte(WordOf(d.hh, d.mm)) = d.mm
                  BY <2>2, WordRoundTrip
            <3>3. LowByte(WordOf(d.ss, 100)) = d.ss
                  <4>1. 100 \in 0..255
                        OBVIOUS
                  <4> QED BY <2>2, <4>1, WordRoundTrip
            <3> QED BY <2>3, <3>1, <3>2, <3>3
      <2>6. MasterReads' = DateOf(d.yOff + 2000, d.m, d.d, d.hh, d.mm, d.ss)
            BY <2>4, <2>5 DEF MasterReads, LowByte, HighByte
      <2>7. d.yOff + 2000 >= 2000 /\ (d.yOff + 2000 - 2000) % 256 = d.yOff
            BY <2>2
      <2>8. DateOf(d.yOff + 2000, d.m, d.d, d.hh, d.mm, d.ss) = d
            BY <2>2, <2>7 DEF DateOf, Date
      <2> QED BY <2>6, <2>8 DEF d
<1> QED BY <1>1, <1>2, <1>3, SameChip DEF ClockInv

LEMMA ClockStepInv == ClockInv /\ [ClockNext]_clockVars => ClockInv'
<1> SUFFICES ASSUME ClockInv, [ClockNext]_clockVars PROVE ClockInv'
    OBVIOUS
<1>1. CASE AdjustToBuildDate
      <2>1. BuildDate \in StationDates
            BY DEF StationDates
      <2> QED BY <1>1, <2>1, AdjustKeeps DEF AdjustToBuildDate
<1>2. CASE AdjustToFixedDate
      <2>1. FixedDate \in StationDates
            BY DEF StationDates
      <2> QED BY <1>2, <2>1, AdjustKeeps DEF AdjustToFixedDate
<1>3. CASE UNCHANGED clockVars
      <2>1. UNCHANGED <<pcClock, chip, md_time, hreg, latest, read, shown, clean>>
            BY <1>3 DEF clockVars
      <2>2. ConfigSets'
            BY <2>1 DEF ClockInv, ConfigSets, Halted
      <2> QED BY <2>1, <2>2, SameChip, TimesStay DEF ClockInv
<1> QED BY <1>1, <1>2, <1>3, BeginKeeps, IsRunningKeeps, TickKeeps, RestartKeeps, RunKeeps,
           PublishKeeps DEF ClockNext

LEMMA ClockInvariance == ClockSpec => []ClockInv
BY ClockInitInv, ClockStepInv, PTL DEF ClockSpec

\* The master reads the date that the chip showed at the last refresh, whatever
\* an earlier transfer left in a buffer, and without a failed transfer loop()
\* begins with a chip that runs and the date is one of a calendar.
THEOREM PublishedTimeIsTheChips == ClockSpec => []PublishedTimeIsTrue
<1>1. ClockInv => PublishedTimeIsTrue
      BY DEF ClockInv, ConfigSets, TimeShown, PublishedTimeIsTrue
<1> QED BY <1>1, ClockInvariance, PTL

\* MD_Config sets a chip back only if it stands still, if a transfer has failed
\* or by its second adjust().
THEOREM ClockRunsOn == ClockSpec => NeverSetBack
<1>1. ASSUME ClockInv, [ClockNext]_clockVars, Earlier(latest', latest)
      PROVE  \/ Halted(chip) \/ Halted(chip') \/ ~clean'
             \/ pcClock = "adjust to fixed date"
      <2>1. latest \in ByteDates
            BY <1>1, ReadIsOfBytes DEF ClockInv, ChipShows
      <2>2. latest' \in ByteDates
            <3>1. ClockInv'
                  BY <1>1, ClockStepInv
            <3>2. /\ \A i \in 1..7 : chip'[i] \in Int
                  /\ latest' = DateRead(chip)'
                  BY <3>1 DEF ClockInv, ChipShows
            <3>3. DateRead(chip') \in ByteDates
                  BY <3>2, ReadIsOfBytes
            <3> QED BY <3>2, <3>3 DEF DateRead
      <2>3. latest' # latest /\ ~Earlier(latest, latest')
            BY <1>1, <2>1, <2>2, EarlierIsAnOrder
      <2>4. CASE AdjustToBuildDate
            <3>1. pcClock = "adjust to build date"
                  BY <2>4 DEF AdjustToBuildDate
            <3>2. clean' => clean
                  BY <2>4 DEF AdjustToBuildDate, Adjust
            <3>3. clean => Halted(chip)
                  BY <1>1, <3>1 DEF ClockInv, ConfigSets
            <3> QED BY <3>2, <3>3
      <2>5. CASE AdjustToFixedDate
            BY <2>5 DEF AdjustToFixedDate
      <2>6. CASE ChipTicks
            BY <1>1, <2>3, <2>6 DEF ChipTicks, ClockInv, ChipShows
      <2>7. CASE RestartStation
            BY <2>3, <2>7, PowerUpFacts DEF RestartStation
      <2>8. CASE Begin \/ IsRunning \/ Refresh \/ PublishTime \/ UNCHANGED clockVars
            BY <2>3, <2>8 DEF Begin, IsRunning, Refresh, PublishTime, clockVars
      <2> QED BY <1>1, <2>4, <2>5, <2>6, <2>7, <2>8 DEF ClockNext
<1>2. ClockInv /\ [ClockNext]_clockVars
        => (Earlier(latest', latest) =>
               \/ Halted(chip) \/ Halted(chip') \/ ~clean'
               \/ pcClock = "adjust to fixed date")
      BY <1>1
<1> QED BY <1>2, ClockInvariance, PTL DEF ClockSpec, NeverSetBack

--------------------------------------------------------------------------------
(* The modem.                                                               *)

Letter == "AT+CMGS"
Text == "test send sms"
End == "Ctrl-Z"

Items == {"AT", "AT+CSQ", "AT+CCID", "AT+CREG?", "ATI", "AT+CBC", "AT+IPR", "AT+CMGF=1",
          "AT+CNMI", "AT+CMGS", "test send sms", "Ctrl-Z"}

(* Where the station may be: a routine, and its step.                       *)
At(routine, steps) == \E k \in steps : pcModem = <<routine, k>>
Positions ==
    \/ At("setup", Nat) \/ At("update setup", Nat)
    \/ At("sms", 0..3) \/ At("update sms", 0..3)
    \/ pcModem = <<"loop", 0>> \/ pcModem = <<"read", 0>>

DialogueTypes ==
    /\ toModem \in Seq(Items) /\ draft \in Seq(Items)
    /\ mode \in {"command", "text"}
    /\ spoiled \in Nat /\ restarts \in Nat

LEMMA RoutineIs ==
    ASSUME NEW routine, NEW steps, At(routine, steps)
    PROVE  pcModem[1] = routine
<1>1. PICK k \in steps : pcModem = <<routine, k>>
      BY DEF At
<1> QED BY ONLY <1>1

LEMMA Steps ==
    /\ \A k \in {0, 1, 2, 3} : k \in 0..3
    /\ 0 # 2 /\ 0 # 3 /\ 1 # 2 /\ 1 # 3 /\ 2 # 3
OBVIOUS

LEMMA Pairs ==
    ASSUME NEW r, NEW k, NEW s, NEW l, <<r, k>> = <<s, l>>
    PROVE  r = s /\ k = l
OBVIOUS

LEMMA Idle ==
    ASSUME pcModem = <<"loop", 0>> \/ pcModem = <<"read", 0>>
    PROVE  pcModem[1] \in {"loop", "read"}
OBVIOUS

LEMMA IdleIsAside ==
    ASSUME pcModem = <<"loop", 0>> \/ pcModem = <<"read", 0>>
    PROVE  pcModem \notin {<<"sms", 2>>, <<"update sms", 2>>, <<"sms", 3>>, <<"update sms", 3>>}
<1>1. CASE pcModem = <<"loop", 0>>
      BY <1>1, Pairs, Steps
<1>2. CASE pcModem = <<"read", 0>>
      BY <1>2, Pairs, Steps
<1> QED BY <1>1, <1>2

LEMMA AtSetup == ASSUME Positions, pcModem[1] = "setup" PROVE At("setup", Nat)
<1>1. pcModem[1] \notin {"loop", "read", "sms", "update sms", "update setup"}
      OBVIOUS
<1> QED BY <1>1, RoutineIs, Idle DEF Positions

LEMMA AtSms == ASSUME Positions, pcModem[1] = "sms" PROVE At("sms", 0..3)
BY RoutineIs, Idle DEF Positions

LEMMA AtUpdate ==
    ASSUME Positions, pcModem[1] \in {"update setup", "update sms"}
    PROVE  At("update setup", Nat) \/ At("update sms", 0..3)
BY RoutineIs, Idle DEF Positions

LEMMA Scripts ==
    /\ Len(SetupScript) = 9 /\ Len(SmsScript) = 4
    /\ \A i \in 1..9 : SetupScript[i] \in Items \ {Letter, Text, End}
    /\ SmsScript[1] = "AT+CMGF=1" /\ SmsScript[2] = Letter
    /\ SmsScript[3] = Text /\ SmsScript[4] = End
    /\ \A i \in 1..4 : SmsScript[i] \in Items
<1>1. /\ Len(SetupScript) = 9 /\ Len(SmsScript) = 4
      /\ SmsScript[1] = "AT+CMGF=1" /\ SmsScript[2] = Letter
      /\ SmsScript[3] = Text /\ SmsScript[4] = End
      BY DEF SetupScript, SmsScript, Letter, Text, End
<1>2. ASSUME NEW i \in 1..4 PROVE SmsScript[i] \in Items
      <2>1. i \in {1, 2, 3, 4}
            OBVIOUS
      <2> QED BY <1>1, <2>1 DEF Items, Letter, Text, End
<1>3. /\ SetupScript[1] = "AT" /\ SetupScript[2] = "AT+CSQ" /\ SetupScript[3] = "AT+CCID"
      /\ SetupScript[4] = "AT+CREG?" /\ SetupScript[5] = "ATI" /\ SetupScript[6] = "AT+CBC"
      /\ SetupScript[7] = "AT+IPR" /\ SetupScript[8] = "AT+CMGF=1"
      /\ SetupScript[9] = "AT+CNMI"
      BY DEF SetupScript
<1>4. ASSUME NEW i \in 1..9 PROVE SetupScript[i] \in Items \ {Letter, Text, End}
      <2>1. i \in {1, 2, 3, 4, 5, 6, 7, 8, 9}
            OBVIOUS
      <2> QED BY <1>3, <2>1 DEF Items, Letter, Text, End
<1> QED BY <1>1, <1>2, <1>4

--------------------------------------------------------------------------------
(* What the modem holds and what is on the way to it is one stream, in      *)
(* which a text message is broken off where AT+CMGS is not followed by the  *)
(* text or the text not by Ctrl-Z.                                          *)

Held == IF mode = "text" /\ draft = <<>> THEN Letter
        ELSE IF mode = "text" /\ draft = <<Text>> THEN Text ELSE "AT"
Stream(i) == IF i = 0 THEN Held ELSE toModem[i]

Breaks(item, next) ==
    \/ item = Letter /\ next # Text
    \/ item = Text /\ next # End

(* The modem is entering another text than was asked for.                   *)
Broken == mode = "text" /\ draft # <<>> /\ draft # <<Text>>

(* The station is about to go on after this item, if it is the last.        *)
GoesOn(item) ==
    /\ item = Letter => pcModem \in {<<"sms", 2>>, <<"update sms", 2>>}
    /\ item = Text => pcModem \in {<<"sms", 3>>, <<"update sms", 3>>}

(* Each item carries the number of restarts before it, which grows where a  *)
(* message is broken off; the modem has spoiled no more messages than that, *)
(* and one less while it is entering a broken one.                          *)
Numbered(ep) ==
    /\ \A i \in 0..Len(toModem) : ep[i] <= restarts
    /\ spoiled <= ep[0] /\ (Broken => spoiled < ep[0])
    /\ \A i \in 0..Len(toModem) :
          i < Len(toModem) => /\ ep[i] <= ep[i + 1]
                              /\ Breaks(Stream(i), Stream(i + 1)) => ep[i] < ep[i + 1]
    /\ ~GoesOn(Stream(Len(toModem))) => ep[Len(toModem)] < restarts

Accounted == \E ep \in [Nat -> Nat] : Numbered(ep)

(* The stream stays as it is.                                               *)
LEMMA StreamStays ==
    ASSUME DialogueTypes, NEW ep \in [Nat -> Nat], Numbered(ep),
           UNCHANGED <<toModem, mode, draft, spoiled>>, restarts' \in Nat,
           restarts <= restarts',
           restarts = restarts' => \A item : GoesOn(item) => GoesOn(item)'
    PROVE  Numbered(ep)'
<1>1. Len(toModem) \in Nat
      BY LenProperties DEF DialogueTypes
<1>2. \A i \in Nat : Stream(i)' = Stream(i)
      BY DEF Stream, Held
<1>3. \A i \in 0..Len(toModem) : ep[i] <= restarts'
      BY <1>1 DEF Numbered, DialogueTypes
<1>4. Broken' <=> Broken
      BY DEF Broken
<1>5. ~GoesOn(Stream(Len(toModem)))' => ep[Len(toModem)] < restarts'
      <2>1. Stream(Len(toModem))' = Stream(Len(toModem))
            BY <1>1, <1>2
      <2>2. CASE restarts = restarts'
            BY <1>1, <2>1, <2>2 DEF Numbered, GoesOn
      <2>3. CASE restarts # restarts'
            <3>1. ep[Len(toModem)] \in Nat /\ ep[Len(toModem)] <= restarts
                  BY <1>1 DEF Numbered
            <3> QED BY <2>3, <3>1 DEF DialogueTypes
      <2> QED BY <2>2, <2>3
<1>6. ASSUME NEW i \in 0..Len(toModem), i < Len(toModem)
      PROVE  Breaks(Stream(i), Stream(i + 1))' => ep[i] < ep[i + 1]
      <2>1. Stream(i)' = Stream(i) /\ Stream(i + 1)' = Stream(i + 1)
            BY <1>1, <1>2
      <2>2. Breaks(Stream(i), Stream(i + 1)) => ep[i] < ep[i + 1]
            BY <1>6 DEF Numbered
      <2> QED BY <2>1, <2>2 DEF Breaks
<1> QED BY <1>3, <1>4, <1>5, <1>6 DEF Numbered

\* The station sends an item more.
LEMMA StreamGrows ==
    ASSUME DialogueTypes, NEW ep \in [Nat -> Nat], Numbered(ep), NEW item \in Items,
           toModem' = Append(toModem, item), UNCHANGED <<mode, draft, spoiled, restarts>>,
           GoesOn(Stream(Len(toModem))) => ~Breaks(Stream(Len(toModem)), item),
           GoesOn(item)'
    PROVE  Accounted'
<1>1. PICK n \in Nat : n = Len(toModem)
      BY LenProperties DEF DialogueTypes
<1>2. /\ Len(toModem') = n + 1 /\ toModem'[n + 1] = item
      /\ \A i \in 1..n : toModem'[i] = toModem[i]
      BY <1>1, AppendProperties DEF DialogueTypes
<1>3. restarts \in Nat /\ restarts' = restarts
      BY DEF DialogueTypes
<1>4. /\ \A i \in 0..n : ep[i] <= restarts
      /\ \A i \in 0..n : i < n => /\ ep[i] <= ep[i + 1]
                                  /\ Breaks(Stream(i), Stream(i + 1)) => ep[i] < ep[i + 1]
      /\ ~GoesOn(Stream(n)) => ep[n] < restarts
      /\ GoesOn(Stream(n)) => ~Breaks(Stream(n), item)
      BY <1>1 DEF Numbered
<1>5. PICK next \in [Nat -> Nat] : next = [i \in Nat |-> IF i <= n THEN ep[i] ELSE restarts]
      BY <1>3
<1>6. (\A i \in 0..n : next[i] = ep[i]) /\ next[n + 1] = restarts
      BY <1>5
<1>7. \A i \in 0..n : Stream(i)' = Stream(i)
      BY <1>2 DEF Stream, Held
<1>8. Stream(n + 1)' = item
      BY <1>2 DEF Stream
<1>9. Numbered(next)'
      <2>1. ASSUME NEW i \in 0..(n + 1) PROVE next[i] <= restarts
            <3>1. i \in 0..n \/ i = n + 1
                  OBVIOUS
            <3>2. CASE i \in 0..n
                  BY <1>4, <1>6, <3>2
            <3>3. CASE i = n + 1
                  BY <1>3, <1>6, <3>3
            <3> QED BY <3>1, <3>2, <3>3
      <2>2. spoiled' <= next[0] /\ (Broken' => spoiled' < next[0])
            BY <1>6 DEF Numbered, Broken
      <2>3. ASSUME NEW i \in 0..(n + 1), i < n + 1
            PROVE  /\ next[i] <= next[i + 1]
                   /\ Breaks(Stream(i)', Stream(i + 1)') => next[i] < next[i + 1]
            <3>1. CASE i < n
                  <4>1. i \in 0..n /\ i + 1 \in 0..n
                        BY <3>1
                  <4> QED BY <1>4, <1>6, <1>7, <3>1, <4>1
            <3>2. CASE i = n
                  <4>1. n \in 0..n
                        OBVIOUS
                  <4>2. ep[n] <= restarts /\ (Breaks(Stream(n), item) => ep[n] < restarts)
                        BY <1>4, <4>1
                  <4>3. next[n] = ep[n] /\ next[n + 1] = restarts /\ Stream(n)' = Stream(n)
                        BY <1>6, <1>7, <4>1
                  <4> QED BY <1>8, <3>2, <4>2, <4>3
            <3> QED BY <2>3, <3>1, <3>2
      <2>4. GoesOn(Stream(n + 1))'
            BY <1>8 DEF GoesOn
      <2> QED BY <1>2, <1>3, <2>1, <2>2, <2>3, <2>4 DEF Numbered, Breaks
<1> QED BY <1>9 DEF Accounted

\* What has been sent follows what the modem holds.
LEMMA Sent ==
    ASSUME NEW n \in Nat, NEW i \in 1..n
    PROVE  Stream(i)' = toModem'[i] /\ Stream(i + 1) = toModem[i + 1]
<1>1. i # 0 /\ i + 1 # 0
      OBVIOUS
<1> QED BY <1>1 DEF Stream

\* The modem takes the first item, and spoils a message only after a break.
LEMMA StreamShrinks ==
    ASSUME DialogueTypes, NEW ep \in [Nat -> Nat], Numbered(ep), toModem # <<>>,
           toModem' = Tail(toModem), UNCHANGED <<pcModem, restarts>>,
           Held' \in {Head(toModem), "AT"}, spoiled' <= ep[1], Broken' => spoiled' < ep[1]
    PROVE  Accounted'
<1>1. PICK n \in Nat : n = Len(toModem)
      BY LenProperties DEF DialogueTypes
<1>2. /\ n > 0 /\ Len(toModem') = n - 1 /\ Head(toModem) = toModem[1]
      /\ \A i \in 1..(n - 1) : toModem'[i] = toModem[i + 1]
      BY <1>1, EmptySeq, LenProperties, HeadTailProperties DEF DialogueTypes
<1>3. /\ \A i \in 0..n : ep[i] <= restarts
      /\ \A i \in 0..n : i < n => /\ ep[i] <= ep[i + 1]
                                  /\ Breaks(Stream(i), Stream(i + 1)) => ep[i] < ep[i + 1]
      /\ ~GoesOn(Stream(n)) => ep[n] < restarts
      BY <1>1 DEF Numbered
<1>4. PICK next \in [Nat -> Nat] : next = [i \in Nat |-> ep[i + 1]]
      <2>1. \A i \in Nat : ep[i + 1] \in Nat
            OBVIOUS
      <2> QED BY <2>1
<1>5. \A i \in 0..(n - 1) : next[i] = ep[i + 1]
      BY <1>4
<1>6. \A i \in 1..(n - 1) : Stream(i)' = Stream(i + 1)
      <2>1. n - 1 \in Nat
            BY <1>2
      <2>2. \A i \in 1..(n - 1) : Stream(i)' = toModem'[i] /\ Stream(i + 1) = toModem[i + 1]
            BY ONLY <2>1, Sent
      <2> QED BY ONLY <1>2, <2>2
<1>7. Stream(0)' \in {Stream(1), "AT"}
      BY <1>2 DEF Stream
<1>8. (\A item : ~Breaks("AT", item)) /\ GoesOn("AT")'
      BY DEF Breaks, GoesOn, Letter, Text
<1>9. Numbered(next)'
      <2>1. ASSUME NEW i \in 0..(n - 1) PROVE next[i] <= restarts'
            <3>1. i + 1 \in 0..n
                  OBVIOUS
            <3> QED BY <1>3, <1>5, <3>1
      <2>2. spoiled' <= next[0] /\ (Broken' => spoiled' < next[0])
            BY <1>2, <1>5
      <2>3. ASSUME NEW i \in 0..(n - 1), i < n - 1
            PROVE  /\ next[i] <= next[i + 1]
                   /\ Breaks(Stream(i)', Stream(i + 1)') => next[i] < next[i + 1]
            <3>1. PICK j \in 1..(n - 1) : j = i + 1
                  BY <2>3
            <3>2. j \in 0..n /\ j < n /\ j \in 0..(n - 1)
                  OBVIOUS
            <3>3. ep[j] <= ep[j + 1] /\ (Breaks(Stream(j), Stream(j + 1)) => ep[j] < ep[j + 1])
                  BY <1>3, <3>2
            <3>4. next[i] = ep[j] /\ next[j] = ep[j + 1]
                  BY <1>5, <3>1, <3>2
            <3>5. Stream(j)' = Stream(j + 1)
                  BY <1>6
            <3>6. Stream(i)' \in {Stream(j), "AT"}
                  BY <1>6, <1>7, <3>1
            <3>7. Breaks(Stream(i)', Stream(j)') => next[i] < next[j]
                  BY <1>8, <3>3, <3>4, <3>5, <3>6
            <3> QED BY <3>1, <3>3, <3>4, <3>7
      <2>4. ASSUME ~GoesOn(Stream(n - 1))' PROVE next[n - 1] < restarts'
            <3>1. PICK k \in 0..(n - 1) : k = n - 1
                  BY <1>2
            <3>2. Stream(k)' \in {Stream(n), "AT"}
                  BY <1>2, <1>6, <1>7, <3>1
            <3>3. ~GoesOn(Stream(k))'
                  BY <2>4, <3>1
            <3>4. ~GoesOn(Stream(n))
                  BY <1>8, <3>2, <3>3 DEF GoesOn
            <3> QED BY <1>3, <1>5, <3>1, <3>4
      <2> QED BY <1>2, <2>1, <2>2, <2>3, <2>4 DEF Numbered, Breaks
<1> QED BY <1>9 DEF Accounted

--------------------------------------------------------------------------------
(* The station's steps.                                                     *)

\* In TS_Setup nothing of a message has been said.
LEMMA CommandGoesOn ==
    ASSUME NEW k, pcModem = <<"setup", k>>, NEW item, NEW other
    PROVE  GoesOn(item) => ~Breaks(item, other)
<1>1. pcModem \notin {<<"sms", 2>>, <<"update sms", 2>>, <<"sms", 3>>, <<"update sms", 3>>}
      OBVIOUS
<1> QED BY <1>1 DEF GoesOn, Breaks

LEMMA TypesGrow ==
    ASSUME DialogueTypes, NEW item \in Items, toModem' = Append(toModem, item),
           UNCHANGED <<mode, draft, spoiled, restarts>>
    PROVE  DialogueTypes'
BY AppendProperties DEF DialogueTypes

LEMMA SetupKeeps ==
    ASSUME Positions, DialogueTypes, Accounted, SendSetup
    PROVE  Positions' /\ DialogueTypes' /\ Accounted'
<1>1. PICK ep \in [Nat -> Nat] : Numbered(ep)
      BY DEF Accounted
<1>2. UNCHANGED <<mode, draft, spoiled, restarts>> /\ pcModem[1] = "setup"
      BY DEF SendSetup, modem
<1>3. PICK k \in Nat : pcModem = <<"setup", k>>
      BY <1>2, AtSetup DEF At
<1>4. IF k + 1 <= 9
      THEN toModem' = Append(toModem, SetupScript[k + 1]) /\ pcModem' = <<"update setup", k + 1>>
      ELSE toModem' = toModem /\ pcModem' = <<"loop", 0>>
      BY <1>3, Scripts DEF SendSetup, Told
<1>5. CASE k + 1 <= 9
      <2>1. PICK item \in Items \ {Letter, Text, End} : item = SetupScript[k + 1]
            <3>1. k + 1 \in 1..9
                  BY ONLY k \in Nat, <1>5
            <3> QED BY <3>1, Scripts
      <2>2. toModem' = Append(toModem, item) /\ pcModem' = <<"update setup", k + 1>>
            BY <1>4, <1>5, <2>1
      <2>3. GoesOn(Stream(Len(toModem))) => ~Breaks(Stream(Len(toModem)), item)
            BY <1>3, CommandGoesOn
      <2>4. GoesOn(item)'
            BY DEF GoesOn
      <2>5. Accounted'
            BY <1>1, <1>2, <2>2, <2>3, <2>4, StreamGrows
      <2>6. Positions'
            <3>1. k + 1 \in Nat
                  OBVIOUS
            <3>2. At("update setup", Nat)'
                  BY <2>2, <3>1 DEF At
            <3> QED BY <3>2 DEF Positions
      <2>7. DialogueTypes'
            BY <1>2, <2>2, TypesGrow
      <2> QED BY <2>5, <2>6, <2>7
<1>6. CASE ~(k + 1 <= 9)
      <2>1. toModem' = toModem /\ pcModem' = <<"loop", 0>>
            BY <1>4, <1>6
      <2>2. \A item : GoesOn(item) => GoesOn(item)'
            BY <1>3 DEF GoesOn
      <2>3. restarts' \in Nat /\ restarts <= restarts'
            BY <1>2 DEF DialogueTypes
      <2>4. Numbered(ep)'
            BY <1>1, <1>2, <2>1, <2>2, <2>3, StreamStays
      <2>5. DialogueTypes' /\ Positions'
            BY <1>2, <2>1 DEF DialogueTypes, Positions
      <2> QED BY <2>4, <2>5 DEF Accounted
<1> QED BY <1>5, <1>6

\* The four lines of TS_Send_SMS, one by one.
LEMMA SmsStep1 ==
    ASSUME NEW last, NEW item, pcModem = <<"sms", 0>>, pcModem' = <<"update sms", 1>>, item = "AT+CMGF=1"
    PROVE  (GoesOn(last) => ~Breaks(last, item)) /\ GoesOn(item)' /\ Positions'
<1>1. Letter # Text /\ Letter # End /\ Text # End /\ "AT+CMGF=1" \notin {Letter, Text}
      BY DEF Letter, Text, End
<1>2. GoesOn(last) => ~Breaks(last, item)
      BY <1>1, Pairs, Steps DEF GoesOn, Breaks
<1>3. GoesOn(item)'
      BY <1>1 DEF GoesOn
<1>4. Positions'
      BY Steps DEF Positions, At
<1> QED BY <1>2, <1>3, <1>4

LEMMA SmsStep2 ==
    ASSUME NEW last, NEW item, pcModem = <<"sms", 1>>, pcModem' = <<"update sms", 2>>, item = Letter
    PROVE  (GoesOn(last) => ~Breaks(last, item)) /\ GoesOn(item)' /\ Positions'
<1>1. Letter # Text /\ Letter # End /\ Text # End /\ "AT+CMGF=1" \notin {Letter, Text}
      BY DEF Letter, Text, End
<1>2. GoesOn(last) => ~Breaks(last, item)
      BY <1>1, Pairs, Steps DEF GoesOn, Breaks
<1>3. GoesOn(item)'
      BY <1>1 DEF GoesOn
<1>4. Positions'
      BY Steps DEF Positions, At
<1> QED BY <1>2, <1>3, <1>4

LEMMA SmsStep3 ==
    ASSUME NEW last, NEW item, pcModem = <<"sms", 2>>, pcModem' = <<"update sms", 3>>, item = Text
    PROVE  (GoesOn(last) => ~Breaks(last, item)) /\ GoesOn(item)' /\ Positions'
<1>1. Letter # Text /\ Letter # End /\ Text # End /\ "AT+CMGF=1" \notin {Letter, Text}
      BY DEF Letter, Text, End
<1>2. GoesOn(last) => ~Breaks(last, item)
      BY <1>1, Pairs, Steps DEF GoesOn, Breaks
<1>3. GoesOn(item)'
      BY <1>1 DEF GoesOn
<1>4. Positions'
      BY Steps DEF Positions, At
<1> QED BY <1>2, <1>3, <1>4

LEMMA SmsStep4 ==
    ASSUME NEW last, NEW item, pcModem = <<"sms", 3>>, pcModem' = <<"read", 0>>, item = End
    PROVE  (GoesOn(last) => ~Breaks(last, item)) /\ GoesOn(item)' /\ Positions'
<1>1. Letter # Text /\ Letter # End /\ Text # End /\ "AT+CMGF=1" \notin {Letter, Text}
      BY DEF Letter, Text, End
<1>2. GoesOn(last) => ~Breaks(last, item)
      BY <1>1, Pairs, Steps DEF GoesOn, Breaks
<1>3. GoesOn(item)'
      BY <1>1 DEF GoesOn
<1>4. Positions'
      BY Steps DEF Positions, At
<1> QED BY <1>2, <1>3, <1>4

LEMMA SmsKeeps ==
    ASSUME Positions, DialogueTypes, Accounted, SendSms
    PROVE  Positions' /\ DialogueTypes' /\ Accounted'
<1>1. PICK ep \in [Nat -> Nat] : Numbered(ep)
      BY DEF Accounted
<1>2. UNCHANGED <<mode, draft, spoiled, restarts>> /\ pcModem[1] = "sms"
      BY DEF SendSms, modem
<1>3. PICK k \in 0..3 : pcModem = <<"sms", k>>
      BY <1>2, AtSms DEF At
<1>4. /\ toModem' = Append(toModem, SmsScript[k + 1])
      /\ pcModem' = IF k + 1 < 4 THEN <<"update sms", k + 1>> ELSE <<"read", 0>>
      BY <1>3, Scripts DEF SendSms, Told
<1>5. k \in {0, 1, 2, 3}
      BY ONLY k \in 0..3
<1>6. PICK item \in Items : item = SmsScript[k + 1]
      BY <1>5, Scripts
<1>7. /\ GoesOn(Stream(Len(toModem))) => ~Breaks(Stream(Len(toModem)), item)
      /\ GoesOn(item)'
      /\ Positions'
      <2>1. CASE k = 0
            <3>1. pcModem' = <<"update sms", 1>>
                  <4>1. k + 1 = 1 /\ k + 1 < 4
                        BY ONLY <2>1
                  <4> QED BY <1>4, <4>1
            <3>2. item = "AT+CMGF=1"
                  BY ONLY <1>6, <2>1, Scripts
            <3> QED BY <1>3, <2>1, <3>1, <3>2, SmsStep1
      <2>2. CASE k = 1
            <3>1. pcModem' = <<"update sms", 2>>
                  <4>1. k + 1 = 2 /\ k + 1 < 4
                        BY ONLY <2>2
                  <4> QED BY <1>4, <4>1
            <3>2. item = Letter
                  BY ONLY <1>6, <2>2, Scripts
            <3> QED BY <1>3, <2>2, <3>1, <3>2, SmsStep2
      <2>3. CASE k = 2
            <3>1. pcModem' = <<"update sms", 3>>
                  <4>1. k + 1 = 3 /\ k + 1 < 4
                        BY ONLY <2>3
                  <4> QED BY <1>4, <4>1
            <3>2. item = Text
                  BY ONLY <1>6, <2>3, Scripts
            <3> QED BY <1>3, <2>3, <3>1, <3>2, SmsStep3
      <2>4. CASE k = 3
            <3>1. pcModem' = <<"read", 0>>
                  BY ONLY <1>4, <2>4
            <3>2. item = End
                  BY ONLY <1>6, <2>4, Scripts
            <3> QED BY <1>3, <2>4, <3>1, <3>2, SmsStep4
      <2> QED BY <1>5, <2>1, <2>2, <2>3, <2>4
<1>8. Accounted'
      BY <1>1, <1>2, <1>4, <1>6, <1>7, StreamGrows
<1>9. DialogueTypes'
      BY <1>2, <1>4, <1>6, TypesGrow
<1> QED BY <1>7, <1>8, <1>9

\* TS_Update ends, or goes on, where it was called.
LEMMA UpdateStays ==
    ASSUME Positions, Update
    PROVE  Positions' /\ \A item : GoesOn(item) => GoesOn(item)'
<1>1. ASSUME NEW k \in Nat, pcModem = <<"update setup", k>>
      PROVE  Positions' /\ \A item : GoesOn(item) => GoesOn(item)'
      <2>1. pcModem' = pcModem \/ pcModem' = <<"setup", k>>
            BY <1>1 DEF Update
      <2>2. Positions'
            BY <1>1, <2>1 DEF Positions, At
      <2>3. \A item : GoesOn(item) => GoesOn(item)'
            BY <1>1, <2>1 DEF GoesOn
      <2> QED BY <2>2, <2>3
<1>2. ASSUME NEW k \in 0..3, pcModem = <<"update sms", k>>
      PROVE  Positions' /\ \A item : GoesOn(item) => GoesOn(item)'
      <2>1. pcModem' = pcModem \/ pcModem' = <<"sms", k>>
            BY <1>2 DEF Update
      <2>2. Positions'
            BY <1>2, <2>1 DEF Positions, At
      <2>3. \A item : GoesOn(item) => GoesOn(item)'
            BY <1>2, <2>1 DEF GoesOn
      <2> QED BY <2>2, <2>3
<1>3. At("update setup", Nat) \/ At("update sms", 0..3)
      BY AtUpdate DEF Update
<1> QED BY <1>1, <1>2, <1>3 DEF At

\* The station and the line do what they like to what the modem says.
LEMMA OthersKeep ==
    ASSUME Positions, DialogueTypes, Accounted,
           \/ Press \/ PassBy \/ Update \/ ReadOn \/ Silence \/ EndRead
           \/ Restart \/ Speak \/ SmsComes \/ UNCHANGED modemVars
    PROVE  Positions' /\ DialogueTypes' /\ Accounted'
<1>1. PICK ep \in [Nat -> Nat] : Numbered(ep)
      BY DEF Accounted
<1>2. UNCHANGED <<toModem, mode, draft, spoiled>>
      BY DEF Press, PassBy, Update, ReadOn, Silence, EndRead, Restart, Speak, SmsComes,
             modemVars, modem
<1>3. Positions' /\ (restarts = restarts' => \A item : GoesOn(item) => GoesOn(item)')
      <2>1. CASE Press \/ PassBy \/ EndRead
            <3>1. /\ pcModem = <<"loop", 0>> \/ pcModem = <<"read", 0>>
                  /\ pcModem' \in {<<"loop", 0>>, <<"read", 0>>, <<"sms", 0>>}
                  BY <2>1 DEF Press, PassBy, EndRead
            <3>2. Positions'
                  BY <3>1, Steps DEF Positions, At
            <3>3. \A item : GoesOn(item) => GoesOn(item)'
                  BY <3>1, IdleIsAside DEF GoesOn
            <3> QED BY <3>2, <3>3
      <2>2. CASE Update
            BY <2>2, UpdateStays
      <2>3. CASE Restart
            <3>1. pcModem' = <<"setup", 0>>
                  BY <2>3 DEF Restart
            <3>2. restarts' = restarts + 1 /\ restarts \in Nat
                  BY <2>3 DEF Restart, DialogueTypes
            <3>3. restarts # restarts'
                  BY ONLY <3>2
            <3> QED BY <3>1, <3>3 DEF Positions, At
      <2>4. CASE ReadOn \/ Silence \/ Speak \/ SmsComes \/ UNCHANGED modemVars
            <3>1. pcModem' = pcModem
                  BY <2>4 DEF ReadOn, Silence, Speak, SmsComes, modemVars, station
            <3>2. \A item : GoesOn(item) => GoesOn(item)'
                  BY <3>1 DEF GoesOn
            <3> QED BY <3>1, <3>2 DEF Positions, At
      <2> QED BY <2>1, <2>2, <2>3, <2>4
<1>4. restarts' \in Nat /\ restarts <= restarts'
      <2>1. restarts' \in {restarts, restarts + 1}
            BY DEF Press, PassBy, Update, ReadOn, Silence, EndRead, Restart, Speak, SmsComes,
                   modemVars
      <2> QED BY <2>1 DEF DialogueTypes
<1>5. Numbered(ep)'
      BY <1>1, <1>2, <1>3, <1>4, StreamStays
<1> QED BY <1>2, <1>3, <1>4, <1>5 DEF DialogueTypes, Accounted

--------------------------------------------------------------------------------
(* The modem takes a command, or text.                                      *)

LEMMA Numbers ==
    ASSUME NEW s, NEW ep \in [Nat -> Nat], s \in Nat, s <= ep[0], ep[0] <= ep[1]
    PROVE  /\ s <= ep[1]
           /\ s < ep[0] => s < ep[1] /\ s + 1 <= ep[1]
           /\ ep[0] < ep[1] => s < ep[1] /\ s + 1 <= ep[1]
<1>1. ep[0] \in Nat /\ ep[1] \in Nat
      OBVIOUS
<1> QED BY <1>1

\* Text after text is no longer what was asked for.
LEMMA LongerDraft ==
    ASSUME NEW text \in Seq(Items), NEW item \in Items
    PROVE  /\ Append(text, item) \in Seq(Items)
           /\ Append(text, item) # <<>>
           /\ text # <<>> => Append(text, item) # <<Text>>
           /\ text = <<>> => Append(text, item) = <<item>>
<1>1. /\ Append(text, item) \in Seq(Items) /\ Len(Append(text, item)) = Len(text) + 1
      /\ Len(text) \in Nat
      BY AppendProperties, LenProperties
<1>2. text # <<>> => Len(text) # 0
      BY EmptySeq
<1>3. Len(<<Text>>) = 1 /\ Len(<<>>) = 0
      OBVIOUS
<1>4. text = <<>> => Append(text, item) = <<item>>
      OBVIOUS
<1>5. ASSUME text # <<>> PROVE Append(text, item) # <<Text>>
      <2>1. Len(Append(text, item)) # 1
            BY ONLY <1>1, <1>2, <1>5
      <2> QED BY <1>3, <2>1
<1>6. Append(text, item) # <<>>
      <2>1. Len(Append(text, item)) # 0
            BY ONLY <1>1
      <2> QED BY <1>3, <2>1
<1> QED BY <1>1, <1>4, <1>5, <1>6

LEMMA TakeShrinks ==
    ASSUME DialogueTypes, NEW ep \in [Nat -> Nat], Numbered(ep), Take
    PROVE  /\ Held' \in {Head(toModem), "AT"} /\ spoiled' \in Nat /\ spoiled' <= ep[1]
           /\ Broken' => spoiled' < ep[1]
           /\ draft' \in Seq(Items) /\ mode' \in {"command", "text"}
<1>1. /\ toModem # <<>> /\ Len(toModem) \in Nat \ {0} /\ Head(toModem) = toModem[1]
      /\ Head(toModem) \in Items
      <2>1. toModem \in Seq(Items) /\ toModem # <<>>
            BY DEF DialogueTypes, Take
      <2>2. Len(toModem) \in Nat \ {0}
            BY ONLY <2>1, EmptySeq, LenProperties
      <2>3. Head(toModem) = toModem[1] /\ Head(toModem) \in Items
            BY ONLY <2>1, HeadTailProperties
      <2> QED BY <2>1, <2>2, <2>3
<1>2. PICK item \in Items : item = Head(toModem)
      BY <1>1
<1>3. 0 \in 0..Len(toModem) /\ 0 < Len(toModem) /\ 0 + 1 = 1
      BY <1>1
<1>4. Stream(0) = Held /\ Stream(1) = item
      BY <1>1, <1>2 DEF Stream
<1>5. /\ spoiled <= ep[0] /\ (Broken => spoiled < ep[0])
      /\ ep[0] <= ep[1] /\ (Breaks(Held, item) => ep[0] < ep[1])
      BY <1>3, <1>4 DEF Numbered
<1>6. spoiled \in Nat
      BY DEF DialogueTypes
<1>7. /\ spoiled <= ep[1]
      /\ Broken \/ Breaks(Held, item) => spoiled < ep[1] /\ spoiled + 1 <= ep[1]
      BY <1>5, <1>6, Numbers
<1>8. CASE mode = "command"
      <2>1. spoiled' = spoiled /\ TakeCommand(item)
            BY <1>2, <1>8 DEF Take
      <2>2. \/ item = Letter /\ mode' = "text" /\ draft' = <<>>
            \/ mode' = "command" /\ draft' = draft
            BY <1>8, <2>1 DEF TakeCommand, Letter
      <2>3. Held' \in {item, "AT"} /\ ~Broken'
            BY <2>2 DEF Held, Broken
      <2>4. draft' \in Seq(Items)
            <3>1. <<>> \in Seq(Items)
                  OBVIOUS
            <3> QED BY <2>2, <3>1 DEF DialogueTypes
      <2> QED BY <1>2, <1>6, <1>7, <2>1, <2>2, <2>3, <2>4
<1>9. CASE mode = "text" /\ item # End
      <2>1. draft' = Append(draft, item) /\ mode' = "text" /\ spoiled' = spoiled
            BY <1>2, <1>9 DEF Take, End
      <2>2. /\ draft' \in Seq(Items) /\ draft' # <<>>
            /\ draft # <<>> => draft' # <<Text>>
            /\ draft = <<>> => draft' = <<item>>
            BY <2>1, LongerDraft DEF DialogueTypes
      <2>3. Held' \in {item, "AT"}
            BY <2>2 DEF Held
      <2>4. Broken' => Broken \/ Breaks(Held, item)
            <3>1. CASE draft = <<>>
                  BY <1>9, <2>2, <3>1 DEF Held, Broken, Breaks
            <3>2. CASE draft = <<Text>>
                  BY <1>9, <3>2 DEF Held, Breaks
            <3>3. CASE draft # <<>> /\ draft # <<Text>>
                  BY <1>9, <3>3 DEF Broken
            <3> QED BY <3>1, <3>2, <3>3
      <2> QED BY <1>2, <1>6, <1>7, <2>1, <2>2, <2>3, <2>4
<1>10. CASE mode = "text" /\ item = End
      <2>1. /\ mode' = "command" /\ draft' = <<>>
            /\ spoiled' = spoiled + IF draft = <<Text>> THEN 0 ELSE 1
            BY <1>2, <1>10 DEF Take, End, Text
      <2>2. Held' = "AT" /\ ~Broken'
            BY <2>1 DEF Held, Broken
      <2>3. draft # <<Text>> => Broken \/ Breaks(Held, item)
            <3>1. End # Text
                  BY DEF End, Text
            <3>2. CASE draft = <<>>
                  <4>1. Held = Letter
                        BY <1>10, <3>2 DEF Held
                  <4> QED BY <1>10, <3>1, <4>1 DEF Breaks
            <3> QED BY <1>10, <3>2 DEF Broken
      <2>4. spoiled' \in Nat /\ spoiled' <= ep[1]
            <3>1. CASE draft = <<Text>>
                  BY <1>6, <1>7, <2>1, <3>1
            <3>2. CASE draft # <<Text>>
                  BY <1>6, <1>7, <2>1, <2>3, <3>2
            <3> QED BY <3>1, <3>2
      <2>5. draft' \in Seq(Items)
            BY <2>1
      <2> QED BY <2>1, <2>2, <2>4, <2>5
<1> QED BY <1>8, <1>9, <1>10 DEF DialogueTypes

LEMMA TakeKeeps ==
    ASSUME Positions, DialogueTypes, Accounted, Take
    PROVE  Positions' /\ DialogueTypes' /\ Accounted'
<1>1. PICK ep \in [Nat -> Nat] : Numbered(ep)
      BY DEF Accounted
<1>2. toModem # <<>> /\ toModem' = Tail(toModem) /\ UNCHANGED <<pcModem, restarts>>
      BY DEF Take, station
<1>3. Accounted'
      BY <1>1, <1>2, TakeShrinks, StreamShrinks
<1>4. toModem' \in Seq(Items)
      BY <1>2, HeadTailProperties DEF DialogueTypes
<1>5. DialogueTypes'
      BY <1>1, <1>2, <1>4, TakeShrinks DEF DialogueTypes
<1> QED BY <1>2, <1>3, <1>5 DEF Positions, At

(***************************************************************************)
(* A text message leaves the modem with the text that TS_Send_SMS was      *)
(* given: nobody waits for the modem's prompt, any command may fail, and   *)
(* yet no more messages are spoiled than there were restarts.              *)
(***************************************************************************)
THEOREM OnlyRestartsSpoil == ModemSpec => []MessageIsAsAsked
<1>1. ModemInit => Positions /\ DialogueTypes /\ Accounted
      <2> SUFFICES ASSUME ModemInit PROVE Positions /\ DialogueTypes /\ Accounted
            OBVIOUS
      <2>1. Positions
            BY DEF ModemInit, Positions, At
      <2>2. DialogueTypes
            BY DEF ModemInit, DialogueTypes
      <2>3. Accounted
            <3>1. PICK ep \in [Nat -> Nat] : ep = [i \in Nat |-> 0]
                  OBVIOUS
            <3>2. Len(toModem) = 0 /\ restarts = 0 /\ spoiled = 0 /\ ~Broken /\ Held = "AT"
                  BY DEF ModemInit, Broken, Held
            <3>3. GoesOn(Stream(0))
                  BY <3>2 DEF GoesOn, Stream, Letter, Text
            <3>4. Numbered(ep)
                  BY <3>1, <3>2, <3>3 DEF Numbered
            <3> QED BY <3>4 DEF Accounted
      <2> QED BY <2>1, <2>2, <2>3
<1>2. Positions /\ DialogueTypes /\ Accounted /\ [ModemNext]_modemVars
          => (Positions /\ DialogueTypes /\ Accounted)'
      BY SetupKeeps, SmsKeeps, TakeKeeps, OthersKeep DEF ModemNext, Station
<1>3. DialogueTypes /\ Accounted => MessageIsAsAsked
      <2> SUFFICES ASSUME DialogueTypes, Accounted PROVE MessageIsAsAsked
            OBVIOUS
      <2>1. PICK ep \in [Nat -> Nat] : Numbered(ep)
            BY DEF Accounted
      <2>2. Len(toModem) \in Nat
            BY LenProperties DEF DialogueTypes
      <2>3. ep[0] \in Nat /\ spoiled <= ep[0] /\ ep[0] <= restarts
            BY <2>1, <2>2 DEF Numbered
      <2> QED BY <2>3 DEF MessageIsAsAsked, DialogueTypes
<1> QED BY <1>1, <1>2, <1>3, PTL DEF ModemSpec

--------------------------------------------------------------------------------
(* The other way: what the station has got of a report, what has come over  *)
(* the line and what the modem will still say are one sequence of lines.    *)

Kinds == {"blank", "OK, ERROR or >", "+CMT", "body"}
Lines == [kind : Kinds, id : Reports \cup {Own}]

All == chunk \o (fromModem \o pending)

(* A number is followed by the text of the same message, unless readString() *)
(* keeps no line more, here after n of them.                                *)
Chained(s, n) ==
    \A i \in 1..Len(s) : s[i].kind = "+CMT" =>
        \/ i < Len(s) /\ s[i + 1].id = s[i].id
        \/ i = 3 /\ n = 3

(* A report comes first, and only once.                                     *)
Leading(s, id) ==
    /\ Len(s) >= 3 /\ s[1] = Blank /\ s[2] = Line("+CMT", id) /\ s[3] = Line("body", id)
    /\ \A i \in 4..Len(s) : s[i].id # id

LEMMA TakenOver ==
    ASSUME NEW S, NEW a \in Seq(S), NEW b \in Seq(S), b # <<>>
    PROVE  Append(a, Head(b)) \o Tail(b) = a \o b
<1>1. /\ Head(b) \in S /\ Tail(b) \in Seq(S) /\ <<Head(b)>> \in Seq(S)
      /\ Append(a, Head(b)) = a \o <<Head(b)>>
      BY HeadTailProperties, AppendIsConcat
<1>2. <<Head(b)>> \o Tail(b) = b
      <2>1. /\ Len(<<Head(b)>>) = 1 /\ <<Head(b)>>[1] = b[1] /\ Len(b) \in Nat \ {0}
            /\ Len(Tail(b)) = Len(b) - 1
            /\ \A i \in 1..Len(Tail(b)) : Tail(b)[i] = b[i + 1]
            BY HeadTailProperties, EmptySeq
      <2>2. PICK c \in Seq(S) : c = <<Head(b)>> \o Tail(b)
            BY <1>1, ConcatProperties
      <2>3. /\ Len(c) = Len(b)
            /\ \A i \in 1..Len(b) : c[i] = IF i <= 1 THEN <<Head(b)>>[i] ELSE Tail(b)[i - 1]
            BY <1>1, <2>1, <2>2, ConcatProperties
      <2>4. ASSUME NEW i \in 1..Len(b) PROVE c[i] = b[i]
            <3>1. CASE i = 1
                  BY <2>1, <2>3, <3>1
            <3>2. CASE i # 1
                  <4>1. i - 1 \in 1..Len(Tail(b)) /\ ~(i <= 1) /\ i - 1 + 1 = i
                        BY <2>1, <3>2
                  <4> QED BY <2>1, <2>3, <4>1
            <3> QED BY <3>1, <3>2
      <2>5. c = b
            BY <2>3, <2>4, SeqEqual
      <2> QED BY <2>2, <2>5
<1> QED BY <1>1, <1>2, ConcatAssociative

LEMMA Regrouped ==
    ASSUME NEW S, NEW x \in Seq(S), NEW y \in Seq(S), NEW z \in Seq(S)
    PROVE  x \o (y \o z) = (x \o y) \o z
BY ConcatAssociative

LEMMA AddedLast ==
    ASSUME NEW S, NEW c \in Seq(S), NEW f \in Seq(S), NEW p \in Seq(S), NEW r \in Seq(S)
    PROVE  c \o (f \o (p \o r)) = (c \o (f \o p)) \o r
<1>1. f \o p \in Seq(S)
      BY ConcatProperties
<1>2. f \o (p \o r) = (f \o p) \o r
      BY Regrouped
<1>3. c \o ((f \o p) \o r) = (c \o (f \o p)) \o r
      BY <1>1, Regrouped
<1> QED BY <1>2, <1>3, Zenon

\* What is lost when the first line of the line is dropped.
LEMMA Dropped ==
    ASSUME NEW S, NEW c \in Seq(S), NEW f \in Seq(S), NEW p \in Seq(S), f # <<>>,
           NEW s, s = c \o (f \o p), NEW t, t = c \o (Tail(f) \o p)
    PROVE  /\ Len(s) \in Nat /\ Len(t) = Len(s) - 1 /\ Len(c) \in Nat /\ Len(c) < Len(s)
           /\ Head(f) = s[Len(c) + 1]
           /\ \A i \in 1..Len(t) : t[i] = IF i <= Len(c) THEN s[i] ELSE s[i + 1]
<1>1. PICK a \in Nat, b \in Nat, d \in Nat : a = Len(c) /\ b = Len(f) /\ d = Len(p) /\ b > 0
      BY LenProperties, EmptySeq
<1>2. /\ Tail(f) \in Seq(S) /\ Len(Tail(f)) = b - 1 /\ Head(f) = f[1]
      /\ \A i \in 1..(b - 1) : Tail(f)[i] = f[i + 1]
      BY <1>1, HeadTailProperties
<1>3. PICK g \in Seq(S) : g = f \o p
      BY ConcatProperties
<1>4. PICK h \in Seq(S) : h = Tail(f) \o p
      BY <1>2, ConcatProperties
<1>5. /\ Len(g) = b + d /\ \A i \in 1..(b + d) : g[i] = IF i <= b THEN f[i] ELSE p[i - b]
      BY <1>1, <1>3, ConcatProperties
<1>6. /\ Len(h) = b - 1 + d
      /\ \A i \in 1..(b - 1 + d) : h[i] = IF i <= b - 1 THEN Tail(f)[i] ELSE p[i - (b - 1)]
      BY <1>1, <1>2, <1>4, ConcatProperties
<1>7. \A i \in 1..(b - 1 + d) : h[i] = g[i + 1]
      <2> TAKE i \in 1..(b - 1 + d)
      <2>1. i + 1 \in 1..(b + d)
            BY <1>1
      <2>2. CASE i <= b - 1
            BY <1>2, <1>5, <1>6, <2>1, <2>2
      <2>3. CASE ~(i <= b - 1)
            <3>1. i + 1 - b = i - (b - 1) /\ ~(i + 1 <= b)
                  BY <1>1, <2>3
            <3>2. g[i + 1] = p[i + 1 - b]
                  BY <1>5, <2>1, <3>1
            <3>3. h[i] = p[i - (b - 1)]
                  BY <1>6, <2>3
            <3> QED BY <3>1, <3>2, <3>3
      <2> QED BY <2>2, <2>3
<1>8. /\ Len(s) = a + (b + d) /\ Len(t) = a + (b - 1 + d)
      /\ \A i \in 1..(a + (b + d)) : s[i] = IF i <= a THEN c[i] ELSE g[i - a]
      /\ \A i \in 1..(a + (b - 1 + d)) : t[i] = IF i <= a THEN c[i] ELSE h[i - a]
      <2>1. s = c \o g /\ t = c \o h
            BY <1>3, <1>4
      <2>2. /\ Len(s) = Len(c) + Len(g)
            /\ \A i \in 1..(Len(c) + Len(g)) : s[i] = IF i <= Len(c) THEN c[i] ELSE g[i - Len(c)]
            BY <2>1, ConcatProperties
      <2>3. /\ Len(t) = Len(c) + Len(h)
            /\ \A i \in 1..(Len(c) + Len(h)) : t[i] = IF i <= Len(c) THEN c[i] ELSE h[i - Len(c)]
            BY <2>1, ConcatProperties
      <2> QED BY <1>1, <1>5, <1>6, <2>2, <2>3
<1>9. \A i \in 1..(a + (b - 1 + d)) : t[i] = IF i <= a THEN s[i] ELSE s[i + 1]
      <2> TAKE i \in 1..(a + (b - 1 + d))
      <2>1. i \in 1..(a + (b + d)) /\ i + 1 \in 1..(a + (b + d))
            BY <1>1
      <2>2. CASE i <= a
            BY <1>8, <2>1, <2>2
      <2>3. CASE ~(i <= a)
            <3>1. i - a \in 1..(b - 1 + d) /\ i + 1 - a = i - a + 1 /\ ~(i + 1 <= a)
                  BY <1>1, <2>3
            <3>2. t[i] = h[i - a]
                  BY <1>8, <2>3
            <3>4. s[i + 1] = g[i - a + 1]
                  <4>1. PICK j \in 1..(a + (b + d)) : j = i + 1 /\ ~(j <= a)
                        BY <2>1, <3>1
                  <4>2. s[j] = g[j - a]
                        BY <1>8, <4>1
                  <4>3. j - a = i - a + 1
                        BY <3>1, <4>1
                  <4> QED BY <4>1, <4>2, <4>3
            <3>3. h[i - a] = g[i - a + 1]
                  BY <1>7, <3>1
            <3> QED BY <2>3, <3>2, <3>3, <3>4
      <2> QED BY <2>2, <2>3
<1>10. s[a + 1] = f[1]
      <2>1. a + 1 \in 1..(a + (b + d)) /\ ~(a + 1 <= a) /\ a + 1 - a = 1 /\ 1 \in 1..(b + d)
            BY <1>1
      <2> QED BY <1>1, <1>5, <1>8, <2>1
<1> QED BY <1>1, <1>2, <1>8, <1>9, <1>10

LEMMA Suffix ==
    ASSUME NEW S, NEW a \in Seq(S), NEW b \in Seq(S), NEW s, s = a \o b
    PROVE  /\ Len(a) \in Nat /\ Len(b) \in Nat /\ Len(s) = Len(b) + Len(a)
           /\ \A i \in 1..Len(b) : b[i] = s[i + Len(a)]
           /\ \A i \in 1..Len(a) : a[i] = s[i]
<1>1. PICK m \in Nat, n \in Nat : m = Len(a) /\ n = Len(b)
      BY LenProperties
<1>2. Len(s) = m + n /\ \A i \in 1..(m + n) : s[i] = IF i <= m THEN a[i] ELSE b[i - m]
      BY <1>1, ConcatProperties
<1>3. \A i \in 1..n : b[i] = s[i + m]
      <2> TAKE i \in 1..n
      <2>1. i + m \in 1..(m + n) /\ ~(i + m <= m) /\ i + m - m = i
            OBVIOUS
      <2> QED BY <1>2, <2>1
<1>4. \A i \in 1..m : a[i] = s[i]
      <2> TAKE i \in 1..m
      <2>1. i \in 1..(m + n) /\ i <= m
            OBVIOUS
      <2> QED BY <1>2, <2>1
<1> QED BY <1>1, <1>2, <1>3, <1>4

LEMMA Among ==
    ASSUME NEW s, NEW id
    PROVE  id \in In(s) <=> id \in Reports /\ \E i \in 1..Len(s) : s[i].id = id
BY DEF In

LEMMA AmongBoth ==
    ASSUME NEW a \in Seq(Lines), NEW b \in Seq(Lines)
    PROVE  In(a \o b) = In(a) \cup In(b)
<1>1. PICK m \in Nat, n \in Nat : m = Len(a) /\ n = Len(b)
      <2>1. Len(a) \in Nat /\ Len(b) \in Nat
            BY LenProperties
      <2> QED BY ONLY <2>1
<1>2. PICK s : /\ s = a \o b /\ Len(s) = m + n
               /\ \A i \in 1..(m + n) : s[i] = IF i <= m THEN a[i] ELSE b[i - m]
      <2>1. /\ Len(a \o b) = m + n
            /\ \A i \in 1..(m + n) : (a \o b)[i] = IF i <= m THEN a[i] ELSE b[i - m]
            BY <1>1, ConcatProperties
      <2> QED BY ONLY <2>1
<1>3. /\ \A i \in 1..m : a[i] = s[i]
      /\ \A i \in 1..n : b[i] = s[i + m]
      BY <1>1, <1>2, Suffix
<1>4. ASSUME NEW id \in In(s) PROVE id \in In(a) \cup In(b)
      <2>1. PICK i \in 1..(m + n) : s[i].id = id
            <3>1. \E i \in 1..Len(s) : s[i].id = id
                  BY <1>4, Among
            <3> QED BY <1>2, <3>1
      <2>2. id \in Reports
            BY <1>4, Among
      <2>3. CASE i <= m
            BY <1>1, <1>2, <2>1, <2>2, <2>3, Among
      <2>4. CASE ~(i <= m)
            <3>1. PICK j \in 1..n : j = i - m
                  BY <2>4
            <3>2. b[j].id = id
                  BY <1>2, <2>1, <2>4, <3>1
            <3> QED BY <1>1, <2>2, <3>2, Among
      <2> QED BY <2>3, <2>4
<1>5. ASSUME NEW id \in In(a) PROVE id \in In(s)
      <2>1. PICK i \in 1..m : a[i].id = id
            BY <1>1, <1>5, Among
      <2>2. i \in 1..(m + n) /\ s[i].id = id
            BY <1>3, <2>1
      <2> QED BY <1>2, <1>5, <2>2, Among
<1>6. ASSUME NEW id \in In(b) PROVE id \in In(s)
      <2>1. PICK i \in 1..n : b[i].id = id
            BY <1>1, <1>6, Among
      <2>2. i + m \in 1..(m + n) /\ s[i + m].id = id
            BY <1>3, <2>1
      <2> QED BY <1>2, <1>6, <2>2, Among
<1> QED BY <1>2, <1>4, <1>5, <1>6

--------------------------------------------------------------------------------
(* Each number keeps its text.                                              *)

LEMMA ChainLonger ==
    ASSUME NEW s \in Seq(Lines), NEW r \in Seq(Lines), NEW n, Chained(s, n), Chained(r, 0)
    PROVE  Chained(s \o r, n)
<1>1. PICK a \in Nat, b \in Nat : a = Len(s) /\ b = Len(r)
      <2>1. Len(s) \in Nat /\ Len(r) \in Nat
            BY LenProperties
      <2> QED BY ONLY <2>1
<1>2. PICK t : /\ t = s \o r /\ Len(t) = a + b
               /\ \A i \in 1..(a + b) : t[i] = IF i <= a THEN s[i] ELSE r[i - a]
      <2>1. /\ Len(s \o r) = a + b
            /\ \A i \in 1..(a + b) : (s \o r)[i] = IF i <= a THEN s[i] ELSE r[i - a]
            BY <1>1, ConcatProperties
      <2> QED BY ONLY <2>1
<1>3. /\ \A i \in 1..a : s[i].kind = "+CMT" =>
             (i < a /\ s[i + 1].id = s[i].id) \/ (i = 3 /\ n = 3)
      /\ \A i \in 1..b : r[i].kind = "+CMT" => i < b /\ r[i + 1].id = r[i].id
      <2>1. \A i \in 1..b : r[i].kind = "+CMT" =>
                (i < b /\ r[i + 1].id = r[i].id) \/ (i = 3 /\ 0 = 3)
            BY <1>1 DEF Chained
      <2> QED BY <1>1, <2>1 DEF Chained
<1>4. ASSUME NEW i \in 1..(a + b), t[i].kind = "+CMT"
      PROVE  (i < a + b /\ t[i + 1].id = t[i].id) \/ (i = 3 /\ n = 3)
      <2>1. CASE i <= a
            <3>1. t[i] = s[i] /\ i \in 1..a
                  BY <1>2, <2>1
            <3>2. CASE i < a /\ s[i + 1].id = s[i].id
                  <4>1. i + 1 \in 1..(a + b) /\ i + 1 <= a /\ i < a + b
                        BY <3>2
                  <4>2. t[i + 1] = s[i + 1]
                        BY <1>2, <4>1
                  <4> QED BY <3>1, <3>2, <4>1, <4>2
            <3> QED BY <1>3, <1>4, <3>1, <3>2
      <2>2. CASE ~(i <= a)
            <3>1. PICK j \in 1..b : j = i - a
                  BY <2>2
            <3>2. t[i] = r[j]
                  BY <1>2, <2>2, <3>1
            <3>3. j < b /\ r[j + 1].id = r[j].id
                  BY <1>3, <1>4, <3>2
            <3>4. i + 1 \in 1..(a + b) /\ ~(i + 1 <= a) /\ i + 1 - a = j + 1 /\ i < a + b
                  BY <2>2, <3>1, <3>3
            <3>5. t[i + 1] = r[j + 1]
                  BY <1>2, <3>4
            <3> QED BY <3>2, <3>3, <3>4, <3>5
      <2> QED BY <2>1, <2>2
<1> QED BY <1>1, <1>2, <1>4 DEF Chained

LEMMA ChainSuffix ==
    ASSUME NEW s, NEW t, NEW d \in Nat, Len(t) \in Nat, Len(s) = Len(t) + d,
           \A i \in 1..Len(t) : t[i] = s[i + d], NEW n, Chained(s, n), n = 3 => d >= 3
    PROVE  Chained(t, 0)
<1>1. ASSUME NEW i \in 1..Len(t), t[i].kind = "+CMT"
      PROVE  i < Len(t) /\ t[i + 1].id = t[i].id
      <2>1. i + d \in 1..Len(s) /\ s[i + d].kind = "+CMT"
            BY <1>1
      <2>2. ~(i + d = 3 /\ n = 3)
            OBVIOUS
      <2>3. i + d < Len(s) /\ s[i + d + 1].id = s[i + d].id
            BY <2>1, <2>2 DEF Chained
      <2>4. i < Len(t) /\ i + 1 \in 1..Len(t) /\ i + d + 1 = i + 1 + d
            BY <2>3
      <2> QED BY <2>3, <2>4
<1> QED BY <1>1 DEF Chained

\* The fourth line goes, and the first three stay.
LEMMA ChainAfterThree ==
    ASSUME NEW s, NEW t, Len(s) \in Nat, Len(t) = Len(s) - 1, 3 < Len(s), Chained(s, 3),
           \A i \in 1..Len(t) : t[i] = IF i <= 3 THEN s[i] ELSE s[i + 1]
    PROVE  Chained(t, 3)
<1>1. PICK n \in Nat : n = Len(t) /\ Len(s) = n + 1 /\ n >= 3
      OBVIOUS
<1>2. \A i \in 1..n : t[i] = IF i <= 3 THEN s[i] ELSE s[i + 1]
      BY <1>1
<1>3. \A i \in 1..(n + 1) : s[i].kind = "+CMT" =>
            (i < n + 1 /\ s[i + 1].id = s[i].id) \/ i = 3
      BY <1>1 DEF Chained
<1>4. ASSUME NEW i \in 1..n, t[i].kind = "+CMT", i # 3
      PROVE  i < n /\ t[i + 1].id = t[i].id
      <2>1. CASE i < 3
            <3>1. i \in 1..(n + 1) /\ i + 1 \in 1..n /\ i + 1 <= 3 /\ i <= 3 /\ i < n
                  BY <1>1, <2>1
            <3> QED BY <1>2, <1>3, <1>4, <3>1
      <2>2. CASE i > 3
            <3>1. i + 1 \in 1..(n + 1) /\ i + 1 # 3 /\ ~(i <= 3)
                  BY <2>2
            <3>2. i + 1 < n + 1 /\ s[i + 1 + 1].id = s[i + 1].id
                  BY <1>2, <1>3, <1>4, <3>1
            <3>3. i < n /\ i + 1 \in 1..n /\ ~(i + 1 <= 3)
                  BY <2>2, <3>2
            <3> QED BY <1>2, <3>1, <3>2, <3>3
      <2> QED BY <1>4, <2>1, <2>2
<1> QED BY <1>1, <1>4 DEF Chained

LEMMA ReportIsChained ==
    ASSUME NEW id \in Reports
    PROVE  Report(id) \in Seq(Lines) /\ Chained(Report(id), 0) /\ Leading(Report(id), id)
<1>1. /\ Len(Report(id)) = 3 /\ Report(id)[1] = Blank
      /\ Report(id)[2] = Line("+CMT", id) /\ Report(id)[3] = Line("body", id)
      BY DEF Report
<1>2. {Blank, Line("+CMT", id), Line("body", id)} \subseteq Lines
      BY DEF Lines, Kinds, Blank, Line
<1>3. Report(id) \in Seq(Lines)
      BY <1>2 DEF Report
<1>4. Chained(Report(id), 0)
      <2> SUFFICES ASSUME NEW i \in 1..3, Report(id)[i].kind = "+CMT"
                   PROVE  i < 3 /\ Report(id)[i + 1].id = Report(id)[i].id
            BY <1>1 DEF Chained
      <2>1. i = 1 \/ i = 2 \/ i = 3
            OBVIOUS
      <2>2. i = 2
            <3>1. Blank.kind # "+CMT" /\ Line("body", id).kind # "+CMT"
                  BY DEF Blank, Line
            <3> QED BY <1>1, <2>1, <3>1
      <2> QED BY <1>1, <2>2 DEF Line
<1>5. Leading(Report(id), id)
      BY <1>1 DEF Leading
<1> QED BY <1>3, <1>4, <1>5

LEMMA SaysIsChained ==
    /\ <<Says>> \in Seq(Lines) /\ Chained(<<Says>>, 0)
    /\ \A i \in 1..Len(<<Says>>) : <<Says>>[i].id = Own
<1>1. Says \in Lines /\ Says.kind # "+CMT" /\ Says.id = Own
      BY DEF Lines, Kinds, Says, Line
<1>2. Len(<<Says>>) = 1 /\ <<Says>>[1] = Says
      OBVIOUS
<1> QED BY <1>1, <1>2 DEF Chained

--------------------------------------------------------------------------------
(* A report that came alone is the first, and is not said again.            *)

LEMMA LeadLonger ==
    ASSUME NEW s \in Seq(Lines), NEW r \in Seq(Lines), NEW id, Leading(s, id),
           \A i \in 1..Len(r) : r[i].id # id
    PROVE  Leading(s \o r, id)
<1>1. PICK a \in Nat, b \in Nat : a = Len(s) /\ b = Len(r)
      <2>1. Len(s) \in Nat /\ Len(r) \in Nat
            BY LenProperties
      <2> QED BY ONLY <2>1
<1>2. PICK t : /\ t = s \o r /\ Len(t) = a + b
               /\ \A i \in 1..(a + b) : t[i] = IF i <= a THEN s[i] ELSE r[i - a]
      <2>1. /\ Len(s \o r) = a + b
            /\ \A i \in 1..(a + b) : (s \o r)[i] = IF i <= a THEN s[i] ELSE r[i - a]
            BY <1>1, ConcatProperties
      <2> QED BY ONLY <2>1
<1>3. a >= 3 /\ \A i \in 4..a : s[i].id # id
      BY <1>1 DEF Leading
<1>4. t[1] = s[1] /\ t[2] = s[2] /\ t[3] = s[3]
      BY <1>2, <1>3
<1>5. ASSUME NEW i \in 4..(a + b) PROVE t[i].id # id
      <2>1. CASE i <= a
            BY <1>2, <1>3, <2>1
      <2>2. CASE ~(i <= a)
            <3>1. i - a \in 1..b
                  BY <2>2
            <3> QED BY <1>1, <1>2, <2>2, <3>1
      <2> QED BY <2>1, <2>2
<1> QED BY <1>1, <1>2, <1>3, <1>4, <1>5 DEF Leading

LEMMA LeadAfterThree ==
    ASSUME NEW s, NEW t, NEW id, Len(s) \in Nat, Len(t) = Len(s) - 1, 3 < Len(s), Leading(s, id),
           \A i \in 1..Len(t) : t[i] = IF i <= 3 THEN s[i] ELSE s[i + 1]
    PROVE  Leading(t, id) /\ s[4].id # id
<1>1. PICK n \in Nat : n = Len(t) /\ Len(s) = n + 1 /\ n >= 3
      OBVIOUS
<1>2. \A i \in 1..n : t[i] = IF i <= 3 THEN s[i] ELSE s[i + 1]
      BY <1>1
<1>3. \A i \in 4..(n + 1) : s[i].id # id
      BY <1>1 DEF Leading
<1>4. t[1] = s[1] /\ t[2] = s[2] /\ t[3] = s[3] /\ s[4].id # id
      BY <1>1, <1>2, <1>3
<1>5. ASSUME NEW i \in 4..n PROVE t[i].id # id
      <2>1. i \in 1..n /\ ~(i <= 3) /\ i + 1 \in 4..(n + 1)
            OBVIOUS
      <2> QED BY <1>2, <1>3, <2>1
<1> QED BY <1>1, <1>4, <1>5 DEF Leading

--------------------------------------------------------------------------------
(* The inductive invariant: numbers keep their texts, and reports that came *)
(* alone lead, while the station does nothing but read.                     *)

Tidy ==
    /\ chunk \in Seq(Lines) /\ fromModem \in Seq(Lines) /\ pending \in Seq(Lines)
    /\ Len(chunk) <= 3
    /\ chunk # <<>> => pcModem[1] = "read"
    /\ Chained(All, Len(chunk))
    /\ received[1] = received[2]

Lone ==
    /\ alone \subseteq Reports /\ alone \cap lost = {}
    /\ alone # {} => pcModem[1] \in {"loop", "read"}
    /\ \A id \in alone : Leading(All, id)

LEMMA Routine == ASSUME NEW r, NEW k PROVE <<r, k>>[1] = r
OBVIOUS

LEMMA AllLines == ASSUME Tidy PROVE All \in Seq(Lines) /\ Len(All) \in Nat /\ Len(chunk) \in Nat
<1>1. fromModem \o pending \in Seq(Lines)
      BY ConcatProperties DEF Tidy
<1>2. All \in Seq(Lines)
      BY <1>1, ConcatProperties DEF Tidy, All
<1> QED BY <1>2, LenProperties DEF Tidy

LEMMA LinesStay ==
    ASSUME Tidy, Lone, UNCHANGED <<chunk, fromModem, pending, received, lost>>,
           alone' \subseteq alone, chunk # <<>> => pcModem'[1] = "read",
           alone' # {} => pcModem'[1] \in {"loop", "read"}
    PROVE  Tidy' /\ Lone'
<1>1. All' = All
      BY DEF All
<1>2. Tidy'
      BY <1>1 DEF Tidy
<1>3. Lone'
      BY <1>1 DEF Lone
<1> QED BY <1>2, <1>3

\* Every report that came alone has a line among those still to come.
LEMMA LoneIsHeld ==
    ASSUME Tidy, Lone
    PROVE  /\ alone \subseteq In(fromModem \o chunk \o pending)
           /\ chunk = <<>> => alone \subseteq In(fromModem \o pending)
<1>1. /\ chunk \in Seq(Lines) /\ fromModem \in Seq(Lines) /\ pending \in Seq(Lines)
      /\ fromModem \o pending \in Seq(Lines) /\ fromModem \o chunk \in Seq(Lines)
      BY ConcatProperties DEF Tidy
<1>2. ASSUME NEW id \in alone PROVE id \in In(All)
      <2>1. Leading(All, id) /\ id \in Reports
            BY DEF Lone
      <2>2. 2 \in 1..Len(All) /\ All[2].id = id
            <3>1. Len(All) \in Nat /\ Len(All) >= 3 /\ All[2] = Line("+CMT", id)
                  BY <2>1, AllLines DEF Leading
            <3>2. 2 \in 1..Len(All)
                  BY ONLY <3>1
            <3> QED BY <3>1, <3>2 DEF Line
      <2> QED BY <2>1, <2>2, Among
<1>3. In(All) = In(chunk) \cup (In(fromModem) \cup In(pending))
      <2>1. In(fromModem \o pending) = In(fromModem) \cup In(pending)
            BY <1>1, AmongBoth
      <2>2. In(chunk \o (fromModem \o pending)) = In(chunk) \cup In(fromModem \o pending)
            BY <1>1, AmongBoth
      <2> QED BY <2>1, <2>2 DEF All
<1>4. In(fromModem \o chunk \o pending) = In(fromModem) \cup In(chunk) \cup In(pending)
      BY <1>1, AmongBoth
<1>5. chunk = <<>> => All = fromModem \o pending
      BY <1>1, ConcatEmptySeq DEF All
<1> QED BY <1>2, <1>3, <1>4, <1>5

LEMMA AsideKeeps ==
    ASSUME Tidy, Lone,
           \/ SendSetup \/ SendSms \/ Press \/ PassBy \/ EndRead \/ UNCHANGED modemVars
    PROVE  Tidy' /\ Lone'
<1>1. CASE SendSetup \/ SendSms
      <2>1. /\ pcModem[1] \in {"setup", "sms"}
            /\ UNCHANGED <<chunk, fromModem, pending, received, lost, alone>>
            BY <1>1 DEF SendSetup, SendSms
      <2>2. chunk = <<>> /\ alone = {}
            BY <2>1 DEF Tidy, Lone
      <2> QED BY <2>1, <2>2, LinesStay
<1>2. CASE Press
      <2>1. /\ pcModem[1] = "loop" /\ alone' = alone \ In(fromModem \o pending)
            /\ UNCHANGED <<chunk, fromModem, pending, received, lost>>
            BY <1>2, Routine DEF Press
      <2>2. chunk = <<>>
            BY <2>1 DEF Tidy
      <2>3. alone' = {}
            BY <2>1, <2>2, LoneIsHeld
      <2> QED BY <2>1, <2>2, <2>3, LinesStay
<1>3. CASE PassBy \/ EndRead
      <2>1. /\ pcModem'[1] \in {"loop", "read"}
            /\ chunk # <<>> => pcModem'[1] = "read"
            /\ UNCHANGED <<chunk, fromModem, pending, received, lost, alone>>
            BY <1>3, Routine DEF PassBy, EndRead
      <2> QED BY <2>1, LinesStay
<1>4. CASE UNCHANGED modemVars
      <2>1. UNCHANGED <<pcModem, chunk, fromModem, pending, received, lost, alone>>
            BY <1>4 DEF modemVars, station
      <2>2. /\ chunk # <<>> => pcModem'[1] = "read"
            /\ alone' # {} => pcModem'[1] \in {"loop", "read"}
            BY <2>1 DEF Tidy, Lone
      <2> QED BY <2>1, <2>2, LinesStay
<1> QED BY <1>1, <1>2, <1>3, <1>4

LEMMA UpdateKeeps ==
    ASSUME Tidy, Lone, Update
    PROVE  Tidy' /\ Lone'
<1>1. /\ pcModem[1] \in {"update setup", "update sms"}
      /\ UNCHANGED <<chunk, pending, received, alone>>
      BY DEF Update
<1>2. chunk = <<>> /\ alone = {}
      BY <1>1 DEF Tidy, Lone
<1>3. CASE fromModem = <<>>
      <2>1. UNCHANGED <<fromModem, lost>>
            BY <1>3 DEF Update
      <2> QED BY <1>1, <1>2, <2>1, LinesStay
<1>4. CASE fromModem # <<>>
      <2>1. fromModem' = Tail(fromModem)
            BY <1>4 DEF Update
      <2>2. fromModem' \in Seq(Lines)
            BY <1>4, <2>1, HeadTailProperties DEF Tidy
      <2>3. PICK s, t : s = All /\ t = All'
            OBVIOUS
      <2>4. /\ s = chunk \o (fromModem \o pending) /\ t = chunk \o (Tail(fromModem) \o pending)
            /\ Len(chunk) = 0
            BY <1>1, <1>2, <2>1, <2>3 DEF All
      <2>5. /\ Len(s) \in Nat /\ Len(t) = Len(s) - 1 /\ 0 < Len(s)
            /\ \A i \in 1..Len(t) : t[i] = IF i <= 0 THEN s[i] ELSE s[i + 1]
            BY <1>4, <2>4, Dropped DEF Tidy
      <2>6. Len(t) \in Nat /\ Len(s) = Len(t) + 1 /\ \A i \in 1..Len(t) : t[i] = s[i + 1]
            BY ONLY <2>5
      <2>7. Chained(s, 0)
            BY <2>3, <2>4 DEF Tidy
      <2>8. Chained(t, 0)
            BY <2>6, <2>7, ChainSuffix
      <2>9. Tidy'
            BY <1>1, <1>2, <2>2, <2>3, <2>4, <2>8 DEF Tidy
      <2>10. Lone'
            BY <1>1, <1>2 DEF Lone
      <2> QED BY <2>9, <2>10
<1> QED BY <1>3, <1>4

LEMMA Three == ASSUME NEW n \in Nat, n <= 3, n >= 3 \/ ~(n < 3) PROVE n = 3
OBVIOUS

LEMMA OneLine == ASSUME NEW line, NEW id, line.id # id PROVE id \notin In(<<line>>)
<1>1. Len(<<line>>) = 1 /\ <<line>>[1] = line
      OBVIOUS
<1>2. \A i \in 1..Len(<<line>>) : <<line>>[i].id # id
      BY <1>1
<1> QED BY <1>2, Among

\* readString() takes a line, and keeps it if it is one of the first three.
LEMMA ReadKeeps ==
    ASSUME Tidy, Lone, ReadOn
    PROVE  Tidy' /\ Lone'
<1>1. /\ pcModem' = pcModem /\ pcModem[1] = "read" /\ fromModem # <<>>
      /\ fromModem' = Tail(fromModem) /\ UNCHANGED <<pending, received, alone>>
      BY Routine DEF ReadOn
<1>2. /\ Tail(fromModem) \in Seq(Lines) /\ Head(fromModem) \in Lines
      /\ chunk \in Seq(Lines) /\ fromModem \in Seq(Lines) /\ pending \in Seq(Lines)
      BY <1>1, HeadTailProperties DEF Tidy
<1>3. Len(chunk) \in Nat /\ Len(chunk) <= 3
      BY LenProperties DEF Tidy
<1>4. CASE Len(chunk) < 3
      <2>1. chunk' = Append(chunk, Head(fromModem)) /\ lost' = lost
            BY <1>4 DEF ReadOn
      <2>2. chunk' \in Seq(Lines) /\ Len(chunk') = Len(chunk) + 1
            BY <1>2, <2>1, AppendProperties DEF Tidy
      <2>3. All' = All
            <3>1. chunk' \o fromModem' = chunk \o fromModem
                  BY <1>1, <2>1, TakenOver DEF Tidy
            <3>2. (chunk \o fromModem) \o pending = chunk \o (fromModem \o pending)
                  BY ONLY <1>2, ConcatAssociative
            <3>3. chunk' \in Seq(Lines) /\ fromModem' \in Seq(Lines) /\ pending \in Seq(Lines)
                  BY <1>1, <1>2, <2>2
            <3>4. (chunk' \o fromModem') \o pending = chunk' \o (fromModem' \o pending)
                  BY ONLY <3>3, ConcatAssociative
            <3> QED BY <1>1, <3>1, <3>2, <3>4 DEF All
      <2>4. Chained(All, Len(chunk'))
            <3>1. Len(chunk) # 3
                  BY ONLY <1>3, <1>4
            <3> QED BY <3>1 DEF Tidy, Chained
      <2>5. Len(chunk') <= 3
            BY ONLY <1>3, <1>4, <2>2
      <2>6. Tidy'
            BY <1>1, <1>2, <2>2, <2>3, <2>4, <2>5 DEF Tidy
      <2>7. Lone'
            BY <1>1, <2>1, <2>3 DEF Lone
      <2> QED BY <2>6, <2>7
<1>5. CASE ~(Len(chunk) < 3)
      <2>1. chunk' = chunk /\ lost' = lost \cup In(<<Head(fromModem)>>)
            BY <1>5 DEF ReadOn
      <2>2. Len(chunk) = 3
            BY ONLY <1>3, <1>5, Three
      <2>3. PICK s, t : s = All /\ t = All'
            OBVIOUS
      <2>4. s = chunk \o (fromModem \o pending) /\ t = chunk \o (Tail(fromModem) \o pending)
            BY <1>1, <2>1, <2>3 DEF All
      <2>5. /\ Len(s) \in Nat /\ Len(t) = Len(s) - 1 /\ 3 < Len(s) /\ Head(fromModem) = s[3 + 1]
            /\ \A i \in 1..Len(t) : t[i] = IF i <= 3 THEN s[i] ELSE s[i + 1]
            <3>1. /\ Len(s) \in Nat /\ Len(t) = Len(s) - 1 /\ Len(chunk) < Len(s)
                  /\ Head(fromModem) = s[Len(chunk) + 1]
                  /\ \A i \in 1..Len(t) : t[i] = IF i <= Len(chunk) THEN s[i] ELSE s[i + 1]
                  BY <1>1, <1>2, <2>4, Dropped
            <3> QED BY ONLY <2>2, <3>1
      <2>6. Chained(s, 3)
            BY <2>2, <2>3 DEF Tidy
      <2>7. Chained(t, 3)
            BY <2>5, <2>6, ChainAfterThree
      <2>8. ASSUME NEW id \in alone PROVE Leading(t, id) /\ id \notin In(<<Head(fromModem)>>)
            <3>1. Leading(s, id)
                  BY <2>3 DEF Lone
            <3>2. Leading(t, id) /\ s[4].id # id
                  BY <2>5, <3>1, LeadAfterThree
            <3>3. Head(fromModem).id # id
                  BY <2>5, <3>2
            <3> QED BY <3>2, <3>3, OneLine
      <2>9. Tidy'
            BY <1>1, <1>2, <2>1, <2>2, <2>3, <2>7 DEF Tidy
      <2>10. Lone'
            BY <1>1, <2>1, <2>3, <2>8 DEF Lone
      <2> QED BY <2>9, <2>10
<1> QED BY <1>4, <1>5

\* After a second of silence everything that came has been read.
LEMMA SilenceKeeps ==
    ASSUME Tidy, Lone, Silence
    PROVE  Tidy' /\ Lone'
<1>1. /\ fromModem = <<>> /\ pending = <<>> /\ chunk' = <<>> /\ chunk # <<>>
      /\ UNCHANGED <<fromModem, pending>>
      BY DEF Silence
<1>2. All = chunk /\ All' = <<>>
      BY <1>1, ConcatEmptySeq DEF All, Tidy
<1>3. Len(chunk) \in Nat /\ Len(chunk) <= 3
      BY LenProperties DEF Tidy
<1>4. Leads(chunk) => chunk[2].id = chunk[3].id
      <2> SUFFICES ASSUME Leads(chunk) PROVE chunk[2].id = chunk[3].id
            OBVIOUS
      <2>1. Len(chunk) > 1 /\ chunk[2].kind = "+CMT"
            BY DEF Leads
      <2>2. 2 \in 1..Len(chunk) /\ 2 # 3 /\ 2 + 1 = 3
            BY ONLY <1>3, <2>1
      <2> QED BY <1>2, <2>1, <2>2 DEF Tidy, Chained
<1>5. received'[1] = received'[2]
      <2>1. CASE Leads(chunk)
            <3>1. received' = <<chunk[2].id, chunk[3].id>>
                  BY <2>1 DEF Silence
            <3> QED BY <1>4, <2>1, <3>1
      <2>2. CASE ~Leads(chunk)
            BY <2>2 DEF Silence, Tidy
      <2> QED BY <2>1, <2>2
<1>6. Tidy'
      <2>1. Chained(<<>>, 0)
            BY DEF Chained
      <2>2. Len(<<>>) = 0 /\ <<>> \in Seq(Lines)
            OBVIOUS
      <2> QED BY <1>1, <1>2, <1>5, <2>1, <2>2 DEF Tidy
<1>7. CASE alone = {}
      <2>1. alone' = {}
            BY <1>7 DEF Silence
      <2> QED BY <1>6, <2>1 DEF Lone
<1>8. CASE alone # {}
      <2>1. PICK id \in alone : Leading(chunk, id) /\ id \in Reports
            BY <1>2, <1>8 DEF Lone
      <2>2. /\ Len(chunk) = 3 /\ chunk[1] = Blank
            /\ chunk[2] = Line("+CMT", id) /\ chunk[3] = Line("body", id)
            <3>1. Len(chunk) >= 3
                  BY <2>1 DEF Leading
            <3> QED BY <1>3, <2>1, <3>1, Three DEF Leading
      <2>3. Leads(chunk) /\ chunk[2].id = id
            BY <2>2 DEF Leads, Line
      <2>4. lost' = lost \cup (In(chunk) \ {id}) /\ alone' = alone \ {id}
            BY <2>3 DEF Silence
      <2>5. alone' = {}
            <3>1. ASSUME NEW other \in alone PROVE other = id
                  <4>1. chunk[2] = Line("+CMT", other)
                        BY <1>2 DEF Lone, Leading
                  <4> QED BY <2>2, <4>1 DEF Line
            <3> QED BY <2>4, <3>1
      <2> QED BY <1>6, <2>5 DEF Lone
<1> QED BY <1>6, <1>7, <1>8

LEMMA ModemRestartKeeps ==
    ASSUME Tidy, Lone, Restart
    PROVE  Tidy' /\ Lone'
<1>1. /\ pcModem' = <<"setup", 0>> /\ fromModem' = <<>> /\ chunk' = <<>> /\ pending' = pending
      /\ received' = <<Own, Own>> /\ alone' = alone \ In(fromModem \o chunk \o pending)
      BY DEF Restart
<1>2. alone' = {}
      BY <1>1, LoneIsHeld
<1>3. Lone'
      BY <1>2 DEF Lone
<1>4. <<>> \in Seq(Lines) /\ Len(<<>>) = 0
      OBVIOUS
<1>5. All' = pending
      <2>1. pending \in Seq(Lines)
            BY DEF Tidy
      <2> QED BY <1>1, <1>4, <2>1, ConcatEmptySeq DEF All
<1>6. Chained(pending, 0)
      <2>1. PICK a \in Seq(Lines) : a = chunk \o fromModem
            BY ConcatProperties DEF Tidy
      <2>2. All = a \o pending
            <3>1. chunk \in Seq(Lines) /\ fromModem \in Seq(Lines) /\ pending \in Seq(Lines)
                  BY DEF Tidy
            <3>2. (chunk \o fromModem) \o pending = chunk \o (fromModem \o pending)
                  BY ONLY <3>1, ConcatAssociative
            <3> QED BY <2>1, <3>2 DEF All
      <2>3. /\ Len(a) \in Nat /\ Len(pending) \in Nat /\ Len(All) = Len(pending) + Len(a)
            /\ \A i \in 1..Len(pending) : pending[i] = All[i + Len(a)]
            BY <2>2, Suffix DEF Tidy
      <2>4. Len(chunk) = 3 => Len(a) >= 3
            <3>1. Len(a) = Len(chunk) + Len(fromModem) /\ Len(fromModem) \in Nat
                  BY <2>1, ConcatProperties, LenProperties DEF Tidy
            <3> QED BY ONLY <3>1
      <2>5. Chained(All, Len(chunk))
            BY DEF Tidy
      <2> QED BY <2>3, <2>4, <2>5, ChainSuffix
<1>7. Tidy'
      BY <1>1, <1>4, <1>5, <1>6 DEF Tidy
<1> QED BY <1>3, <1>7

\* The modem answers: one line more.
LEMMA TakeStays ==
    ASSUME Tidy, Lone, Take
    PROVE  Tidy' /\ Lone'
<1>1. /\ UNCHANGED <<pcModem, chunk, received, fromModem, alone, lost>>
      /\ pending' \in {pending, Append(pending, Says)}
      BY DEF Take, TakeCommand, Replies, station
<1>2. /\ chunk # <<>> => pcModem'[1] = "read"
      /\ alone' # {} => pcModem'[1] \in {"loop", "read"}
      BY <1>1 DEF Tidy, Lone
<1>3. CASE pending' = pending
      BY <1>1, <1>2, <1>3, LinesStay
<1>4. CASE pending' = Append(pending, Says)
      <2>1. chunk \in Seq(Lines) /\ fromModem \in Seq(Lines) /\ pending \in Seq(Lines)
            BY DEF Tidy
      <2>2. <<Says>> \in Seq(Lines) /\ Says \in Lines /\ Chained(<<Says>>, 0)
            BY SaysIsChained DEF Lines, Kinds, Says, Line
      <2>3. pending' = pending \o <<Says>> /\ pending' \in Seq(Lines)
            BY <1>4, <2>1, <2>2, AppendIsConcat, AppendProperties
      <2>4. All' = All \o <<Says>>
            BY <1>1, <2>1, <2>2, <2>3, AddedLast DEF All
      <2>5. Chained(All', Len(chunk))
            BY <2>2, <2>4, AllLines, ChainLonger DEF Tidy
      <2>6. \A id \in alone : Leading(All', id)
            <3> TAKE id \in alone
            <3>1. id # Own /\ Leading(All, id)
                  BY ModemAssumption DEF Lone, Own
            <3>2. \A i \in 1..Len(<<Says>>) : <<Says>>[i].id # id
                  BY <3>1, SaysIsChained
            <3> QED BY <2>2, <2>4, <3>1, <3>2, AllLines, LeadLonger
      <2>7. Tidy'
            BY <1>1, <1>2, <2>1, <2>3, <2>5 DEF Tidy
      <2>8. Lone'
            BY <1>1, <1>2, <2>6 DEF Lone
      <2> QED BY <2>7, <2>8
<1> QED BY <1>1, <1>3, <1>4

LEMMA SpeakStays ==
    ASSUME Tidy, Lone, Speak
    PROVE  Tidy' /\ Lone'
<1>1. /\ UNCHANGED <<pcModem, chunk, received, alone, lost>> /\ pending # <<>>
      /\ fromModem' = Append(fromModem, Head(pending)) /\ pending' = Tail(pending)
      BY DEF Speak, station
<1>2. chunk \in Seq(Lines) /\ fromModem \in Seq(Lines) /\ pending \in Seq(Lines)
      BY DEF Tidy
<1>3. fromModem' \in Seq(Lines) /\ pending' \in Seq(Lines)
      BY <1>1, <1>2, HeadTailProperties, AppendProperties
<1>4. All' = All
      BY <1>1, <1>2, TakenOver DEF All
<1>5. Tidy'
      BY <1>1, <1>2, <1>3, <1>4 DEF Tidy
<1>6. Lone'
      BY <1>1, <1>4 DEF Lone
<1> QED BY <1>5, <1>6

\* A report comes after all that is there, and is none of those.
LEMMA ComesLast ==
    ASSUME Tidy, Lone, SmsComes
    PROVE  Tidy' /\ Lone'
<1>1. PICK new \in Unknown : /\ pending' = pending \o Report(new)
                             /\ alone' = IF Quiet THEN alone \cup {new} ELSE alone
      BY DEF SmsComes
<1>2. UNCHANGED <<pcModem, chunk, received, fromModem, lost>>
      BY DEF SmsComes, station
<1>3. new \in Reports /\ new \notin lost /\ new \notin alone
      BY <1>1 DEF Unknown
<1>4. chunk \in Seq(Lines) /\ fromModem \in Seq(Lines) /\ pending \in Seq(Lines)
      BY DEF Tidy
<1>5. PICK report \in Seq(Lines) : /\ report = Report(new) /\ Chained(report, 0)
                                   /\ Leading(report, new)
      BY <1>3, ReportIsChained
<1>6. pending' \in Seq(Lines) /\ All' = All \o report
      <2>1. pending' = pending \o report /\ All' = chunk \o (fromModem \o pending')
            BY <1>1, <1>2, <1>5 DEF All
      <2>2. pending' \in Seq(Lines)
            BY <1>4, <2>1, ConcatProperties
      <2>3. chunk \o (fromModem \o (pending \o report)) = All \o report
            <3>1. /\ chunk \in Seq(Lines) /\ fromModem \in Seq(Lines)
                  /\ pending \in Seq(Lines) /\ report \in Seq(Lines)
                  BY <1>4
            <3>2. chunk \o (fromModem \o (pending \o report))
                      = (chunk \o (fromModem \o pending)) \o report
                  BY ONLY <3>1, AddedLast
            <3> QED BY <3>2 DEF All
      <2> QED BY <2>1, <2>2, <2>3
<1>7. Tidy'
      <2>1. Chained(All', Len(chunk))
            BY <1>5, <1>6, AllLines, ChainLonger DEF Tidy
      <2> QED BY <1>2, <1>4, <1>6, <2>1 DEF Tidy
<1>8. ASSUME NEW id \in alone PROVE Leading(All', id)
      <2>1. Leading(All, id) /\ id # new /\ id # Own
            BY <1>3, ModemAssumption DEF Lone, Own
      <2>2. \A i \in 1..Len(report) : report[i].id # id
            <3>1. /\ Len(report) = 3 /\ report[1].id = Own /\ report[2].id = new
                  /\ report[3].id = new
                  BY <1>5 DEF Report, Blank, Line
            <3>2. \A i \in 1..3 : i = 1 \/ i = 2 \/ i = 3
                  OBVIOUS
            <3> QED BY <2>1, <3>1, <3>2
      <2> QED BY <1>6, <2>1, <2>2, AllLines, LeadLonger
<1>9. Lone'
      <2>1. CASE Quiet
            <3>1. All = <<>> /\ All' = report
                  BY <1>6, <2>1, ConcatEmptySeq, <1>4 DEF Quiet, All
            <3>2. /\ alone' = alone \cup {new} /\ pcModem'[1] \in {"loop", "read"}
                  /\ Leading(All', new)
                  BY <1>1, <1>2, <1>5, <2>1, <3>1 DEF Quiet
            <3> QED BY <1>2, <1>3, <1>8, <3>2 DEF Lone
      <2>2. CASE ~Quiet
            <3>1. alone' = alone
                  BY <1>1, <2>2
            <3> QED BY <1>2, <1>8, <3>1 DEF Lone
      <2> QED BY <2>1, <2>2
<1> QED BY <1>7, <1>9

(***************************************************************************)
(* A report that comes while nothing is said and nobody is asked, and is   *)
(* read before a button is pressed or the station restarts, is not lost;   *)
(* and the number and the text that TS_Read_SMS stores are of the same     *)
(* message, whatever else comes with them.                                 *)
(***************************************************************************)
THEOREM LoneReportsAreRead == ModemSpec => []LoneReportIsRead
<1>1. ModemInit => Tidy /\ Lone
      <2> SUFFICES ASSUME ModemInit PROVE Tidy /\ Lone
            OBVIOUS
      <2>1. /\ chunk = <<>> /\ fromModem = <<>> /\ pending = <<>> /\ alone = {}
            /\ received = <<Own, Own>>
            BY DEF ModemInit
      <2>2. <<>> \in Seq(Lines) /\ Len(<<>>) = 0
            OBVIOUS
      <2>3. All = <<>> /\ Chained(All, 0)
            <3>1. All = <<>>
                  BY <2>1, <2>2, ConcatEmptySeq DEF All
            <3> QED BY <2>2, <3>1 DEF Chained
      <2> QED BY <2>1, <2>2, <2>3 DEF Tidy, Lone
<1>2. Tidy /\ Lone /\ [ModemNext]_modemVars => (Tidy /\ Lone)'
      BY AsideKeeps, UpdateKeeps, ReadKeeps, SilenceKeeps, ModemRestartKeeps, TakeStays, SpeakStays,
         ComesLast DEF ModemNext, Station
<1>3. Tidy /\ Lone => LoneReportIsRead
      BY DEF Tidy, Lone, LoneReportIsRead
<1> QED BY <1>1, <1>2, <1>3, PTL DEF ModemSpec


--------------------------------------------------------------------------------
(* The clock chips of RTClib: bits of a byte.                               *)

\* Which bits a number has.
LEMMA BinAt ==
    ASSUME NEW n \in Nat
    PROVE  /\ Bin(n) \subseteq 0..7
           /\ (0 \in Bin(n)) <=> (n % 2 = 1)
           /\ (1 \in Bin(n)) <=> ((n \div 2) % 2 = 1)
           /\ (2 \in Bin(n)) <=> ((n \div 4) % 2 = 1)
           /\ (3 \in Bin(n)) <=> ((n \div 8) % 2 = 1)
           /\ (4 \in Bin(n)) <=> ((n \div 16) % 2 = 1)
           /\ (5 \in Bin(n)) <=> ((n \div 32) % 2 = 1)
           /\ (6 \in Bin(n)) <=> ((n \div 64) % 2 = 1)
           /\ (7 \in Bin(n)) <=> ((n \div 128) % 2 = 1)
<1>1. /\ Weight[0 + 1] = 1 /\ Weight[1 + 1] = 2 /\ Weight[2 + 1] = 4 /\ Weight[3 + 1] = 8
      /\ Weight[4 + 1] = 16 /\ Weight[5 + 1] = 32 /\ Weight[6 + 1] = 64
      /\ Weight[7 + 1] = 128
      BY DEF Weight
<1>2. n \div 1 = n
      OBVIOUS
<1> QED BY <1>1, <1>2 DEF Bin

\* The number of a set of bits, bit by bit.
LEMMA NumIs ==
    ASSUME NEW bits
    PROVE  Num(bits) = (IF 0 \in bits THEN 1 ELSE 0) + (IF 1 \in bits THEN 2 ELSE 0)
                        + (IF 2 \in bits THEN 4 ELSE 0) + (IF 3 \in bits THEN 8 ELSE 0)
                        + (IF 4 \in bits THEN 16 ELSE 0) + (IF 5 \in bits THEN 32 ELSE 0)
                        + (IF 6 \in bits THEN 64 ELSE 0) + (IF 7 \in bits THEN 128 ELSE 0)
<1>1. /\ Weight[0 + 1] = 1 /\ Weight[1 + 1] = 2 /\ Weight[2 + 1] = 4 /\ Weight[3 + 1] = 8
      /\ Weight[4 + 1] = 16 /\ Weight[5 + 1] = 32 /\ Weight[6 + 1] = 64
      /\ Weight[7 + 1] = 128
      BY DEF Weight
<1> QED BY <1>1 DEF Num

\* Only the eight bits count.
LEMMA NumSame ==
    ASSUME NEW one, NEW other, \A i \in 0..7 : i \in one <=> i \in other
    PROVE  Num(one) = Num(other)
<1>1. /\ (0 \in one) <=> (0 \in other)
      /\ (1 \in one) <=> (1 \in other)
      /\ (2 \in one) <=> (2 \in other)
      /\ (3 \in one) <=> (3 \in other)
      /\ (4 \in one) <=> (4 \in other)
      /\ (5 \in one) <=> (5 \in other)
      /\ (6 \in one) <=> (6 \in other)
      /\ (7 \in one) <=> (7 \in other)
      OBVIOUS
<1> QED BY <1>1, NumIs

\* A number of eight bits is the sum of them.
LEMMA Binary ==
    ASSUME NEW n \in 0..255
    PROVE  n = (n % 2) + 2 * ((n \div 2) % 2) + 4 * ((n \div 4) % 2) + 8 * ((n \div 8) % 2)
                 + 16 * ((n \div 16) % 2) + 32 * ((n \div 32) % 2)
                 + 64 * ((n \div 64) % 2) + 128 * ((n \div 128) % 2)
<1> DEFINE q == n \div 2
           r == n \div 4
           s == n \div 8
           t == n \div 16
           u == n \div 32
           v == n \div 64
           w == n \div 128
<1>1. n = (n % 2) + 2 * q
      OBVIOUS
<1>2. q = (q % 2) + 2 * r
      OBVIOUS
<1>3. r = (r % 2) + 2 * s
      OBVIOUS
<1>4. s = (s % 2) + 2 * t
      OBVIOUS
<1>5. t = (t % 2) + 2 * u
      OBVIOUS
<1>6. u = (u % 2) + 2 * v
      OBVIOUS
<1>7. v = (v % 2) + 2 * w
      OBVIOUS
<1>8. w = w % 2
      OBVIOUS
<1>9. {q, r, s, t, u, v, w, n % 2, q % 2, r % 2, s % 2, t % 2, u % 2, v % 2, w % 2} \subseteq Int
      OBVIOUS
<1> HIDE DEF q, r, s, t, u, v, w
<1>10. n = (n % 2) + 2 * (q % 2) + 4 * (r % 2) + 8 * (s % 2) + 16 * (t % 2) + 32 * (u % 2)
             + 64 * (v % 2) + 128 * (w % 2)
      BY ONLY <1>1, <1>2, <1>3, <1>4, <1>5, <1>6, <1>7, <1>8, <1>9, n \in 0..255
<1> QED BY <1>10 DEF q, r, s, t, u, v, w

\* A byte is the number of its bits.
LEMMA NumBin == ASSUME NEW n \in 0..255 PROVE Num(Bin(n)) = n
<1>1. /\ n % 2 \in {0, 1} /\ (n \div 2) % 2 \in {0, 1} /\ (n \div 4) % 2 \in {0, 1}
      /\ (n \div 8) % 2 \in {0, 1} /\ (n \div 16) % 2 \in {0, 1}
      /\ (n \div 32) % 2 \in {0, 1} /\ (n \div 64) % 2 \in {0, 1}
      /\ (n \div 128) % 2 \in {0, 1}
      OBVIOUS
<1>2. n \in Nat
      OBVIOUS
<1>3. /\ (IF 0 \in Bin(n) THEN 1 ELSE 0) = n % 2
      /\ (IF 1 \in Bin(n) THEN 2 ELSE 0) = 2 * ((n \div 2) % 2)
      /\ (IF 2 \in Bin(n) THEN 4 ELSE 0) = 4 * ((n \div 4) % 2)
      /\ (IF 3 \in Bin(n) THEN 8 ELSE 0) = 8 * ((n \div 8) % 2)
      /\ (IF 4 \in Bin(n) THEN 16 ELSE 0) = 16 * ((n \div 16) % 2)
      /\ (IF 5 \in Bin(n) THEN 32 ELSE 0) = 32 * ((n \div 32) % 2)
      /\ (IF 6 \in Bin(n) THEN 64 ELSE 0) = 64 * ((n \div 64) % 2)
      /\ (IF 7 \in Bin(n) THEN 128 ELSE 0) = 128 * ((n \div 128) % 2)
      BY <1>1, <1>2, BinAt
<1> QED BY <1>3, NumIs, Binary

\* Numbers of eight bits with the same bits are the same.
LEMMA BinDiffers ==
    ASSUME NEW n \in 0..255, NEW k \in 0..255, Bin(n) = Bin(k)
    PROVE  n = k
BY NumBin

\* A small number has no high bits.
LEMMA Small ==
    ASSUME NEW n \in 0..255
    PROVE  /\ n < 128 => 7 \notin Bin(n)
           /\ n < 64 => 6 \notin Bin(n)
           /\ n < 32 => 5 \notin Bin(n)
           /\ n < 16 => 4 \notin Bin(n)
           /\ n < 8 => 3 \notin Bin(n)
<1>1. /\ n < 128 => n \div 128 = 0
      /\ n < 64 => n \div 64 = 0
      /\ n < 32 => n \div 32 = 0
      /\ n < 16 => n \div 16 = 0
      /\ n < 8 => n \div 8 = 0
      OBVIOUS
<1> QED BY <1>1, BinAt

--------------------------------------------------------------------------------
(* What writes leave in the registers.                                      *)

\* The order of the numbers has no descent without end.
LEMMA Smallest ==
    ASSUME NEW N \in SUBSET Nat, N # {}
    PROVE  \E m \in N : \A k \in N : ~ (k < m)
<1>1. PICK m \in N : \A k \in N : <<k, m>> \notin OpToRel(<, Nat)
      BY WFMin, NatLessThanWellFounded, Zenon
<1> QED BY <1>1, Zenon DEF OpToRel

\* Numbers that are bounded have a greatest.
LEMMA HasMax ==
    ASSUME NEW N \in SUBSET Nat, N # {}, NEW n \in Nat, \A k \in N : k <= n
    PROVE  \E m \in N : \A k \in N : k <= m
<1> DEFINE bounds == {b \in Nat : \A k \in N : k <= b}
<1>1. PICK m \in bounds : \A b \in bounds : ~ (b < m)
      <2>1. n \in bounds /\ bounds \subseteq Nat
            OBVIOUS
      <2> HIDE DEF bounds
      <2> QED BY <2>1, Smallest
<1>2. m \in N
      <2>1. CASE m = 0
            <3>1. PICK k \in N : k <= 0
                  BY <1>1, <2>1
            <3> QED BY <2>1, <3>1
      <2>2. CASE m > 0
            <3>1. SUFFICES ASSUME m \notin N PROVE FALSE
                  OBVIOUS
            <3>2. \A k \in N : k <= m - 1
                  BY <3>1
            <3>3. m - 1 \in bounds
                  BY <2>2, <3>2
            <3> QED BY <1>1, <2>2, <3>3
      <2> QED BY <2>1, <2>2
<1> QED BY <1>1, <1>2

Registers == 0..63
RegisterFile == [Registers -> SUBSET (0..7)]

\* A register that no write names keeps what it has, and one that a write names, and
\* none after it, has what is written.
LEMMA WrittenAt ==
    ASSUME NEW r \in RegisterFile, NEW writes, Len(writes) \in Nat, NEW a \in Registers
    PROVE  /\ (\A k \in 1..Len(writes) : writes[k][1] # a) => Written(r, writes)[a] = r[a]
           /\ \A k \in 1..Len(writes) :
                 (writes[k][1] = a /\ \A j \in 1..Len(writes) : j > k => writes[j][1] # a)
                    => Written(r, writes)[a] = writes[k][2]
<1> DEFINE those == {k \in 1..Len(writes) : writes[k][1] = a}
<1>1. Written(r, writes)[a] = IF those = {} THEN r[a]
                              ELSE writes[CHOOSE k \in those : \A j \in those : j <= k][2]
      BY DEF Written, RegisterFile
<1>2. ASSUME \A k \in 1..Len(writes) : writes[k][1] # a
      PROVE  Written(r, writes)[a] = r[a]
      <2>1. those = {}
            BY <1>2
      <2> QED BY <1>1, <2>1
<1>3. ASSUME NEW k \in 1..Len(writes), writes[k][1] = a,
             \A j \in 1..Len(writes) : j > k => writes[j][1] # a
      PROVE  Written(r, writes)[a] = writes[k][2]
      <2>1. k \in those /\ \A j \in those : j <= k
            BY <1>3
      <2>2. \A i \in those : (\A j \in those : j <= i) => i = k
            BY <2>1
      <2> HIDE DEF those
      <2>3. (CHOOSE i \in those : \A j \in those : j <= i) = k
            BY <2>1, <2>2
      <2> QED BY <1>1, <2>1, <2>3
<1> QED BY <1>2, <1>3

\* Registers stay registers.
LEMMA WrittenType ==
    ASSUME NEW r \in RegisterFile, NEW writes, Len(writes) \in Nat,
           \A k \in 1..Len(writes) : writes[k][2] \in SUBSET (0..7)
    PROVE  Written(r, writes) \in RegisterFile
<1>1. ASSUME NEW a \in Registers
      PROVE  Written(r, writes)[a] \in SUBSET (0..7)
      <2> DEFINE those == {k \in 1..Len(writes) : writes[k][1] = a}
      <2>1. CASE \A k \in 1..Len(writes) : writes[k][1] # a
            BY <2>1, WrittenAt DEF RegisterFile
      <2>2. CASE \E k \in 1..Len(writes) : writes[k][1] = a
            <3>1. Written(r, writes)[a] =
                    writes[CHOOSE k \in those : \A j \in those : j <= k][2]
                  BY <2>2 DEF Written, RegisterFile
            <3>2. \E k \in those : \A j \in those : j <= k
                  <4>1. those \subseteq Nat /\ those # {} /\ \A k \in those : k <= Len(writes)
                        BY <2>2
                  <4> QED BY <4>1, HasMax
            <3>3. (CHOOSE k \in those : \A j \in those : j <= k) \in those
                  BY <3>2
            <3> QED BY <3>1, <3>3
      <2> QED BY <2>1, <2>2
<1>2. DOMAIN Written(r, writes) = Registers
      BY DEF Written, RegisterFile
<1>3. Written(r, writes) = [a \in Registers |-> Written(r, writes)[a]]
      BY <1>2 DEF Written
<1> QED BY <1>1, <1>3 DEF RegisterFile

\* One write.
LEMMA WrittenOne ==
    ASSUME NEW r \in RegisterFile, NEW a \in Registers, NEW bits \in SUBSET (0..7)
    PROVE  Written(r, <<Put(a, bits)>>) = [r EXCEPT ![a] = bits]
<1> DEFINE writes == <<Put(a, bits)>>
<1>1. Len(writes) = 1 /\ writes[1][1] = a /\ writes[1][2] = bits
      BY DEF Put
<1> HIDE DEF writes
<1>2. Written(r, writes) \in RegisterFile
      <2>1. ASSUME NEW k \in 1..Len(writes)
            PROVE  writes[k][2] = bits
            BY <1>1
      <2>2. \A k \in 1..Len(writes) : writes[k][2] \in SUBSET (0..7)
            BY <2>1
      <2>3. Len(writes) \in Nat
            BY <1>1
      <2> QED BY <2>2, <2>3, WrittenType, Zenon
<1>3. Written(r, writes)[a] = bits
      BY <1>1, WrittenAt
<1>4. \A b \in Registers : b # a => Written(r, writes)[b] = r[b]
      BY <1>1, WrittenAt
<1>5. Written(r, writes) = [r EXCEPT ![a] = bits]
      BY <1>2, <1>3, <1>4 DEF RegisterFile
<1> QED BY <1>5 DEF writes
\* Two.
LEMMA WrittenTwo ==
    ASSUME NEW r \in RegisterFile, NEW a \in Registers, NEW bits \in SUBSET (0..7),
           NEW b \in Registers, NEW more \in SUBSET (0..7), a # b
    PROVE  Written(r, <<Put(a, bits), Put(b, more)>>) = [r EXCEPT ![a] = bits, ![b] = more]
<1> DEFINE writes == <<Put(a, bits), Put(b, more)>>
<1>1. /\ Len(writes) = 2 /\ writes[1][1] = a /\ writes[1][2] = bits
      /\ writes[2][1] = b /\ writes[2][2] = more
      BY DEF Put
<1> HIDE DEF writes
<1>2. Written(r, writes) \in RegisterFile
      <2>1. ASSUME NEW k \in 1..Len(writes)
            PROVE  writes[k][2] \in {bits, more}
            BY <1>1
      <2>2. \A k \in 1..Len(writes) : writes[k][2] \in SUBSET (0..7)
            BY <2>1
      <2>3. Len(writes) \in Nat
            BY <1>1
      <2> QED BY <2>2, <2>3, WrittenType, Zenon
<1>3. Written(r, writes)[a] = bits /\ Written(r, writes)[b] = more
      BY <1>1, WrittenAt
<1>4. \A c \in Registers : c # a /\ c # b => Written(r, writes)[c] = r[c]
      BY <1>1, WrittenAt
<1>5. Written(r, writes) = [r EXCEPT ![a] = bits, ![b] = more]
      BY <1>2, <1>3, <1>4 DEF RegisterFile
<1> QED BY <1>5 DEF writes

\* None.
LEMMA WrittenNone == ASSUME NEW r \in RegisterFile PROVE Written(r, <<>>) = r
<1>1. Len(<<>>) = 0
      OBVIOUS
<1>2. Written(r, <<>>) \in RegisterFile
      BY <1>1, WrittenType
<1>3. \A c \in Registers : Written(r, <<>>)[c] = r[c]
      BY <1>1, WrittenAt
<1> QED BY <1>2, <1>3 DEF RegisterFile

--------------------------------------------------------------------------------
(* What is set, chip by chip.                                               *)

\* Of a DS1307, and of a PCF8563: what was asked for is what the registers hold.
Sets1307 ==
    /\ asked \in [wave : 0..255, memory : [Places -> 0..255]]
    /\ asked.wave = readSqw1307
    /\ \A p \in Places : asked.memory[p] = readnvram(p)
Sets8563 ==
    /\ asked \in [wave : 0..255, runs : BOOLEAN]
    /\ asked.wave = readSqw8563
    /\ asked.runs <=> isrunning(PCF8563_CONTROL_1)

\* The bits of the modes, and the masks that read them.
LEMMA Wave1307 ==
    ASSUME NEW wave \in {0, 3, 128} \cup 16..19
    PROVE  Bin(wave) \in SUBSET (0..7) /\ Num(Bin(wave) \cap Bin(147)) = wave
<1>1. wave \in Nat /\ wave \in 0..255
      OBVIOUS
<1>2. /\ 2 \notin Bin(wave) /\ 3 \notin Bin(wave) /\ 5 \notin Bin(wave) /\ 6 \notin Bin(wave)
      /\ Bin(wave) \subseteq 0..7
      BY <1>1, BinAt
<1>3. 0 \in Bin(147) /\ 1 \in Bin(147) /\ 4 \in Bin(147) /\ 7 \in Bin(147)
      BY BinAt
<1>4. \A i \in 0..7 : i \in Bin(wave) \cap Bin(147) <=> i \in Bin(wave)
      BY <1>2, <1>3
<1>5. Num(Bin(wave) \cap Bin(147)) = Num(Bin(wave))
      BY <1>4, NumSame
<1> QED BY <1>1, <1>2, <1>5, NumBin

\* Of the PCF8563: its mask keeps what a mode may have.
LEMMA Wave8563 ==
    ASSUME NEW wave \in {0} \cup 128..131
    PROVE  Bin(wave) \in SUBSET (0..7) /\ Num(Bin(wave) \cap Bin(131)) = wave
<1>1. wave \in Nat /\ wave \in 0..255
      OBVIOUS
<1>2. /\ 2 \notin Bin(wave) /\ 3 \notin Bin(wave) /\ 4 \notin Bin(wave)
      /\ 5 \notin Bin(wave) /\ 6 \notin Bin(wave)
      /\ Bin(wave) \subseteq 0..7
      BY <1>1, BinAt
<1>3. 0 \in Bin(131) /\ 1 \in Bin(131) /\ 7 \in Bin(131)
      BY BinAt
<1>4. \A i \in 0..7 : i \in Bin(wave) \cap Bin(131) <=> i \in Bin(wave)
      BY <1>2, <1>3
<1>5. Num(Bin(wave) \cap Bin(131)) = Num(Bin(wave))
      BY <1>4, NumSame
<1> QED BY <1>1, <1>2, <1>5, NumBin

\* What a driver read, and what is there when it writes: flags have come since.
Fresh ==
    \A a \in Registers, i \in 0..7 :
        /\ i \in was[a] => i \in regs[a]
        /\ i \in regs[a] /\ i \notin was[a] =>
              \E flag \in between : flag \in Flags /\ FlagAt(flag) = <<a, i>>

\* Between the calls, no driver holds anything of a chip.
ChipTypes ==
    /\ device \in {"ds1307", "ds3231", "pcf8523", "pcf8563"}
    /\ regs \in RegisterFile /\ was \in RegisterFile
    /\ calling \in Calls \cup {NoCall}
    /\ calling = NoCall => was = regs

\* A flag is shown unless it was cleared, or lost between a read and a write.
FlagsShown ==
    \A flag \in Flags : /\ Shown(flag) => flag \in raised
                        /\ flag \in raised \ between => Shown(flag)

\* A flag that is shown after a write was shown before and is none that the call clears;
\* one that the driver has seen and does not clear is shown still.
FlagsKept ==
    \A flag \in Flags :
        /\ Shown(flag)' => Shown(flag) /\ flag \notin ClearedBy(calling)
        /\ FlagAt(flag)[2] \in was[FlagAt(flag)[1]] /\ flag \notin ClearedBy(calling)
              => Shown(flag)'

\* What the driver of a DS1307 writes is what was asked for.
LEMMA Return1307 ==
    ASSUME ChipTypes, device = "ds1307", Sets1307, Return
    PROVE  regs' \in RegisterFile /\ Sets1307' /\ FlagsKept
<1>0. FlagsKept
      <2>1. Flags = {}
            BY DEF Flags
      <2> QED BY <2>1 DEF FlagsKept
<1>1. PICK c : c = calling
      OBVIOUS
<1>2. /\ c \in SetSquareWave("ds1307") \cup OneByte
      /\ regs' = Written(regs, Ds1307Writes(c)) /\ asked' = Wish(asked, c)
      /\ device' = "ds1307" /\ regs \in RegisterFile
      BY <1>1 DEF ChipTypes, Return, Calls, Writes
<1>3. CASE c \in SetSquareWave("ds1307")
      <2>1. c.f = "writeSqwPinMode" /\ c.mode \in {0, 3, 128} \cup 16..19
            BY <1>3, ClockChipsAssumption DEF SetSquareWave, SqwPinModes
      <2>2. regs' = Written(regs, <<Put(7, Bin(c.mode))>>)
            BY <1>2, <2>1 DEF Ds1307Writes, writeSqw1307, DS1307_CONTROL
      <2>3. asked' = [asked EXCEPT !.wave = c.mode]
            BY <1>2, <2>1 DEF Wish
      <2>4. Bin(c.mode) \in SUBSET (0..7) /\ Num(Bin(c.mode) \cap Bin(147)) = c.mode
            BY <2>1, Wave1307
      <2>5. regs' = [regs EXCEPT ![7] = Bin(c.mode)]
            <3>1. 7 \in Registers
                  BY DEF Registers
            <3> QED BY <1>2, <2>2, <2>4, <3>1, WrittenOne, Zenon
      <2>6. regs' \in RegisterFile /\ regs'[7] = Bin(c.mode)
            BY <1>2, <2>4, <2>5 DEF RegisterFile, Registers
      <2>7. \A p \in Places : regs'[8 + p] = regs[8 + p]
            BY <1>2, <2>5, ClockChipsAssumption DEF RegisterFile, Registers
      <2>8. /\ asked' \in [wave : 0..255, memory : [Places -> 0..255]]
            /\ asked'.wave = c.mode /\ asked'.memory = asked.memory
            BY <2>1, <2>3 DEF Sets1307
      <2> QED BY <1>0, <2>4, <2>6, <2>7, <2>8 DEF Sets1307, readSqw1307, readnvram, DS1307_CONTROL,
                                            DS1307_NVRAM
<1>4. CASE c \in OneByte
      <2>1. c.f = "writenvram" /\ c.address \in Places /\ c.data \in 0..255
            BY <1>4, ClockChipsAssumption DEF OneByte
      <2> DEFINE a == 8 + c.address
      <2>2. a \in Registers /\ a # 7 /\ Places \subseteq 0..55
            <3>1. Places \subseteq 0..55
                  BY ClockChipsAssumption
            <3>2. c.address \in 0..55
                  BY <2>1, <3>1
            <3>3. a \in 0..63 /\ a # 7
                  BY <3>2
            <3> QED BY <3>1, <3>3 DEF Registers
      <2>3. regs' = Written(regs, <<Put(a, Bin(c.data))>>)
            BY <1>2, <2>1 DEF Ds1307Writes, writenvram, DS1307_NVRAM
      <2>4. asked' = [asked EXCEPT !.memory[c.address] = c.data]
            BY <1>2, <2>1 DEF Wish
      <2>5. Bin(c.data) \in SUBSET (0..7) /\ Num(Bin(c.data)) = c.data
            BY <2>1, BinAt, NumBin
      <2>6. regs' = [regs EXCEPT ![a] = Bin(c.data)]
            BY <1>2, <2>2, <2>3, <2>5, WrittenOne
      <2>7. regs' \in RegisterFile /\ regs'[a] = Bin(c.data)
            BY <1>2, <2>2, <2>5, <2>6 DEF RegisterFile
      <2>8. regs'[7] = regs[7]
            BY <1>2, <2>2, <2>6 DEF RegisterFile, Registers
      <2>9. \A p \in Places : p # c.address => regs'[8 + p] = regs[8 + p]
            <3>1. ASSUME NEW p \in Places, p # c.address
                  PROVE  8 + p \in Registers /\ 8 + p # a
                  <4>1. p \in 0..55 /\ c.address \in 0..55
                        BY <2>1, <2>2
                  <4> QED BY <3>1, <4>1 DEF Registers
            <3> QED BY <1>2, <2>6, <3>1 DEF RegisterFile
      <2>10. /\ asked' \in [wave : 0..255, memory : [Places -> 0..255]]
             /\ asked'.wave = asked.wave
             BY <2>1, <2>4 DEF Sets1307
      <2>11. /\ asked'.memory[c.address] = c.data
             /\ \A p \in Places : p # c.address => asked'.memory[p] = asked.memory[p]
             BY <2>1, <2>4 DEF Sets1307
      <2>12. asked'.wave = readSqw1307'
             BY <2>8, <2>10 DEF Sets1307, readSqw1307, DS1307_CONTROL
      <2>13. ASSUME NEW p \in Places PROVE asked'.memory[p] = Num(regs'[8 + p])
             BY <2>5, <2>7, <2>9, <2>11 DEF Sets1307, readnvram, DS1307_NVRAM
      <2> QED BY <1>0, <2>7, <2>10, <2>12, <2>13 DEF Sets1307, readnvram, DS1307_NVRAM
<1> QED BY <1>0, <1>2, <1>3, <1>4

\* The register that is written, and the others.
LEMMA OneWrite ==
    ASSUME NEW r \in RegisterFile, NEW a \in Registers, NEW bits \in SUBSET (0..7),
           NEW new, new = Written(r, <<Put(a, bits)>>)
    PROVE  /\ new \in RegisterFile /\ new[a] = bits
           /\ \A b \in Registers : b # a => new[b] = r[b]
<1>1. new = [r EXCEPT ![a] = bits]
      BY WrittenOne
<1> QED BY <1>1 DEF RegisterFile

\* Two writes, to registers that differ.
LEMMA TwoWrites ==
    ASSUME NEW r \in RegisterFile, NEW a \in Registers, NEW bits \in SUBSET (0..7),
           NEW b \in Registers, NEW more \in SUBSET (0..7), a # b,
           NEW new, new = Written(r, <<Put(a, bits), Put(b, more)>>)
    PROVE  /\ new \in RegisterFile /\ new[a] = bits /\ new[b] = more
           /\ \A c \in Registers : c # a /\ c # b => new[c] = r[c]
<1>1. new = [r EXCEPT ![a] = bits, ![b] = more]
      BY WrittenTwo
<1> QED BY <1>1 DEF RegisterFile

\* The writes of disableCountdownTimer(), then the other four.
LEMMA Joined ==
    ASSUME NEW S, NEW a \in S, NEW b \in S, NEW c \in S, NEW d \in S, NEW e \in S,
           NEW w, w = <<a>> \o <<b, c, d, e>>
    PROVE  Len(w) = 5 /\ w[1] = a /\ w[2] = b /\ w[3] = c /\ w[4] = d /\ w[5] = e
<1> DEFINE one == <<a>>
           more == <<b, c, d, e>>
<1>1. one \in Seq(S) /\ more \in Seq(S)
      OBVIOUS
<1>2. /\ Len(one) = 1 /\ Len(more) = 4 /\ one[1] = a /\ more[1] = b /\ more[2] = c
      /\ more[3] = d /\ more[4] = e /\ w = one \o more
      OBVIOUS
<1> HIDE DEF one, more
<1>3. /\ Len(w) = Len(one) + Len(more)
      /\ \A i \in 1..(Len(one) + Len(more)) :
            w[i] = IF i <= Len(one) THEN one[i] ELSE more[i - Len(one)]
      BY <1>1, <1>2, ConcatProperties
<1> QED BY <1>2, <1>3

\* Five writes, of which each register keeps the last.
LEMMA FiveWrites ==
    ASSUME NEW r \in RegisterFile, NEW writes, Len(writes) = 5,
           NEW bits \in [1..5 -> SUBSET (0..7)], NEW at \in [1..5 -> Registers],
           \A k \in 1..5 : writes[k] = Put(at[k], bits[k]),
           NEW new, new = Written(r, writes)
    PROVE  /\ new \in RegisterFile
           /\ \A k \in 1..5 : (\A j \in 1..5 : j > k => at[j] # at[k]) => new[at[k]] = bits[k]
           /\ \A a \in Registers : (\A k \in 1..5 : at[k] # a) => new[a] = r[a]
<1>1. /\ Len(writes) \in Nat /\ 1..Len(writes) = 1..5
      /\ \A k \in 1..5 : writes[k][1] = at[k] /\ writes[k][2] = bits[k]
      BY DEF Put
<1>2. \A k \in 1..Len(writes) : writes[k][2] \in SUBSET (0..7)
      BY <1>1
<1>3. new \in RegisterFile
      BY <1>1, <1>2, WrittenType, Zenon
<1>4. ASSUME NEW k \in 1..5, \A j \in 1..5 : j > k => at[j] # at[k]
      PROVE  new[at[k]] = bits[k]
      <2>1. k \in 1..Len(writes) /\ at[k] \in Registers /\ writes[k][1] = at[k]
            BY <1>1
      <2>2. \A j \in 1..Len(writes) : j > k => writes[j][1] # at[k]
            BY <1>1, <1>4
      <2> DEFINE a == at[k]
      <2>3. /\ k \in 1..Len(writes) /\ a \in Registers /\ writes[k][1] = a
            /\ \A j \in 1..Len(writes) : j > k => writes[j][1] # a
            BY <2>1, <2>2
      <2> HIDE DEF a
      <2>4. Written(r, writes)[a] = writes[k][2]
            BY ONLY <1>1, <2>3, r \in RegisterFile, WrittenAt, SMT
      <2> QED BY <1>1, <2>4 DEF a
<1>5. ASSUME NEW a \in Registers, \A k \in 1..5 : at[k] # a
      PROVE  new[a] = r[a]
      <2>1. \A k \in 1..Len(writes) : writes[k][1] # a
            BY <1>1, <1>5
      <2>2. Written(r, writes)[a] = r[a]
            BY ONLY <1>1, <1>5, <2>1, r \in RegisterFile, WrittenAt, SMT
      <2> QED BY <2>2
<1> QED BY <1>3, <1>4, <1>5

\* What the driver of a PCF8563 writes is what was asked for.
LEMMA Return8563 ==
    ASSUME ChipTypes, Fresh, device = "pcf8563", Sets8563, Return
    PROVE  regs' \in RegisterFile /\ Sets8563' /\ FlagsKept
<1>1. PICK c : c = calling
      OBVIOUS
<1>2. /\ c \in SetSquareWave("pcf8563") \cup Plain({"adjust", "start", "stop"})
      /\ regs' = Written(regs, Pcf8563Writes(c, was)) /\ asked' = Wish(asked, c)
      /\ device' = "pcf8563" /\ regs \in RegisterFile /\ was \in RegisterFile
      BY <1>1 DEF ChipTypes, Return, Calls, Writes
<1>3. {0, 2, 13} \subseteq Registers
      BY DEF Registers
<1>4. Flags = {"power"} /\ FlagAt("power") = <<2, 7>> /\ FlagAt("power")' = <<2, 7>>
      BY <1>2 DEF Flags, FlagAt, PCF8563_VL_SECONDS
<1>5. \A i \in 0..7 : i \in was[2] => i \in regs[2]
      BY <1>3 DEF Fresh
<1>6. asked \in [wave : 0..255, runs : BOOLEAN]
      BY DEF Sets8563
<1>7. CASE c \in SetSquareWave("pcf8563")
      <2>1. c.f = "writeSqwPinMode" /\ c.mode \in {0} \cup 128..131
            BY <1>7, ClockChipsAssumption DEF SetSquareWave, SqwPinModes
      <2>2. regs' = Written(regs, <<Put(13, Bin(c.mode))>>)
            BY <1>2, <2>1 DEF Pcf8563Writes, writeSqw8563, PCF8563_CLKOUTCONTROL
      <2>3. asked' = [asked EXCEPT !.wave = c.mode]
            BY <1>2, <2>1 DEF Wish
      <2>4. Bin(c.mode) \in SUBSET (0..7) /\ Num(Bin(c.mode) \cap Bin(131)) = c.mode
            BY <2>1, Wave8563
      <2>5. /\ regs' \in RegisterFile /\ regs'[13] = Bin(c.mode)
            /\ \A b \in Registers : b # 13 => regs'[b] = regs[b]
            BY <1>2, <1>3, <2>2, <2>4, OneWrite
      <2>6. regs'[0] = regs[0] /\ regs'[2] = regs[2]
            BY <1>3, <2>5
      <2>7. /\ asked' \in [wave : 0..255, runs : BOOLEAN]
            /\ asked'.wave = c.mode /\ asked'.runs = asked.runs
            BY <1>6, <2>1, <2>3
      <2>8. Sets8563'
            BY <2>4, <2>5, <2>6, <2>7
               DEF Sets8563, readSqw8563, isrunning, PCF8563_CLKOUTCONTROL, PCF8563_CONTROL_1
      <2>9. ClearedBy(calling) = {}
            BY <1>1, <2>1 DEF ClearedBy
      <2>10. FlagsKept
            BY <1>4, <1>5, <2>6, <2>9 DEF FlagsKept, Shown
      <2> QED BY <2>5, <2>8, <2>10
<1>8. CASE c \in Plain({"adjust", "start", "stop"})
      <2>1. c.f \in {"adjust", "start", "stop"}
            BY <1>8 DEF Plain
      <2>2. CASE c.f = "adjust"
            <3>1. regs' = Written(regs, <<Put(2, {})>>)
                  BY <1>2, <2>2 DEF Pcf8563Writes, adjust8563, PCF8563_VL_SECONDS
            <3>2. asked' = asked
                  BY <1>2, <2>2 DEF Wish
            <3>3. /\ regs' \in RegisterFile /\ regs'[2] = {}
                  /\ \A b \in Registers : b # 2 => regs'[b] = regs[b]
                  BY <1>2, <1>3, <3>1, OneWrite
            <3>4. regs'[0] = regs[0] /\ regs'[13] = regs[13]
                  BY <1>3, <3>3
            <3>5. Sets8563'
                  BY <3>2, <3>4 DEF Sets8563, readSqw8563, isrunning, PCF8563_CLKOUTCONTROL,
                                    PCF8563_CONTROL_1
            <3>6. ClearedBy(calling) = {"power"}
                  BY <1>1, <2>2 DEF ClearedBy
            <3>7. FlagsKept
                  BY <1>4, <3>3, <3>6 DEF FlagsKept, Shown
            <3> QED BY <3>3, <3>5, <3>7
      <2>3. CASE c.f \in {"start", "stop"}
            <3> DEFINE bits == IF c.f = "start" THEN was[0] \ {5} ELSE was[0] \cup {5}
            <3>1. regs' = Written(regs, <<Put(0, bits)>>)
                  BY <1>2, <2>3 DEF Pcf8563Writes, start8563, stop8563, PCF8563_CONTROL_1
            <3>2. asked' = [asked EXCEPT !.runs = (c.f = "start")]
                  <4>1. CASE c.f = "start"
                        BY <1>2, <4>1 DEF Wish
                  <4>2. CASE c.f = "stop"
                        BY <1>2, <4>2 DEF Wish
                  <4> QED BY <2>3, <4>1, <4>2
            <3>3. bits \in SUBSET (0..7) /\ (5 \notin bits <=> c.f = "start")
                  BY <1>2, <1>3, <2>3 DEF RegisterFile
            <3> HIDE DEF bits
            <3>4. /\ regs' \in RegisterFile /\ regs'[0] = bits
                  /\ \A b \in Registers : b # 0 => regs'[b] = regs[b]
                  BY <1>2, <1>3, <3>1, <3>3, OneWrite
            <3>5. regs'[2] = regs[2] /\ regs'[13] = regs[13]
                  BY <1>3, <3>4
            <3>6. /\ asked' \in [wave : 0..255, runs : BOOLEAN]
                  /\ asked'.wave = asked.wave /\ asked'.runs = (c.f = "start")
                  BY <1>6, <3>2
            <3>7. Sets8563'
                  BY <3>3, <3>4, <3>5, <3>6 DEF Sets8563, readSqw8563, isrunning,
                                             PCF8563_CLKOUTCONTROL, PCF8563_CONTROL_1
            <3>8. ClearedBy(calling) = {}
                  BY <1>1, <2>3 DEF ClearedBy
            <3>9. FlagsKept
                  BY <1>4, <1>5, <3>5, <3>8 DEF FlagsKept, Shown
            <3> QED BY <3>4, <3>7, <3>9
      <2> QED BY <2>1, <2>2, <2>3
<1> QED BY <1>2, <1>7, <1>8

--------------------------------------------------------------------------------
(* The PCF8523.                                                             *)

\* A square wave is three bits of the register, from bit 3 on.
LEMMA Wave8523 ==
    ASSUME NEW wave \in 0..7, NEW clock, clock = {i + 3 : i \in Bin(wave)}
    PROVE  /\ clock \in SUBSET (0..7) /\ 0 \notin clock
           /\ Num({i - 3 : i \in clock \cap 3..5}) = wave
<1>1. Bin(wave) \subseteq 0..2
      BY BinAt, Small
<1>2. \A j \in 0..7 : j \in {i - 3 : i \in clock \cap 3..5} <=> j \in Bin(wave)
      <2> SUFFICES ASSUME NEW j \in 0..7
                   PROVE  j \in {i - 3 : i \in clock \cap 3..5} <=> j \in Bin(wave)
          OBVIOUS
      <2>1. j \in {i - 3 : i \in clock \cap 3..5} <=> j + 3 \in clock \cap 3..5
            <3>1. ASSUME NEW i \in clock \cap 3..5, j = i - 3
                  PROVE  j + 3 \in clock \cap 3..5
                  <4>1. j + 3 = i
                        BY <3>1
                  <4> QED BY <4>1
            <3>2. j = (j + 3) - 3
                  OBVIOUS
            <3> QED BY <3>1, <3>2
      <2>2. j + 3 \in clock \cap 3..5 <=> j \in Bin(wave)
            BY <1>1
      <2> QED BY <2>1, <2>2
<1>3. Num({i - 3 : i \in clock \cap 3..5}) = Num(Bin(wave))
      BY <1>2, NumSame
<1> QED BY <1>1, <1>3, NumBin

\* With all three there is none, and the timers have the pin.
LEMMA NoWave8523 ==
    ASSUME NEW clock, {3, 4, 5} \subseteq clock
    PROVE  Num({i - 3 : i \in clock \cap 3..5}) = 7
<1>1. \A j \in 0..7 : j \in {i - 3 : i \in clock \cap 3..5} <=> j \in {0, 1, 2}
      OBVIOUS
<1>2. Num({i - 3 : i \in clock \cap 3..5}) = Num({0, 1, 2})
      BY <1>1, NumSame
<1>3. Num({0, 1, 2}) = 7
      BY NumIs
<1> QED BY <1>2, <1>3

\* No bits are zero.
LEMMA NumNothing == Num({}) = 0
BY NumIs

\* The frequency and the pulse of a timer share a register.
LEMMA TimerReads ==
    ASSUME NEW frequency \in 0..4, NEW pulse \in 0..7, NEW byte,
           byte = {i + 4 : i \in Bin(pulse)} \cup Bin(frequency)
    PROVE  /\ byte \in SUBSET (0..7)
           /\ Num(byte \cap 0..2) = frequency
           /\ Num({i - 4 : i \in byte \cap 4..6}) = pulse
<1>1. Bin(frequency) \subseteq 0..2 /\ Bin(pulse) \subseteq 0..2
      BY BinAt, Small
<1>2. \A j \in 0..7 : j \in byte \cap 0..2 <=> j \in Bin(frequency)
      BY <1>1
<1>3. Num(byte \cap 0..2) = Num(Bin(frequency))
      BY <1>2, NumSame
<1>4. \A j \in 0..7 : j \in {i - 4 : i \in byte \cap 4..6} <=> j \in Bin(pulse)
      <2> SUFFICES ASSUME NEW j \in 0..7
                   PROVE  j \in {i - 4 : i \in byte \cap 4..6} <=> j \in Bin(pulse)
          OBVIOUS
      <2>1. j \in {i - 4 : i \in byte \cap 4..6} <=> j + 4 \in byte \cap 4..6
            <3>1. ASSUME NEW i \in byte \cap 4..6, j = i - 4
                  PROVE  j + 4 \in byte \cap 4..6
                  <4>1. j + 4 = i
                        BY <3>1
                  <4> QED BY <4>1
            <3>2. j = (j + 4) - 4
                  OBVIOUS
            <3> QED BY <3>1, <3>2
      <2>2. j + 4 \in byte \cap 4..6 <=> j \in Bin(pulse)
            BY <1>1
      <2> QED BY <2>1, <2>2
<1>5. Num({i - 4 : i \in byte \cap 4..6}) = Num(Bin(pulse))
      BY <1>4, NumSame
<1>6. Num(Bin(frequency)) = frequency /\ Num(Bin(pulse)) = pulse
      BY NumBin
<1> QED BY <1>1, <1>3, <1>5, <1>6

SevenBits == -64..63
TrimByte(often, offset) == (Bin(offset % 256) \ {7}) \cup Bin(often)
Trim(byte) == Num(byte \ {6, 7}) - (IF 6 \in byte THEN 64 ELSE 0)

\* An offset is a number of seven bits in two's complement, below the bit that
\* says how often it is applied.
LEMMA OffsetReads ==
    ASSUME NEW often \in {0, 128}, NEW offset \in SevenBits
    PROVE  /\ TrimByte(often, offset) \in SUBSET (0..7)
           /\ Num(TrimByte(often, offset) \cap {7}) = often
           /\ Trim(TrimByte(often, offset)) = offset
<1> DEFINE byte == TrimByte(often, offset)
<1>0. byte = (Bin(offset % 256) \ {7}) \cup Bin(often) /\ offset \in -64..63
      BY DEF TrimByte, SevenBits
<1> HIDE DEF byte
<1>1. /\ Bin(often) \subseteq {7} /\ (7 \in Bin(often) <=> often = 128)
      /\ \A i \in 0..6 : i \notin Bin(often)
      <2>1. CASE often = 0
            BY <2>1, BinAt
      <2>2. CASE often = 128
            BY <2>2, BinAt
      <2> QED BY <2>1, <2>2
<1>2. Num(byte \cap {7}) = often
      <2>1. (7 \in byte \cap {7}) <=> often = 128
            BY <1>0, <1>1
      <2>2. \A i \in 0..6 : i \notin byte \cap {7}
            OBVIOUS
      <2> QED BY <2>1, <2>2, NumIs
<1> DEFINE n == offset % 256
           low == IF offset < 0 THEN offset + 64 ELSE offset
<1>3. /\ n \in 0..255 /\ low \in 0..63
      /\ n = IF offset < 0 THEN low + 192 ELSE low
      BY <1>0
<1>4. /\ n % 2 = low % 2 /\ (n \div 2) % 2 = (low \div 2) % 2
      /\ (n \div 4) % 2 = (low \div 4) % 2 /\ (n \div 8) % 2 = (low \div 8) % 2
      /\ (n \div 16) % 2 = (low \div 16) % 2 /\ (n \div 32) % 2 = (low \div 32) % 2
      /\ (n \div 64) % 2 = IF offset < 0 THEN 1 ELSE 0
      BY <1>3
<1> HIDE DEF low
<1>5. \A i \in 0..5 : i \in byte \ {6, 7} <=> i \in Bin(low)
      <2>1. \A i \in 0..5 : i \in Bin(n) <=> i \in Bin(low)
            BY <1>3, <1>4, BinAt
      <2> QED BY <1>0, <1>1, <2>1
<1>6. \A i \in 6..7 : i \notin byte \ {6, 7} /\ i \notin Bin(low)
      BY <1>3, Small
<1>7. Num(byte \ {6, 7}) = low
      <2>1. \A i \in 0..7 : i \in byte \ {6, 7} <=> i \in Bin(low)
            BY <1>5, <1>6
      <2>2. Num(byte \ {6, 7}) = Num(Bin(low))
            BY <2>1, NumSame
      <2>3. Num(Bin(low)) = low
            BY <1>3, NumBin
      <2> QED BY <2>2, <2>3
<1>8. 6 \in byte <=> offset < 0
      BY <1>0, <1>1, <1>3, <1>4, BinAt
<1>9. byte \in SUBSET (0..7)
      BY <1>0, <1>1, <1>3, BinAt
<1>10. Trim(byte) = offset
       BY <1>0, <1>3, <1>7, <1>8 DEF low, Trim
<1> QED BY <1>2, <1>9, <1>10 DEF byte

\* What may be asked of a PCF8523, and which registers hold it.
Byte == 0..255
Timers == (0..4) \X Byte \X (0..7)
Trims == {0, 128} \X SevenBits
Asked8523 == [wave : Byte, second : BOOLEAN, timer : Timers, counting : BOOLEAN,
              offset : Trims, runs : BOOLEAN]
Wave(clock) == Num({i - 3 : i \in clock \cap 3..5})
Clock8523 == asked.wave = Wave(regs[15]) /\ (asked.counting <=> 0 \in regs[15])
Count8523 == asked.counting => 0 \in regs[1]
Timer8523 ==
    asked.timer = <<Num(regs[18] \cap 0..2), Num(regs[19]),
                    Num({i - 4 : i \in regs[18] \cap 4..6})>>
Control8523 == (asked.second <=> 2 \in regs[0]) /\ (asked.runs <=> 5 \notin regs[0])
Offset8523 ==
    asked.offset = <<Num(regs[14] \cap {7}), Trim(regs[14])>>
Sets8523 == /\ asked \in Asked8523
            /\ Clock8523 /\ Count8523 /\ Timer8523 /\ Control8523 /\ Offset8523

\* What is asked for stays so typed.
LEMMA StillAsked8523 ==
    ASSUME NEW a \in Asked8523
    PROVE  /\ \A w \in Byte : [a EXCEPT !.wave = w] \in Asked8523
           /\ \A w \in BOOLEAN : [a EXCEPT !.second = w] \in Asked8523
           /\ \A w \in Timers : [a EXCEPT !.timer = w] \in Asked8523
           /\ \A w \in BOOLEAN : [a EXCEPT !.counting = w] \in Asked8523
           /\ \A w \in Trims : [a EXCEPT !.offset = w] \in Asked8523
           /\ \A w \in BOOLEAN : [a EXCEPT !.runs = w] \in Asked8523
BY DEF Asked8523

\* Where the chip raises no flag, a driver writes over what it read.
LEMMA NoFlagThere ==
    ASSUME ChipTypes, Fresh, NEW a \in Registers, \A flag \in Flags : FlagAt(flag)[1] # a
    PROVE  was[a] = regs[a]
<1>1. was[a] \subseteq 0..7 /\ regs[a] \subseteq 0..7
      BY DEF ChipTypes, RegisterFile
<1>2. ASSUME NEW i \in 0..7, i \in regs[a] PROVE i \in was[a]
      <2>1. SUFFICES ASSUME i \notin was[a] PROVE FALSE
            OBVIOUS
      <2>2. PICK flag \in Flags : FlagAt(flag) = <<a, i>>
            BY <1>2, <2>1 DEF Fresh
      <2> QED BY <2>2
<1>3. ASSUME NEW i \in 0..7, i \in was[a] PROVE i \in regs[a]
      BY <1>3 DEF Fresh
<1> QED BY <1>1, <1>2, <1>3

\* What a call of the driver does that neither clears the flag nor writes its register.
LEMMA Flag8523 ==
    ASSUME ChipTypes, Fresh, device = "pcf8523", device' = "pcf8523", regs'[3] = regs[3],
           ClearedBy(calling) = {}
    PROVE  FlagsKept
<1>1. Flags = {"power"} /\ FlagAt("power") = <<3, 7>> /\ FlagAt("power")' = <<3, 7>>
      BY DEF Flags, FlagAt, PCF8523_STATUSREG
<1>2. \A i \in 0..7 : i \in was[3] => i \in regs[3]
      <2>1. 3 \in Registers
            BY DEF Registers
      <2> QED BY <2>1 DEF Fresh
<1> QED BY <1>1, <1>2 DEF FlagsKept, Shown

\* The registers with settings, or with the flag.
Facts8523 == {0, 1, 2, 3, 14, 15, 18, 19}

\* start(), stop() and disableSecondTimer() share a register.
LEMMA Return8523Control ==
    ASSUME ChipTypes, Fresh, device = "pcf8523", Sets8523, Return,
           calling.f \in {"start", "stop", "disableSecondTimer"}
    PROVE  regs' \in RegisterFile /\ Sets8523' /\ FlagsKept
<1> DEFINE c == calling
           bits == CASE c.f = "start" -> regs[0] \ {5} [] c.f = "stop" -> regs[0] \cup {5}
                     [] c.f = "disableSecondTimer" -> regs[0] \ {2}
<1>1. /\ regs' = Written(regs, Pcf8523Writes(c, was)) /\ asked' = Wish(asked, c)
      /\ device' = "pcf8523" /\ regs \in RegisterFile
      BY DEF ChipTypes, Return, Writes
<1>2. Facts8523 \subseteq Registers
      BY DEF Facts8523, Registers
<1>3. was[0] = regs[0]
      <2>1. \A flag \in Flags : FlagAt(flag)[1] # 0
            BY DEF Flags, FlagAt, PCF8523_STATUSREG
      <2>2. 0 \in Registers
            BY DEF Registers
      <2> QED BY <2>1, <2>2, NoFlagThere
<1>4. regs' = Written(regs, <<Put(0, bits)>>)
      BY <1>1, <1>3 DEF Pcf8523Writes, start8523, stop8523, disableSecondTimer,
                        PCF8523_CONTROL_1
<1>5. bits \in SUBSET (0..7)
      BY <1>1, <1>2 DEF RegisterFile, Facts8523
<1>6. /\ (2 \in bits <=> 2 \in regs[0] /\ c.f # "disableSecondTimer")
      /\ (5 \notin bits <=> c.f = "start" \/ (c.f = "disableSecondTimer" /\ 5 \notin regs[0]))
      OBVIOUS
<1> HIDE DEF bits
<1>7. /\ regs' \in RegisterFile /\ regs'[0] = bits
      /\ \A b \in Registers : b # 0 => regs'[b] = regs[b]
      <2>1. 0 \in Registers
            BY DEF Registers
      <2> QED BY <1>1, <1>4, <1>5, <2>1, OneWrite
<1>8. /\ regs'[1] = regs[1] /\ regs'[3] = regs[3] /\ regs'[14] = regs[14]
      /\ regs'[15] = regs[15] /\ regs'[18] = regs[18] /\ regs'[19] = regs[19]
      BY <1>2, <1>7 DEF Facts8523
<1>9. asked' = CASE c.f = "start" -> [asked EXCEPT !.runs = TRUE]
                 [] c.f = "stop" -> [asked EXCEPT !.runs = FALSE]
                 [] c.f = "disableSecondTimer" -> [asked EXCEPT !.second = FALSE]
      BY <1>1 DEF Wish
<1>10. /\ asked' \in Asked8523 /\ asked'.wave = asked.wave /\ asked'.timer = asked.timer
       /\ asked'.counting = asked.counting /\ asked'.offset = asked.offset
       /\ asked'.second <=> asked.second /\ c.f # "disableSecondTimer"
       /\ asked'.runs <=> c.f = "start" \/ (c.f = "disableSecondTimer" /\ asked.runs)
       <2>1. asked \in Asked8523
             BY DEF Sets8523
       <2>2. CASE c.f = "start"
             <3>1. asked' = [asked EXCEPT !.runs = TRUE]
                   BY <1>9, <2>2
             <3>2. asked' \in Asked8523
                   BY <2>1, <3>1, StillAsked8523, Zenon
             <3>3. /\ asked'.wave = asked.wave /\ asked'.timer = asked.timer
                   /\ asked'.counting = asked.counting /\ asked'.offset = asked.offset
                   BY <2>1, <3>1 DEF Asked8523
             <3>4. asked'.runs = TRUE /\ asked'.second = asked.second
                   BY <2>1, <3>1 DEF Asked8523
             <3> QED BY <2>2, <3>2, <3>3, <3>4
       <2>3. CASE c.f = "stop"
             <3>1. asked' = [asked EXCEPT !.runs = FALSE]
                   BY <1>9, <2>3
             <3>2. asked' \in Asked8523
                   BY <2>1, <3>1, StillAsked8523, Zenon
             <3>3. /\ asked'.wave = asked.wave /\ asked'.timer = asked.timer
                   /\ asked'.counting = asked.counting /\ asked'.offset = asked.offset
                   BY <2>1, <3>1 DEF Asked8523
             <3>4. asked'.runs = FALSE /\ asked'.second = asked.second
                   BY <2>1, <3>1 DEF Asked8523
             <3> QED BY <2>3, <3>2, <3>3, <3>4
       <2>4. CASE c.f = "disableSecondTimer"
             <3>1. asked' = [asked EXCEPT !.second = FALSE]
                   BY <1>9, <2>4
             <3>2. asked' \in Asked8523
                   BY <2>1, <3>1, StillAsked8523, Zenon
             <3>3. /\ asked'.wave = asked.wave /\ asked'.timer = asked.timer
                   /\ asked'.counting = asked.counting /\ asked'.offset = asked.offset
                   BY <2>1, <3>1 DEF Asked8523
             <3>4. asked'.second = FALSE /\ asked'.runs = asked.runs
                   BY <2>1, <3>1 DEF Asked8523
             <3> QED BY <2>4, <3>2, <3>3, <3>4
       <2> QED BY <2>2, <2>3, <2>4
<1>11. Control8523'
       BY <1>6, <1>7, <1>10 DEF Sets8523, Control8523
<1>12. Clock8523' /\ Count8523' /\ Timer8523' /\ Offset8523'
       BY <1>8, <1>10 DEF Sets8523, Clock8523, Count8523, Timer8523, Offset8523
<1>13. ClearedBy(calling) = {}
       BY DEF ClearedBy
<1> QED BY <1>1, <1>7, <1>8, <1>10, <1>11, <1>12, <1>13, Flag8523 DEF Sets8523

\* The registers without the flag are as the driver read them.
LEMMA Read8523 ==
    ASSUME ChipTypes, Fresh, device = "pcf8523", NEW a \in Registers, a # 3
    PROVE  was[a] = regs[a]
<1>1. \A flag \in Flags : FlagAt(flag)[1] # a
      BY DEF Flags, FlagAt, PCF8523_STATUSREG
<1> QED BY <1>1, NoFlagThere

\* A square wave stops the countdown; stopping the countdown leaves the square wave.
LEMMA Return8523Pin ==
    ASSUME ChipTypes, Fresh, device = "pcf8523", Sets8523, Return,
           \/ calling \in SetSquareWave("pcf8523")
           \/ calling.f = "disableCountdownTimer"
    PROVE  regs' \in RegisterFile /\ Sets8523' /\ FlagsKept
<1> DEFINE c == calling
           bits == IF c.f = "disableCountdownTimer" THEN regs[15] \ {0}
                   ELSE {i + 3 : i \in Bin(c.mode)}
<1>1. /\ regs' = Written(regs, Pcf8523Writes(c, was)) /\ asked' = Wish(asked, c)
      /\ device' = "pcf8523" /\ regs \in RegisterFile /\ asked \in Asked8523
      BY DEF ChipTypes, Return, Writes, Sets8523
<1>2. 15 \in Registers /\ Facts8523 \subseteq Registers
      BY DEF Facts8523, Registers
<1>3. was[15] = regs[15]
      BY <1>2, Read8523
<1>4. \/ c.f = "writeSqwPinMode" /\ c.mode \in 0..7
      \/ c.f = "disableCountdownTimer"
      BY ClockChipsAssumption DEF SetSquareWave, SqwPinModes
<1>5. regs' = Written(regs, <<Put(15, bits)>>)
      BY <1>1, <1>3, <1>4 DEF Pcf8523Writes, writeSqw8523, disableCountdownTimer,
                              PCF8523_CLKOUTCONTROL
<1>6. /\ bits \in SUBSET (0..7) /\ 0 \notin bits
      /\ Wave(bits) = IF c.f = "disableCountdownTimer" THEN asked.wave ELSE c.mode
      <2>1. CASE c.f = "writeSqwPinMode"
            BY <1>4, <2>1, Wave8523 DEF Wave
      <2>2. CASE c.f = "disableCountdownTimer"
            <3>1. bits = regs[15] \ {0} /\ bits \in SUBSET (0..7)
                  BY <1>1, <1>2, <2>2 DEF RegisterFile
            <3>2. bits \cap 3..5 = regs[15] \cap 3..5
                  BY <3>1
            <3>3. Wave(bits) = Wave(regs[15])
                  BY <3>2 DEF Wave
            <3> QED BY <2>2, <3>1, <3>3 DEF Sets8523, Clock8523
      <2> QED BY <1>4, <2>1, <2>2
<1> HIDE DEF bits
<1>7. /\ regs' \in RegisterFile /\ regs'[15] = bits
      /\ \A b \in Registers : b # 15 => regs'[b] = regs[b]
      BY <1>1, <1>2, <1>5, <1>6, OneWrite
<1>8. /\ regs'[0] = regs[0] /\ regs'[1] = regs[1] /\ regs'[3] = regs[3]
      /\ regs'[14] = regs[14] /\ regs'[18] = regs[18] /\ regs'[19] = regs[19]
      BY <1>2, <1>7 DEF Facts8523
<1>9. asked' = IF c.f = "disableCountdownTimer" THEN [asked EXCEPT !.counting = FALSE]
               ELSE [asked EXCEPT !.wave = c.mode, !.counting = FALSE]
      BY <1>1, <1>4 DEF Wish
<1>10. asked' \in Asked8523
       <2>1. [asked EXCEPT !.counting = FALSE] \in Asked8523
             BY <1>1, StillAsked8523, Zenon
       <2>2. CASE c.f = "writeSqwPinMode"
             <3>1. c.mode \in Byte
                   BY <1>4, <2>2 DEF Byte
             <3>2. [asked EXCEPT !.wave = c.mode] \in Asked8523
                   BY <1>1, <3>1, StillAsked8523, Zenon
             <3>3. [[asked EXCEPT !.wave = c.mode] EXCEPT !.counting = FALSE] \in Asked8523
                   BY <3>2, StillAsked8523, Zenon
             <3> QED BY <1>9, <2>2, <3>3
       <2> QED BY <1>4, <1>9, <2>1, <2>2
<1>11. /\ asked'.wave = Wave(bits) /\ asked'.counting = FALSE
       /\ asked'.second = asked.second /\ asked'.timer = asked.timer
       /\ asked'.offset = asked.offset /\ asked'.runs = asked.runs
       BY <1>1, <1>4, <1>6, <1>9 DEF Asked8523
<1>12. Clock8523'
       BY <1>6, <1>7, <1>11 DEF Clock8523
<1>13. Count8523' /\ Timer8523' /\ Control8523' /\ Offset8523'
       BY <1>8, <1>11 DEF Sets8523, Count8523, Timer8523, Control8523, Offset8523
<1>14. ClearedBy(calling) = {}
       BY <1>4 DEF ClearedBy
<1> QED BY <1>1, <1>7, <1>8, <1>10, <1>12, <1>13, <1>14, Flag8523 DEF Sets8523

\* calibrate(): the offset reads back, and nothing else changes.
LEMMA Return8523Calibrate ==
    ASSUME ChipTypes, Fresh, device = "pcf8523", Sets8523, Return,
           calling \in [f : {"calibrate"}, offset : Offsets]
    PROVE  regs' \in RegisterFile /\ Sets8523' /\ FlagsKept
<1> DEFINE c == calling
           m == c.offset[1]
           o == c.offset[2]
           bits == TrimByte(m, o)
<1>1. /\ regs' = Written(regs, Pcf8523Writes(c, was)) /\ asked' = Wish(asked, c)
      /\ device' = "pcf8523" /\ regs \in RegisterFile /\ asked \in Asked8523
      BY DEF ChipTypes, Return, Writes, Sets8523
<1>2. 14 \in Registers /\ Facts8523 \subseteq Registers
      BY DEF Facts8523, Registers
<1>3. /\ c.f = "calibrate" /\ c.offset \in {0, 128} \X (-64..63)
      /\ c.offset[1] \in {0, 128} /\ c.offset[2] \in SevenBits
      BY ClockChipsAssumption DEF SevenBits
<1>4. regs' = Written(regs, <<Put(14, bits)>>)
      BY <1>1, <1>3 DEF Pcf8523Writes, calibrate, PCF8523_OFFSET, TrimByte
<1>5. /\ bits \in SUBSET (0..7)
      /\ Num(bits \cap {7}) = m
      /\ Trim(bits) = o
      <2>1. m \in {0, 128} /\ o \in SevenBits
            BY <1>3
      <2> HIDE DEF m, o
      <2> QED BY <2>1, OffsetReads, Zenon
<1> HIDE DEF bits
<1>6. /\ regs' \in RegisterFile /\ regs'[14] = bits
      /\ \A b \in Registers : b # 14 => regs'[b] = regs[b]
      <2> DEFINE a == 14
      <2>1. /\ a \in Registers /\ bits \in SUBSET (0..7) /\ regs \in RegisterFile
            /\ regs' = Written(regs, <<Put(a, bits)>>)
            BY <1>1, <1>2, <1>4, <1>5
      <2> HIDE DEF a
      <2>2. /\ regs' \in RegisterFile /\ regs'[a] = bits
            /\ \A b \in Registers : b # a => regs'[b] = regs[b]
            BY ONLY <2>1, OneWrite, SMT
      <2> QED BY <2>2 DEF a
<1>7. /\ regs'[0] = regs[0] /\ regs'[1] = regs[1] /\ regs'[3] = regs[3]
      /\ regs'[15] = regs[15] /\ regs'[18] = regs[18] /\ regs'[19] = regs[19]
      BY <1>2, <1>6 DEF Facts8523
<1>8. asked' = [asked EXCEPT !.offset = c.offset]
      BY <1>1, <1>3 DEF Wish
<1>9. asked' \in Asked8523
      <2>1. c.offset \in Trims
            BY <1>3 DEF Trims, SevenBits
      <2>2. \A w \in Trims : [asked EXCEPT !.offset = w] \in Asked8523
            BY <1>1, StillAsked8523, Zenon
      <2> QED BY <1>8, <2>1, <2>2
<1>10. /\ asked'.wave = asked.wave /\ asked'.counting = asked.counting
       /\ asked'.second = asked.second /\ asked'.timer = asked.timer
       /\ asked'.offset = c.offset /\ asked'.runs = asked.runs
       BY <1>1, <1>8 DEF Asked8523
<1>11. Offset8523'
       <2>1. c.offset = <<c.offset[1], c.offset[2]>>
             BY <1>3
       <2> QED BY <1>5, <1>6, <1>10, <2>1 DEF Offset8523
<1>12. Clock8523' /\ Count8523' /\ Timer8523' /\ Control8523'
       BY <1>7, <1>10 DEF Sets8523, Clock8523, Count8523, Timer8523, Control8523
<1>13. ClearedBy(calling) = {}
       BY <1>3 DEF ClearedBy
<1> QED BY <1>1, <1>6, <1>7, <1>9, <1>11, <1>12, <1>13, Flag8523 DEF Sets8523

\* adjust() clears the flag of the lost power, and CONTROL_3 holds no setting.
LEMMA Return8523Adjust ==
    ASSUME ChipTypes, Fresh, device = "pcf8523", Sets8523, Return, calling.f = "adjust"
    PROVE  regs' \in RegisterFile /\ Sets8523' /\ FlagsKept
<1>1. /\ regs' = Written(regs, Pcf8523Writes(calling, was)) /\ asked' = Wish(asked, calling)
      /\ device' = "pcf8523" /\ regs \in RegisterFile /\ asked \in Asked8523
      BY DEF ChipTypes, Return, Writes, Sets8523
<1>2. 2 \in Registers /\ 3 \in Registers /\ Facts8523 \subseteq Registers
      BY DEF Facts8523, Registers
<1>3. regs' = Written(regs, <<Put(3, {}), Put(2, {})>>)
      BY <1>1 DEF Pcf8523Writes, adjust8523, PCF8523_STATUSREG, PCF8523_CONTROL_3
<1>5. /\ regs' \in RegisterFile /\ regs'[3] = {}
      /\ \A b \in Registers : b \notin {2, 3} => regs'[b] = regs[b]
      <2> DEFINE status == 3
                 control == 2
                 none == {}
      <2>1. /\ regs' = Written(regs, <<Put(status, none), Put(control, none)>>)
            /\ status \in Registers /\ control \in Registers /\ status # control
            /\ none \in SUBSET (0..7) /\ regs \in RegisterFile
            BY <1>1, <1>2, <1>3
      <2> HIDE DEF status, control, none
      <2>2. /\ regs' \in RegisterFile /\ regs'[status] = none
            /\ \A b \in Registers : b # status /\ b # control => regs'[b] = regs[b]
            BY ONLY <2>1, TwoWrites, SMT
      <2> QED BY <2>2 DEF status, control, none
<1>6. /\ regs'[0] = regs[0] /\ regs'[1] = regs[1] /\ regs'[14] = regs[14]
      /\ regs'[15] = regs[15] /\ regs'[18] = regs[18] /\ regs'[19] = regs[19]
      BY <1>2, <1>5 DEF Facts8523
<1>7. asked' = asked
      BY <1>1 DEF Wish
<1>8. Sets8523'
      BY <1>6, <1>7
         DEF Sets8523, Clock8523, Count8523, Timer8523, Control8523, Offset8523
<1>9. FlagsKept
      <2>1. Flags = {"power"} /\ FlagAt("power") = <<3, 7>> /\ FlagAt("power")' = <<3, 7>>
            BY <1>1 DEF Flags, FlagAt, PCF8523_STATUSREG
      <2>2. ClearedBy(calling) = {"power"}
            BY DEF ClearedBy
      <2> QED BY <1>5, <2>1, <2>2 DEF FlagsKept, Shown
<1> QED BY <1>5, <1>8, <1>9

\* The second timer takes the pin, and leaves the countdown as it was.
LEMMA Return8523Second ==
    ASSUME ChipTypes, Fresh, device = "pcf8523", Sets8523, Return,
           calling.f = "enableSecondTimer"
    PROVE  regs' \in RegisterFile /\ Sets8523' /\ FlagsKept
<1> DEFINE clock == regs[15] \cup Bin(184)
           control == regs[0] \cup {2}
<1>1. /\ regs' = Written(regs, Pcf8523Writes(calling, was)) /\ asked' = Wish(asked, calling)
      /\ device' = "pcf8523" /\ regs \in RegisterFile /\ asked \in Asked8523
      BY DEF ChipTypes, Return, Writes, Sets8523
<1>2. 0 \in Registers /\ 15 \in Registers /\ Facts8523 \subseteq Registers
      BY DEF Facts8523, Registers
<1>3. was[0] = regs[0] /\ was[15] = regs[15]
      BY <1>2, Read8523
<1>4. regs' = Written(regs, <<Put(15, clock), Put(0, control)>>)
      BY <1>1, <1>3 DEF Pcf8523Writes, enableSecondTimer, TimerClock,
                        PCF8523_CLKOUTCONTROL, PCF8523_CONTROL_1
<1>5. /\ clock \in SUBSET (0..7) /\ control \in SUBSET (0..7)
      /\ {3, 4, 5} \subseteq clock /\ (0 \in clock <=> 0 \in regs[15])
      /\ 2 \in control /\ (5 \in control <=> 5 \in regs[0])
      <2>1. Bin(184) \subseteq 0..7 /\ {3, 4, 5} \subseteq Bin(184) /\ 0 \notin Bin(184)
            BY BinAt
      <2>2. regs[0] \subseteq 0..7 /\ regs[15] \subseteq 0..7
            BY <1>1, <1>2 DEF RegisterFile
      <2> QED BY <2>1, <2>2
<1> HIDE DEF clock, control
<1>7. /\ regs' \in RegisterFile /\ regs'[15] = clock /\ regs'[0] = control
      /\ \A b \in Registers : b \notin {0, 15} => regs'[b] = regs[b]
      <2> DEFINE one == 15
                 two == 0
      <2>1. /\ regs' = Written(regs, <<Put(one, clock), Put(two, control)>>)
            /\ one \in Registers /\ two \in Registers /\ one # two
            /\ clock \in SUBSET (0..7) /\ control \in SUBSET (0..7) /\ regs \in RegisterFile
            BY <1>1, <1>2, <1>4, <1>5
      <2> HIDE DEF one, two
      <2>2. /\ regs' \in RegisterFile /\ regs'[one] = clock /\ regs'[two] = control
            /\ \A b \in Registers : b # one /\ b # two => regs'[b] = regs[b]
            BY ONLY <2>1, TwoWrites, SMT
      <2> QED BY <2>2 DEF one, two
<1>8. /\ regs'[1] = regs[1] /\ regs'[3] = regs[3] /\ regs'[14] = regs[14]
      /\ regs'[18] = regs[18] /\ regs'[19] = regs[19]
      BY <1>2, <1>7 DEF Facts8523
<1>9. asked' = [asked EXCEPT !.second = TRUE, !.wave = 7]
      BY <1>1 DEF Wish
<1>10. asked' \in Asked8523
       <2>1. [asked EXCEPT !.second = TRUE] \in Asked8523
             BY <1>1, StillAsked8523, Zenon
       <2>2. 7 \in Byte
             BY DEF Byte
       <2>3. [[asked EXCEPT !.second = TRUE] EXCEPT !.wave = 7] \in Asked8523
             BY <2>1, <2>2, StillAsked8523, Zenon
       <2> QED BY <1>9, <2>3
<1>11. /\ asked'.wave = 7 /\ asked'.second = TRUE /\ asked'.counting = asked.counting
       /\ asked'.timer = asked.timer /\ asked'.offset = asked.offset
       /\ asked'.runs = asked.runs
       BY <1>1, <1>9 DEF Asked8523
<1>12. Wave(clock) = 7
       BY <1>5, NoWave8523 DEF Wave
<1>13. Clock8523' /\ Control8523'
       BY <1>5, <1>7, <1>11, <1>12 DEF Sets8523, Clock8523, Control8523
<1>14. Count8523' /\ Timer8523' /\ Offset8523'
       BY <1>8, <1>11 DEF Sets8523, Count8523, Timer8523, Offset8523
<1>15. ClearedBy(calling) = {}
       BY DEF ClearedBy
<1> QED BY <1>1, <1>7, <1>8, <1>10, <1>13, <1>14, <1>15, Flag8523 DEF Sets8523

\* The countdown is started from what the driver read before it stopped it.
LEMMA Return8523Count ==
    ASSUME ChipTypes, Fresh, device = "pcf8523", Sets8523, Return,
           calling \in [f : {"enableCountdownTimer"}, timer : Countdowns]
    PROVE  regs' \in RegisterFile /\ Sets8523' /\ FlagsKept
<1> DEFINE t == calling.timer
           clock == regs[15] \cup Bin(121)
           control == regs[1] \cup {0}
           frequency == {i + 4 : i \in Bin(t[3])} \cup Bin(t[1])
           value == Bin(t[2])
           writes == <<Put(15, regs[15] \ {0})>> \o <<Put(1, control), Put(18, frequency),
                       Put(19, value), Put(15, clock)>>
<1>1. /\ regs' = Written(regs, Pcf8523Writes(calling, was)) /\ asked' = Wish(asked, calling)
      /\ device' = "pcf8523" /\ regs \in RegisterFile /\ asked \in Asked8523
      /\ calling.f = "enableCountdownTimer" /\ t \in Timers
      /\ t[1] \in 0..4 /\ t[2] \in 0..255 /\ t[3] \in 0..7 /\ t = <<t[1], t[2], t[3]>>
      <2>1. t \in (0..4) \X (0..255) \X (0..7) /\ calling.f = "enableCountdownTimer"
            BY ClockChipsAssumption
      <2>2. /\ t[1] \in 0..4 /\ t[2] \in 0..255 /\ t[3] \in 0..7
            /\ t = <<t[1], t[2], t[3]>>
            BY <2>1
      <2> QED BY <2>1, <2>2 DEF ChipTypes, Return, Writes, Sets8523, Timers, Byte
<1>2. /\ 1 \in Registers /\ 15 \in Registers /\ 18 \in Registers /\ 19 \in Registers
      /\ Facts8523 \subseteq Registers
      BY DEF Facts8523, Registers
<1>3. was[1] = regs[1] /\ was[15] = regs[15]
      BY <1>2, Read8523
<1>4. regs' = Written(regs, writes)
      BY <1>1, <1>3, Zenon
         DEF Pcf8523Writes, enableCountdownTimer, disableCountdownTimer, PCF8523_CLKOUTCONTROL,
             PCF8523_CONTROL_2, PCF8523_TIMER_B_FRCTL, PCF8523_TIMER_B_VALUE
<1>5. /\ clock \in SUBSET (0..7) /\ control \in SUBSET (0..7)
      /\ {3, 4, 5} \subseteq clock /\ 0 \in clock /\ 0 \in control
      <2>1. Bin(121) \subseteq 0..7 /\ {0, 3, 4, 5} \subseteq Bin(121)
            BY BinAt
      <2>2. regs[1] \subseteq 0..7 /\ regs[15] \subseteq 0..7
            BY <1>1, <1>2 DEF RegisterFile
      <2> QED BY <2>1, <2>2
<1>6. /\ frequency \in SUBSET (0..7) /\ Num(frequency \cap 0..2) = t[1]
      /\ Num({i - 4 : i \in frequency \cap 4..6}) = t[3]
      <2> DEFINE low == t[1]
                 pulse == t[3]
      <2>1. low \in 0..4 /\ pulse \in 0..7 /\ frequency = {i + 4 : i \in Bin(pulse)} \cup Bin(low)
            BY <1>1
      <2> HIDE DEF frequency, low, pulse
      <2>2. /\ frequency \in SUBSET (0..7) /\ Num(frequency \cap 0..2) = low
            /\ Num({i - 4 : i \in frequency \cap 4..6}) = pulse
            BY <2>1, TimerReads, Zenon
      <2> QED BY <2>2 DEF low, pulse
<1>7. value \in SUBSET (0..7) /\ Num(value) = t[2]
      BY <1>1, BinAt, NumBin
<1>8. regs[15] \ {0} \in SUBSET (0..7)
      BY <1>1, <1>2 DEF RegisterFile
<1>9. /\ Len(writes) = 5
      /\ writes[1] = Put(15, regs[15] \ {0}) /\ writes[2] = Put(1, control)
      /\ writes[3] = Put(18, frequency) /\ writes[4] = Put(19, value)
      /\ writes[5] = Put(15, clock)
      <2> DEFINE one == Put(15, regs[15] \ {0})
                 two == Put(1, control)
                 three == Put(18, frequency)
                 four == Put(19, value)
                 five == Put(15, clock)
                 S == {one, two, three, four, five}
      <2>1. writes = <<one>> \o <<two, three, four, five>>
            OBVIOUS
      <2>2. one \in S /\ two \in S /\ three \in S /\ four \in S /\ five \in S
            OBVIOUS
      <2> HIDE DEF one, two, three, four, five, S, writes
      <2>3. /\ Len(writes) = 5 /\ writes[1] = one /\ writes[2] = two /\ writes[3] = three
            /\ writes[4] = four /\ writes[5] = five
            BY ONLY <2>1, <2>2, Joined, SMT
      <2> QED BY <2>3, Zenon DEF one, two, three, four, five
<1> HIDE DEF writes, control, frequency, value, clock
<1>10. /\ regs' \in RegisterFile
       /\ regs'[15] = clock /\ regs'[1] = control /\ regs'[18] = frequency
       /\ regs'[19] = value
       /\ \A b \in Registers : b \notin {1, 15, 18, 19} => regs'[b] = regs[b]
       <2> DEFINE at == <<15, 1, 18, 19, 15>>
                  bits == <<regs[15] \ {0}, control, frequency, value, clock>>
       <2>1. /\ at \in [1..5 -> Registers] /\ at[1] = 15 /\ at[2] = 1 /\ at[3] = 18
             /\ at[4] = 19 /\ at[5] = 15
             BY DEF Registers
       <2>2. /\ bits \in [1..5 -> SUBSET (0..7)] /\ bits[2] = control
             /\ bits[3] = frequency /\ bits[4] = value /\ bits[5] = clock
             <3> DEFINE old == regs[15] \ {0}
                        Bits == SUBSET (0..7)
             <3>1. /\ old \in Bits /\ control \in Bits /\ frequency \in Bits /\ value \in Bits
                   /\ clock \in Bits
                   BY <1>5, <1>6, <1>7, <1>8
             <3> HIDE DEF old, Bits
             <3>2. <<old, control, frequency, value, clock>> \in [1..5 -> Bits]
                   BY <3>1
             <3> QED BY <3>2 DEF old, Bits
       <2>3. \A k \in 1..5 : writes[k] = Put(at[k], bits[k])
             BY <1>9
       <2> HIDE DEF at, bits
       <2>4. /\ regs' \in RegisterFile
             /\ \A k \in 1..5 :
                   (\A j \in 1..5 : j > k => at[j] # at[k]) => regs'[at[k]] = bits[k]
             /\ \A a \in Registers : (\A k \in 1..5 : at[k] # a) => regs'[a] = regs[a]
             BY ONLY <1>1, <1>4, <1>9, <2>1, <2>2, <2>3, FiveWrites, SMT
       <2>5. regs'[15] = clock /\ regs'[1] = control /\ regs'[18] = frequency /\ regs'[19] = value
             BY <2>1, <2>2, <2>4
       <2>6. \A b \in Registers : b \notin {1, 15, 18, 19} => regs'[b] = regs[b]
             BY <2>1, <2>4
       <2> QED BY <2>4, <2>5, <2>6
<1>12. regs'[0] = regs[0] /\ regs'[3] = regs[3] /\ regs'[14] = regs[14]
       BY <1>2, <1>10 DEF Facts8523
<1>13. asked' = [asked EXCEPT !.timer = t, !.counting = TRUE, !.wave = 7]
       BY <1>1 DEF Wish
<1>14. asked' \in Asked8523
       <2>1. 7 \in Byte
             BY DEF Byte
       <2>2. [asked EXCEPT !.timer = t] \in Asked8523
             BY <1>1, StillAsked8523, Zenon
       <2>3. [[asked EXCEPT !.timer = t] EXCEPT !.counting = TRUE] \in Asked8523
             BY <2>2, StillAsked8523, Zenon
       <2>4. [[[asked EXCEPT !.timer = t] EXCEPT !.counting = TRUE] EXCEPT !.wave = 7]
                \in Asked8523
             BY <2>1, <2>3, StillAsked8523, Zenon
       <2> QED BY <1>13, <2>4
<1>15. /\ asked'.wave = 7 /\ asked'.counting = TRUE /\ asked'.timer = t
       /\ asked'.second = asked.second /\ asked'.offset = asked.offset
       /\ asked'.runs = asked.runs
       BY <1>1, <1>13 DEF Asked8523
<1>16. Wave(clock) = 7
       BY <1>5, NoWave8523 DEF Wave
<1>17. Clock8523' /\ Count8523'
       BY <1>5, <1>10, <1>15, <1>16 DEF Clock8523, Count8523
<1>18. Timer8523'
       <2>1. asked'.timer = <<t[1], t[2], t[3]>>
             BY <1>1, <1>15
       <2> QED BY <1>6, <1>7, <1>10, <2>1 DEF Timer8523
<1>19. Control8523' /\ Offset8523'
       BY <1>12, <1>15 DEF Sets8523, Control8523, Offset8523
<1>20. ClearedBy(calling) = {}
       BY <1>1 DEF ClearedBy
<1> QED BY <1>1, <1>10, <1>12, <1>14, <1>17, <1>18, <1>19, <1>20, Flag8523 DEF Sets8523

\* All timers are off, and the clock still runs or does not.
LEMMA Return8523Deconfigure ==
    ASSUME ChipTypes, Fresh, device = "pcf8523", Sets8523, Return,
           calling.f = "deconfigureAllTimers"
    PROVE  regs' \in RegisterFile /\ Sets8523' /\ FlagsKept
<1> DEFINE control == regs[0] \ {2}
           writes == <<Put(0, control), Put(1, {}), Put(15, {}), Put(18, {}), Put(19, {})>>
<1>1. /\ regs' = Written(regs, Pcf8523Writes(calling, was)) /\ asked' = Wish(asked, calling)
      /\ device' = "pcf8523" /\ regs \in RegisterFile /\ asked \in Asked8523
      BY DEF ChipTypes, Return, Writes, Sets8523
<1>2. /\ 0 \in Registers /\ 1 \in Registers /\ 15 \in Registers /\ 18 \in Registers
      /\ 19 \in Registers /\ Facts8523 \subseteq Registers
      BY DEF Facts8523, Registers
<1>3. was[0] = regs[0]
      BY <1>2, Read8523
<1>4. regs' = Written(regs, writes)
      BY <1>1, <1>3 DEF Pcf8523Writes, deconfigureAllTimers, PCF8523_CLKOUTCONTROL,
                        PCF8523_CONTROL_1, PCF8523_CONTROL_2, PCF8523_TIMER_B_FRCTL,
                        PCF8523_TIMER_B_VALUE
<1>5. control \in SUBSET (0..7) /\ 2 \notin control /\ (5 \in control <=> 5 \in regs[0])
      BY <1>1, <1>2 DEF RegisterFile
<1>6. /\ Len(writes) = 5 /\ writes[1] = Put(0, control) /\ writes[2] = Put(1, {})
      /\ writes[3] = Put(15, {}) /\ writes[4] = Put(18, {}) /\ writes[5] = Put(19, {})
      <2> HIDE DEF control
      <2> QED OBVIOUS
<1> HIDE DEF writes, control
<1>8. /\ regs' \in RegisterFile
      /\ regs'[0] = control /\ regs'[1] = {} /\ regs'[15] = {} /\ regs'[18] = {}
      /\ regs'[19] = {}
      /\ \A b \in Registers : b \notin {0, 1, 15, 18, 19} => regs'[b] = regs[b]
      <2> DEFINE at == <<0, 1, 15, 18, 19>>
                 bits == <<control, {}, {}, {}, {}>>
      <2>1. /\ at \in [1..5 -> Registers] /\ at[1] = 0 /\ at[2] = 1 /\ at[3] = 15
            /\ at[4] = 18 /\ at[5] = 19
            BY DEF Registers
      <2>2. /\ bits \in [1..5 -> SUBSET (0..7)] /\ bits[1] = control
            /\ bits[2] = {} /\ bits[3] = {} /\ bits[4] = {} /\ bits[5] = {}
            BY <1>5
      <2>3. \A k \in 1..5 : writes[k] = Put(at[k], bits[k])
            BY <1>6
      <2> HIDE DEF at, bits
      <2>4. /\ regs' \in RegisterFile
            /\ \A k \in 1..5 :
                  (\A j \in 1..5 : j > k => at[j] # at[k]) => regs'[at[k]] = bits[k]
            /\ \A a \in Registers : (\A k \in 1..5 : at[k] # a) => regs'[a] = regs[a]
            BY ONLY <1>1, <1>4, <1>6, <2>1, <2>2, <2>3, FiveWrites, SMT
      <2>5. /\ regs'[0] = control /\ regs'[1] = {} /\ regs'[15] = {} /\ regs'[18] = {}
            /\ regs'[19] = {}
            BY <2>1, <2>2, <2>4
      <2>6. \A b \in Registers : b \notin {0, 1, 15, 18, 19} => regs'[b] = regs[b]
            BY <2>1, <2>4
      <2> QED BY <2>4, <2>5, <2>6
<1>9. regs'[3] = regs[3] /\ regs'[14] = regs[14]
      BY <1>2, <1>8 DEF Facts8523
<1>10. asked' = [asked EXCEPT !.second = FALSE, !.timer = <<0, 0, 0>>, !.counting = FALSE,
                              !.wave = 0]
       BY <1>1 DEF Wish
<1>11. asked' \in Asked8523
       <2>1. 0 \in Byte /\ <<0, 0, 0>> \in Timers
             BY DEF Byte, Timers
       <2> DEFINE one == [asked EXCEPT !.second = FALSE]
                  two == [one EXCEPT !.timer = <<0, 0, 0>>]
                  three == [two EXCEPT !.counting = FALSE]
                  four == [three EXCEPT !.wave = 0]
       <2>2. one \in Asked8523
             BY <1>1, StillAsked8523, Zenon
       <2> HIDE DEF one
       <2>3. two \in Asked8523
             BY <2>1, <2>2, StillAsked8523, Zenon
       <2> HIDE DEF two
       <2>4. three \in Asked8523
             BY <2>3, StillAsked8523, Zenon
       <2> HIDE DEF three
       <2>5. four \in Asked8523
             BY <2>1, <2>4, StillAsked8523, Zenon
       <2> HIDE DEF four
       <2>6. asked' = four
             BY <1>10 DEF one, two, three, four
       <2> QED BY <2>5, <2>6
<1>12. /\ asked'.wave = 0 /\ asked'.second = FALSE /\ asked'.timer = <<0, 0, 0>>
       /\ asked'.counting = FALSE /\ asked'.offset = asked.offset
       /\ asked'.runs = asked.runs
       BY <1>1, <1>10 DEF Asked8523
<1>13. Clock8523' /\ Count8523' /\ Timer8523'
       <2>1. Wave({}) = 0
             BY NumNothing DEF Wave
       <2>2. Num({} \cap 0..2) = 0 /\ Num({i - 4 : i \in {} \cap 4..6}) = 0
             BY NumNothing
       <2> QED BY <1>8, <1>12, <2>1, <2>2, NumNothing DEF Clock8523, Count8523, Timer8523
<1>14. Control8523' /\ Offset8523'
       BY <1>5, <1>8, <1>9, <1>12 DEF Sets8523, Control8523, Offset8523
<1>15. ClearedBy(calling) = {}
       BY DEF ClearedBy
<1> QED BY <1>1, <1>8, <1>9, <1>11, <1>13, <1>14, <1>15, Flag8523 DEF Sets8523

\* What the driver of a PCF8523 writes is what was asked for.
LEMMA Return8523 ==
    ASSUME ChipTypes, Fresh, device = "pcf8523", Sets8523, Return
    PROVE  regs' \in RegisterFile /\ Sets8523' /\ FlagsKept
<1>1. /\ calling \in Calls
      /\ calling \in SetSquareWave("pcf8523")
              \cup Plain({"adjust", "start", "stop", "enableSecondTimer",
                         "disableSecondTimer", "disableCountdownTimer",
                         "deconfigureAllTimers"})
              \cup [f : {"enableCountdownTimer"}, timer : Countdowns]
              \cup [f : {"calibrate"}, offset : Offsets]
      BY DEF ChipTypes, Return, Calls
<1>2. CASE calling \in SetSquareWave("pcf8523")
      BY <1>2, Return8523Pin
<1>3. CASE calling \in [f : {"enableCountdownTimer"}, timer : Countdowns]
      BY <1>3, Return8523Count
<1>4. CASE calling \in [f : {"calibrate"}, offset : Offsets]
      BY <1>4, Return8523Calibrate
<1>5. CASE calling \in Plain({"adjust", "start", "stop", "enableSecondTimer",
                              "disableSecondTimer", "disableCountdownTimer",
                              "deconfigureAllTimers"})
      <2>1. calling.f \in {"adjust", "start", "stop", "enableSecondTimer",
                           "disableSecondTimer", "disableCountdownTimer",
                           "deconfigureAllTimers"}
            BY <1>5 DEF Plain
      <2> QED BY <2>1, Return8523Adjust, Return8523Control, Return8523Second,
                 Return8523Pin, Return8523Deconfigure
<1> QED BY <1>1, <1>2, <1>3, <1>4, <1>5

--------------------------------------------------------------------------------
(* The DS3231: its alarms.                                                  *)

\* The days before each month, from the recursion.
LEMMA MonthsStart == DaysBeforeMonth \in [1..12 -> Nat]
<1> DEFINE Start(f) == [m \in 1..12 |-> IF m = 1 THEN 0 ELSE f[m - 1] + daysInMonth[m - 1]]
           g == <<0, 31, 59, 90, 120, 151, 181, 212, 243, 273, 304, 334>>
<1>1. /\ daysInMonth[1] = 31 /\ daysInMonth[2] = 28 /\ daysInMonth[3] = 31
      /\ daysInMonth[4] = 30 /\ daysInMonth[5] = 31 /\ daysInMonth[6] = 30
      /\ daysInMonth[7] = 31 /\ daysInMonth[8] = 31 /\ daysInMonth[9] = 30
      /\ daysInMonth[10] = 31 /\ daysInMonth[11] = 30
      BY DEF daysInMonth
<1>2. /\ g[1] = 0 /\ g[2] = 31 /\ g[3] = 59 /\ g[4] = 90 /\ g[5] = 120 /\ g[6] = 151
      /\ g[7] = 181 /\ g[8] = 212 /\ g[9] = 243 /\ g[10] = 273 /\ g[11] = 304
      /\ g[12] = 334 /\ g \in [1..12 -> Nat]
      OBVIOUS
<1> HIDE DEF g
<1>3. ASSUME NEW m \in 1..12 PROVE g[m] = Start(g)[m]
      <2>1. m \in {1, 2, 3, 4, 5, 6, 7, 8, 9, 10, 11, 12}
            OBVIOUS
      <2> QED BY <1>1, <1>2, <2>1
<1>4. g = Start(g)
      BY <1>2, <1>3
<1>5. DaysBeforeMonth = Start(DaysBeforeMonth)
      BY <1>4 DEF DaysBeforeMonth
<1> DEFINE f == DaysBeforeMonth
<1>6. DOMAIN f = 1..12 /\ \A m \in 1..12 : f[m] = Start(f)[m]
      BY <1>5
<1> HIDE DEF f
<1>7. /\ f[1] = 0 /\ f[2] = f[1] + daysInMonth[1] /\ f[3] = f[2] + daysInMonth[2]
      /\ f[4] = f[3] + daysInMonth[3] /\ f[5] = f[4] + daysInMonth[4]
      /\ f[6] = f[5] + daysInMonth[5] /\ f[7] = f[6] + daysInMonth[6]
      /\ f[8] = f[7] + daysInMonth[7] /\ f[9] = f[8] + daysInMonth[8]
      /\ f[10] = f[9] + daysInMonth[9] /\ f[11] = f[10] + daysInMonth[10]
      /\ f[12] = f[11] + daysInMonth[11]
      BY <1>6
<1>8. \A m \in 1..12 : f[m] = g[m]
      <2>1. ASSUME NEW m \in 1..12 PROVE f[m] = g[m]
            <3>1. m \in {1, 2, 3, 4, 5, 6, 7, 8, 9, 10, 11, 12}
                  OBVIOUS
            <3> QED BY <1>1, <1>2, <1>7, <3>1
      <2> QED BY <2>1
<1>9. f = Start(f)
      BY <1>5 DEF f
<1>10. \A m \in 1..12 : f[m] \in Nat
       BY <1>2, <1>8
<1>11. f \in [1..12 -> Nat]
       BY <1>6, <1>9, <1>10
<1> QED BY <1>11 DEF f

\* The days of the week are 0 to 6, those of the chip 1 to 7.
LEMMA DayOfTheWeek ==
    ASSUME NEW date \in AlarmDates
    PROVE  dayOfTheWeek(date) \in 0..6 /\ dowToDS3231(date) \in 1..7
<1>1. date.m \in 1..12 /\ date.d \in 1..31 /\ date.yOff \in 0..99
      BY DEF AlarmDates
<1>2. DaysBeforeMonth[date.m] \in Nat
      BY <1>1, MonthsStart
<1>3. date2days(date) \in Nat
      <2> DEFINE y == date.yOff
                 before == DaysBeforeMonth[date.m]
                 leap == IF date.m > 2 /\ date.yOff % 4 = 0 THEN 1 ELSE 0
                 years == (y + 3) \div 4
      <2>1. y \in Int /\ date.d \in Int /\ before \in Int /\ leap \in Int
            BY <1>1, <1>2
      <2>2. years \in Int
            BY <2>1
      <2>3. date2days(date) = (date.d + before + leap + 365 * y + years - 1) % 65536
            BY DEF date2days
      <2> HIDE DEF y, before, leap, years
      <2>4. date.d + before + leap + 365 * y + years - 1 \in Int
            BY ONLY <2>1, <2>2
      <2> QED BY <2>3, <2>4
<1>4. dayOfTheWeek(date) \in 0..6
      BY <1>3 DEF dayOfTheWeek
<1> QED BY <1>4 DEF dowToDS3231

\* Binary-coded decimals.
LEMMA Decimals ==
    ASSUME NEW v \in 0..59
    PROVE  /\ bin2bcd(v) \in 0..127 /\ bcd2bin(bin2bcd(v)) = v
           /\ v <= 39 => bin2bcd(v) < 64
           /\ v <= 9 => bin2bcd(v) < 16
BY DEF bin2bcd, bcd2bin

\* What a field says when it is read, and what it is compared with.
LEMMA FieldIs ==
    ASSUME NEW v \in 0..59, NEW dontCare \in BOOLEAN, NEW byte, byte = Field(v, dontCare)
    PROVE  /\ byte \in SUBSET (0..7) /\ (7 \in byte <=> dontCare)
           /\ v <= 39 => 6 \notin byte
           /\ FieldRead(byte, 6) = v
           /\ v <= 39 => FieldRead(byte, 5) = v
           /\ ~dontCare => \A w \in 0..59 : Bin(bin2bcd(w)) = byte <=> w = v
<1> DEFINE n == bin2bcd(v)
<1>1. /\ n \in 0..255 /\ n \in Nat /\ n < 128 /\ bcd2bin(n) = v /\ (v <= 39 => n < 64)
      BY Decimals
<1>2. byte = Bin(n) \cup (IF dontCare THEN {7} ELSE {})
      BY DEF Field
<1>3. \A w \in 0..59 : bin2bcd(w) \in 0..255 /\ bcd2bin(bin2bcd(w)) = w
      BY Decimals
<1> HIDE DEF n
<1>4. Bin(n) \subseteq 0..7 /\ 7 \notin Bin(n) /\ (v <= 39 => 6 \notin Bin(n)) /\ Num(Bin(n)) = n
      BY <1>1, BinAt, Small, NumBin
<1>5. byte \in SUBSET (0..7) /\ (7 \in byte <=> dontCare) /\ (v <= 39 => 6 \notin byte)
      BY <1>2, <1>4
<1>6. FieldRead(byte, 6) = v
      <2>1. byte \cap 0..6 = Bin(n)
            BY <1>2, <1>4
      <2> QED BY <1>1, <1>4, <2>1 DEF FieldRead
<1>7. ASSUME v <= 39 PROVE FieldRead(byte, 5) = v
      <2>1. byte \cap 0..5 = Bin(n)
            BY <1>2, <1>4, <1>7
      <2> QED BY <1>1, <1>4, <2>1 DEF FieldRead
<1>8. ASSUME ~dontCare, NEW w \in 0..59 PROVE Bin(bin2bcd(w)) = byte <=> w = v
      <2>1. byte = Bin(n)
            BY <1>2, <1>8
      <2>2. ASSUME Bin(bin2bcd(w)) = Bin(n) PROVE w = v
            <3> DEFINE k == bin2bcd(w)
            <3>1. k \in 0..255 /\ Bin(k) = Bin(n)
                  BY <1>3, <2>2
            <3> HIDE DEF k
            <3>2. k = n
                  BY <1>1, <3>1, BinDiffers
            <3> QED BY <1>1, <1>3, <3>2 DEF k
      <2> QED BY <2>1, <2>2 DEF n
<1> QED BY <1>5, <1>6, <1>7, <1>8

\* The day of an alarm reads back, and matches the days it names.
LEMMA DayFieldIs ==
    ASSUME NEW date \in AlarmDates, NEW dontCare \in BOOLEAN, NEW ofWeek \in BOOLEAN,
           NEW byte, byte = DayField(date, dontCare, ofWeek)
    PROVE  /\ byte \in SUBSET (0..7) /\ (7 \in byte <=> dontCare) /\ (6 \in byte <=> ofWeek)
           /\ DayRead(byte) = IF ofWeek THEN dowToDS3231(date) ELSE date.d
           /\ ~dontCare =>
                 \A t \in AlarmDates :
                    Bin(bin2bcd(IF 6 \in byte THEN dowToDS3231(t) ELSE t.d)) = byte \ {6}
                    <=> IF ofWeek THEN dayOfTheWeek(date) = dayOfTheWeek(t)
                        ELSE date.d = t.d
<1> DEFINE v == IF ofWeek THEN dowToDS3231(date) ELSE date.d
           low == Field(v, dontCare)
<1>1. v \in 0..39 /\ v \in 0..59 /\ (ofWeek => v <= 9)
      <2>1. dowToDS3231(date) \in 1..7 /\ date.d \in 1..31
            BY DayOfTheWeek DEF AlarmDates
      <2> QED BY <2>1
<1>2. byte = low \cup IF ofWeek THEN {6} ELSE {}
      BY DEF DayField
<1>3. /\ low \in SUBSET (0..7) /\ (7 \in low <=> dontCare) /\ 6 \notin low
      /\ FieldRead(low, 5) = v
      /\ ~dontCare => \A w \in 0..59 : Bin(bin2bcd(w)) = low <=> w = v
      <2> HIDE DEF v
      <2> QED BY <1>1, FieldIs
<1>4. DayRead(byte) = v
      <2>1. CASE ofWeek
            <3>1. bin2bcd(v) < 16 /\ bin2bcd(v) \in 0..255 /\ bin2bcd(v) \in Nat
                  /\ bcd2bin(bin2bcd(v)) = v
                  BY <1>1, <2>1, Decimals
            <3> DEFINE n == bin2bcd(v)
            <3>2. low = Bin(n) \cup IF dontCare THEN {7} ELSE {}
                  BY DEF Field
            <3> HIDE DEF n
            <3>3. /\ Bin(n) \subseteq 0..7 /\ 7 \notin Bin(n) /\ 6 \notin Bin(n)
                  /\ 5 \notin Bin(n) /\ 4 \notin Bin(n) /\ Num(Bin(n)) = n
                  BY <3>1, BinAt, Small, NumBin DEF n
            <3>4. byte \cap 0..3 = Bin(n) /\ 6 \in byte
                  BY <1>2, <2>1, <3>2, <3>3
            <3>5. FieldRead(byte, 3) = bcd2bin(n)
                  BY <3>3, <3>4 DEF FieldRead
            <3>6. DayRead(byte) = FieldRead(byte, 3)
                  BY <3>4 DEF DayRead
            <3> QED BY <3>1, <3>5, <3>6 DEF n
      <2>2. CASE ~ofWeek
            <3>1. byte = low
                  BY <1>2, <2>2
            <3> QED BY <1>3, <3>1 DEF DayRead
      <2> QED BY <2>1, <2>2
<1>5. byte \in SUBSET (0..7) /\ (7 \in byte <=> dontCare) /\ (6 \in byte <=> ofWeek)
      <2> HIDE DEF low, v
      <2> QED BY <1>2, <1>3
<1>6. ASSUME ~dontCare, NEW t \in AlarmDates
      PROVE  Bin(bin2bcd(IF 6 \in byte THEN dowToDS3231(t) ELSE t.d)) = byte \ {6}
             <=> IF ofWeek THEN dayOfTheWeek(date) = dayOfTheWeek(t) ELSE date.d = t.d
      <2> DEFINE w == IF ofWeek THEN dowToDS3231(t) ELSE t.d
      <2>1. w \in 0..59
            <3>1. dowToDS3231(t) \in 1..7 /\ t.d \in 1..31
                  BY DayOfTheWeek DEF AlarmDates
            <3> QED BY <3>1
      <2>2. byte \ {6} = low
            <3> HIDE DEF low, v
            <3> QED BY <1>2, <1>3
      <2>3. Bin(bin2bcd(w)) = low <=> w = v
            <3> HIDE DEF low, v, w
            <3> QED BY <1>3, <1>6, <2>1
      <2>4. w = v <=> IF ofWeek THEN dayOfTheWeek(date) = dayOfTheWeek(t) ELSE date.d = t.d
            BY DayOfTheWeek DEF dowToDS3231
      <2>5. (IF 6 \in byte THEN dowToDS3231(t) ELSE t.d) = w
            <3> HIDE DEF low, v
            <3> QED BY <1>5
      <2> HIDE DEF low, v, w
      <2> QED BY <2>2, <2>3, <2>4, <2>5
<1> QED BY <1>4, <1>5, <1>6

Names1 == {"PerSecond", "Second", "Minute", "Hour", "Date", "Day"}
Names2 == {"PerMinute", "Minute", "Hour", "Date", "Day"}
AlarmCalls1 == [f : {"setAlarm1"}, date : Dates, mode : Names1]
AlarmCalls2 == [f : {"setAlarm2"}, date : Dates, mode : Names2]

\* The modes of the first alarm,
LEMMA Modes1 ==
    /\ DOMAIN Alarm1Mode = Names1
    /\ Alarm1Mode["PerSecond"] = 15 /\ Alarm1Mode["Second"] = 14
    /\ Alarm1Mode["Minute"] = 12 /\ Alarm1Mode["Hour"] = 8
    /\ Alarm1Mode["Date"] = 0 /\ Alarm1Mode["Day"] = 16
BY DEF Alarm1Mode, Names1

\* and of the second.
LEMMA Modes2 ==
    /\ DOMAIN Alarm2Mode = Names2
    /\ Alarm2Mode["PerMinute"] = 7 /\ Alarm2Mode["Minute"] = 6
    /\ Alarm2Mode["Hour"] = 4 /\ Alarm2Mode["Date"] = 0 /\ Alarm2Mode["Day"] = 8
BY DEF Alarm2Mode, Names2

\* No two names have the same mode.
LEMMA NamedIs ==
    /\ \A name \in Names1 : Named(Alarm1Mode, Alarm1Mode[name]) = name
    /\ \A name \in Names2 : Named(Alarm2Mode, Alarm2Mode[name]) = name
<1>1. ASSUME NEW name \in Names1 PROVE Named(Alarm1Mode, Alarm1Mode[name]) = name
      <2>1. \A other \in Names1 : Alarm1Mode[other] = Alarm1Mode[name] => other = name
            BY Modes1 DEF Names1
      <2>2. (CHOOSE other \in Names1 : Alarm1Mode[other] = Alarm1Mode[name]) = name
            BY <2>1
      <2>3. DOMAIN Alarm1Mode = Names1
            BY Modes1
      <2>4. \E other \in Names1 : Alarm1Mode[other] = Alarm1Mode[name]
            OBVIOUS
      <2> QED BY <2>2, <2>3, <2>4, Zenon DEF Named
<1>2. ASSUME NEW name \in Names2 PROVE Named(Alarm2Mode, Alarm2Mode[name]) = name
      <2>1. \A other \in Names2 : Alarm2Mode[other] = Alarm2Mode[name] => other = name
            BY Modes2 DEF Names2
      <2>2. (CHOOSE other \in Names2 : Alarm2Mode[other] = Alarm2Mode[name]) = name
            BY <2>1
      <2>3. DOMAIN Alarm2Mode = Names2
            BY Modes2
      <2>4. \E other \in Names2 : Alarm2Mode[other] = Alarm2Mode[name]
            OBVIOUS
      <2> QED BY <2>2, <2>3, <2>4, Zenon DEF Named
<1> QED BY <1>1, <1>2

\* The bits of the modes.
LEMMA Bits1 ==
    ASSUME NEW name \in Names1, NEW m, m = Alarm1Mode[name]
    PROVE  /\ m \in 0..255 /\ Bin(m) \subseteq 0..4
           /\ (0 \in Bin(m) <=> name = "PerSecond")
           /\ (1 \in Bin(m) <=> name \in {"PerSecond", "Second"})
           /\ (2 \in Bin(m) <=> name \in {"PerSecond", "Second", "Minute"})
           /\ (3 \in Bin(m) <=> name \in {"PerSecond", "Second", "Minute", "Hour"})
           /\ (4 \in Bin(m) <=> name = "Day")
<1>1. CASE name = "PerSecond"
      BY <1>1, Modes1, BinAt, Small
<1>2. CASE name = "Second"
      BY <1>2, Modes1, BinAt, Small
<1>3. CASE name = "Minute"
      BY <1>3, Modes1, BinAt, Small
<1>4. CASE name = "Hour"
      BY <1>4, Modes1, BinAt, Small
<1>5. CASE name = "Date"
      BY <1>5, Modes1, BinAt, Small
<1>6. CASE name = "Day"
      BY <1>6, Modes1, BinAt, Small
<1> QED BY <1>1, <1>2, <1>3, <1>4, <1>5, <1>6 DEF Names1

\* What the bits of a mode of the second alarm say.
LEMMA Bits2 ==
    ASSUME NEW name \in Names2, NEW m, m = Alarm2Mode[name]
    PROVE  /\ m \in 0..255 /\ Bin(m) \subseteq 0..3
           /\ (0 \in Bin(m) <=> name = "PerMinute")
           /\ (1 \in Bin(m) <=> name \in {"PerMinute", "Minute"})
           /\ (2 \in Bin(m) <=> name \in {"PerMinute", "Minute", "Hour"})
           /\ (3 \in Bin(m) <=> name = "Day")
<1>1. CASE name = "PerMinute"
      BY <1>1, Modes2, BinAt, Small
<1>2. CASE name = "Minute"
      BY <1>2, Modes2, BinAt, Small
<1>3. CASE name = "Hour"
      BY <1>3, Modes2, BinAt, Small
<1>4. CASE name = "Date"
      BY <1>4, Modes2, BinAt, Small
<1>5. CASE name = "Day"
      BY <1>5, Modes2, BinAt, Small
<1> QED BY <1>1, <1>2, <1>3, <1>4, <1>5 DEF Names2

\* The bytes of alarm 1 say what was asked for, to the driver and to the chip.
LEMMA AlarmReads1 ==
    ASSUME NEW alarm \in AlarmCalls1, NEW bytes, Len(bytes) = 4,
           \A i \in 1..4 : bytes[i] = Alarm1Bytes(alarm.date, Alarm1Mode[alarm.mode])[i]
    PROVE  AlarmAsAsked(alarm, Named(Alarm1Mode, ModeOf(bytes)),
                        <<DayRead(bytes[4]), FieldRead(bytes[3], 5), FieldRead(bytes[2], 6),
                          FieldRead(bytes[1], 6)>>, bytes, TRUE)
<1> DEFINE d == alarm.date
           m == Alarm1Mode[alarm.mode]
           p0 == 0 \in Bin(m)
           p1 == 1 \in Bin(m)
           p2 == 2 \in Bin(m)
           p3 == 3 \in Bin(m)
           w == 4 \in Bin(m)
<1>1. /\ d \in AlarmDates /\ alarm.mode \in Names1
      /\ d.ss \in 0..59 /\ d.mm \in 0..59 /\ d.hh \in 0..59 /\ d.hh <= 39
      /\ Dates \subseteq AlarmDates
      BY ClockChipsAssumption DEF AlarmCalls1, AlarmDates
<1>2. /\ bytes[1] = Field(d.ss, p0) /\ bytes[2] = Field(d.mm, p1)
      /\ bytes[3] = Field(d.hh, p2) /\ bytes[4] = DayField(d, p3, w)
      BY DEF Alarm1Bytes
<1>3. /\ m \in 0..255 /\ Bin(m) \subseteq 0..4
      /\ (p0 <=> alarm.mode = "PerSecond")
      /\ (p1 <=> alarm.mode \in {"PerSecond", "Second"})
      /\ (p2 <=> alarm.mode \in {"PerSecond", "Second", "Minute"})
      /\ (p3 <=> alarm.mode \in {"PerSecond", "Second", "Minute", "Hour"})
      /\ (w <=> alarm.mode = "Day")
      BY <1>1, Bits1
<1>4. {p0, p1, p2, p3, w} \subseteq BOOLEAN
      OBVIOUS
<1>5. ModeOf(bytes) = m
      <2> DEFINE those == {i \in 0..3 : 7 \in bytes[i + 1]}
                            \cup IF 6 \in bytes[4] THEN {4} ELSE {}
      <2>1. ModeOf(bytes) = Num(those)
            BY DEF ModeOf
      <2>2. /\ (7 \in bytes[1] <=> p0) /\ (7 \in bytes[2] <=> p1) /\ (7 \in bytes[3] <=> p2)
            /\ (7 \in bytes[4] <=> p3) /\ (6 \in bytes[4] <=> w)
            <3> HIDE DEF d, p0, p1, p2, p3, w
            <3>1. (7 \in bytes[1] <=> p0) /\ (7 \in bytes[2] <=> p1) /\ (7 \in bytes[3] <=> p2)
                  BY <1>1, <1>2, <1>4, FieldIs
            <3>2. (7 \in bytes[4] <=> p3) /\ (6 \in bytes[4] <=> w)
                  BY <1>1, <1>2, <1>4, DayFieldIs
            <3> QED BY <3>1, <3>2
      <2>3. \A i \in 0..7 : i \in those <=> i \in Bin(m)
            <3>1. (0 \in those <=> 7 \in bytes[1]) /\ (1 \in those <=> 7 \in bytes[2])
                  /\ (2 \in those <=> 7 \in bytes[3]) /\ (3 \in those <=> 7 \in bytes[4])
                  /\ (4 \in those <=> 6 \in bytes[4])
                  /\ 5 \notin those /\ 6 \notin those /\ 7 \notin those
                  OBVIOUS
            <3>2. 5 \notin Bin(m) /\ 6 \notin Bin(m) /\ 7 \notin Bin(m)
                  BY <1>3
            <3> HIDE DEF those
            <3> QED BY <2>2, <3>1, <3>2
      <2> HIDE DEF those, m
      <2>4. Num(those) = Num(Bin(m))
            BY <2>3, NumSame
      <2> QED BY <1>3, <2>1, <2>4, NumBin
<1>6. Named(Alarm1Mode, ModeOf(bytes)) = alarm.mode
      BY <1>1, <1>5, NamedIs
<1>7. /\ DayRead(bytes[4]) = IF w THEN dowToDS3231(d) ELSE d.d
      /\ FieldRead(bytes[3], 5) = d.hh /\ FieldRead(bytes[2], 6) = d.mm
      /\ FieldRead(bytes[1], 6) = d.ss
      <2> HIDE DEF d, p0, p1, p2, p3, w
      <2>1. DayRead(bytes[4]) = IF w THEN dowToDS3231(d) ELSE d.d
            BY <1>1, <1>2, <1>4, DayFieldIs
      <2>2. FieldRead(bytes[3], 5) = d.hh
            BY <1>1, <1>2, <1>4, FieldIs
      <2>3. FieldRead(bytes[2], 6) = d.mm /\ FieldRead(bytes[1], 6) = d.ss
            BY <1>1, <1>2, <1>4, FieldIs
      <2> QED BY <2>1, <2>2, <2>3
<1>8. ASSUME NEW t \in Dates PROVE Matches(bytes, t) <=> Due(alarm, t, TRUE)
      <2> DEFINE day == IF 6 \in bytes[4] THEN dowToDS3231(t) ELSE t.d
                 Same(i, field) == Bin(bin2bcd(field)) = bytes[i]
                 SameDay == Bin(bin2bcd(day)) = bytes[4] \ {6}
      <2>1. /\ t \in AlarmDates /\ t.ss \in 0..59 /\ t.mm \in 0..59 /\ t.hh \in 0..59
            BY <1>1 DEF AlarmDates
      <2>2. Matches(bytes, t) <=> /\ 7 \in bytes[1] \/ Same(1, t.ss)
                                  /\ 7 \in bytes[2] \/ Same(2, t.mm)
                                  /\ 7 \in bytes[3] \/ Same(3, t.hh)
                                  /\ 7 \in bytes[4] \/ SameDay
            <3> DEFINE fields == <<t.ss, t.mm, t.hh, day>>
                       Holds4(i) == 7 \in bytes[i] \/
                                    Bin(bin2bcd(fields[i])) = bytes[i] \ (IF i = 4 THEN {6} ELSE {})
            <3>1. Matches(bytes, t) <=> \A i \in 1..4 : Holds4(i)
                  BY DEF Matches
            <3>2. (\A i \in 1..4 : Holds4(i)) <=> Holds4(1) /\ Holds4(2) /\ Holds4(3) /\ Holds4(4)
                  <4> HIDE DEF Holds4
                  <4> QED OBVIOUS
            <3>3. fields[1] = t.ss /\ fields[2] = t.mm /\ fields[3] = t.hh /\ fields[4] = day
                  OBVIOUS
            <3> HIDE DEF fields
            <3> QED BY <3>1, <3>2, <3>3
      <2>3. /\ (7 \in bytes[1] <=> p0) /\ (~p0 => (Same(1, t.ss) <=> t.ss = d.ss))
            /\ (7 \in bytes[2] <=> p1) /\ (~p1 => (Same(2, t.mm) <=> t.mm = d.mm))
            /\ (7 \in bytes[3] <=> p2) /\ (~p2 => (Same(3, t.hh) <=> t.hh = d.hh))
            <3> HIDE DEF d, p0, p1, p2, p3, w
            <3>1. (7 \in bytes[1] <=> p0) /\ (~p0 => (Same(1, t.ss) <=> t.ss = d.ss))
                  BY <1>1, <1>2, <1>4, <2>1, FieldIs
            <3>2. (7 \in bytes[2] <=> p1) /\ (~p1 => (Same(2, t.mm) <=> t.mm = d.mm))
                  BY <1>1, <1>2, <1>4, <2>1, FieldIs
            <3>3. (7 \in bytes[3] <=> p2) /\ (~p2 => (Same(3, t.hh) <=> t.hh = d.hh))
                  BY <1>1, <1>2, <1>4, <2>1, FieldIs
            <3> QED BY <3>1, <3>2, <3>3
      <2>4. /\ (7 \in bytes[4] <=> p3)
            /\ ~p3 => (SameDay <=> IF w THEN dayOfTheWeek(d) = dayOfTheWeek(t) ELSE d.d = t.d)
            <3> HIDE DEF d, p0, p1, p2, p3, w
            <3> QED BY <1>1, <1>2, <1>4, <2>1, DayFieldIs
      <2> HIDE DEF p0, p1, p2, p3, w, day, Same, SameDay
      <2> QED BY <1>1, <1>3, <2>2, <2>3, <2>4 DEF Due, Names1
<1>9. <<DayRead(bytes[4]), FieldRead(bytes[3], 5), FieldRead(bytes[2], 6),
        FieldRead(bytes[1], 6)>> =
        <<IF alarm.mode = "Day" THEN dowToDS3231(d) ELSE d.d, d.hh, d.mm, d.ss>>
      <2> HIDE DEF w
      <2> QED BY <1>3, <1>7
<1> QED BY <1>6, <1>8, <1>9 DEF AlarmAsAsked

\* And those of alarm 2, which has no seconds.
LEMMA AlarmReads2 ==
    ASSUME NEW alarm \in AlarmCalls2, NEW bytes, Len(bytes) = 3,
           \A i \in 1..3 : bytes[i] = Alarm2Bytes(alarm.date, Alarm2Mode[alarm.mode])[i]
    PROVE  AlarmAsAsked(alarm, Named(Alarm2Mode, ModeOf(bytes)),
                        <<DayRead(bytes[3]), FieldRead(bytes[2], 5), FieldRead(bytes[1], 6), 0>>,
                        bytes, FALSE)
<1> DEFINE d == alarm.date
           m == Alarm2Mode[alarm.mode]
           p0 == 0 \in Bin(m)
           p1 == 1 \in Bin(m)
           p2 == 2 \in Bin(m)
           w == 3 \in Bin(m)
<1>1. /\ d \in AlarmDates /\ alarm.mode \in Names2
      /\ d.mm \in 0..59 /\ d.hh \in 0..59 /\ d.hh <= 39
      /\ Dates \subseteq AlarmDates
      BY ClockChipsAssumption DEF AlarmCalls2, AlarmDates
<1>2. /\ bytes[1] = Field(d.mm, p0) /\ bytes[2] = Field(d.hh, p1)
      /\ bytes[3] = DayField(d, p2, w)
      BY DEF Alarm2Bytes
<1>3. /\ m \in 0..255 /\ Bin(m) \subseteq 0..3
      /\ (p0 <=> alarm.mode = "PerMinute")
      /\ (p1 <=> alarm.mode \in {"PerMinute", "Minute"})
      /\ (p2 <=> alarm.mode \in {"PerMinute", "Minute", "Hour"})
      /\ (w <=> alarm.mode = "Day")
      BY <1>1, Bits2
<1>4. {p0, p1, p2, w} \subseteq BOOLEAN
      OBVIOUS
<1>5. ModeOf(bytes) = m
      <2> DEFINE those == {i \in 0..2 : 7 \in bytes[i + 1]}
                            \cup IF 6 \in bytes[3] THEN {3} ELSE {}
      <2>1. ModeOf(bytes) = Num(those)
            BY DEF ModeOf
      <2>2. /\ (7 \in bytes[1] <=> p0) /\ (7 \in bytes[2] <=> p1)
            /\ (7 \in bytes[3] <=> p2) /\ (6 \in bytes[3] <=> w)
            <3> HIDE DEF d, p0, p1, p2, w
            <3>1. (7 \in bytes[1] <=> p0) /\ (7 \in bytes[2] <=> p1)
                  BY <1>1, <1>2, <1>4, FieldIs
            <3>2. (7 \in bytes[3] <=> p2) /\ (6 \in bytes[3] <=> w)
                  BY <1>1, <1>2, <1>4, DayFieldIs
            <3> QED BY <3>1, <3>2
      <2>3. \A i \in 0..7 : i \in those <=> i \in Bin(m)
            <3>1. (0 \in those <=> 7 \in bytes[1]) /\ (1 \in those <=> 7 \in bytes[2])
                  /\ (2 \in those <=> 7 \in bytes[3]) /\ (3 \in those <=> 6 \in bytes[3])
                  /\ 4 \notin those /\ 5 \notin those /\ 6 \notin those /\ 7 \notin those
                  OBVIOUS
            <3>2. 4 \notin Bin(m) /\ 5 \notin Bin(m) /\ 6 \notin Bin(m) /\ 7 \notin Bin(m)
                  BY <1>3
            <3> HIDE DEF those
            <3> QED BY <2>2, <3>1, <3>2
      <2> HIDE DEF those, m
      <2>4. Num(those) = Num(Bin(m))
            BY <2>3, NumSame
      <2> QED BY <1>3, <2>1, <2>4, NumBin
<1>6. Named(Alarm2Mode, ModeOf(bytes)) = alarm.mode
      BY <1>1, <1>5, NamedIs
<1>7. /\ DayRead(bytes[3]) = IF w THEN dowToDS3231(d) ELSE d.d
      /\ FieldRead(bytes[2], 5) = d.hh /\ FieldRead(bytes[1], 6) = d.mm
      <2> HIDE DEF d, p0, p1, p2, w
      <2>1. DayRead(bytes[3]) = IF w THEN dowToDS3231(d) ELSE d.d
            BY <1>1, <1>2, <1>4, DayFieldIs
      <2>2. FieldRead(bytes[2], 5) = d.hh
            BY <1>1, <1>2, <1>4, FieldIs
      <2>3. FieldRead(bytes[1], 6) = d.mm
            BY <1>1, <1>2, <1>4, FieldIs
      <2> QED BY <2>1, <2>2, <2>3
<1>8. ASSUME NEW t \in Dates PROVE Matches(bytes, t) <=> Due(alarm, t, FALSE)
      <2> DEFINE day == IF 6 \in bytes[3] THEN dowToDS3231(t) ELSE t.d
                 Same(i, field) == Bin(bin2bcd(field)) = bytes[i]
                 SameDay == Bin(bin2bcd(day)) = bytes[3] \ {6}
      <2>1. t \in AlarmDates /\ t.mm \in 0..59 /\ t.hh \in 0..59
            BY <1>1 DEF AlarmDates
      <2>2. Matches(bytes, t) <=> /\ 7 \in bytes[1] \/ Same(1, t.mm)
                                  /\ 7 \in bytes[2] \/ Same(2, t.hh)
                                  /\ 7 \in bytes[3] \/ SameDay
            <3> DEFINE fields == <<t.mm, t.hh, day>>
                       Holds3(i) == 7 \in bytes[i] \/
                                    Bin(bin2bcd(fields[i])) = bytes[i] \ (IF i = 3 THEN {6} ELSE {})
            <3>1. Matches(bytes, t) <=> \A i \in 1..3 : Holds3(i)
                  BY DEF Matches
            <3>2. (\A i \in 1..3 : Holds3(i)) <=> Holds3(1) /\ Holds3(2) /\ Holds3(3)
                  <4> HIDE DEF Holds3
                  <4> QED OBVIOUS
            <3>3. fields[1] = t.mm /\ fields[2] = t.hh /\ fields[3] = day
                  OBVIOUS
            <3> HIDE DEF fields
            <3> QED BY <3>1, <3>2, <3>3
      <2>3. /\ (7 \in bytes[1] <=> p0) /\ (~p0 => (Same(1, t.mm) <=> t.mm = d.mm))
            /\ (7 \in bytes[2] <=> p1) /\ (~p1 => (Same(2, t.hh) <=> t.hh = d.hh))
            <3> HIDE DEF d, p0, p1, p2, w
            <3>1. (7 \in bytes[1] <=> p0) /\ (~p0 => (Same(1, t.mm) <=> t.mm = d.mm))
                  BY <1>1, <1>2, <1>4, <2>1, FieldIs
            <3>2. (7 \in bytes[2] <=> p1) /\ (~p1 => (Same(2, t.hh) <=> t.hh = d.hh))
                  BY <1>1, <1>2, <1>4, <2>1, FieldIs
            <3> QED BY <3>1, <3>2
      <2>4. /\ (7 \in bytes[3] <=> p2)
            /\ ~p2 => (SameDay <=> IF w THEN dayOfTheWeek(d) = dayOfTheWeek(t) ELSE d.d = t.d)
            <3> HIDE DEF d, p0, p1, p2, w
            <3> QED BY <1>1, <1>2, <1>4, <2>1, DayFieldIs
      <2> HIDE DEF p0, p1, p2, w, day, Same, SameDay
      <2> QED BY <1>1, <1>3, <2>2, <2>3, <2>4 DEF Due, Names2
<1>9. <<DayRead(bytes[3]), FieldRead(bytes[2], 5), FieldRead(bytes[1], 6), 0>> =
        <<IF alarm.mode = "Day" THEN dowToDS3231(d) ELSE d.d, d.hh, d.mm, 0>>
      <2> HIDE DEF w
      <2> QED BY <1>3, <1>7
<1> QED BY <1>6, <1>8, <1>9 DEF AlarmAsAsked

--------------------------------------------------------------------------------
(* The DS3231: its driver.                                                  *)

\* What may be asked of a DS3231, and which registers hold it.
SqwOf(control) == IF 2 \in control THEN 28 ELSE Num(control \cap {2, 3, 4})
Asked3231 == [wave : Byte, alarm1 : AlarmCalls1 \cup {NoCall}, alarm2 : AlarmCalls2 \cup {NoCall},
              on : SUBSET {1, 2}, clock32K : BOOLEAN]
Control3231 == /\ asked.wave = SqwOf(regs[14])
               /\ asked.on = {i + 1 : i \in regs[14] \cap {0, 1}}
Status3231 == asked.clock32K <=> 3 \in regs[15]
Alarm1Held ==
    asked.alarm1 = NoCall \/
    \A i \in 1..4 : regs[6 + i] = Alarm1Bytes(asked.alarm1.date, Alarm1Mode[asked.alarm1.mode])[i]
Alarm2Held ==
    asked.alarm2 = NoCall \/
    \A i \in 1..3 : regs[10 + i] = Alarm2Bytes(asked.alarm2.date, Alarm2Mode[asked.alarm2.mode])[i]
Sets3231 == /\ asked \in Asked3231
            /\ Control3231 /\ Status3231 /\ Alarm1Held /\ Alarm2Held

\* What the getters of the DS3231 read from registers that hold what was asked for.
LEMMA Shows3231 == ASSUME device = "ds3231", Sets3231 PROVE Ds3231AsAsked
<1>1. asked.wave = readSqw3231
      BY DEF Sets3231, Control3231, SqwOf, readSqw3231, DS3231_CONTROL
<1>2. asked.on = {i + 1 : i \in regs[DS3231_CONTROL] \cap {0, 1}}
      BY DEF Sets3231, Control3231, DS3231_CONTROL
<1>3. asked.clock32K <=> isEnabled32K
      BY DEF Sets3231, Status3231, isEnabled32K, DS3231_STATUSREG
<1>4. ASSUME asked.alarm1 # NoCall
      PROVE  AlarmAsAsked(asked.alarm1, getAlarm1Mode, getAlarm1, BytesAt(DS3231_ALARM1, 4), TRUE)
      <2> DEFINE bytes == BytesAt(DS3231_ALARM1, 4)
      <2>1. asked.alarm1 \in AlarmCalls1
            BY <1>4 DEF Sets3231, Asked3231
      <2>2. Len(bytes) = 4 /\ \A i \in 1..4 : bytes[i] = regs[6 + i]
            <3>1. \A i \in 1..4 : 7 + i - 1 = 6 + i
                  OBVIOUS
            <3> QED BY <3>1 DEF BytesAt, DS3231_ALARM1
      <2>3. \A i \in 1..4 :
                bytes[i] = Alarm1Bytes(asked.alarm1.date, Alarm1Mode[asked.alarm1.mode])[i]
            BY <1>4, <2>2 DEF Sets3231, Alarm1Held
      <2> HIDE DEF bytes
      <2>4. AlarmAsAsked(asked.alarm1, Named(Alarm1Mode, ModeOf(bytes)),
                         <<DayRead(bytes[4]), FieldRead(bytes[3], 5), FieldRead(bytes[2], 6),
                           FieldRead(bytes[1], 6)>>, bytes, TRUE)
            BY <2>1, <2>2, <2>3, AlarmReads1, Zenon
      <2> QED BY <2>4, Zenon DEF bytes, getAlarm1Mode, getAlarm1
<1>5. ASSUME asked.alarm2 # NoCall
      PROVE  AlarmAsAsked(asked.alarm2, getAlarm2Mode, getAlarm2, BytesAt(DS3231_ALARM2, 3), FALSE)
      <2> DEFINE bytes == BytesAt(DS3231_ALARM2, 3)
      <2>1. asked.alarm2 \in AlarmCalls2
            BY <1>5 DEF Sets3231, Asked3231
      <2>2. Len(bytes) = 3 /\ \A i \in 1..3 : bytes[i] = regs[10 + i]
            <3>1. \A i \in 1..3 : 11 + i - 1 = 10 + i
                  OBVIOUS
            <3> QED BY <3>1 DEF BytesAt, DS3231_ALARM2
      <2>3. \A i \in 1..3 :
                bytes[i] = Alarm2Bytes(asked.alarm2.date, Alarm2Mode[asked.alarm2.mode])[i]
            BY <1>5, <2>2 DEF Sets3231, Alarm2Held
      <2> HIDE DEF bytes
      <2>4. AlarmAsAsked(asked.alarm2, Named(Alarm2Mode, ModeOf(bytes)),
                         <<DayRead(bytes[3]), FieldRead(bytes[2], 5), FieldRead(bytes[1], 6), 0>>,
                         bytes, FALSE)
            BY <2>1, <2>2, <2>3, AlarmReads2, Zenon
      <2> QED BY <2>4, Zenon DEF bytes, getAlarm2Mode, getAlarm2
<1> QED BY <1>1, <1>2, <1>3, <1>4, <1>5, Zenon DEF Ds3231AsAsked

\* What is asked for stays so typed.
LEMMA StillAsked3231 ==
    ASSUME NEW a \in Asked3231
    PROVE  /\ \A w \in Byte : [a EXCEPT !.wave = w] \in Asked3231
           /\ \A w \in AlarmCalls1 \cup {NoCall} : [a EXCEPT !.alarm1 = w] \in Asked3231
           /\ \A w \in AlarmCalls2 \cup {NoCall} : [a EXCEPT !.alarm2 = w] \in Asked3231
           /\ \A w \in SUBSET {1, 2} : [a EXCEPT !.on = w] \in Asked3231
           /\ \A w \in BOOLEAN : [a EXCEPT !.clock32K = w] \in Asked3231
BY DEF Asked3231

\* The alarms that are on, from the bits of the control register.
LEMMA OnIs ==
    ASSUME NEW on \in SUBSET {1, 2}, NEW control
    PROVE  on = {i + 1 : i \in control \cap {0, 1}}
           <=> ((1 \in on <=> 0 \in control) /\ (2 \in on <=> 1 \in control))
<1> DEFINE those == {i + 1 : i \in control \cap {0, 1}}
<1>1. those \subseteq {1, 2} /\ (1 \in those <=> 0 \in control) /\ (2 \in those <=> 1 \in control)
      OBVIOUS
<1> HIDE DEF those
<1>2. on = those <=> ((1 \in on <=> 1 \in those) /\ (2 \in on <=> 2 \in those))
      <2>1. ASSUME 1 \in on <=> 1 \in those, 2 \in on <=> 2 \in those
            PROVE  on = those
            <3>1. on \subseteq those
                  BY <2>1
            <3>2. those \subseteq on
                  BY <1>1, <2>1
            <3> QED BY <3>1, <3>2
      <2> QED BY <2>1
<1>3. on = those <=> ((1 \in on <=> 0 \in control) /\ (2 \in on <=> 1 \in control))
      BY <1>1, <1>2
<1> QED BY <1>3 DEF those

\* A square wave changes three bits of the control register, none of an alarm.
LEMMA Wave3231 ==
    ASSUME NEW wave \in {0, 8, 16, 24, 28}, NEW control \in SUBSET (0..7),
           NEW new, new = (control \ {2, 3, 4}) \cup Bin(wave)
    PROVE  /\ new \in SUBSET (0..7) /\ SqwOf(new) = wave
           /\ (0 \in new <=> 0 \in control) /\ (1 \in new <=> 1 \in control)
<1>1. wave \in 0..255 /\ wave \in Nat
      OBVIOUS
<1>2. Bin(wave) \subseteq {2, 3, 4} /\ (2 \in Bin(wave) <=> wave = 28)
      <2>1. CASE wave = 0
            BY <2>1, BinAt
      <2>2. CASE wave = 8
            BY <2>2, BinAt
      <2>3. CASE wave = 16
            BY <2>3, BinAt
      <2>4. CASE wave = 24
            BY <2>4, BinAt
      <2>5. CASE wave = 28
            BY <2>5, BinAt
      <2> QED BY <2>1, <2>2, <2>3, <2>4, <2>5
<1>3. new \cap {2, 3, 4} = Bin(wave)
      BY <1>2
<1>4. SqwOf(new) = wave
      <2>1. CASE wave = 28
            BY <1>2, <1>3, <2>1 DEF SqwOf
      <2>2. CASE wave # 28
            <3>1. 2 \notin new
                  BY <1>2, <2>2
            <3>2. Num(Bin(wave)) = wave
                  BY <1>1, NumBin
            <3> QED BY <1>3, <3>1, <3>2 DEF SqwOf
      <2> QED BY <2>1, <2>2
<1>5. Bin(wave) \subseteq 0..7 /\ 0 \notin Bin(wave) /\ 1 \notin Bin(wave)
      BY <1>2
<1>6. new \in SUBSET (0..7) /\ (0 \in new <=> 0 \in control) /\ (1 \in new <=> 1 \in control)
      <2>1. control \subseteq 0..7 /\ 0 \notin {2, 3, 4} /\ 1 \notin {2, 3, 4}
            OBVIOUS
      <2> DEFINE bits == Bin(wave)
                 rest == control \ {2, 3, 4}
      <2>2. /\ rest \subseteq control /\ (0 \in rest <=> 0 \in control)
            /\ (1 \in rest <=> 1 \in control) /\ new = rest \cup bits
            BY <2>1
      <2> HIDE DEF bits, rest
      <2>3. bits \subseteq 0..7 /\ 0 \notin bits /\ 1 \notin bits
            BY <1>5 DEF bits
      <2> QED BY ONLY <2>1, <2>2, <2>3
<1> QED BY <1>4, <1>6

\* The flags of a DS3231 are bits 0, 1 and 7 of its status.
LEMMA Flags3231 ==
    ASSUME device = "ds3231", device' = "ds3231"
    PROVE  /\ Flags = {"power", "alarm1", "alarm2"}
           /\ FlagAt("power") = <<15, 7>> /\ FlagAt("power")' = <<15, 7>>
           /\ FlagAt("alarm1") = <<15, 0>> /\ FlagAt("alarm1")' = <<15, 0>>
           /\ FlagAt("alarm2") = <<15, 1>> /\ FlagAt("alarm2")' = <<15, 1>>
BY DEF Flags, FlagAt, DS3231_STATUSREG

\* A call that keeps its hands off the status register, which has all the flags.
LEMMA OffStatus ==
    ASSUME ChipTypes, Fresh, device = "ds3231", device' = "ds3231", regs'[15] = regs[15],
           ClearedBy(calling) = {}
    PROVE  FlagsKept
<1>1. \A i \in 0..7 : i \in was[15] => i \in regs[15]
      <2>1. 15 \in Registers
            BY DEF Registers
      <2> QED BY <2>1 DEF Fresh
<1> QED BY <1>1, Flags3231 DEF FlagsKept, Shown

\* A call that writes what it read there, but for one flag.
LEMMA OnStatus ==
    ASSUME ChipTypes, Fresh, device = "ds3231", device' = "ds3231",
           7 \in regs'[15] <=> (7 \in was[15] /\ "power" \notin ClearedBy(calling)),
           0 \in regs'[15] <=> (0 \in was[15] /\ "alarm1" \notin ClearedBy(calling)),
           1 \in regs'[15] <=> (1 \in was[15] /\ "alarm2" \notin ClearedBy(calling))
    PROVE  FlagsKept
<1>1. \A i \in 0..7 : i \in was[15] => i \in regs[15]
      <2>1. 15 \in Registers
            BY DEF Registers
      <2> QED BY <2>1 DEF Fresh
<1> QED BY <1>1, Flags3231 DEF FlagsKept, Shown

\* Outside of the status register nothing came since the driver read; in it, the clock of
\* 32 kHz is no flag.
LEMMA Read3231 ==
    ASSUME ChipTypes, Fresh, device = "ds3231"
    PROVE  /\ \A a \in Registers : a # 15 => was[a] = regs[a]
           /\ 3 \in was[15] <=> 3 \in regs[15]
<1>1. /\ Flags = {"power", "alarm1", "alarm2"} /\ FlagAt("power") = <<15, 7>>
      /\ FlagAt("alarm1") = <<15, 0>> /\ FlagAt("alarm2") = <<15, 1>>
      BY DEF Flags, FlagAt, DS3231_STATUSREG
<1>2. ASSUME NEW a \in Registers, a # 15 PROVE was[a] = regs[a]
      <2>1. \A flag \in Flags : FlagAt(flag)[1] # a
            BY <1>1, <1>2
      <2> QED BY <2>1, NoFlagThere
<1>3. 3 \in was[15] <=> 3 \in regs[15]
      <2>1. 15 \in Registers /\ 3 \in 0..7
            BY DEF Registers
      <2>2. 3 \in regs[15] /\ 3 \notin was[15] =>
               \E flag \in Flags : FlagAt(flag) = <<15, 3>>
            BY <2>1 DEF Fresh
      <2>3. ~ \E flag \in Flags : FlagAt(flag) = <<15, 3>>
            BY <1>1
      <2> QED BY <2>1, <2>2, <2>3 DEF Fresh
<1> QED BY <1>2, <1>3

\* adjust(), clearAlarm() and the 32 kHz output share the status with the flags.
LEMMA Return3231Status ==
    ASSUME ChipTypes, Fresh, device = "ds3231", Sets3231, Return,
           \/ calling.f \in {"adjust", "enable32K", "disable32K"}
           \/ calling \in [f : {"clearAlarm"}, n : {1, 2}]
    PROVE  regs' \in RegisterFile /\ Sets3231' /\ FlagsKept
<1> DEFINE c == calling
           status == CASE c.f = "adjust" -> was[15] \ {7}
                       [] c.f = "enable32K" -> was[15] \cup {3}
                       [] c.f = "disable32K" -> was[15] \ {3}
                       [] c.f = "clearAlarm" -> was[15] \ {c.n - 1}
<1>1. /\ c.f \in {"adjust", "enable32K", "disable32K", "clearAlarm"}
      /\ c.f = "clearAlarm" => c.n \in {1, 2}
      OBVIOUS
<1>2. ~ Refused(c, was)
      BY <1>1 DEF Refused
<1>3. /\ regs' = Written(regs, Ds3231Writes(c, was)) /\ asked' = Wish(asked, c)
      /\ device' = "ds3231" /\ regs \in RegisterFile /\ asked \in Asked3231
      BY <1>2 DEF ChipTypes, Return, Writes, Sets3231
<1>4. regs' = Written(regs, <<Put(15, status)>>)
      BY <1>1, <1>3 DEF Ds3231Writes, adjust3231, enable32K, disable32K, clearAlarm, PutStatus,
                        DS3231_STATUSREG
<1>5. /\ status \in SUBSET (0..7)
      /\ 3 \in status <=> c.f = "enable32K" \/ (c.f # "disable32K" /\ 3 \in was[15])
      /\ 7 \in status <=> 7 \in was[15] /\ c.f # "adjust"
      /\ 0 \in status <=> 0 \in was[15] /\ ~ (c.f = "clearAlarm" /\ c.n = 1)
      /\ 1 \in status <=> 1 \in was[15] /\ ~ (c.f = "clearAlarm" /\ c.n = 2)
      <2>1. was[15] \in SUBSET (0..7)
            BY DEF ChipTypes, RegisterFile, Registers
      <2> QED BY <1>1, <2>1
<1> HIDE DEF status
<1>6. /\ regs' \in RegisterFile /\ regs'[15] = status
      /\ \A b \in Registers : b # 15 => regs'[b] = regs[b]
      <2> DEFINE a == 15
      <2>1. /\ a \in Registers /\ regs \in RegisterFile /\ status \in SUBSET (0..7)
            /\ regs' = Written(regs, <<Put(a, status)>>)
            BY <1>3, <1>4, <1>5 DEF Registers
      <2> HIDE DEF a
      <2>2. /\ regs' \in RegisterFile /\ regs'[a] = status
            /\ \A b \in Registers : b # a => regs'[b] = regs[b]
            BY ONLY <2>1, OneWrite, SMT
      <2> QED BY <2>2 DEF a
<1>7. asked' = IF c.f \in {"enable32K", "disable32K"}
               THEN [asked EXCEPT !.clock32K = (c.f = "enable32K")] ELSE asked
      <2>1. CASE c.f = "adjust"
            BY <1>3, <2>1 DEF Wish
      <2>2. CASE c.f = "enable32K"
            BY <1>3, <2>2 DEF Wish
      <2>3. CASE c.f = "disable32K"
            BY <1>3, <2>3 DEF Wish
      <2>4. CASE c.f = "clearAlarm"
            BY <1>3, <2>4 DEF Wish
      <2> QED BY <1>1, <2>1, <2>2, <2>3, <2>4
<1>8. asked' \in Asked3231
      BY <1>3, <1>7, StillAsked3231
<1>9. /\ asked'.wave = asked.wave /\ asked'.on = asked.on
      /\ asked'.alarm1 = asked.alarm1 /\ asked'.alarm2 = asked.alarm2
      /\ asked'.clock32K <=> c.f = "enable32K" \/ (c.f # "disable32K" /\ asked.clock32K)
      <2>1. asked.clock32K \in BOOLEAN
            BY <1>3 DEF Asked3231
      <2> QED BY <1>3, <1>7, <2>1 DEF Asked3231
<1>10. Status3231'
       BY <1>5, <1>6, <1>9, Read3231 DEF Sets3231, Status3231
<1>11. Control3231' /\ Alarm1Held' /\ Alarm2Held'
       <2>1. /\ regs'[14] = regs[14] /\ \A i \in 1..4 : regs'[6 + i] = regs[6 + i]
             /\ \A i \in 1..3 : regs'[10 + i] = regs[10 + i]
             BY <1>6 DEF Registers
       <2> QED BY <1>9, <2>1 DEF Sets3231, Control3231, Alarm1Held, Alarm2Held
<1>12. FlagsKept
       <2>1. ClearedBy(c) = CASE c.f = "adjust" -> {"power"}
                              [] c.f = "clearAlarm" -> {<<"alarm1", "alarm2">>[c.n]}
                              [] OTHER -> {}
             BY DEF ClearedBy
       <2>2. /\ "power" \in ClearedBy(c) <=> c.f = "adjust"
             /\ "alarm1" \in ClearedBy(c) <=> (c.f = "clearAlarm" /\ c.n = 1)
             /\ "alarm2" \in ClearedBy(c) <=> (c.f = "clearAlarm" /\ c.n = 2)
             <3>1. CASE c.f = "clearAlarm" /\ c.n = 1
                   BY <2>1, <3>1
             <3>2. CASE c.f = "clearAlarm" /\ c.n = 2
                   BY <2>1, <3>2
             <3>3. CASE c.f # "clearAlarm"
                   BY <1>1, <2>1, <3>3
             <3> QED BY <1>1, <3>1, <3>2, <3>3
       <2> HIDE DEF c
       <2>3. /\ 7 \in regs'[15] <=> (7 \in was[15] /\ "power" \notin ClearedBy(c))
             /\ 0 \in regs'[15] <=> (0 \in was[15] /\ "alarm1" \notin ClearedBy(c))
             /\ 1 \in regs'[15] <=> (1 \in was[15] /\ "alarm2" \notin ClearedBy(c))
             BY <1>5, <1>6, <2>2
       <2> QED BY <1>3, <2>3, OnStatus DEF c
<1> QED BY <1>6, <1>8, <1>10, <1>11, <1>12 DEF Sets3231

\* The square wave and the alarms that are on share the control register.
LEMMA Return3231Control ==
    ASSUME ChipTypes, Fresh, device = "ds3231", Sets3231, Return,
           \/ calling \in SetSquareWave("ds3231")
           \/ calling \in [f : {"disableAlarm"}, n : {1, 2}]
    PROVE  regs' \in RegisterFile /\ Sets3231' /\ FlagsKept
<1> DEFINE c == calling
           control == IF c.f = "disableAlarm" THEN regs[14] \ {c.n - 1}
                      ELSE (regs[14] \ {2, 3, 4}) \cup Bin(c.mode)
<1>1. \/ c.f = "disableAlarm" /\ c.n \in {1, 2}
      \/ c.f = "writeSqwPinMode" /\ c.mode \in {0, 8, 16, 24, 28}
      BY ClockChipsAssumption DEF SetSquareWave, SqwPinModes
<1>2. ~ Refused(c, was)
      BY <1>1 DEF Refused
<1>3. /\ regs' = Written(regs, Ds3231Writes(c, was)) /\ asked' = Wish(asked, c)
      /\ device' = "ds3231" /\ regs \in RegisterFile /\ asked \in Asked3231
      /\ asked.on \in SUBSET {1, 2}
      BY <1>2 DEF ChipTypes, Return, Writes, Sets3231, Asked3231
<1>4. was[14] = regs[14] /\ regs[14] \in SUBSET (0..7)
      <2>1. 14 \in Registers
            BY DEF Registers
      <2> QED BY <1>3, <2>1, Read3231 DEF RegisterFile
<1>5. regs' = Written(regs, <<Put(14, control)>>)
      BY <1>1, <1>3, <1>4 DEF Ds3231Writes, writeSqw3231, disableAlarm, DS3231_CONTROL
<1>6. /\ control \in SUBSET (0..7)
      /\ SqwOf(control) = IF c.f = "disableAlarm" THEN asked.wave ELSE c.mode
      /\ 0 \in control <=> 0 \in regs[14] /\ ~ (c.f = "disableAlarm" /\ c.n = 1)
      /\ 1 \in control <=> 1 \in regs[14] /\ ~ (c.f = "disableAlarm" /\ c.n = 2)
      <2>1. CASE c.f = "disableAlarm"
            <3>1. /\ control \cap {2, 3, 4} = regs[14] \cap {2, 3, 4}
                  /\ 2 \in control <=> 2 \in regs[14]
                  BY <1>1, <2>1
            <3>2. SqwOf(control) = SqwOf(regs[14])
                  <4> HIDE DEF control
                  <4> QED BY <3>1 DEF SqwOf
            <3> QED BY <1>1, <1>4, <2>1, <3>2 DEF Sets3231, Control3231
      <2>2. CASE c.f = "writeSqwPinMode"
            <3> DEFINE old == regs[14]
                       wave == c.mode
            <3>1. /\ old \in SUBSET (0..7) /\ wave \in {0, 8, 16, 24, 28}
                  /\ control = (old \ {2, 3, 4}) \cup Bin(wave)
                  BY <1>1, <1>4, <2>2
            <3> HIDE DEF old, wave, control
            <3>2. /\ control \in SUBSET (0..7) /\ SqwOf(control) = wave
                  /\ (0 \in control <=> 0 \in old) /\ (1 \in control <=> 1 \in old)
                  BY ONLY <3>1, Wave3231, SMT
            <3> QED BY <2>2, <3>2 DEF old, wave
      <2> QED BY <1>1, <2>1, <2>2
<1> HIDE DEF control
<1>7. /\ regs' \in RegisterFile /\ regs'[14] = control
      /\ \A b \in Registers : b # 14 => regs'[b] = regs[b]
      <2> DEFINE a == 14
      <2>1. /\ a \in Registers /\ regs \in RegisterFile /\ control \in SUBSET (0..7)
            /\ regs' = Written(regs, <<Put(a, control)>>)
            BY <1>3, <1>5, <1>6 DEF Registers
      <2> HIDE DEF a
      <2>2. /\ regs' \in RegisterFile /\ regs'[a] = control
            /\ \A b \in Registers : b # a => regs'[b] = regs[b]
            BY ONLY <2>1, OneWrite, SMT
      <2> QED BY <2>2 DEF a
<1>8. asked' = IF c.f = "disableAlarm" THEN [asked EXCEPT !.on = asked.on \ {c.n}]
               ELSE [asked EXCEPT !.wave = c.mode]
      <2>1. CASE c.f = "disableAlarm"
            BY <1>3, <2>1 DEF Wish
      <2>2. CASE c.f = "writeSqwPinMode"
            BY <1>1, <1>3, <2>2 DEF Wish
      <2> QED BY <1>1, <2>1, <2>2
<1>9. asked' \in Asked3231
      <2>1. CASE c.f = "disableAlarm"
            <3> DEFINE on == asked.on \ {c.n}
            <3>1. on \in SUBSET {1, 2}
                  BY <1>3
            <3> HIDE DEF on
            <3>2. [asked EXCEPT !.on = on] \in Asked3231
                  BY <1>3, <3>1, StillAsked3231, Zenon
            <3> QED BY <1>8, <2>1, <3>2 DEF on
      <2>2. CASE c.f = "writeSqwPinMode"
            <3>1. c.mode \in Byte
                  BY <1>1, <2>2 DEF Byte
            <3> QED BY <1>3, <1>8, <2>2, <3>1, StillAsked3231
      <2> QED BY <1>1, <2>1, <2>2
<1>10. /\ asked'.wave = SqwOf(control) /\ asked'.clock32K = asked.clock32K
       /\ asked'.alarm1 = asked.alarm1 /\ asked'.alarm2 = asked.alarm2
       /\ asked'.on = IF c.f = "disableAlarm" THEN asked.on \ {c.n} ELSE asked.on
       BY <1>1, <1>3, <1>6, <1>8 DEF Asked3231
<1>11. Control3231'
       <2>1. (1 \in asked.on <=> 0 \in regs[14]) /\ (2 \in asked.on <=> 1 \in regs[14])
             BY <1>3, OnIs DEF Sets3231, Control3231
       <2>2. /\ asked'.on \in SUBSET {1, 2}
             /\ (1 \in asked'.on <=> 0 \in control) /\ (2 \in asked'.on <=> 1 \in control)
             BY <1>1, <1>3, <1>6, <1>10, <2>1
       <2>3. asked'.on = {i + 1 : i \in control \cap {0, 1}}
             BY <2>2, OnIs
       <2> QED BY <1>7, <1>10, <2>3 DEF Control3231
<1>12. Status3231' /\ Alarm1Held' /\ Alarm2Held' /\ regs'[15] = regs[15]
       <2>1. /\ regs'[15] = regs[15] /\ \A i \in 1..4 : regs'[6 + i] = regs[6 + i]
             /\ \A i \in 1..3 : regs'[10 + i] = regs[10 + i]
             BY <1>7 DEF Registers
       <2> QED BY <1>10, <2>1 DEF Sets3231, Status3231, Alarm1Held, Alarm2Held
<1>13. ClearedBy(calling) = {}
       BY <1>1 DEF ClearedBy
<1> QED BY <1>3, <1>7, <1>9, <1>11, <1>12, <1>13, OffStatus DEF Sets3231

\* The bytes of an alarm, one after the other, and then the control register.
BitSets == SUBSET (0..7)
ByteSeqs == Seq(SUBSET (0..7))
AlarmIn(new, old, a, bytes, control) ==
    /\ new \in RegisterFile /\ new[14] = control
    /\ \A i \in 1..Len(bytes) : new[a + i - 1] = bytes[i]
    /\ \A b \in Registers : b # 14 /\ ~ (a <= b /\ b < a + Len(bytes)) => new[b] = old[b]

\* An alarm is written whole, and the other one is not touched.
LEMMA AlarmWritten ==
    ASSUME NEW r \in RegisterFile, NEW a \in Nat, NEW bytes \in ByteSeqs,
           a + Len(bytes) <= 14, NEW control \in BitSets
    PROVE  AlarmIn(Written(r, PutAll(a, bytes) \o <<Put(14, control)>>), r, a, bytes, control)
<1> DEFINE new == Written(r, PutAll(a, bytes) \o <<Put(14, control)>>)
<1>0. bytes \in Seq(SUBSET (0..7)) /\ control \in SUBSET (0..7)
      BY DEF ByteSeqs, BitSets
<1> DEFINE n == Len(bytes)
           Bits == SUBSET (0..7)
           S == Nat \X Bits
           first == PutAll(a, bytes)
           last == <<Put(14, control)>>
           writes == first \o last
<1>1. /\ n \in Nat /\ first \in Seq(S) /\ Len(first) = n
      /\ \A i \in 1..n : first[i][1] = a + i - 1 /\ first[i][2] = bytes[i] /\ bytes[i] \in Bits
      <2>1. n \in Nat /\ \A i \in 1..n : bytes[i] \in Bits
            BY <1>0
      <2> HIDE DEF Bits
      <2>2. first = [i \in 1..n |-> <<a + i - 1, bytes[i]>>]
            BY DEF PutAll, Put
      <2>3. \A i \in 1..n : <<a + i - 1, bytes[i]>> \in S
            BY <2>1
      <2> HIDE DEF S, n, first
      <2>4. first \in [1..n -> S]
            BY <2>2, <2>3
      <2>5. first \in Seq(S) /\ Len(first) = n
            BY <2>1, <2>4
      <2> QED BY <2>1, <2>2, <2>5
<1>2. last \in Seq(S) /\ Len(last) = 1 /\ last[1][1] = 14 /\ last[1][2] = control
      <2>1. control \in Bits /\ 14 \in Nat
            BY <1>0
      <2> HIDE DEF Bits
      <2> QED BY <2>1 DEF Put
<1> HIDE DEF S, first, last, n
<1>3. /\ Len(writes) = n + 1
      /\ \A i \in 1..(n + 1) : writes[i] = IF i <= n THEN first[i] ELSE last[i - n]
      <2>1. first \in Seq(S) /\ last \in Seq(S) /\ Len(first) = n /\ Len(last) = 1
            BY <1>1, <1>2
      <2>2. /\ Len(first \o last) = Len(first) + Len(last)
            /\ \A i \in 1..(Len(first) + Len(last)) :
                  (first \o last)[i] = IF i <= Len(first) THEN first[i] ELSE last[i - Len(first)]
            BY ONLY <2>1, ConcatProperties
      <2> QED BY <2>1, <2>2
<1> HIDE DEF writes, Bits
<1>4. /\ Len(writes) \in Nat /\ 1..Len(writes) = 1..(n + 1)
      /\ \A i \in 1..n : writes[i][1] = a + i - 1 /\ writes[i][2] = bytes[i]
                           /\ writes[i][2] \in Bits
      /\ writes[n + 1][1] = 14 /\ writes[n + 1][2] = control /\ control \in Bits
      <2>1. (n + 1) - n = 1
            BY <1>1
      <2>2. ASSUME NEW i \in 1..n
            PROVE  writes[i][1] = a + i - 1 /\ writes[i][2] = bytes[i] /\ writes[i][2] \in Bits
            <3>1. i \in 1..(n + 1) /\ i <= n
                  BY <1>1
            <3> QED BY <1>1, <1>3, <3>1
      <2>3. writes[n + 1] = last[1]
            <3>1. n + 1 \in 1..(n + 1) /\ ~ (n + 1 <= n)
                  BY <1>1
            <3> QED BY <1>3, <2>1, <3>1
      <2>4. Len(writes) \in Nat /\ 1..Len(writes) = 1..(n + 1)
            BY <1>1, <1>3
      <2> QED BY <1>0, <1>2, <2>2, <2>3, <2>4 DEF Bits
<1>5. new = Written(r, writes)
      BY DEF writes, first, last
<1> HIDE DEF new
<1>6. \A k \in 1..Len(writes) : writes[k][2] \in SUBSET (0..7)
      <2>1. \A k \in 1..(n + 1) : writes[k][2] \in Bits
            <3>1. ASSUME NEW k \in 1..(n + 1) PROVE writes[k][2] \in Bits
                  <4>1. k \in 1..n \/ k = n + 1
                        BY <1>1
                  <4> QED BY <1>4, <4>1
            <3> QED BY <3>1
      <2> QED BY <1>4, <2>1 DEF Bits
<1>7. new \in RegisterFile
      BY <1>4, <1>5, <1>6, WrittenType, Zenon
<1>8. a + n <= 14
      BY DEF n
<1>9. new[14] = control
      <2> DEFINE k == n + 1
                 b == 14
      <2>1. /\ k \in 1..Len(writes) /\ b \in Registers /\ writes[k][1] = b
            /\ \A j \in 1..Len(writes) : j > k => writes[j][1] # b
            BY <1>1, <1>4 DEF Registers
      <2>2. writes[k][2] = control
            BY <1>4
      <2> HIDE DEF k, b
      <2>3. Written(r, writes)[b] = writes[k][2]
            BY ONLY <1>4, <2>1, r \in RegisterFile, WrittenAt, SMT
      <2> QED BY <1>5, <2>2, <2>3 DEF b
<1>10. ASSUME NEW i \in 1..n PROVE new[a + i - 1] = bytes[i]
       <2> DEFINE b == a + i - 1
       <2>1. /\ i \in 1..Len(writes) /\ b \in Registers /\ writes[i][1] = b
             /\ writes[i][2] = bytes[i]
             <3>0. n \in Nat
                   BY <1>1
             <3>1. b \in 0..63
                   BY ONLY <3>0, <1>8, a \in Nat, i \in 1..n
             <3>2. i \in 1..Len(writes)
                   BY <1>1, <1>4
             <3> QED BY <1>4, <3>1, <3>2 DEF Registers
       <2>2. ASSUME NEW j \in 1..Len(writes), j > i PROVE writes[j][1] # b
             <3>1. CASE j \in 1..n
                   BY <1>1, <1>4, <2>2, <3>1
             <3>2. CASE j = n + 1
                   BY <1>1, <1>4, <1>8, <3>2
             <3> QED BY <1>1, <1>4, <3>1, <3>2
       <2> HIDE DEF b
       <2>3. Written(r, writes)[b] = writes[i][2]
             BY ONLY <1>4, <2>1, <2>2, r \in RegisterFile, WrittenAt, SMT
       <2> QED BY <1>5, <2>1, <2>3 DEF b
<1>11. ASSUME NEW b \in Registers, b # 14, ~ (a <= b /\ b < a + n) PROVE new[b] = r[b]
       <2>1. ASSUME NEW k \in 1..Len(writes) PROVE writes[k][1] # b
             <3>1. CASE k \in 1..n
                   <4>1. writes[k][1] = a + k - 1
                         BY <1>4, <3>1
                   <4>2. b \in Int /\ k \in Int
                         BY <3>1 DEF Registers
                   <4>3. a + k - 1 # b
                         BY ONLY <1>1, <1>11, <3>1, <4>2, a \in Nat
                   <4> QED BY <4>1, <4>3
             <3>2. CASE k = n + 1
                   BY <1>4, <1>11, <3>2
             <3> QED BY <1>1, <1>4, <3>1, <3>2
       <2> QED BY ONLY <1>4, <1>5, <2>1, b \in Registers, r \in RegisterFile, WrittenAt, SMT
<1>12. AlarmIn(new, r, a, bytes, control)
       BY <1>7, <1>9, <1>10, <1>11 DEF n, AlarmIn
<1> QED BY <1>12 DEF new

\* The bytes are bytes.
LEMMA AlarmBytes ==
    /\ \A c \in AlarmCalls1 :
          /\ Alarm1Bytes(c.date, Alarm1Mode[c.mode]) \in Seq(SUBSET (0..7))
          /\ Len(Alarm1Bytes(c.date, Alarm1Mode[c.mode])) = 4
    /\ \A c \in AlarmCalls2 :
          /\ Alarm2Bytes(c.date, Alarm2Mode[c.mode]) \in Seq(SUBSET (0..7))
          /\ Len(Alarm2Bytes(c.date, Alarm2Mode[c.mode])) = 3
<1>0. Dates \subseteq AlarmDates
      BY ClockChipsAssumption
<1>1. ASSUME NEW date \in AlarmDates
      PROVE  /\ date.ss \in 0..59 /\ date.mm \in 0..59 /\ date.hh \in 0..59
      BY DEF AlarmDates
<1> DEFINE Bits == SUBSET (0..7)
<1>2. ASSUME NEW v \in 0..59, NEW p \in BOOLEAN PROVE Field(v, p) \in Bits
      BY FieldIs
<1>3. ASSUME NEW date \in AlarmDates, NEW p \in BOOLEAN, NEW w \in BOOLEAN
      PROVE  DayField(date, p, w) \in Bits
      BY DayFieldIs
<1> HIDE DEF Bits
<1>4. ASSUME NEW date \in AlarmDates, NEW m
      PROVE  /\ Alarm1Bytes(date, m) \in Seq(Bits) /\ Len(Alarm1Bytes(date, m)) = 4
             /\ Alarm2Bytes(date, m) \in Seq(Bits) /\ Len(Alarm2Bytes(date, m)) = 3
      <2> DEFINE p0 == 0 \in Bin(m)
                 p1 == 1 \in Bin(m)
                 p2 == 2 \in Bin(m)
                 p3 == 3 \in Bin(m)
                 p4 == 4 \in Bin(m)
                 one == Field(date.ss, p0)
                 two == Field(date.mm, p1)
                 three == Field(date.hh, p2)
                 four == DayField(date, p3, p4)
                 five == Field(date.mm, p0)
                 six == Field(date.hh, p1)
                 seven == DayField(date, p2, p3)
      <2>1. p0 \in BOOLEAN /\ p1 \in BOOLEAN /\ p2 \in BOOLEAN /\ p3 \in BOOLEAN /\ p4 \in BOOLEAN
            OBVIOUS
      <2>2. {one, two, three, four, five, six, seven} \subseteq Bits
            <3> HIDE DEF p0, p1, p2, p3, p4
            <3>1. one \in Bits /\ two \in Bits /\ three \in Bits /\ five \in Bits /\ six \in Bits
                  BY <1>1, <1>2, <2>1
            <3>2. four \in Bits /\ seven \in Bits
                  BY <1>3, <2>1
            <3> HIDE DEF one, two, three, four, five, six, seven
            <3> QED BY <3>1, <3>2
      <2>3. /\ Alarm1Bytes(date, m) = <<one, two, three, four>>
            /\ Alarm2Bytes(date, m) = <<five, six, seven>>
            BY DEF Alarm1Bytes, Alarm2Bytes
      <2> HIDE DEF one, two, three, four, five, six, seven
      <2>4. <<one, two, three, four>> \in Seq(Bits) /\ <<five, six, seven>> \in Seq(Bits)
            BY <2>2
      <2> QED BY <2>3, <2>4
<1> QED BY <1>0, <1>4 DEF AlarmCalls1, AlarmCalls2, Bits

\* setAlarm1(), unless it is refused,
LEMMA Return3231Alarm1 ==
    ASSUME ChipTypes, Fresh, device = "ds3231", Sets3231, Return, calling \in AlarmCalls1,
           ~ Refused(calling, was)
    PROVE  regs' \in RegisterFile /\ Sets3231' /\ FlagsKept
<1> DEFINE c == calling
           bytes == Alarm1Bytes(c.date, Alarm1Mode[c.mode])
           control == regs[14] \cup {0}
           start == 7
           on == asked.on \cup {1}
<1>1. c.f = "setAlarm1"
      BY DEF AlarmCalls1
<1>2. /\ regs' = Written(regs, Ds3231Writes(c, was)) /\ asked' = Wish(asked, c)
      /\ device' = "ds3231" /\ regs \in RegisterFile /\ asked \in Asked3231
      /\ asked.on \in SUBSET {1, 2}
      BY DEF ChipTypes, Return, Writes, Sets3231, Asked3231
<1>3. was[14] = regs[14] /\ regs[14] \in SUBSET (0..7)
      <2>1. 14 \in Registers
            BY DEF Registers
      <2> QED BY <1>2, <2>1, Read3231 DEF RegisterFile
<1>4. bytes \in Seq(SUBSET (0..7)) /\ Len(bytes) = 4
      BY AlarmBytes
<1> HIDE DEF bytes
<1>5. regs' = Written(regs, PutAll(start, bytes) \o <<Put(14, control)>>)
      BY <1>1, <1>2, <1>3, Zenon DEF Ds3231Writes, DS3231_ALARM1, DS3231_CONTROL, bytes
<1>6. /\ control \in SUBSET (0..7) /\ SqwOf(control) = asked.wave
      /\ 0 \in control
      /\ 1 \in control <=> 1 \in regs[14]
      <2>1. /\ control \cap {2, 3, 4} = regs[14] \cap {2, 3, 4}
            /\ 2 \in control <=> 2 \in regs[14]
            OBVIOUS
      <2>2. SqwOf(control) = SqwOf(regs[14])
            <3> HIDE DEF control
            <3> QED BY <2>1 DEF SqwOf
      <2> QED BY <1>3, <2>2 DEF Sets3231, Control3231
<1>7. start \in Nat /\ start + Len(bytes) <= 14
      BY <1>4
<1> HIDE DEF control, start
<1>8. /\ regs' \in RegisterFile /\ regs'[14] = control
      /\ \A i \in 1..Len(bytes) : regs'[start + i - 1] = bytes[i]
      /\ \A b \in Registers : b # 14 /\ ~ (start <= b /\ b < start + Len(bytes))
                                  => regs'[b] = regs[b]
      <2>1. /\ regs \in RegisterFile /\ start \in Nat /\ bytes \in ByteSeqs
            /\ start + Len(bytes) <= 14 /\ control \in BitSets
            BY <1>2, <1>4, <1>6, <1>7 DEF ByteSeqs, BitSets
      <2>2. AlarmIn(Written(regs, PutAll(start, bytes) \o <<Put(14, control)>>), regs, start,
                    bytes, control)
            BY ONLY <2>1, AlarmWritten, Zenon
      <2> QED BY <1>5, <2>2 DEF AlarmIn
<1>9. asked' = [asked EXCEPT !.alarm1 = c, !.on = on]
      BY <1>1, <1>2 DEF Wish
<1>10. asked' \in Asked3231
       <2>1. on \in SUBSET {1, 2} /\ c \in AlarmCalls1 \cup {NoCall}
             BY <1>2
       <2> HIDE DEF on, c
       <2>2. [asked EXCEPT !.alarm1 = c] \in Asked3231
             BY <1>2, <2>1, StillAsked3231, Zenon
       <2>3. [[asked EXCEPT !.alarm1 = c] EXCEPT !.on = on] \in Asked3231
             BY <2>1, <2>2, StillAsked3231, Zenon
       <2> QED BY <1>9, <2>3
<1>11. /\ asked'.wave = asked.wave /\ asked'.clock32K = asked.clock32K
       /\ asked'.alarm1 = c /\ asked'.alarm2 = asked.alarm2 /\ asked'.on = on
       BY <1>2, <1>9 DEF Asked3231
<1>12. Control3231'
       <2>1. (1 \in asked.on <=> 0 \in regs[14]) /\ (2 \in asked.on <=> 1 \in regs[14])
             BY <1>2, OnIs DEF Sets3231, Control3231
       <2>2. /\ on \in SUBSET {1, 2}
             /\ (1 \in on <=> 0 \in control) /\ (2 \in on <=> 1 \in control)
             BY <1>2, <1>6, <2>1
       <2> HIDE DEF on
       <2>3. on = {i + 1 : i \in control \cap {0, 1}}
             BY <2>2, OnIs
       <2> QED BY <1>6, <1>8, <1>11, <2>3 DEF Control3231
<1>13. Alarm1Held'
       <2>1. \A i \in 1..4 : regs'[6 + i] = bytes[i]
             <3>1. \A i \in 1..4 : start + i - 1 = 6 + i
                   BY DEF start
             <3> QED BY <1>4, <1>8, <3>1
       <2>2. bytes = Alarm1Bytes(asked'.alarm1.date, Alarm1Mode[asked'.alarm1.mode])
             BY <1>11 DEF bytes
       <2> QED BY <2>1, <2>2 DEF Alarm1Held
<1>14. Status3231' /\ Alarm2Held' /\ regs'[15] = regs[15]
       <2>1. /\ regs'[15] = regs[15]
             /\ \A i \in 1..3 : regs'[10 + i] = regs[10 + i]
             BY <1>4, <1>8 DEF Registers, start
       <2> QED BY <1>11, <2>1 DEF Sets3231, Status3231, Alarm2Held
<1>15. ClearedBy(calling) = {}
       BY <1>1 DEF ClearedBy
<1> QED BY <1>2, <1>8, <1>10, <1>12, <1>13, <1>14, <1>15, OffStatus DEF Sets3231

\* and setAlarm2(): the alarm is as asked for and on, and the other one as it was.
LEMMA Return3231Alarm2 ==
    ASSUME ChipTypes, Fresh, device = "ds3231", Sets3231, Return, calling \in AlarmCalls2,
           ~ Refused(calling, was)
    PROVE  regs' \in RegisterFile /\ Sets3231' /\ FlagsKept
<1> DEFINE c == calling
           bytes == Alarm2Bytes(c.date, Alarm2Mode[c.mode])
           control == regs[14] \cup {1}
           start == 11
           on == asked.on \cup {2}
<1>1. c.f = "setAlarm2"
      BY DEF AlarmCalls2
<1>2. /\ regs' = Written(regs, Ds3231Writes(c, was)) /\ asked' = Wish(asked, c)
      /\ device' = "ds3231" /\ regs \in RegisterFile /\ asked \in Asked3231
      /\ asked.on \in SUBSET {1, 2}
      BY DEF ChipTypes, Return, Writes, Sets3231, Asked3231
<1>3. was[14] = regs[14] /\ regs[14] \in SUBSET (0..7)
      <2>1. 14 \in Registers
            BY DEF Registers
      <2> QED BY <1>2, <2>1, Read3231 DEF RegisterFile
<1>4. bytes \in Seq(SUBSET (0..7)) /\ Len(bytes) = 3
      BY AlarmBytes
<1> HIDE DEF bytes
<1>5. regs' = Written(regs, PutAll(start, bytes) \o <<Put(14, control)>>)
      BY <1>1, <1>2, <1>3, Zenon DEF Ds3231Writes, DS3231_ALARM2, DS3231_CONTROL, bytes
<1>6. /\ control \in SUBSET (0..7) /\ SqwOf(control) = asked.wave
      /\ 0 \in control <=> 0 \in regs[14]
      /\ 1 \in control
      <2>1. /\ control \cap {2, 3, 4} = regs[14] \cap {2, 3, 4}
            /\ 2 \in control <=> 2 \in regs[14]
            OBVIOUS
      <2>2. SqwOf(control) = SqwOf(regs[14])
            <3> HIDE DEF control
            <3> QED BY <2>1 DEF SqwOf
      <2> QED BY <1>3, <2>2 DEF Sets3231, Control3231
<1>7. start \in Nat /\ start + Len(bytes) <= 14
      BY <1>4
<1> HIDE DEF control, start
<1>8. /\ regs' \in RegisterFile /\ regs'[14] = control
      /\ \A i \in 1..Len(bytes) : regs'[start + i - 1] = bytes[i]
      /\ \A b \in Registers : b # 14 /\ ~ (start <= b /\ b < start + Len(bytes))
                                  => regs'[b] = regs[b]
      <2>1. /\ regs \in RegisterFile /\ start \in Nat /\ bytes \in ByteSeqs
            /\ start + Len(bytes) <= 14 /\ control \in BitSets
            BY <1>2, <1>4, <1>6, <1>7 DEF ByteSeqs, BitSets
      <2>2. AlarmIn(Written(regs, PutAll(start, bytes) \o <<Put(14, control)>>), regs, start,
                    bytes, control)
            BY ONLY <2>1, AlarmWritten, Zenon
      <2> QED BY <1>5, <2>2 DEF AlarmIn
<1>9. asked' = [asked EXCEPT !.alarm2 = c, !.on = on]
      BY <1>1, <1>2 DEF Wish
<1>10. asked' \in Asked3231
       <2>1. on \in SUBSET {1, 2} /\ c \in AlarmCalls2 \cup {NoCall}
             BY <1>2
       <2> HIDE DEF on, c
       <2>2. [asked EXCEPT !.alarm2 = c] \in Asked3231
             BY <1>2, <2>1, StillAsked3231, Zenon
       <2>3. [[asked EXCEPT !.alarm2 = c] EXCEPT !.on = on] \in Asked3231
             BY <2>1, <2>2, StillAsked3231, Zenon
       <2> QED BY <1>9, <2>3
<1>11. /\ asked'.wave = asked.wave /\ asked'.clock32K = asked.clock32K
       /\ asked'.alarm2 = c /\ asked'.alarm1 = asked.alarm1 /\ asked'.on = on
       BY <1>2, <1>9 DEF Asked3231
<1>12. Control3231'
       <2>1. (1 \in asked.on <=> 0 \in regs[14]) /\ (2 \in asked.on <=> 1 \in regs[14])
             BY <1>2, OnIs DEF Sets3231, Control3231
       <2>2. /\ on \in SUBSET {1, 2}
             /\ (1 \in on <=> 0 \in control) /\ (2 \in on <=> 1 \in control)
             BY <1>2, <1>6, <2>1
       <2> HIDE DEF on
       <2>3. on = {i + 1 : i \in control \cap {0, 1}}
             BY <2>2, OnIs
       <2> QED BY <1>6, <1>8, <1>11, <2>3 DEF Control3231
<1>13. Alarm2Held'
       <2>1. \A i \in 1..3 : regs'[10 + i] = bytes[i]
             <3>1. \A i \in 1..3 : start + i - 1 = 10 + i
                   BY DEF start
             <3> QED BY <1>4, <1>8, <3>1
       <2>2. bytes = Alarm2Bytes(asked'.alarm2.date, Alarm2Mode[asked'.alarm2.mode])
             BY <1>11 DEF bytes
       <2> QED BY <2>1, <2>2 DEF Alarm2Held
<1>14. Status3231' /\ Alarm1Held' /\ regs'[15] = regs[15]
       <2>1. /\ regs'[15] = regs[15]
             /\ \A i \in 1..4 : regs'[6 + i] = regs[6 + i]
             BY <1>4, <1>8 DEF Registers, start
       <2> QED BY <1>11, <2>1 DEF Sets3231, Status3231, Alarm1Held
<1>15. ClearedBy(calling) = {}
       BY <1>1 DEF ClearedBy
<1> QED BY <1>2, <1>8, <1>10, <1>12, <1>13, <1>14, <1>15, OffStatus DEF Sets3231

\* While the pin has the square wave, no alarm is set.
LEMMA Return3231Refused ==
    ASSUME ChipTypes, Fresh, device = "ds3231", Sets3231, Return, Refused(calling, was)
    PROVE  regs' \in RegisterFile /\ Sets3231' /\ FlagsKept
<1>1. regs' = Written(regs, <<>>) /\ asked' = asked /\ device' = "ds3231"
      BY DEF Return, Writes
<1>2. regs' = regs /\ regs \in RegisterFile
      BY <1>1, WrittenNone DEF ChipTypes
<1>3. Sets3231'
      BY <1>1, <1>2 DEF Sets3231, Control3231, Status3231, Alarm1Held, Alarm2Held
<1>4. ClearedBy(calling) = {}
      BY DEF Refused, ClearedBy
<1> QED BY <1>1, <1>2, <1>3, <1>4, OffStatus

\* What the driver of a DS3231 writes is what was asked for.
LEMMA Return3231 ==
    ASSUME ChipTypes, Fresh, device = "ds3231", Sets3231, Return
    PROVE  regs' \in RegisterFile /\ Sets3231' /\ FlagsKept
<1>1. calling \in SetSquareWave("ds3231") \cup Plain({"adjust", "enable32K", "disable32K"})
              \cup [f : {"disableAlarm", "clearAlarm"}, n : {1, 2}]
              \cup [f : {"setAlarm1"}, date : Dates, mode : DOMAIN Alarm1Mode]
              \cup [f : {"setAlarm2"}, date : Dates, mode : DOMAIN Alarm2Mode]
      BY DEF ChipTypes, Return, Calls
<1>2. DOMAIN Alarm1Mode = Names1 /\ DOMAIN Alarm2Mode = Names2
      BY Modes1, Modes2
<1>3. CASE Refused(calling, was)
      BY <1>3, Return3231Refused
<1>4. CASE calling \in AlarmCalls1 \cup AlarmCalls2 /\ ~ Refused(calling, was)
      BY <1>4, Return3231Alarm1, Return3231Alarm2
<1>5. CASE calling \in SetSquareWave("ds3231")
      BY <1>5, Return3231Control
<1>6. CASE calling \in Plain({"adjust", "enable32K", "disable32K"})
      <2>1. calling.f \in {"adjust", "enable32K", "disable32K"}
            BY <1>6 DEF Plain
      <2> QED BY <2>1, Return3231Status
<1>7. CASE calling \in [f : {"disableAlarm", "clearAlarm"}, n : {1, 2}]
      <2>1. \/ calling \in [f : {"disableAlarm"}, n : {1, 2}]
            \/ calling \in [f : {"clearAlarm"}, n : {1, 2}]
            BY <1>7
      <2> QED BY <2>1, Return3231Status, Return3231Control
<1> QED BY <1>1, <1>2, <1>3, <1>4, <1>5, <1>6, <1>7 DEF AlarmCalls1, AlarmCalls2

--------------------------------------------------------------------------------
(* The chips and what is asked of them, in every step.                      *)

\* The invariant: the registers hold what was asked for; what a driver has read
\* is what they hold, but for the flags that came since; and the flags are shown.
Chips == {"ds1307", "ds3231", "pcf8523", "pcf8563"}
ChipSets == /\ device = "ds1307" => Sets1307
            /\ device = "ds3231" => Sets3231
            /\ device = "pcf8523" => Sets8523
            /\ device = "pcf8563" => Sets8563
ChipInv == ChipTypes /\ Fresh /\ FlagsShown /\ ChipSets

\* No two flags share a bit.
LEMMA FlagsAre ==
    ASSUME device \in Chips
    PROVE  /\ \A flag \in Flags : FlagAt(flag) \in Registers \X (0..7)
           /\ \A flag, other \in Flags : FlagAt(flag) = FlagAt(other) => flag = other
           /\ \A flag \in Flags : FlagAt(flag) = <<FlagAt(flag)[1], FlagAt(flag)[2]>>
<1>1. CASE device = "ds1307"
      BY <1>1 DEF Flags
<1>2. CASE device = "ds3231"
      <2>1. /\ Flags = {"power", "alarm1", "alarm2"} /\ FlagAt("power") = <<15, 7>>
            /\ FlagAt("alarm1") = <<15, 0>> /\ FlagAt("alarm2") = <<15, 1>>
            BY <1>2 DEF Flags, FlagAt, DS3231_STATUSREG
      <2> QED BY <2>1 DEF Registers
<1>3. CASE device \in {"pcf8523", "pcf8563"}
      <2>1. Flags = {"power"} /\ FlagAt("power") \in {<<2, 7>>, <<3, 7>>}
            BY <1>3 DEF Flags, FlagAt, PCF8523_STATUSREG, PCF8563_VL_SECONDS
      <2> QED BY <2>1 DEF Registers
<1> QED BY <1>1, <1>2, <1>3 DEF Chips

\* Settings and flags, while nothing changes them.
LEMMA StillSet ==
    ASSUME ChipInv, device' = device, regs' = regs, asked' = asked, raised' = raised,
           between' = between
    PROVE  FlagsShown' /\ ChipSets'
<1>1. FlagsShown'
      BY DEF ChipInv, FlagsShown, Flags, Shown, FlagAt
<1>2. ChipSets'
      <2>1. device = "ds1307" => Sets1307'
            BY DEF ChipInv, ChipSets, Sets1307, readSqw1307, readnvram
      <2>2. device = "ds3231" => Sets3231'
            BY DEF ChipInv, ChipSets, Sets3231, Control3231, Status3231, Alarm1Held, Alarm2Held
      <2>3. device = "pcf8523" => Sets8523'
            BY DEF ChipInv, ChipSets, Sets8523, Clock8523, Count8523, Timer8523, Control8523,
                        Offset8523
      <2>4. device = "pcf8563" => Sets8563'
            BY DEF ChipInv, ChipSets, Sets8563, readSqw8563, isrunning
      <2> QED BY <2>1, <2>2, <2>3, <2>4 DEF ChipSets
<1> QED BY <1>1, <1>2

\* A driver that reads has what the registers hold.
LEMMA CallKeeps == ASSUME ChipInv, Call PROVE ChipInv'
<1>1. /\ device' = device /\ regs' = regs /\ asked' = asked /\ raised' = raised
      /\ between' = between /\ was' = regs /\ calling' \in Calls
      BY DEF Call
<1>2. ChipTypes'
      BY <1>1 DEF ChipInv, ChipTypes, Calls, SetSquareWave, OneByte, Plain
<1>3. Fresh'
      BY <1>1 DEF Fresh
<1>4. FlagsShown' /\ ChipSets'
      BY <1>1, StillSet
<1> QED BY <1>2, <1>3, <1>4 DEF ChipInv

\* A driver that writes changes what it was called to change.
LEMMA ReturnKeeps == ASSUME ChipInv, Return PROVE ChipInv'
<1>1. /\ ChipTypes /\ Fresh /\ FlagsShown /\ ChipSets /\ device \in Chips
      /\ device' = device /\ was' = regs' /\ calling' = NoCall /\ between' = between
      /\ raised' = raised \ ClearedBy(calling)
      BY DEF ChipInv, ChipTypes, Return, Chips
<1>2. regs' \in RegisterFile /\ ChipSets' /\ FlagsKept
      <2>1. CASE device = "ds1307"
            <3>1. regs' \in RegisterFile /\ Sets1307' /\ FlagsKept
                  BY <1>1, <2>1, Return1307 DEF ChipSets
            <3> QED BY <1>1, <2>1, <3>1 DEF ChipSets
      <2>2. CASE device = "ds3231"
            <3>1. regs' \in RegisterFile /\ Sets3231' /\ FlagsKept
                  BY <1>1, <2>2, Return3231 DEF ChipSets
            <3> QED BY <1>1, <2>2, <3>1 DEF ChipSets
      <2>3. CASE device = "pcf8523"
            <3>1. regs' \in RegisterFile /\ Sets8523' /\ FlagsKept
                  BY <1>1, <2>3, Return8523 DEF ChipSets
            <3> QED BY <1>1, <2>3, <3>1 DEF ChipSets
      <2>4. CASE device = "pcf8563"
            <3>1. regs' \in RegisterFile /\ Sets8563' /\ FlagsKept
                  BY <1>1, <2>4, Return8563 DEF ChipSets
            <3> QED BY <1>1, <2>4, <3>1 DEF ChipSets
      <2> QED BY <1>1, <2>1, <2>2, <2>3, <2>4 DEF Chips
<1>3. ChipTypes'
      BY <1>1, <1>2 DEF ChipTypes
<1>4. Fresh'
      BY <1>1 DEF Fresh
<1>5. Flags' = Flags
      BY <1>1 DEF Flags
<1>6. ASSUME NEW flag \in Flags, Shown(flag)' PROVE flag \in raised'
      BY <1>1, <1>2, <1>6 DEF FlagsKept, FlagsShown
<1>7. ASSUME NEW flag \in Flags, flag \in raised' \ between' PROVE Shown(flag)'
      <2>1. flag \in raised \ between /\ flag \notin ClearedBy(calling)
            BY <1>1, <1>7
      <2>2. FlagAt(flag)[2] \in regs[FlagAt(flag)[1]]
            BY <1>1, <2>1 DEF FlagsShown, Shown
      <2> DEFINE a == FlagAt(flag)[1]
                 i == FlagAt(flag)[2]
      <2>3. a \in Registers /\ i \in 0..7 /\ FlagAt(flag) = <<a, i>>
            BY <1>1, FlagsAre
      <2>4. i \in was[a]
            <3>1. SUFFICES ASSUME i \notin was[a] PROVE FALSE
                  OBVIOUS
            <3>2. PICK other \in between : other \in Flags /\ FlagAt(other) = <<a, i>>
                  <4> HIDE DEF a, i
                  <4>1. i \in regs[a]
                        BY <2>2 DEF a, i
                  <4> QED BY <1>1, <2>3, <3>1, <4>1 DEF Fresh
            <3>3. other = flag
                  BY <1>1, <2>3, <3>2, FlagsAre
            <3> QED BY <2>1, <3>2, <3>3
      <2> QED BY <1>2, <2>1, <2>4 DEF FlagsKept
<1>8. FlagsShown'
      BY <1>5, <1>6, <1>7 DEF FlagsShown
<1> QED BY <1>2, <1>3, <1>4, <1>8 DEF ChipInv

\* A flag that comes changes no setting, and what the driver read only by that flag.
LEMMA RaiseKeeps == ASSUME ChipInv, NEW flag \in Flags, Raise(flag) PROVE ChipInv'
<1> DEFINE a == FlagAt(flag)[1]
           i == FlagAt(flag)[2]
<1>1. /\ ChipTypes /\ Fresh /\ FlagsShown /\ ChipSets /\ device \in Chips
      /\ device' = device /\ calling' = calling /\ asked' = asked
      /\ raised' = raised \cup {flag}
      /\ between' = IF calling = NoCall THEN between \ {flag} ELSE between \cup {flag}
      /\ was' = IF calling = NoCall THEN regs' ELSE was
      /\ regs' = [regs EXCEPT ![a] = regs[a] \cup {i}]
      /\ regs \in RegisterFile /\ was \in RegisterFile
      BY DEF ChipInv, ChipTypes, Raise, Chips
<1>2. a \in Registers /\ i \in 0..7 /\ FlagAt(flag) = <<a, i>>
      BY <1>1, FlagsAre
<1>3. /\ \A b \in Registers, j \in 0..7 : j \in regs'[b] <=> j \in regs[b] \/ (b = a /\ j = i)
      /\ \A b \in Registers : b # a => regs'[b] = regs[b]
      /\ regs' \in RegisterFile
      <2> HIDE DEF a, i
      <2> QED BY <1>1, <1>2 DEF RegisterFile
<1>4. ChipTypes'
      BY <1>1, <1>3 DEF ChipTypes, Calls, SetSquareWave, OneByte, Plain
<1>5. Flags' = Flags /\ \A f \in Flags : FlagAt(f)' = FlagAt(f)
      BY <1>1 DEF Flags, FlagAt
<1>6. Fresh'
      <2>1. CASE calling = NoCall
            BY <1>1, <2>1 DEF Fresh
      <2>2. CASE calling # NoCall
            <3>1. was' = was /\ between' = between \cup {flag}
                  BY <1>1, <2>2
            <3>2. ASSUME NEW b \in Registers, NEW j \in 0..7
                  PROVE  /\ j \in was'[b] => j \in regs'[b]
                         /\ j \in regs'[b] /\ j \notin was'[b] =>
                               \E f \in between' : f \in Flags /\ FlagAt(f) = <<b, j>>
                  <4> HIDE DEF a, i
                  <4>1. j \in regs'[b] <=> j \in regs[b] \/ (b = a /\ j = i)
                        BY <1>3
                  <4>2. /\ j \in was[b] => j \in regs[b]
                        /\ j \in regs[b] /\ j \notin was[b] =>
                              \E f \in between : f \in Flags /\ FlagAt(f) = <<b, j>>
                        BY <1>1 DEF Fresh
                  <4> QED BY <1>2, <3>1, <4>1, <4>2
            <3> QED BY <1>5, <3>2 DEF Fresh
      <2> QED BY <2>1, <2>2
<1>7. ASSUME NEW f \in Flags PROVE Shown(f)' <=> Shown(f) \/ f = flag
      <2>1. FlagAt(f)[1] \in Registers /\ FlagAt(f)[2] \in 0..7
            BY <1>1, FlagsAre
      <2>2. f = flag <=> FlagAt(f)[1] = a /\ FlagAt(f)[2] = i
            BY <1>1, <1>2, FlagsAre
      <2> DEFINE b == FlagAt(f)[1]
                 j == FlagAt(f)[2]
      <2>3. b \in Registers /\ j \in 0..7 /\ (f = flag <=> b = a /\ j = i)
            BY <2>1, <2>2
      <2>4. (Shown(f)' <=> j \in regs'[b]) /\ (Shown(f) <=> j \in regs[b])
            BY <1>5 DEF Shown
      <2> HIDE DEF a, i, b, j
      <2> QED BY <1>3, <2>3, <2>4
<1>8. FlagsShown'
      BY <1>1, <1>5, <1>7 DEF FlagsShown
<1>9. ChipSets'
      <2>1. device # "ds1307"
            BY DEF Flags
      <2>2. CASE device = "ds3231"
            <3>1. a = 15 /\ i \in {0, 1, 7}
                  BY <2>2 DEF Flags, FlagAt, DS3231_STATUSREG
            <3> HIDE DEF a, i
            <3>2. /\ regs'[14] = regs[14] /\ \A k \in 1..4 : regs'[6 + k] = regs[6 + k]
                  /\ \A k \in 1..3 : regs'[10 + k] = regs[10 + k]
                  /\ 3 \in regs'[15] <=> 3 \in regs[15]
                  BY <1>3, <3>1 DEF Registers
            <3>3. Sets3231'
                  BY <1>1, <2>2, <3>2 DEF ChipSets, Sets3231, Control3231, Status3231, Alarm1Held,
                                          Alarm2Held
            <3> QED BY <1>1, <2>2, <3>3 DEF ChipSets
      <2>3. CASE device = "pcf8523"
            <3>1. a = 3
                  BY <2>3 DEF Flags, FlagAt, PCF8523_STATUSREG
            <3> HIDE DEF a, i
            <3>2. /\ regs'[0] = regs[0] /\ regs'[1] = regs[1] /\ regs'[14] = regs[14]
                  /\ regs'[15] = regs[15] /\ regs'[18] = regs[18] /\ regs'[19] = regs[19]
                  BY <1>3, <3>1 DEF Registers
            <3>3. Sets8523'
                  BY <1>1, <2>3, <3>2
                     DEF ChipSets, Sets8523, Clock8523, Count8523, Timer8523, Control8523, Offset8523
            <3> QED BY <1>1, <2>3, <3>3 DEF ChipSets
      <2>4. CASE device = "pcf8563"
            <3>1. a = 2
                  BY <2>4 DEF Flags, FlagAt, PCF8563_VL_SECONDS
            <3> HIDE DEF a, i
            <3>2. regs'[0] = regs[0] /\ regs'[13] = regs[13]
                  BY <1>3, <3>1 DEF Registers
            <3>3. Sets8563'
                  BY <1>1, <2>4, <3>2 DEF ChipSets, Sets8563, readSqw8563, isrunning,
                                          PCF8563_CLKOUTCONTROL, PCF8563_CONTROL_1
            <3> QED BY <1>1, <2>4, <3>3 DEF ChipSets
      <2> QED BY <1>1, <2>1, <2>2, <2>3, <2>4 DEF Chips
<1> QED BY <1>4, <1>6, <1>8, <1>9 DEF ChipInv

\* A chip that gets power.
PoweredUp ==
    /\ device \in Chips
    /\ regs = PowerUpRegisters(device) /\ asked = PowerUpWishes(device)
    /\ calling = NoCall /\ was = regs /\ between = {}
    /\ raised = IF device = "ds1307" THEN {} ELSE {"power"}

\* With power, a chip has the settings of its data sheet: the DS1307,
LEMMA PowerUp1307 ==
    ASSUME PoweredUp, device = "ds1307"
    PROVE  regs \in RegisterFile /\ Sets1307 /\ FlagsShown
<1> DEFINE nothing == [a \in 0..63 |-> {}]
           seven == 7
           bits == Bin(3)
<1>1. nothing \in RegisterFile /\ \A b \in Registers : nothing[b] = {}
      BY DEF RegisterFile, Registers
<1>2. /\ regs = Written(nothing, <<Put(seven, bits)>>)
      /\ seven \in Registers /\ bits \in SUBSET (0..7)
      BY BinAt DEF PoweredUp, PowerUpRegisters, DS1307_CONTROL, Registers
<1> HIDE DEF nothing, seven, bits
<1>3. /\ regs \in RegisterFile /\ regs[seven] = bits
      /\ \A b \in Registers : b # seven => regs[b] = nothing[b]
      BY ONLY <1>1, <1>2, OneWrite, SMT
<1>4. asked = [wave |-> 3, memory |-> [p \in Places |-> 0]]
      BY DEF PoweredUp, PowerUpWishes
<1>5. asked.wave = readSqw1307
      BY <1>3, <1>4, Wave1307 DEF readSqw1307, seven, bits, DS1307_CONTROL
<1>6. ASSUME NEW p \in Places PROVE asked.memory[p] = readnvram(p)
      <2>1. p \in 0..55
            BY ClockChipsAssumption
      <2>2. 8 + p \in Registers /\ 8 + p # seven
            BY <2>1 DEF Registers, seven
      <2>3. regs[8 + p] = {}
            BY <1>1, <1>3, <2>2
      <2> QED BY <1>4, <2>3, NumNothing DEF readnvram, DS1307_NVRAM
<1>7. asked \in [wave : 0..255, memory : [Places -> 0..255]]
      BY <1>4
<1>8. FlagsShown
      BY DEF FlagsShown, Flags
<1> QED BY <1>3, <1>5, <1>6, <1>7, <1>8 DEF Sets1307

\* the DS3231,
LEMMA PowerUp3231 ==
    ASSUME PoweredUp, device = "ds3231"
    PROVE  regs \in RegisterFile /\ Sets3231 /\ FlagsShown
<1> DEFINE nothing == [a \in 0..63 |-> {}]
           one == 14
           two == 15
           control == Bin(28)
           status == Bin(136)
<1>1. nothing \in RegisterFile
      BY DEF RegisterFile, Registers
<1>2. /\ regs = Written(nothing, <<Put(one, control), Put(two, status)>>)
      /\ one \in Registers /\ two \in Registers /\ one # two
      /\ control \in SUBSET (0..7) /\ status \in SUBSET (0..7)
      BY BinAt DEF PoweredUp, PowerUpRegisters, DS3231_CONTROL, DS3231_STATUSREG, Registers
<1>3. /\ 2 \in control /\ 0 \notin control /\ 1 \notin control
      /\ 3 \in status /\ 7 \in status /\ 0 \notin status /\ 1 \notin status
      BY BinAt
<1> HIDE DEF nothing, one, two, control, status
<1>4. regs \in RegisterFile /\ regs[one] = control /\ regs[two] = status
      BY ONLY <1>1, <1>2, TwoWrites, SMT
<1>5. regs[14] = control /\ regs[15] = status
      BY <1>4 DEF one, two
<1>6. asked = [wave |-> 28, alarm1 |-> NoCall, alarm2 |-> NoCall, on |-> {}, clock32K |-> TRUE]
      BY DEF PoweredUp, PowerUpWishes
<1>7. asked \in Asked3231
      BY <1>6 DEF Asked3231, Byte
<1>8. Control3231
      <2>1. asked.wave = SqwOf(regs[14])
            BY <1>3, <1>5, <1>6 DEF SqwOf
      <2>2. asked.on = {i + 1 : i \in control \cap {0, 1}}
            BY <1>3, <1>6
      <2> QED BY <1>5, <2>1, <2>2 DEF Control3231
<1>9. Status3231 /\ Alarm1Held /\ Alarm2Held
      BY <1>3, <1>5, <1>6 DEF Status3231, Alarm1Held, Alarm2Held
<1>10. FlagsShown
       <2>1. /\ Flags = {"power", "alarm1", "alarm2"} /\ FlagAt("power") = <<15, 7>>
             /\ FlagAt("alarm1") = <<15, 0>> /\ FlagAt("alarm2") = <<15, 1>>
             BY DEF Flags, FlagAt, DS3231_STATUSREG
       <2>2. raised = {"power"} /\ between = {}
             BY DEF PoweredUp
       <2> QED BY <1>3, <1>5, <2>1, <2>2 DEF FlagsShown, Shown
<1> QED BY <1>4, <1>7, <1>8, <1>9, <1>10 DEF Sets3231

\* the PCF8523,
LEMMA PowerUp8523 ==
    ASSUME PoweredUp, device = "pcf8523"
    PROVE  regs \in RegisterFile /\ Sets8523 /\ FlagsShown
<1> DEFINE nothing == [a \in 0..63 |-> {}]
           one == 2
           two == 3
           control == Bin(224)
           status == Bin(128)
<1>1. nothing \in RegisterFile /\ \A b \in Registers : nothing[b] = {}
      BY DEF RegisterFile, Registers
<1>2. /\ regs = Written(nothing, <<Put(one, control), Put(two, status)>>)
      /\ one \in Registers /\ two \in Registers /\ one # two
      /\ control \in SUBSET (0..7) /\ status \in SUBSET (0..7)
      BY BinAt DEF PoweredUp, PowerUpRegisters, PCF8523_CONTROL_3, PCF8523_STATUSREG, Registers
<1>3. 7 \in status
      BY BinAt
<1> HIDE DEF nothing, one, two, control, status
<1>4. /\ regs \in RegisterFile /\ regs[two] = status
      /\ \A b \in Registers : b # one /\ b # two => regs[b] = nothing[b]
      BY ONLY <1>1, <1>2, TwoWrites, SMT
<1>5. /\ regs[0] = {} /\ regs[1] = {} /\ regs[14] = {} /\ regs[15] = {} /\ regs[18] = {}
      /\ regs[19] = {} /\ regs[3] = status
      BY <1>1, <1>4 DEF one, two, Registers
<1>6. asked = [wave |-> 0, second |-> FALSE, timer |-> <<0, 0, 0>>, counting |-> FALSE,
               offset |-> <<0, 0>>, runs |-> TRUE]
      BY DEF PoweredUp, PowerUpWishes
<1>7. asked \in Asked8523
      <2>1. <<0, 0, 0>> \in Timers /\ <<0, 0>> \in Trims /\ 0 \in Byte
            BY DEF Timers, Trims, SevenBits, Byte
      <2> QED BY <1>6, <2>1 DEF Asked8523
<1>8. Clock8523 /\ Count8523 /\ Timer8523 /\ Control8523 /\ Offset8523
      <2>1. Wave({}) = 0 /\ Num({} \cap 0..2) = 0 /\ Num({i - 4 : i \in {} \cap 4..6}) = 0
            BY NumNothing DEF Wave
      <2>2. Num({} \cap {7}) = 0 /\ Trim({}) = 0
            BY NumNothing DEF Trim
      <2>3. Clock8523 /\ Count8523 /\ Control8523
            BY <1>5, <1>6, <2>1 DEF Clock8523, Count8523, Control8523
      <2>4. Timer8523
            BY <1>5, <1>6, <2>1, NumNothing DEF Timer8523
      <2>5. Offset8523
            BY <1>5, <1>6, <2>2 DEF Offset8523
      <2> QED BY <2>3, <2>4, <2>5
<1>9. FlagsShown
      <2>1. Flags = {"power"} /\ FlagAt("power") = <<3, 7>>
            BY DEF Flags, FlagAt, PCF8523_STATUSREG
      <2>2. raised = {"power"} /\ between = {}
            BY DEF PoweredUp
      <2> QED BY <1>3, <1>5, <2>1, <2>2 DEF FlagsShown, Shown
<1> QED BY <1>4, <1>7, <1>8, <1>9 DEF Sets8523

\* and the PCF8563.
LEMMA PowerUp8563 ==
    ASSUME PoweredUp, device = "pcf8563"
    PROVE  regs \in RegisterFile /\ Sets8563 /\ FlagsShown
<1> DEFINE nothing == [a \in 0..63 |-> {}]
           one == 2
           two == 13
           bits == Bin(128)
<1>1. nothing \in RegisterFile /\ \A b \in Registers : nothing[b] = {}
      BY DEF RegisterFile, Registers
<1>2. /\ regs = Written(nothing, <<Put(one, bits), Put(two, bits)>>)
      /\ one \in Registers /\ two \in Registers /\ one # two /\ bits \in SUBSET (0..7)
      BY BinAt DEF PoweredUp, PowerUpRegisters, PCF8563_VL_SECONDS, PCF8563_CLKOUTCONTROL,
                   Registers
<1>3. 7 \in bits /\ Num(bits \cap Bin(131)) = 128
      BY BinAt, Wave8563
<1> HIDE DEF nothing, one, two, bits
<1>4. /\ regs \in RegisterFile /\ regs[one] = bits /\ regs[two] = bits
      /\ \A b \in Registers : b # one /\ b # two => regs[b] = nothing[b]
      BY ONLY <1>1, <1>2, TwoWrites, SMT
<1>5. regs[0] = {} /\ regs[2] = bits /\ regs[13] = bits
      BY <1>1, <1>4 DEF one, two, Registers
<1>6. asked = [wave |-> 128, runs |-> TRUE]
      BY DEF PoweredUp, PowerUpWishes
<1>7. Sets8563
      BY <1>3, <1>5, <1>6 DEF Sets8563, readSqw8563, isrunning, PCF8563_CLKOUTCONTROL,
                              PCF8563_CONTROL_1
<1>8. FlagsShown
      <2>1. Flags = {"power"} /\ FlagAt("power") = <<2, 7>>
            BY DEF Flags, FlagAt, PCF8563_VL_SECONDS
      <2>2. raised = {"power"} /\ between = {}
            BY DEF PoweredUp
      <2> QED BY <1>3, <1>5, <2>1, <2>2 DEF FlagsShown, Shown
<1> QED BY <1>4, <1>7, <1>8

\* Each chip starts as its settings say.
LEMMA PowerUpHolds == PoweredUp => ChipInv
<1> SUFFICES ASSUME PoweredUp PROVE ChipInv
    OBVIOUS
<1>1. device \in Chips /\ calling = NoCall /\ was = regs
      BY DEF PoweredUp
<1>2. regs \in RegisterFile /\ FlagsShown /\ ChipSets
      BY <1>1, PowerUp1307, PowerUp3231, PowerUp8523, PowerUp8563 DEF Chips, ChipSets
<1>3. ChipTypes /\ Fresh
      BY <1>1, <1>2 DEF ChipTypes, Fresh, Chips
<1> QED BY <1>2, <1>3 DEF ChipInv

\* In every reachable state.
LEMMA ChipInvHolds == ChipSpec => []ChipInv
<1>1. ChipInit => PoweredUp
      BY DEF ChipInit, PoweredUp, Chips
<1>2. ASSUME ChipInv, PowerCycle PROVE PoweredUp'
      BY <1>2 DEF PowerCycle, PoweredUp, ChipInv, ChipTypes, Chips
<1>3. ASSUME ChipInv, UNCHANGED chipVars PROVE ChipInv'
      <2>1. /\ device' = device /\ regs' = regs /\ asked' = asked /\ raised' = raised
            /\ between' = between /\ was' = was /\ calling' = calling
            BY <1>3 DEF chipVars
      <2>2. FlagsShown' /\ ChipSets'
            BY <1>3, <2>1, StillSet
      <2>3. ChipTypes'
            BY <1>3, <2>1
               DEF ChipInv, ChipTypes, Calls, SetSquareWave, OneByte, Plain
      <2>4. Fresh'
            <3>1. Flags' = Flags /\ \A flag \in Flags : FlagAt(flag)' = FlagAt(flag)
                  BY <2>1 DEF Flags, FlagAt
            <3> QED BY <1>3, <2>1, <3>1 DEF ChipInv, Fresh
      <2> QED BY <2>2, <2>3, <2>4 DEF ChipInv
<1>4. ASSUME ChipInv, [ChipNext]_chipVars PROVE ChipInv' \/ PoweredUp'
      BY <1>2, <1>3, <1>4, CallKeeps, ReturnKeeps, RaiseKeeps DEF ChipNext
<1>5. PoweredUp => ChipInv
      BY PowerUpHolds
<1> QED BY <1>1, <1>4, <1>5, PTL DEF ChipSpec

\* Registers that hold the settings show them to the getters.
LEMMA ChipInvShows == ChipInv => ChipDoesAsAsked
<1> SUFFICES ASSUME ChipInv PROVE ChipDoesAsAsked
    OBVIOUS
<1>1. device \in Chips /\ ChipSets /\ FlagsShown
      BY DEF ChipInv, ChipTypes, Chips
<1>2. \A flag \in Flags : /\ (Shown(flag) => flag \in raised)
                          /\ (flag \in raised \ between => Shown(flag))
      BY <1>1 DEF FlagsShown
<1>3. CASE device = "ds1307"
      <2>1. asked.wave = readSqw1307 /\ \A p \in Places : asked.memory[p] = readnvram(p)
            BY <1>1, <1>3 DEF ChipSets, Sets1307
      <2> QED BY <1>2, <1>3, <2>1 DEF ChipDoesAsAsked
<1>4. CASE device = "ds3231"
      <2>1. Ds3231AsAsked
            BY <1>1, <1>4, Shows3231 DEF ChipSets
      <2> QED BY <1>2, <1>4, <2>1 DEF ChipDoesAsAsked
<1>5. CASE device = "pcf8523"
      <2>1. Sets8523
            BY <1>1, <1>5 DEF ChipSets
      <2>2. Pcf8523AsAsked
            BY <2>1 DEF Sets8523, Pcf8523AsAsked, Clock8523, Count8523, Timer8523, Control8523,
                        Offset8523, readSqw8523, isrunning, Wave, Trim, PCF8523_CLKOUTCONTROL,
                        PCF8523_CONTROL_1, PCF8523_CONTROL_2, PCF8523_OFFSET,
                        PCF8523_TIMER_B_FRCTL, PCF8523_TIMER_B_VALUE
      <2> QED BY <1>2, <1>5, <2>2 DEF ChipDoesAsAsked
<1>6. CASE device = "pcf8563"
      <2>1. asked.wave = readSqw8563 /\ (asked.runs <=> isrunning(PCF8563_CONTROL_1))
            BY <1>1, <1>6 DEF ChipSets, Sets8563
      <2> QED BY <1>2, <1>6, <2>1 DEF ChipDoesAsAsked
<1> QED BY <1>1, <1>3, <1>4, <1>5, <1>6 DEF Chips

\* For every choice of alarms, square waves, countdowns, offsets and contents of
\* the memory that the interfaces of RTClib allow, in any number and order of
\* calls: each setting of a chip reads back as it was last asked for, although
\* the drivers change single bits of registers that settings share; an alarm
\* fires at exactly the times that its mode names; and a flag that the chip
\* raised is shown until a call clears it, unless it came between the read and
\* the write of a driver, which then writes the old bits back.
THEOREM ChipsDoAsAsked == ChipSpec => []ChipDoesAsAsked
<1>1. ChipSpec => []ChipInv
      BY ChipInvHolds
<1>2. ChipInv => ChipDoesAsAsked
      BY ChipInvShows
<1> QED BY <1>1, <1>2, PTL
================================================================================
