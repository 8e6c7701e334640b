------------------------------ MODULE Peripherals ------------------------------
(***************************************************************************)
(* What main.cpp keeps going beside Modbus and the modem: the clock of     *)
(* my_ds1307.cpp, the status LED of test_max6369.cpp and the buttons of    *)
(* test_led_but.cpp.  loop() polls the three in a fixed order; each pass   *)
(* takes as long as its other calls do, up to seconds when a text message  *)
(* is sent.  millis() is a uint32_t: time is counted modulo Wrap, and each *)
(* comparison is the one the code makes, on numbers that wrap.             *)
(***************************************************************************)
EXTENDS Naturals

CONSTANTS Wrap,       \* millis() counts modulo this: 2^32
          Period,     \* the clock is read again after more than this: 5000
          OnTime,     \* row 0 of the table in TM_Run: 1000
          CountWrap,  \* TLB_Button starts its count anew at: 1000
          RetryTime,  \* setup() looks for the RTC again after: 1000
          SetupTime,  \* delay(10000) and TS_Setup()
          SmsTime,    \* the longest TS_Send_SMS()
          BusTime,    \* the longest reading of the RTC
          RestTime,   \* the longest MB_Slave_Run(), TS_Read_SMS() and delay(1)
          AgeMax,     \* ages are not told apart from here on
          TwoHands    \* whether both buttons may be pressed at once

Gap == SmsTime + BusTime + RestTime + 1 \* longest time between two polls

ASSUME PeripheralsAssumption ==
    /\ {Wrap, Period, OnTime, RetryTime, SetupTime, SmsTime, BusTime, RestTime,
        AgeMax} \subseteq Nat
    /\ RestTime > 0 /\ OnTime > 0 /\ RetryTime < Wrap /\ SetupTime < Wrap
    /\ Period + Gap < Wrap /\ OnTime + Gap < Wrap
    /\ Period + Gap < AgeMax /\ OnTime + Gap < AgeMax
    /\ TwoHands \in BOOLEAN
    /\ CountWrap \in Nat \ {0} /\ CountWrap % 2 = 0

Buttons == {1, 2}
Levels == {0, 1}  \* a pin is pulled up, and 0 while its button is pressed

VARIABLES pc,         \* the call setup() or loop() is about to make
          now,        \* millis()
          rtcThere,   \* whether the RTC acknowledges its address
          count_rtc,  \* millis() at the last refresh of md_time
          LEDState, time2,  \* the status LED, and millis() at its last change
          count,      \* passes, which choose the button to sample
          but_new,    \* the last sample of each button
          pin,        \* the level at each button's pin
          \* history, for the properties only
          refreshed,  \* md_time has been read since boot
          clockAge, ledAge,  \* time since count_rtc and time2 were set
          ledSpan,    \* how long the LED's last state has lasted, 0 before any
          polls,      \* calls of TLB_Button since the pin changed, up to 2
          firm,       \* the pin was up for two calls before it went down
          seen        \* presses TLB_Button has seen since it went down

timerVars == <<count_rtc, refreshed>>
ledVars == <<LEDState, time2, ledSpan>>
buttonVars == <<count, but_new, polls, firm, seen>>
vars == <<pc, now, rtcThere, timerVars, ledVars, buttonVars, pin, clockAge, ledAge>>

--------------------------------------------------------------------------------
(* Arithmetic of uint32_t. *)

Later(a, b) == IF a + b >= Wrap THEN a + b - Wrap ELSE a + b
Since(a, b) == IF a >= b THEN a - b ELSE Wrap + a - b

Older(age, d) == IF age + d >= AgeMax THEN AgeMax ELSE age + d

(* d milliseconds go by. *)
Elapse(d) ==
    /\ now' = Later(now, d)
    /\ clockAge' = Older(clockAge, d)
    /\ ledAge' = Older(ledAge, d)

(* d milliseconds go by until the clock is read, the LED is switched. *)
ElapseToRefresh(d) ==
    now' = Later(now, d) /\ clockAge' = 0 /\ ledAge' = Older(ledAge, d)
ElapseToToggle(d) ==
    now' = Later(now, d) /\ ledAge' = 0 /\ clockAge' = Older(clockAge, d)

--------------------------------------------------------------------------------
(* setup(): globals are zero, and nothing is polled before the RTC answers. *)

Init ==
    /\ pc = "rtc" /\ now = 0 /\ rtcThere \in BOOLEAN
    /\ count_rtc = 0 /\ LEDState = 0 /\ time2 = 0
    /\ count = 0
    /\ but_new = [b \in Buttons |-> 0]
    /\ pin \in {f \in [Buttons -> Levels] : TwoHands \/ f[1] = 1 \/ f[2] = 1}
    /\ refreshed = FALSE /\ clockAge = 0 /\ ledAge = 0 /\ ledSpan = 0
    /\ polls = [b \in Buttons |-> 0] /\ firm = [b \in Buttons |-> FALSE]
    /\ seen = [b \in Buttons |-> 0]

(* MD_Config: while (! rtc.begin(...)) delay(1000). *)
WaitForRtc ==
    /\ pc = "rtc" /\ ~ rtcThere
    /\ Elapse(RetryTime)
    /\ UNCHANGED <<pc, rtcThere, timerVars, ledVars, buttonVars, pin>>

(* The end of MD_Config: count_rtc = millis(). *)
MD_Config ==
    /\ pc = "rtc" /\ rtcThere
    /\ pc' = "sim"
    /\ count_rtc' = now /\ clockAge' = 0
    /\ UNCHANGED <<now, rtcThere, refreshed, ledVars, ledAge, buttonVars, pin>>

(* TM_Config, delay(10000) and TS_Setup: the modem is not waited for. *)
TS_Setup ==
    /\ pc = "sim"
    /\ pc' = "button"
    /\ Elapse(SetupTime)
    /\ UNCHANGED <<rtcThere, timerVars, ledVars, buttonVars, pin>>

--------------------------------------------------------------------------------
(* One pass of loop(). *)

CountUpToOne(c) == IF c + 1 = CountWrap THEN 1 ELSE c + 1
CountUp(c) == IF c + 1 = CountWrap THEN 0 ELSE c + 1
Sampled(c) == IF c % 2 = 1 THEN 1 ELSE 2

(* One button is sampled; a level that has gone down is a press.  It flips   *)
(* the button's LED, which nothing reads, and that of button 1 sends a text  *)
(* message before TLB_Button returns.  but1_old is but_new of the last pass. *)
TLB_Button ==
    LET b == Sampled(CountUp(count))
        pressed == pin[b] = 0 /\ but_new[b] = 1
    IN  /\ pc = "button"
        /\ pc' = "clock"
        /\ count' = CountUp(count)
        /\ but_new' = [but_new EXCEPT ![b] = pin[b]]
        /\ \E d \in IF pressed /\ b = 1 THEN 1..SmsTime ELSE {0} : Elapse(d)
        /\ polls' = [x \in Buttons |-> IF polls[x] = 2 THEN 2 ELSE polls[x] + 1]
        /\ seen' = [seen EXCEPT ![b] = IF pressed THEN @ + 1 ELSE @]
        /\ UNCHANGED <<rtcThere, timerVars, ledVars, pin, firm>>

ClockIsDueWide == now > count_rtc + Period
(* millis() > count_rtc + 5000: the sum wraps, and is not a difference.  As  *)
(* count_rtc is an int, C++ leaves a sum beyond 2^31 undefined; the build in *)
(* .pio adds in a 32-bit register (ADD) and compares unsigned (BLTU), which  *)
(* is the sum modulo Wrap.                                                   *)
ClockIsDue == now > Later(count_rtc, Period)

(* MD_Run: md_time is read, then count_rtc set to what millis() is by then. *)
MD_Run ==
    /\ pc = "clock"
    /\ pc' = "led"
    /\ \/ /\ ClockIsDue
          /\ refreshed' = TRUE
          /\ \E d \in 0..BusTime : ElapseToRefresh(d)
          /\ count_rtc' = now'
       \/ /\ ~ ClockIsDue
          /\ UNCHANGED <<now, timerVars, clockAge, ledAge>>
    /\ UNCHANGED <<rtcThere, ledVars, buttonVars, pin>>

LedIsDueSum == now >= time2 + OnTime
(* (unsigned long) (millis() - time2) >= time_led_xanh_on, or _off. *)
LedIsDue == Since(now, time2) >= OnTime

(* TM_Run: the LED changes, and time2 is set by another call of millis(). *)
TM_Run ==
    /\ pc = "led"
    /\ pc' = "rest"
    /\ \/ /\ LedIsDue
          /\ LEDState' = 1 - LEDState
          /\ ledSpan' = ledAge
          /\ \E d \in 0..1 : ElapseToToggle(d)
          /\ time2' = now'
       \/ /\ ~ LedIsDue
          /\ UNCHANGED <<now, ledVars, clockAge, ledAge>>
    /\ UNCHANGED <<rtcThere, timerVars, buttonVars, pin>>

(* TS_Read_SMS, delay(1), and MB_Slave_Run of the next pass. *)
Rest ==
    /\ pc = "rest"
    /\ pc' = "button"
    /\ \E d \in 1..RestTime : Elapse(d)
    /\ UNCHANGED <<rtcThere, timerVars, ledVars, buttonVars, pin>>

--------------------------------------------------------------------------------
(* The hardware. *)

RtcAppears ==
    /\ pc = "rtc" /\ ~ rtcThere
    /\ rtcThere' = TRUE
    /\ UNCHANGED <<pc, now, timerVars, ledVars, buttonVars, pin, clockAge, ledAge>>

(* A button is pressed or let go, at any time. *)
PinChanges(b) ==
    /\ TwoHands \/ pin[3 - b] = 1
    /\ pin' = [pin EXCEPT ![b] = 1 - @]
    /\ firm' = [firm EXCEPT ![b] = pin[b] = 1 /\ polls[b] = 2]
    /\ seen' = [seen EXCEPT ![b] = 0]
    /\ polls' = [polls EXCEPT ![b] = 0]
    /\ UNCHANGED <<pc, now, rtcThere, timerVars, ledVars, count, but_new,
                   clockAge, ledAge>>

Setup == WaitForRtc \/ MD_Config \/ TS_Setup
Pass == TLB_Button \/ MD_Run \/ TM_Run \/ Rest
Hardware == RtcAppears \/ \E b \in Buttons : PinChanges(b)
Next == Setup \/ Pass \/ Hardware

(* The processor does not stop, and the RTC is there in the end. *)
Spec == Init /\ [][Next]_vars /\ WF_vars(Setup \/ Pass) /\ WF_vars(RtcAppears)
--------------------------------------------------------------------------------
(* What is expected of the three. *)

TypeOK ==
    /\ pc \in {"rtc", "sim", "button", "clock", "led", "rest"}
    /\ {now, count_rtc, time2} \subseteq 0..Wrap - 1
    /\ {clockAge, ledAge, ledSpan} \subseteq 0..AgeMax
    /\ rtcThere \in BOOLEAN /\ refreshed \in BOOLEAN
    /\ LEDState \in Levels /\ count \in 0..CountWrap - 1
    /\ {but_new, pin} \subseteq [Buttons -> Levels]
    /\ polls \in [Buttons -> 0..2] /\ firm \in [Buttons -> BOOLEAN]
    /\ seen \in [Buttons -> 0..1]

(* When count_rtc + Period falls short of the wrap by less than the longest *)
(* gap between two polls, millis() may wrap unseen behind it.               *)
MayBeMissed ==
    count_rtc + Period < Wrap /\ count_rtc + Period + Gap >= Wrap

(* MD_Run, across every wrap of millis(): the time that the registers show  *)
(* is never older than the period and one gap between two polls, but for a  *)
(* refresh that has fallen into the last gap before millis() wraps.         *)
ClockFresh == refreshed /\ ~ MayBeMissed => clockAge <= Period + Gap

(* TM_Run, across every wrap of millis(): once the LED blinks, no state of  *)
(* it is shorter than its time or longer by more than one gap.              *)
LedKeepsTime ==
    ledSpan # 0 => ledSpan >= OnTime /\ ledAge <= OnTime + Gap

(* TLB_Button samples each button in every second pass, and its count wraps: *)
(* a press that follows two passes without one and lasts for two passes is   *)
(* seen, and no press is seen twice, so none sends two text messages.        *)
EachPressOnce ==
    \A b \in Buttons :
        /\ seen[b] <= 1
        /\ pin[b] = 0 /\ firm[b] /\ polls[b] = 2 => seen[b] = 1
================================================================================
