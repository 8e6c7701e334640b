------------------------------- MODULE ClockChips -------------------------------
(***************************************************************************)
(* The drivers of RTClib for the four clock chips that it knows, as far as *)
(* they set more than the time: alarms, timers, square waves, calibration, *)
(* memory.  Several settings share a register, which a driver reads,       *)
(* changes and writes back, while the chip itself raises flags in it.  A   *)
(* register is the set of its bits that are 1.                             *)
(***************************************************************************)
EXTENDS Calendar

CONSTANTS Dates,      \* for the alarms, and the times at which they may fire
          SquareWaves,\* of each chip: the modes of its pin that are asked for
          Countdowns, \* <<clkFreq, numPeriods, lowPulseWidth>>
          Offsets,    \* <<mode, offset>> of calibrate()
          Places,     \* addresses in the memory of the DS1307
          Contents,   \* bytes for it
          MaxCalls    \* bound on the calls of the driver while the chip has power

VARIABLES device,
          regs,    \* registers of the chip, without those of the time
          calling, \* the driver function that has read what it needs, if any
          was,     \* and the registers as it read them
          asked,   \* what the application asked for last
          raised,  \* flags that came, and were not cleared since
          between, \* those that came between a read and a write
          calls    \* of the driver since then
chipVars == <<device, regs, calling, was, asked, raised, between, calls>>

(* What may be asked for, as the driver declares it.                        *)
SqwPinModes == [ds1307 |-> {0, 128} \cup 16..19, ds3231 |-> {0, 8, 16, 24, 28},
                pcf8523 |-> 0..7, pcf8563 |-> {0} \cup 128..131]
AlarmDates == [yOff : 0..99, m : 1..12, d : 1..31, hh : 0..23, mm : 0..59, ss : 0..59]

ASSUME ClockChipsAssumption ==
    /\ Dates \subseteq AlarmDates
    /\ \A chip \in DOMAIN SqwPinModes : SquareWaves[chip] \subseteq SqwPinModes[chip]
    /\ Countdowns \subseteq (0..4) \X (0..255) \X (0..7)
    /\ Offsets \subseteq {0, 128} \X (-64..63)
    /\ Places \subseteq 0..55 /\ Contents \subseteq 0..255
    /\ MaxCalls \in Nat

NoCall == [f |-> "none"]

Weight == <<1, 2, 4, 8, 16, 32, 64, 128>>
Bin(n) == {i \in 0..7 : (n \div Weight[i + 1]) % 2 = 1}
Num(bits) == LET Bit(i) == IF i \in bits THEN Weight[i + 1] ELSE 0
             IN Bit(0) + Bit(1) + Bit(2) + Bit(3) + Bit(4) + Bit(5) + Bit(6) + Bit(7)

(* Registers. *)
DS1307_CONTROL == 7
DS1307_NVRAM == 8
DS3231_ALARM1 == 7
DS3231_ALARM2 == 11
DS3231_CONTROL == 14
DS3231_STATUSREG == 15
PCF8523_CONTROL_1 == 0
PCF8523_CONTROL_2 == 1
PCF8523_CONTROL_3 == 2
PCF8523_STATUSREG == 3
PCF8523_OFFSET == 14
PCF8523_CLKOUTCONTROL == 15
PCF8523_TIMER_B_FRCTL == 18
PCF8523_TIMER_B_VALUE == 19
PCF8563_CONTROL_1 == 0
PCF8563_VL_SECONDS == 2
PCF8563_CLKOUTCONTROL == 13

--------------------------------------------------------------------------------
(* DS3231: the alarms.  A bit of the mode for each field that need not      *)
(* match, and one for the day of the week instead of the date.              *)

Alarm1Mode == [PerSecond |-> 15, Second |-> 14, Minute |-> 12, Hour |-> 8, Date |-> 0,
               Day |-> 16]
Alarm2Mode == [PerMinute |-> 7, Minute |-> 6, Hour |-> 4, Date |-> 0, Day |-> 8]

dowToDS3231(date) == IF dayOfTheWeek(date) = 0 THEN 7 ELSE dayOfTheWeek(date)

Field(value, dontCare) == Bin(bin2bcd(value)) \cup (IF dontCare THEN {7} ELSE {})
DayField(date, dontCare, ofWeek) ==
    Field(IF ofWeek THEN dowToDS3231(date) ELSE date.d, dontCare)
        \cup (IF ofWeek THEN {6} ELSE {})

Alarm1Bytes(date, mode) ==
    <<Field(date.ss, 0 \in Bin(mode)), Field(date.mm, 1 \in Bin(mode)),
      Field(date.hh, 2 \in Bin(mode)), DayField(date, 3 \in Bin(mode), 4 \in Bin(mode))>>
Alarm2Bytes(date, mode) ==
    <<Field(date.mm, 0 \in Bin(mode)), Field(date.hh, 1 \in Bin(mode)),
      DayField(date, 2 \in Bin(mode), 3 \in Bin(mode))>>

BytesAt(a, n) == [i \in 1..n |-> regs[a + i - 1]]

(* The bits 7 of the fields, then bit 6 of the day.                         *)
ModeOf(bytes) ==
    LET n == Len(bytes)
    IN Num({i \in 0..(n - 1) : 7 \in bytes[i + 1]} \cup IF 6 \in bytes[n] THEN {n} ELSE {})
Named(modes, mode) ==
    IF \E name \in DOMAIN modes : modes[name] = mode
    THEN CHOOSE name \in DOMAIN modes : modes[name] = mode ELSE "Date"
getAlarm1Mode == Named(Alarm1Mode, ModeOf(BytesAt(DS3231_ALARM1, 4)))
getAlarm2Mode == Named(Alarm2Mode, ModeOf(BytesAt(DS3231_ALARM2, 3)))

(* Day, hour, minute (and second) of a date in May 2000, which began on a   *)
(* Monday.                                                                  *)
FieldRead(byte, top) == bcd2bin(Num(byte \cap 0..top))
DayRead(byte) == FieldRead(byte, IF 6 \in byte THEN 3 ELSE 5)
getAlarm1 == LET b == BytesAt(DS3231_ALARM1, 4)
             IN <<DayRead(b[4]), FieldRead(b[3], 5), FieldRead(b[2], 6), FieldRead(b[1], 6)>>
getAlarm2 == LET b == BytesAt(DS3231_ALARM2, 3)
             IN <<DayRead(b[3]), FieldRead(b[2], 5), FieldRead(b[1], 6), 0>>

(* The chip compares the fields whose bit 7 is 0 with its time.             *)
Matches(bytes, time) ==
    LET n == Len(bytes)
        day == IF 6 \in bytes[n] THEN dowToDS3231(time) ELSE time.d
        now == IF n = 4 THEN <<time.ss, time.mm, time.hh, day>>
               ELSE <<time.mm, time.hh, day>>
    IN \A i \in 1..n : \/ 7 \in bytes[i]
                       \/ Bin(bin2bcd(now[i])) = bytes[i] \ (IF i = n THEN {6} ELSE {})

(* What the names of the modes say; alarm 2 knows no seconds.               *)
Due(alarm, time, seconds) ==
    LET date == alarm.date
        SameSecond == seconds => date.ss = time.ss
        SameMinute == date.mm = time.mm /\ SameSecond
        SameHour == date.hh = time.hh /\ SameMinute
    IN CASE alarm.mode \in {"PerSecond", "PerMinute"} -> TRUE
         [] alarm.mode = "Second" -> SameSecond
         [] alarm.mode = "Minute" -> SameMinute
         [] alarm.mode = "Hour" -> SameHour
         [] alarm.mode = "Date" -> date.d = time.d /\ SameHour
         [] alarm.mode = "Day" -> dayOfTheWeek(date) = dayOfTheWeek(time) /\ SameHour

--------------------------------------------------------------------------------
(* The calls of the drivers, what they write, given what they read, and     *)
(* what that means to the application.                                      *)

OneByte == [f : {"writenvram"}, address : Places, data : Contents]
SetSquareWave(chip) == [f : {"writeSqwPinMode"}, mode : SquareWaves[chip]]
Plain(names) == [f : names]

Calls ==
    CASE device = "ds1307" -> SetSquareWave(device) \cup OneByte
      [] device = "ds3231" ->
            SetSquareWave(device) \cup Plain({"adjust", "enable32K", "disable32K"})
              \cup [f : {"disableAlarm", "clearAlarm"}, n : {1, 2}]
              \cup [f : {"setAlarm1"}, date : Dates, mode : DOMAIN Alarm1Mode]
              \cup [f : {"setAlarm2"}, date : Dates, mode : DOMAIN Alarm2Mode]
      [] device = "pcf8523" ->
            SetSquareWave(device)
              \cup Plain({"adjust", "start", "stop", "enableSecondTimer",
                         "disableSecondTimer", "disableCountdownTimer",
                         "deconfigureAllTimers"})
              \cup [f : {"enableCountdownTimer"}, timer : Countdowns]
              \cup [f : {"calibrate"}, offset : Offsets]
      [] device = "pcf8563" -> SetSquareWave(device) \cup Plain({"adjust", "start", "stop"})

Put(a, bits) == <<a, bits>>
PutAll(a, bytes) == [i \in 1..Len(bytes) |-> Put(a + i - 1, bytes[i])]

writeSqw1307(mode) == <<Put(DS1307_CONTROL, Bin(mode))>>
writenvram(address, data) == <<Put(DS1307_NVRAM + address, Bin(data))>>

Ds1307Writes(c) ==
    CASE c.f = "writeSqwPinMode" -> writeSqw1307(c.mode)
      [] c.f = "writenvram" -> writenvram(c.address, c.data)

(* While there is a square wave, the pin does not tell of alarms.           *)
Refused(c, r) == c.f \in {"setAlarm1", "setAlarm2"} /\ 2 \notin r[DS3231_CONTROL]

PutStatus(status) == <<Put(DS3231_STATUSREG, status)>>
adjust3231(r) == PutStatus(r[DS3231_STATUSREG] \ {7})
writeSqw3231(r, mode) ==
    <<Put(DS3231_CONTROL, (r[DS3231_CONTROL] \ {2, 3, 4}) \cup Bin(mode))>>
disableAlarm(r, n) == <<Put(DS3231_CONTROL, r[DS3231_CONTROL] \ {n - 1})>>
clearAlarm(r, n) == PutStatus(r[DS3231_STATUSREG] \ {n - 1})
enable32K(r) == PutStatus(r[DS3231_STATUSREG] \cup {3})
disable32K(r) == PutStatus(r[DS3231_STATUSREG] \ {3})

Ds3231Writes(c, r) ==
    CASE c.f = "adjust" -> adjust3231(r)
      [] c.f = "writeSqwPinMode" -> writeSqw3231(r, c.mode)
      [] c.f = "setAlarm1" ->
            PutAll(DS3231_ALARM1, Alarm1Bytes(c.date, Alarm1Mode[c.mode]))
                \o <<Put(DS3231_CONTROL, r[DS3231_CONTROL] \cup {0})>>
      [] c.f = "setAlarm2" ->
            PutAll(DS3231_ALARM2, Alarm2Bytes(c.date, Alarm2Mode[c.mode]))
                \o <<Put(DS3231_CONTROL, r[DS3231_CONTROL] \cup {1})>>
      [] c.f = "disableAlarm" -> disableAlarm(r, c.n)
      [] c.f = "clearAlarm" -> clearAlarm(r, c.n)
      [] c.f = "enable32K" -> enable32K(r)
      [] c.f = "disable32K" -> disable32K(r)

(* Slip: the second timer is started without what shares its register.      *)
SecondTimerClock(clock) == Bin(184)
TimerClock(clock) == clock \cup Bin(184)

adjust8523 == <<Put(PCF8523_STATUSREG, {}), Put(PCF8523_CONTROL_3, {})>>
start8523(r) == <<Put(PCF8523_CONTROL_1, r[PCF8523_CONTROL_1] \ {5})>>
stop8523(r) == <<Put(PCF8523_CONTROL_1, r[PCF8523_CONTROL_1] \cup {5})>>
writeSqw8523(mode) == <<Put(PCF8523_CLKOUTCONTROL, {i + 3 : i \in Bin(mode)})>>
enableSecondTimer(r) ==
    <<Put(PCF8523_CLKOUTCONTROL, TimerClock(r[PCF8523_CLKOUTCONTROL])),
      Put(PCF8523_CONTROL_1, r[PCF8523_CONTROL_1] \cup {2})>>
disableSecondTimer(r) == <<Put(PCF8523_CONTROL_1, r[PCF8523_CONTROL_1] \ {2})>>
disableCountdownTimer(r) ==
    <<Put(PCF8523_CLKOUTCONTROL, r[PCF8523_CLKOUTCONTROL] \ {0})>>
enableCountdownTimer(r, timer) ==
    disableCountdownTimer(r) \o
    <<Put(PCF8523_CONTROL_2, r[PCF8523_CONTROL_2] \cup {0}),
      Put(PCF8523_TIMER_B_FRCTL, {i + 4 : i \in Bin(timer[3])} \cup Bin(timer[1])),
      Put(PCF8523_TIMER_B_VALUE, Bin(timer[2])),
      Put(PCF8523_CLKOUTCONTROL, r[PCF8523_CLKOUTCONTROL] \cup Bin(121))>>
deconfigureAllTimers(r) ==
    <<Put(PCF8523_CONTROL_1, r[PCF8523_CONTROL_1] \ {2}), Put(PCF8523_CONTROL_2, {}),
      Put(PCF8523_CLKOUTCONTROL, {}), Put(PCF8523_TIMER_B_FRCTL, {}),
      Put(PCF8523_TIMER_B_VALUE, {})>>
calibrate(offset) ==
    <<Put(PCF8523_OFFSET, (Bin(offset[2] % 256) \ {7}) \cup Bin(offset[1]))>>

Pcf8523Writes(c, r) ==
    CASE c.f = "adjust" -> adjust8523
      [] c.f = "start" -> start8523(r)
      [] c.f = "stop" -> stop8523(r)
      [] c.f = "writeSqwPinMode" -> writeSqw8523(c.mode)
      [] c.f = "enableSecondTimer" -> enableSecondTimer(r)
      [] c.f = "disableSecondTimer" -> disableSecondTimer(r)
      [] c.f = "enableCountdownTimer" -> enableCountdownTimer(r, c.timer)
      [] c.f = "disableCountdownTimer" -> disableCountdownTimer(r)
      [] c.f = "deconfigureAllTimers" -> deconfigureAllTimers(r)
      [] c.f = "calibrate" -> calibrate(c.offset)

adjust8563 == <<Put(PCF8563_VL_SECONDS, {})>>
start8563(r) == <<Put(PCF8563_CONTROL_1, r[PCF8563_CONTROL_1] \ {5})>>
stop8563(r) == <<Put(PCF8563_CONTROL_1, r[PCF8563_CONTROL_1] \cup {5})>>
writeSqw8563(mode) == <<Put(PCF8563_CLKOUTCONTROL, Bin(mode))>>

Pcf8563Writes(c, r) ==
    CASE c.f = "adjust" -> adjust8563
      [] c.f = "start" -> start8563(r)
      [] c.f = "stop" -> stop8563(r)
      [] c.f = "writeSqwPinMode" -> writeSqw8563(c.mode)

Writes(c, r) ==
    CASE device = "ds1307" -> Ds1307Writes(c)
      [] device = "ds3231" -> IF Refused(c, r) THEN <<>> ELSE Ds3231Writes(c, r)
      [] device = "pcf8523" -> Pcf8523Writes(c, r)
      [] device = "pcf8563" -> Pcf8563Writes(c, r)

(* The last write to a register stays.                                      *)
Written(r, writes) ==
    [a \in DOMAIN r |->
        LET those == {k \in 1..Len(writes) : writes[k][1] = a}
        IN IF those = {} THEN r[a]
           ELSE writes[CHOOSE k \in those : \A j \in those : j <= k][2]]

(* A square wave of the PCF8523 and its timers take the pin from each       *)
(* other, and the square wave also stops the countdown.                     *)
Wish(a, c) ==
    CASE c.f = "writeSqwPinMode" ->
            IF device = "pcf8523" THEN [a EXCEPT !.wave = c.mode, !.counting = FALSE]
            ELSE [a EXCEPT !.wave = c.mode]
      [] c.f = "writenvram" -> [a EXCEPT !.memory[c.address] = c.data]
      [] c.f = "setAlarm1" -> [a EXCEPT !.alarm1 = c, !.on = a.on \cup {1}]
      [] c.f = "setAlarm2" -> [a EXCEPT !.alarm2 = c, !.on = a.on \cup {2}]
      [] c.f = "disableAlarm" -> [a EXCEPT !.on = a.on \ {c.n}]
      [] c.f = "enable32K" -> [a EXCEPT !.clock32K = TRUE]
      [] c.f = "disable32K" -> [a EXCEPT !.clock32K = FALSE]
      [] c.f = "start" -> [a EXCEPT !.runs = TRUE]
      [] c.f = "stop" -> [a EXCEPT !.runs = FALSE]
      [] c.f = "enableSecondTimer" -> [a EXCEPT !.second = TRUE, !.wave = 7]
      [] c.f = "disableSecondTimer" -> [a EXCEPT !.second = FALSE]
      [] c.f = "enableCountdownTimer" ->
            [a EXCEPT !.timer = c.timer, !.counting = TRUE, !.wave = 7]
      [] c.f = "disableCountdownTimer" -> [a EXCEPT !.counting = FALSE]
      [] c.f = "deconfigureAllTimers" ->
            [a EXCEPT !.second = FALSE, !.timer = <<0, 0, 0>>, !.counting = FALSE,
                      !.wave = 0]
      [] c.f = "calibrate" -> [a EXCEPT !.offset = c.offset]
      [] OTHER -> a  \* adjust, clearAlarm

Flags == IF device = "ds3231" THEN {"power", "alarm1", "alarm2"}
         ELSE IF device = "ds1307" THEN {} ELSE {"power"}
FlagAt(flag) ==
    CASE flag = "alarm1" -> <<DS3231_STATUSREG, 0>>
      [] flag = "alarm2" -> <<DS3231_STATUSREG, 1>>
      [] flag = "power" /\ device = "ds3231" -> <<DS3231_STATUSREG, 7>>
      [] flag = "power" /\ device = "pcf8523" -> <<PCF8523_STATUSREG, 7>>
      [] flag = "power" /\ device = "pcf8563" -> <<PCF8563_VL_SECONDS, 7>>
(* lostPower(), alarmFired(n)                                               *)
Shown(flag) == FlagAt(flag)[2] \in regs[FlagAt(flag)[1]]
ClearedBy(c) ==
    CASE c.f = "adjust" -> {"power"}
      [] c.f = "clearAlarm" -> {<<"alarm1", "alarm2">>[c.n]}
      [] OTHER -> {}

--------------------------------------------------------------------------------
PowerUpRegisters(chip) ==
    LET Set(a, n) == Put(a, Bin(n))
    IN Written([a \in 0..63 |-> {}],
         CASE chip = "ds1307" -> <<Set(DS1307_CONTROL, 3)>>
           [] chip = "ds3231" -> <<Set(DS3231_CONTROL, 28), Set(DS3231_STATUSREG, 136)>>
           [] chip = "pcf8523" -> <<Set(PCF8523_CONTROL_3, 224), Set(PCF8523_STATUSREG, 128)>>
           [] chip = "pcf8563" -> <<Set(PCF8563_VL_SECONDS, 128),
                                    Set(PCF8563_CLKOUTCONTROL, 128)>>)
PowerUpWishes(chip) ==
    CASE chip = "ds1307" -> [wave |-> 3, memory |-> [p \in Places |-> 0]]
      [] chip = "ds3231" ->
            [wave |-> 28, alarm1 |-> NoCall, alarm2 |-> NoCall, on |-> {},
             clock32K |-> TRUE]
      [] chip = "pcf8523" -> [wave |-> 0, second |-> FALSE, timer |-> <<0, 0, 0>>,
                              counting |-> FALSE, offset |-> <<0, 0>>, runs |-> TRUE]
      [] chip = "pcf8563" -> [wave |-> 128, runs |-> TRUE]

ChipInit ==
    /\ device \in {"ds1307", "ds3231", "pcf8523", "pcf8563"}
    /\ regs = PowerUpRegisters(device) /\ asked = PowerUpWishes(device)
    /\ calling = NoCall /\ was = regs
    /\ raised = IF device = "ds1307" THEN {} ELSE {"power"}
    /\ between = {} /\ calls = 0

(* The chip is without power: only so are there calls without end.          *)
PowerCycle ==
    /\ calling = NoCall /\ calls = MaxCalls
    /\ regs' = PowerUpRegisters(device) /\ asked' = PowerUpWishes(device)
    /\ was' = regs' /\ calling' = NoCall
    /\ raised' = IF device = "ds1307" THEN {} ELSE {"power"}
    /\ between' = {} /\ calls' = 0 /\ UNCHANGED device

(* A driver reads the registers that it needs,                              *)
Call ==
    /\ calling = NoCall /\ calling' \in Calls /\ was' = regs
    /\ calls < MaxCalls /\ calls' = calls + 1
    /\ UNCHANGED <<device, regs, asked, raised, between>>

(* and writes.                                                              *)
Return ==
    /\ calling # NoCall /\ calling' = NoCall
    /\ regs' = Written(regs, Writes(calling, was)) /\ was' = regs'
    /\ asked' = IF device = "ds3231" /\ Refused(calling, was) THEN asked
                ELSE Wish(asked, calling)
    /\ raised' = raised \ ClearedBy(calling)
    /\ UNCHANGED <<device, between, calls>>

(* The chip raises a flag: an alarm's when it matches its time.             *)
Raise(flag) ==
    /\ ~Shown(flag)
    /\ flag = "alarm1" => \E t \in Dates : Matches(BytesAt(DS3231_ALARM1, 4), t)
    /\ flag = "alarm2" => \E t \in Dates : Matches(BytesAt(DS3231_ALARM2, 3), t)
    /\ regs' = [regs EXCEPT ![FlagAt(flag)[1]] = @ \cup {FlagAt(flag)[2]}]
    /\ raised' = raised \cup {flag}
    /\ between' = IF calling = NoCall THEN between \ {flag} ELSE between \cup {flag}
    /\ was' = IF calling = NoCall THEN regs' ELSE was
    /\ UNCHANGED <<device, calling, asked, calls>>

ChipNext == Call \/ Return \/ PowerCycle \/ \E flag \in Flags : Raise(flag)

ChipSpec == ChipInit /\ [][ChipNext]_chipVars

--------------------------------------------------------------------------------
(* What the getters of the drivers return.                                  *)
readnvram(p) == Num(regs[DS1307_NVRAM + p])
readSqw1307 == Num(regs[DS1307_CONTROL] \cap Bin(147))
readSqw3231 == LET mode == regs[DS3231_CONTROL] \cap {2, 3, 4}
               IN IF 2 \in mode THEN 28 ELSE Num(mode)
isEnabled32K == 3 \in regs[DS3231_STATUSREG]
readSqw8523 == Num({i - 3 : i \in regs[PCF8523_CLKOUTCONTROL] \cap 3..5})
isrunning(control) == 5 \notin regs[control]
readSqw8563 == Num(regs[PCF8563_CLKOUTCONTROL] \cap Bin(131))

AlarmAsAsked(alarm, mode, fields, bytes, seconds) ==
    LET d == alarm.date
        day == IF alarm.mode = "Day" THEN dowToDS3231(d) ELSE d.d
    IN /\ mode = alarm.mode
       /\ fields = <<day, d.hh, d.mm, IF seconds THEN d.ss ELSE 0>>
       /\ \A t \in Dates : Matches(bytes, t) <=> Due(alarm, t, seconds)

Ds3231AsAsked ==
    LET ctrl == regs[DS3231_CONTROL]
    IN /\ asked.wave = readSqw3231
       /\ asked.on = {i + 1 : i \in ctrl \cap {0, 1}}
       /\ asked.clock32K <=> isEnabled32K
       /\ \/ asked.alarm1 = NoCall
          \/ AlarmAsAsked(asked.alarm1, getAlarm1Mode, getAlarm1, BytesAt(DS3231_ALARM1, 4), TRUE)
       /\ \/ asked.alarm2 = NoCall
          \/ AlarmAsAsked(asked.alarm2, getAlarm2Mode, getAlarm2, BytesAt(DS3231_ALARM2, 3), FALSE)

Pcf8523AsAsked ==
    LET clock == regs[PCF8523_CLKOUTCONTROL]
        frequency == regs[PCF8523_TIMER_B_FRCTL]
        offset == regs[PCF8523_OFFSET]
    IN /\ asked.wave = readSqw8523
       /\ asked.counting <=> 0 \in clock
       /\ asked.counting => 0 \in regs[PCF8523_CONTROL_2]
       /\ asked.timer = <<Num(frequency \cap 0..2), Num(regs[PCF8523_TIMER_B_VALUE]),
                          Num({i - 4 : i \in frequency \cap 4..6})>>
       /\ asked.second <=> 2 \in regs[PCF8523_CONTROL_1]
       /\ asked.runs <=> isrunning(PCF8523_CONTROL_1)
       /\ asked.offset = <<Num(offset \cap {7}),
                           Num(offset \ {6, 7}) - (IF 6 \in offset THEN 64 ELSE 0)>>

(* Every setting of a chip reads back as it was last asked for, whatever    *)
(* was set since in the same register; an alarm fires at the times that its *)
(* mode names; and a flag that the chip raised is shown until it is         *)
(* cleared, and only then - unless it came between a driver's read and      *)
(* write.                                                                   *)
ChipDoesAsAsked ==
    /\ CASE device = "ds1307" ->
              /\ asked.wave = readSqw1307
              /\ \A p \in Places : asked.memory[p] = readnvram(p)
         [] device = "ds3231" -> Ds3231AsAsked
         [] device = "pcf8523" -> Pcf8523AsAsked
         [] device = "pcf8563" ->
              /\ asked.wave = readSqw8563
              /\ asked.runs <=> isrunning(PCF8563_CONTROL_1)
    /\ \A flag \in Flags : /\ (Shown(flag) => flag \in raised)
                           /\ (flag \in raised \ between => Shown(flag))
================================================================================
