----------------------------- MODULE StationClock -----------------------------
(***************************************************************************)
(* The time the station publishes: the DS1307 behind the I2C bus, the      *)
(* drivers of RTClib and Adafruit_I2CDevice, MD_Config that sets a stopped *)
(* chip, MD_Run that reads it, and MB_Slave_Run that puts the bytes into   *)
(* registers 32 to 35.  Neither driver looks at the result of a transfer:  *)
(* after one that failed the bytes are what the stack held.                *)
(***************************************************************************)
EXTENDS Calendar

CONSTANTS ChipDates,  \* dates the chip may come to by itself
          BuildDate,  \* __DATE__ and __TIME__
          Junk        \* six bytes that an uninitialized buffer may hold

FixedDate == DateOf(2023, 10, 9, 21, 40, 50)

CalendarDates == [yOff : 0..99, m : 1..12, d : 1..31, hh : 0..23, mm : 0..59, ss : 0..59]

\* A chip that runs counts dates of its century, the compiler writes one, and
\* so did who wrote the fixed one.
ASSUME StationClockAssumption ==
    \A d \in ChipDates \cup {BuildDate, FixedDate} : d \in CalendarDates /\ isValid(d)

VARIABLES pcClock,   \* the next call of MD_Config, or "loop"
          chip,      \* registers 0 to 6 of the DS1307, as 1 to 7
          md_time,   \* the seven bytes that MD_Run keeps
          hreg,      \* registers 32 to 35 of the bank, as 1 to 4
          \* history, for the properties only
          latest,    \* the date that the chip shows
          read,      \* what it showed at the last refresh, and if that went well
          shown,     \* the same for the refresh that the registers are of
          clean      \* no transfer has failed since the chip had power

clockVars == <<pcClock, chip, md_time, hreg, latest, read, shown, clean>>

LowByte(word) == word % 256
HighByte(word) == word \div 256
WordOf(low, high) == low + 256 * high  \* Convert_From_Bytes_To_Uint16

--------------------------------------------------------------------------------
(* The chip: seconds with the halt bit, minutes, hours, day of the week,    *)
(* day, month, year.                                                        *)

PowerUp == <<128, 0, 0, 1, 1, 1, 0>>
Halted(regs) == regs[1] >= 128

(* What adjust() writes behind the register number 0. *)
ChipBytes(date) == <<bin2bcd(date.ss), bin2bcd(date.mm), bin2bcd(date.hh), 0,
                     bin2bcd(date.d), bin2bcd(date.m), bin2bcd(date.yOff)>>

(* What now() makes of the seven bytes of its buffer. *)
DateReadSwapped(b) == DateOf(bcd2bin(b[7]) + 2000, bcd2bin(b[6]), bcd2bin(b[4]),
                             bcd2bin(b[3]), bcd2bin(b[2]), bcd2bin(b[1]))
DateRead(b) == DateOf(bcd2bin(b[7]) + 2000, bcd2bin(b[6]), bcd2bin(b[5]),
                     bcd2bin(b[3]), bcd2bin(b[2]), bcd2bin(b[1] % 128))

(* A transfer is acknowledged byte by byte, and the chip keeps the first n. *)
Kept(bytes, n) == [i \in 1..7 |-> IF i <= n THEN bytes[i] ELSE chip[i]]

--------------------------------------------------------------------------------
(* MD_Config *)

NothingRead == [date |-> DateRead(PowerUp), good |-> FALSE]

ClockInit ==
    /\ pcClock = "begin"
    /\ \/ chip = PowerUp /\ latest = DateRead(PowerUp)
       \/ \E d \in ChipDates : chip = ChipBytes(d) /\ latest = d
    /\ md_time = [i \in 1..7 |-> 0] /\ hreg = [i \in 1..4 |-> 0]
    /\ read = NothingRead /\ shown = NothingRead /\ clean = TRUE

(* The device is there when it acknowledges its address. *)
Begin ==
    /\ pcClock = "begin"
    /\ pcClock' = "isrunning"
    /\ UNCHANGED <<chip, md_time, hreg, latest, read, shown, clean>>

(* Slip: the halt bit is taken for a bit that says the clock runs. *)
IsRunningInverted ==
    /\ pcClock = "isrunning"
    /\ \E failed \in BOOLEAN :
        /\ clean' = (clean /\ ~ failed)
        /\ \E running \in IF failed THEN BOOLEAN ELSE {Halted(chip)} :
               pcClock' = IF running THEN "loop" ELSE "adjust to build date"
    /\ UNCHANGED <<chip, md_time, hreg, latest, read, shown>>

(* read_register(0) >> 7, of a byte that may never have come. *)
IsRunning ==
    /\ pcClock = "isrunning"
    /\ \E failed \in BOOLEAN :
        /\ clean' = (clean /\ ~ failed)
        /\ \E running \in IF failed THEN BOOLEAN ELSE {~ Halted(chip)} :
               pcClock' = IF running THEN "loop" ELSE "adjust to build date"
    /\ UNCHANGED <<chip, md_time, hreg, latest, read, shown>>

Adjust(date, next) ==
    /\ pcClock' = next
    /\ \E n \in 0..7 :
        /\ chip' = Kept(ChipBytes(date), n)
        /\ clean' = (clean /\ n = 7)
        /\ latest' = IF n = 7 THEN date ELSE DateRead(chip')
    /\ UNCHANGED <<md_time, hreg, read, shown>>

AdjustToBuildDate ==
    pcClock = "adjust to build date" /\ Adjust(BuildDate, "adjust to fixed date")
AdjustToFixedDate == pcClock = "adjust to fixed date" /\ Adjust(FixedDate, "loop")

--------------------------------------------------------------------------------
(* The loop *)

(* MD_Run when the period is over, with now(): one byte written and seven   *)
(* read into the same buffer, which holds the register number, 0, and junk  *)
(* if either fails.                                                         *)
Refresh ==
    /\ pcClock = "loop"
    /\ \E failed \in BOOLEAN :
        /\ \E buffer \in IF failed THEN {<<0>> \o j : j \in Junk} ELSE {chip} :
               LET date == DateRead(buffer)
                   year == date.yOff + 2000
               IN md_time' = <<LowByte(year), HighByte(year), date.m, date.d, date.hh,
                               date.mm, date.ss>>
        /\ read' = [date |-> latest, good |-> ~ failed]
        /\ clean' = (clean /\ ~ failed)
    /\ UNCHANGED <<pcClock, chip, hreg, latest, shown>>

(* button_data[0..6] = md_time, then 100s; two bytes for each register. *)
PublishTime ==
    /\ pcClock = "loop"
    /\ hreg' = [i \in 1..4 |->
                   WordOf(md_time[2 * i - 1], IF i = 4 THEN 100 ELSE md_time[2 * i])]
    /\ shown' = read
    /\ UNCHANGED <<pcClock, chip, md_time, latest, read, clean>>

--------------------------------------------------------------------------------
(* The surroundings *)

(* The chip counts; a halted one, or one that was given no date, does not. *)
ChipTicks ==
    /\ ~ Halted(chip)
    /\ \E d \in ChipDates :
        /\ Earlier(DateRead(chip), d)
        /\ chip' = ChipBytes(d) /\ latest' = d
    /\ UNCHANGED <<pcClock, md_time, hreg, read, shown, clean>>

(* Power goes and comes: the chip has a battery, which may be flat. *)
RestartStation ==
    /\ pcClock' = "begin"
    /\ md_time' = [i \in 1..7 |-> 0] /\ hreg' = [i \in 1..4 |-> 0]
    /\ read' = NothingRead /\ shown' = NothingRead
    /\ \/ UNCHANGED <<chip, latest, clean>>
       \/ chip' = PowerUp /\ latest' = DateRead(PowerUp) /\ clean' = TRUE

ClockNext == \/ Begin \/ IsRunning \/ AdjustToBuildDate \/ AdjustToFixedDate
             \/ Refresh \/ PublishTime \/ ChipTicks \/ RestartStation

ClockSpec == ClockInit /\ [][ClockNext]_clockVars

--------------------------------------------------------------------------------
MasterReads == DateOf(hreg[1], LowByte(hreg[2]), HighByte(hreg[2]), LowByte(hreg[3]),
                      HighByte(hreg[3]), LowByte(hreg[4]))

(* What the master reads in registers 32 to 35 is the date the chip showed  *)
(* at the last refresh, if that one went well on the bus, whatever went     *)
(* wrong before: junk never stays.  And without any failed transfer the     *)
(* chip runs when loop() begins, and the date shown is one of a calendar.   *)
PublishedTimeIsTrue ==
    /\ shown.good => MasterReads = shown.date
    /\ clean /\ pcClock = "loop" => ~ Halted(chip)
    /\ clean /\ shown.good => isValid(shown.date)

(* A clock that runs is never set back, unless a transfer has failed (then  *)
(* MD_Config may take it for stopped) or the second adjust() of MD_Config   *)
(* undoes the first.                                                        *)
NeverSetBack ==
    [][Earlier(latest', latest) =>
           \/ Halted(chip) \/ Halted(chip') \/ ~ clean'
           \/ pcClock = "adjust to fixed date"]_clockVars

================================================================================
