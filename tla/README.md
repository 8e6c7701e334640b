# Water station: a verification project

The firmware under `src/src` runs on an ESP32 in a water station. A SIM800L modem
receives text messages; an RS485 line connects the station, as Modbus RTU slave 1,
to a master (the code calls it AI7688). The main purpose of the program is that the
master learns of a text message "ping", and of its sender, by polling registers.

The modules here are written from the code. TLC checks them on small instances,
TLAPS proves the theorems in the `*Proofs` modules for every value of the constants.

    tlc -config MCHandshakeFaults.cfg MCHandshake
    tlapm HandshakeProofs.tla

`PROJECT.json` maps each definition to the lines it models, and lists every hazard of
the code at its line, with the properties that watch it.

## 1. Inventory

Everything runs in one thread, `loop()` of `main.cpp`: `MB_Slave_Run`, `TLB_Button`,
`MD_Run`, `TM_Run`, `TS_Read_SMS`, `delay(1)`, again and again. The parts share
globals; the surroundings (modem, master, line, power, and the web server's own task,
which may call `ESP.restart()`) act between any two steps.

| Part | State | Operations | Talks to | Modules |
|---|---|---|---|---|
| SIM800L side (`test_sim800l.cpp`) | message flags, `phone_number`, the receive buffer of `Serial` | `TS_Setup`, `TS_Send_SMS`, `TS_Update`, `TS_Read_SMS`, `TS_Status`, `TS_Ping_Status`, `TS_Check_All_Flag` | modem; Modbus side by flags | `StatusFlags`, `Handshake`, `Modem` |
| Modbus side (`my_modbus.cpp`) | `ai_read_*_flag`, the 227 holding registers | `MB_Slave_Run`, `MB_Slave_Write_*`, `MB_Slave_Filter_Read_Message`, the parsers, `MB_AI_Read_*` | both | `Handshake`, `Publishing`, `MasterMessages` |
| RTU slave (`ModbusRTU.cpp`) | `_len`, `t`, `_frame`, `_reply`, the receive buffer of `Serial2` | `task`, `rawSend`, `crc16` | RS485 line; calls the filter and `slavePDU` | `RtuSlave`, `RtuFrame` |
| PDU server (`Modbus.cpp`) | `_regs`, `_reply` | `slavePDU`, `fileOp`, the multiple reads and writes, `exceptionResponse`, `successResponce` | register bank | `SlavePdu`, `ModbusLoop`, `FileRecords` |
| Registers and callbacks (`Modbus.cpp`, `ModbusAPI.h`) | `_regs`, `_callbacks` | `addReg`, `removeReg`, `Reg`, `onGet`, `onSet`, `removeOn`, the API on them | application | `Registry` |
| RTU master and API (`ModbusRTU.cpp`, `Modbus.cpp`, `ModbusAPI.h`) | `_slaveId`, `_sentFrame`, `_cb`, `_timestamp` | `send`, `masterPDU`, `cleanup`, the calls of the API | compiled, unused by the station | `RtuMaster`, `ModbusLoop`, `FileRecords` |
| Buttons (`test_led_but.cpp`) | last two samples, `count` | `TLB_Button` | pins; `TS_Send_SMS` | `Peripherals` |
| Clock (`my_ds1307.cpp`, RTClib) | `md_time`, `count_rtc`, the chip | `MD_Config`, `MD_Run` | RTC over I2C; `md_time` is published | `Peripherals`, `StationClock`, `Calendar`, `CalendarText` |
| Status LED (`test_max6369.cpp`) | `LEDState`, `time2` | `TM_Run` | pin | `Peripherals` |
| Length sensor (`length_sensor.cpp`, `test_adc.cpp`) | sums and averages | `TA_Run` and three variants of a reading; off in this build (`TEST_ADC 0`) | published | `LengthSensor` |
| Conversions (`convert.cpp`) | static buffers | one per conversion | Modbus side | `Publishing` |
| Web (`my_webdebug.cpp`) | - | `WD_Handler`, `WD_Setup` | may restart the station | the `Restart` actions |
| RTClib, other chips | registers of the chip | alarms, timers, square waves, calibration | I2C | `ClockChips` |
| Adafruit BusIO | - | `Register::read`/`write`, `RegisterBits`, `transfer` | I2C, SPI | `BusRegister` |
| EspSoftwareSerial | ISR buffer, receive state, queues | `write`, `rxBits`, `rxBitISR`, `read`; `push`, `pop`, `for_each`, ... | line, interrupts | `SoftSerial`, `CircularQueue` |

What is hard, and what makes each part correct:

* **Ping handshake.** A ping is published in one pass, read by the master in the
  `task()` of this or a later pass, noted by the filter, and consumed by the *next*
  check, up to three of which run in one pass. Between any two of these steps another
  message may come, a frame may be damaged or repeated, the station may restart.
  Correct: no ping is answered twice or lost in a way nobody named; registers read
  together agree; the number published with a ping is that of one who sent a message since it waits.
* **Framing.** Only silence separates frames, and `task()` is away for up to
  seconds. Correct: no frame is cut in two; replies come in time and never meet
  another frame, if the master has the patience for it; the byte loops end; the CRC
  finds the damage that lines do.
* **PDU server.** Thirteen function codes, each with its order of checks and writes,
  and three `malloc` outcomes. Correct: a refusal changes nothing, a write changes
  only what its offset and count name, and only writes that arrived are acknowledged (`FC_READWRITE_REGS` apart).
* **API.** A call crosses two libraries, two byte orders and a packing of bits.
  Correct: who is told `EX_SUCCESS` has got what he asked for, but for what `readWriteHreg` writes.
* **Registers and callbacks.** Two vectors searched from the front. Correct: they
  behave as a map with handlers.
* **Parsers.** They believe the byte count of a frame that nobody has checked.
  Correct: no field is overrun, every byte lands in the field of its place.
* **RTU master.** One transaction at a time, known by its slave and function alone; `task()`
  never waits, requests and callbacks share `_len` and `_slaveId` with it. Correct: each request
  that was accepted is told once, in the end, and with an answer that can be its own.
* **Modem.** The station writes commands and text at fixed pauses and looks at no
  answer. Correct: a message leaves with its text; a report that meets no other is read.
* **Timers, buttons, clock.** The wrap of `millis()`; alternating samples of two buttons; an
  I2C bus whose failures nobody looks at.
* **Libraries.** Lock-free queues, interrupts that come late, registers shared with a chip.

## 2. Plan

Done, in this order (the most important first):

1. `StatusFlags`, `Handshake`, with the abstract `PingMailbox`; proofs.
2. `SlavePdu`, the register bank under every request; proofs.
3. `RtuSlave`, frames by silence, in ticks; proofs.
4. `MasterMessages`, the walks of the parsers; proofs.
5. `RtuMaster`, the library as a master: one transaction at a time; proofs.
6. `Peripherals`: clock, status LED and buttons with a small modulus for `millis()`; proofs.
7. `Modem`, `Publishing`, `LengthSensor`: the rest of the station around the slave; proofs.
8. `Registry` with the abstract `RegisterMap`; `ModbusLoop`, `FileRecords`, `RtuFrame`:
   the library end to end.
9. `Calendar`, `CalendarWalk`, `StationClock`: dates and the clock.
10. `CircularQueue`, `SoftSerial`, `ClockChips`, `BusRegister`: the libraries' own logic.

Proved since: the deadline of an answer, prompt slaves, the dialogue with the modem, the way of the time and
of the lengths, the layout of the registers, the registers as a map, the queues, the calls of the API and the file records end to
end, and the registers of a chip behind each bus.

## 3. Modules and code

Definitions named `...Unchecked`, `...Swapped` and the like, marked as slips, are plausible bugs of the
definition behind them. No specification uses them; each shows that a property notices it.

### StatusFlags, Handshake, PingMailbox

`StatusFlags` holds the globals of both sides as one record and one operator per
function (`TS_Check_All_Flag`, `TS_Status`, `TS_Ping_Status`, `ReceiveSms`, `NoteRead`),
because `MB_Slave_Run` calls several of them in a row, each on what the last one left.
`Published` composes lines 38 to 41. Line 41 passes `TS_Ping_Status()` and a copy of the
buffer that this call rewrites; C++ leaves the order of arguments open, so `copyFirst`
is chosen once, by the compiler. The properties are of both orders and say what differs: a buffer that
is copied first shows no number in the first pass of a ping, and the old one in the first pass after it.

`Handshake` is the loop. `pc` says where it stands; the actions are `Boot`, `Publish`,
the four outcomes of `mb.task()` (`TaskIdle`, `TaskForeign`, `TaskSilent`, `TaskAnswer`),
`Button`, `Send` (one `TS_Update`, three per message sent), `ReadSms` and `FinishRead`.
The surroundings are `SmsArrives`, `ModemChatter`, `MasterSends`, `MasterRetries`,
`Damage`, `Restart`. A frame is its address, the meaning of its start register, and
whether its count and its CRC are right. A restart takes the flags, registers and
buffers back to their first values. Four history variables name what became of every
accepted ping (`tally`), who sent those that wait (`pingers`), who has sent something else
meanwhile (`others`), and what the publication before showed (`shown`); no action reads them
to decide anything.

A text message counts from the moment `TS_Read_SMS` has accepted it. What `TS_Update`
drains, and what is merged behind another report in one `readString`, never gets there:
the model loses it too, as the code does. `Modem` says which messages this may be.

`PingMailbox` is what the station promises: a mailbox of one slot. A ping goes in; it is
taken out by a reply at most once; it may be given up. `Handshake` maps its slot to
"the flag is up and no read of it has been noted".

### SlavePdu

One action per function code, each with its checks in the order of the code.
`heap` is the answer of `malloc`: enough, enough for an exception only, nothing. A word
is the set of its bits, so masks are set operations. The bank is any set of registers;
addresses wrap at `Space` (65536 in the code). Counts and addresses are all tried.
`last` keeps the request as it came, its first address and its count; which registers these name
(`NamedBy`) is counted without a wrap, while the loops of the code (`Span`, `Stored`) wrap.
`Publish` is the station's own write between requests.

### RtuSlave

A tick is the same time for line and station; a byte on the line is the number of its
frame, since all that matters of a byte here is where it belongs. `Task` and `Wait` are
the entry of `task()` and one turn of its wait; `GiveUp` is the early return after
`MODBUSRTU_MAX_READ_US`, which keeps `_len` and `t`; `TakeFrame` reads as many bytes as
were noticed; `Drop` and `Answer` end the call; `SendTick` and `Sent` are `rawSend`.
`AwayTick` is everything else in `loop()`. `patience` and `memory` are chosen once: how
long this master waits for an answer, and whether `malloc` ever fails.

Assumed of the line: bytes of one frame follow each other within `MaxGap < Silence`, the
master keeps a silence of at least `Silence` before a frame, and Serial2 reports a byte
in the tick in which it comes. Assumed of the CRC: it finds every frame that is not
single, whole and undamaged (`RtuFrame` checks this for short bursts).

### MasterMessages

`Filter` hands a frame to its parser; `Byte` and `LastByte` are one turn of its loop;
`Done` is the judgement of `slavePDU` afterwards. `Widths` is the table of the fields, read
off the states of the parsers. A byte is its place in the message. Assumed: the number of
registers of the frame agrees with an even byte count, as `FC_WRITE_REGS` demands.

### RtuMaster

The library's other half, which the station links but does not call. `Ask` is a function of
`ModbusAPI` (it builds the frame, which sets `_len`) with the `send` that ends it; it is taken between
two calls of `task()` and from callbacks (`pc = "told"`). `TaskIdle`, `TaskHolds`, `TaskDrops` and
`TaskAnswered` are the ways through one call of `task()`, with `Cleanup` where the code calls it;
`Return` is what follows the callback. `Results` is `masterPDU`. A request is its slave, its function,
and the size that `masterPDU` compares; a byte on the line is the number of the request it answers.
`world` is chosen once: do slaves answer in time, does `malloc` ever fail, does the application ask
only while `slave()` is 0. `told` is a history of the callbacks.

Assumed: at most one answer to a request; its bytes follow each other within `MaxGap < Silence`; the
CRC finds answers that are damaged, cut, or merged. A request sent while an answer is coming spoils both.

### ModbusLoop, FileRecords, RtuFrame

`ModbusLoop` puts a master's library in front of `SlavePdu`. `Ask` is any call of the API; it builds
the frame, with the bytes of words swapped and coils packed, and a length that is an `uint8_t`. `Serve` is
`slavePDU` of the other module on the slave's bank; `MasterPDU` unpacks the answer into the
application's buffer or the master's own registers. Requests and answers may be lost, the slave may
publish between two requests, and either side may be out of memory: then a call is not sent, except
`maskHreg`, which writes through the null pointer and ends the run of the master (`Crash`).

`FileRecords` is the same for files, whose lengths count registers in the request, bytes in the answer,
and something in between in its header. The buffer of the application is followed by `Guard` bytes
that belong to somebody else. `onFile` is external: a file that refuses what lies beyond its end.
Every request and answer is one whose length fits into an `uint8_t`, which `FileRecordsAssumption` states of the constants.

`RtuFrame` runs `crc16()` with the library's own table on both ends of a line that damages two bytes in
a row, next to the shift register of the Modbus specification, for frames of any length.

### Registry, Positions, RegisterMap

`Registry` keeps `_regs` and `_callbacks` as the sequences they are, and has one action per family of
calls. `RegisterMap` is what an application expects of them: a partial map, and for each address and kind of
access a list of handlers. Its actions are relations between maps; `Registry` is mapped by looking each
address up as `searchRegister` does. Callbacks that themselves change the registers or callbacks are
excluded: they would invalidate the iterator of `callback()`. `Positions` says what `std::find_if` and
`std::remove_if` leave of a vector: the elements at some positions, in their order. `CircularQueue` uses it
for what a callback wants to keep.

### Peripherals, Modem, Publishing, LengthSensor

`Peripherals` polls clock, buttons and LED in the order of `loop()`, a pass taking as long as its other
calls do. Time counts modulo `Wrap`, and each comparison is the code's own, on numbers that wrap:
`MD_Run` compares a sum, `TM_Run` a difference. The sum is one of a signed `int`, whose overflow C++ leaves open;
this build adds in a register of 32 bits and compares it unsigned, which is the sum modulo `Wrap`.
`setup()` with its wait for the RTC comes first.

`Modem` is the dialogue. The station has a `pcModem` with the step within `TS_Setup`, `TS_Send_SMS` or
`TS_Read_SMS`; the modem takes one item at a time (`Take`), as a command, which may fail, or after its
prompt as text; what it says reaches the station line by line (`Speak`). It keeps its state when the
station restarts. The modem itself is external: only what the code relies on is modelled.

`Publishing` turns each `MB_Slave_Write_` function into a script of conversions, which overwrite the static
buffer of `convert.cpp`, and of register writes, and runs the scripts in the order of `MB_Slave_Run`.
`Layout` is what the master takes a register for, written from the addresses in `my_modbus.h`.

`LengthSensor` has the three variants of `length_sensor.cpp` in integers and `TA_Run` behind them. The Kalman
filter is a library: its estimate lies between the last one and the reading.

### Calendar, CalendarText, CalendarWalk, StationClock

`Calendar` is `DateTime` and `TimeSpan` of RTClib, operator by operator; `CalendarText` is its texts, as
sequences of characters: `__DATE__` and `__TIME__`, ISO 8601, `toString()` with its fields, `timestamp()`.
`CalendarWalk` goes through every day of 2000 to 2099 by `operator+` and compares it with a calendar that only
knows how long a month is; once a day it writes the date down and reads it back.
`StationClock` is the way of the time: the DS1307's registers in BCD with the halt bit, the driver over an
I2C bus any transfer of which may fail half-way, `MD_Config`, `MD_Run`, and the registers 32 to 35. A
buffer that no transfer filled holds junk.

### CircularQueue, SoftSerial, ClockChips, BusRegister

`CircularQueue`: one step per access to a variable of the other side. `shared` chooses
`circular_queue_mp` with all producers or `circular_queue` with one. A slot that holds nothing is marked,
so that reading it shows.

`SoftSerial`: the sender puts bits on the line with delays that may be late; `rxBitISR` notes edges late;
`TakeEdges`, `AskForEdges` and `FauxStopBit` are the three parts of the receiver's `rxBits()`, between which edges may come.

`ClockChips`: each driver function is split where it has read what it will write back, so that the chip
may raise a flag in between. A register is the set of its bits that are 1, and what is written last to a register stays.

`BusRegister`: the chip's shift register sees the edges that the library drives. A transfer over I2C may
fail: a read then gives ones, and of a write any number of bytes may have been stored. Two histories
follow the caller: `holds` is the value that its calls have asked for, and `doubt` the bits that a failure may have
left otherwise, which are those that a failed write should have changed and, after a write to a slice whose read
failed, those outside of the slice.

## 4. What is checked

| Run | Question | Bounds |
|---|---|---|
| `handshake_faults` | Does every ping have one fate, are replies consistent, does the handshake implement the mailbox, under damage, retries and restarts? | 2 phones, 2 chunks of modem output, pings or other messages, 1 unread, 2 faults, 5 kinds of requests |
| `handshake_live` | Is a waiting ping answered? | 1 phone, 2 chunks, 1 fault, a master that reads correctly |
| `handshake_noted` (violated) | Is a read noted only if it was answered? | 1 ping, 1 fault |
| `slave_pdu` | Are refusals clean, and acknowledged writes complete? | 4 addresses, 4 registers of three kinds with holes, 2-bit words, lists of 0 to 3 words, limits of 2 |
| `rtu` | Are frames whole, replies timely and alone on the line, loops finite? | 3 frames of 3 bytes, all kinds of frames, patience below and above the worst case, a buffer of 6, with and without memory |
| `master_messages` | Are fields filled in place and within bounds? | the real layouts and every byte count from 0 to 255 |
| `master_mqtt` (violated) | Is a complete MQTT configuration accepted? | complete messages |
| `rtu_master` | Is each request told once, with an answer that is its own if slaves are prompt, and as a timeout only if the answer is lost? | 2 requests of 5 kinds, answers of 2 bytes, 4 worlds |
| `devices` | Do clock, LED and buttons survive the wrap of `millis()`; does the dialogue keep messages whole; does an answer show one pass; is a length one of its readings? | `Wrap` 13 with a period of 4, on-time 3; 2 reports, 3 messages sent, 2 restarts, 4 lines, 3 commands; all 227 registers, 3 passes, 3 reads; 5 readings, averages of 3 |
| `registry` | Do two vectors behave as a map with handlers? | 2 kinds, 3 addresses, 2 registers, 2 callbacks whose order shows |
| `algorithms` | Do dates, the published time, the CRC, file records and calls of the API do what they should? | every day of a century at 4 moments, and its texts at one of them; 3 dates, 2 kinds of junk; 2 bytes and 7 damages anywhere in a frame, 4 rates; 6 file registers; 4 addresses, words of two 2-bit bytes, a frame of 10 bytes, 0 to 3 words or bits |
| `libraries` | Are queues first in first out, bits read as written, chips set as asked, slices of registers confined? | 3 slots, 2 producers, blocks of up to 3; bytes of 3 bits, 3 ticks for each, interrupts 1 tick late; 3 calls on each of 4 chips; 3 buses, 4 modes, 4 types, 1 to 4 bytes, writes that fail after any byte |

The properties by name; the comment before each says what it claims:

* `handshake_live`: `PingAnswered`, `PingSettles`.
* `handshake_faults`: `EveryPingAccountedFor`, `AckBelongsToThisPass`, `RepliesAgree`, `AnswerNamesPinger`, `ClearedOnlyByRead`, `ImplementsMailbox`.
* `handshake_noted`: `ReadNotedIsAnswered`.
* `slave_pdu`: `OnlyMultipleWritesLoseTheFrame`, `RefusedChangesNothing`, `OnlyNamedRegistersChange`, `AcknowledgedWritesExist`.
* `rtu`: `Punctual`, `ByteLoopEnds`, `NoFrameSplit`.
* `master_messages`: `InBounds`, `LandsInItsField`.
* `master_mqtt`: `WholeMessageAccepted`.
* `rtu_master`: `EachToldOnce`, `RightAnswer`, `PromptIsToldRight`, `PoliteIsTold`.
* `devices`: `ClockFresh`, `LedKeepsTime`, `EachPressOnce`, `LoneReportIsRead`, `MessageIsAsAsked`, `AnswersShowOnePass`, `LengthIsOfItsReadings`.
* `registry`: `NoDoubleNoOrphan`, `ImplementsRegisterMap`.
* `algorithms`: `CalendarAgrees`, `PublishedTimeIsTrue`, `FrameIsGuarded`, `TransferIsExact`, `SuccessMeansDone`, `NeverSetBack`.
* `libraries`: `QueueIsFifo`, `ReadsWhatIsWritten`, `ChipDoesAsAsked`, `RegisterAsGiven`.

`devices`, `algorithms` and `libraries` each hold several parts that share no state: the first state
chooses one, and the variables of the others stand still, so each part is checked by itself.

Why the bounds are enough: two chunks are the least with which one message can follow
another between any two steps of a pass; one fault before and one after a read cover
each pair of damage, repetition and restart. In `slave_pdu` two words per list put a hole
at the start, the end and behind a range, and four addresses let ranges wrap. In `rtu` three
frames are one that is served late, one merged behind it, and one that meets the reply;
`MaxRead` is less than a frame plus its silence, so waits are given up half-way, and the
buffer holds two frames, so it overflows. `Silence`, `Away` and `ReplyTime` keep the order
that they have in the code, not their ratio; the theorems hold for all values. In
`master_messages` nothing is scaled down. In `rtu_master` a second request is the least that a late
answer can be mistaken for; `Away` is as long as the timeout, so `task()` may come back late.

In `devices`, `Wrap` is three periods, so refreshes fall at any distance from the wrap. Two restarts let one
come while the modem is still in the text of the message that the first has left. Two reports are
the least of which one can hide the other. `Publishing` has nothing scaled down but the number of passes. In
`registry` two callbacks that do not commute show an order, and a third address
is the highest, which `addReg` never reaches. In `algorithms` a frame of `Octet` bytes is reached by two
words, as 125 words reach 256 bytes in the code; the registers exist on the slave, the master, both or
neither. In `libraries` the queue wraps with each block, an interrupt may be late by a third of a bit, and
three calls are two settings that share a register with one on top. The sender's delays are exact in this
run (`Jitter` 0).

Deadlock is checked in every run.

**Fairness.** `WF_vars(Loop)`: one thread that never blocks. `SF_vars(MasterSends(PingRead))`: the
master polls register 42 whenever it finds the line free again and again. Nothing is
assumed of modem, button or faults, whose number is bounded: `readString` in a modem that
never stops talking would hold the loop for ever, and the code offers nothing against it.
`WF_vars(Next)` in `RtuMaster`: time passes and the application's loop goes on; no choice within it
is favoured. `PoliteIsTold` holds for applications that ask only while `slave()` is 0.

### Findings

Two disagreements of the code with what it says of itself are runs:

* `ReadNotedIsAnswered`: the filter runs before the CRC is checked (`ModbusRTU.cpp:271`), so
  a frame that gets no reply still acknowledges the ping.
* `WholeMessageAccepted`: a whole MQTT configuration ends ten registers behind the bank; it is
  parsed, then refused.

Others appear as exceptions in the properties, which say where they end, or were met while modelling:

* The station. `TS_Status` clears `have_message` unless a ping is pending, so messages that are no ping are
  never reported (`test_sim800l.cpp:201`). Any later message replaces the number published with a ping that
  waits (`:123`; `AnswerNamesPinger` allows the number of one who has sent something else since). `MB_Slave_Write_Get_Status` drops the number it is given.
  A restart in the middle of a message lets the modem take commands of `TS_Setup` for text (`MessageIsAsAsked` allows one
  such message for each restart). A refresh of the clock that falls into the last pass before `millis()` wraps is
  missed for another 49.7 days (`ClockFresh`, `MayBeMissed`); the length sensor paces itself with the same comparison.
  `MD_Config` sets a clock twice, the second time to a fixed date.
* The Modbus library. `FC_READWRITE_REGS` writes before it looks, checks the range it reads twice, acknowledges zeros
  written to missing registers (`Modbus.cpp:416`), and goes on at address 0 behind the last one (`:548`; both are
  named as exceptions in `SuccessMeansDone`, the second also in `OnlyNamedRegistersChange`). `maskHreg` does not look
  whether it got memory (`ModbusAPI.h:360`). A master's application that asks in every pass is told nothing, since a refused
  `send()` resets `_len` (`ModbusRTU.cpp:201`). A frame of 256 bytes behind the address is sent empty. `masterPDU`
  refuses file answers of one or two registers, and its `memcpy` writes one byte behind the data (`Guard` in `FileRecords`);
  the size of a file answer is summed in an `uint8_t` and compared with a limit no `uint8_t` exceeds. `removeOn` never
  removes a callback that is named, and an empty callback for `onSet` removes those of `onGet`.
* Libraries. A soft-serial edge between the two checks before a faux stop bit corrupts a byte, though the comment
  says that this is checked (`SoftwareSerial.cpp:478`). The DS3231 driver may wipe an alarm flag raised while it clears another.
  Starting a square wave stops a running countdown of a PCF8523. SPI mode 3 in software leaves the clock low, so the
  chip never sees the last edge. A write to a slice of a register whose read failed writes ones around it, although a comment says that other bits
  stay (`Adafruit_BusIO_Register.cpp:320`; `RegisterAsGiven` names it as its exception). With several
  producers, the last to leave may publish a position that is older than what the others have written meanwhile
  (`circular_queue_mp.h:209`): accepted elements stay unseen until the next push.

## 5. What is proved

All for any constants that satisfy the module's assumption, and the hypothesis named where there is one.
`PROJECT.json` lists each theorem with the property it states.

* **HandshakeProofs**: `TypeCorrect`, `Accounting`, `ConsistentReplies`, `AcksAreFresh`, `OnlyReadsClear`,
  `RepliesNamePingers`, `Refinement`.
  The invariant `IInv` joins types, `EveryPingAccountedFor`, `AckBelongsToThisPass`, both halves of `RepliesAgree`,
  and `Agreement`: only a ping is ever pending, the registers agree with each
  other, and the loop reads only while there is something to read. The
  accounting alone is not inductive: that a reply carries a ping only while one waits needs
  `AckBelongsToThisPass` (in `task()` the registers show the flags of this pass, and nothing is
  noted yet), and this needs that the second and third check of a pass change nothing
  (`CheckIdempotent`). `Refinement` maps `Publish` and every silent step to a stutter, `FinishRead` to `Put` or
  `PutTooLate`, `TaskAnswer` to `Take` or `Drop`, `TaskSilent` and `Restart` to `Drop`.
  `ConsistentReplies` and `RepliesNamePingers` are of both orders of line 41 and of any messages: `SendersKnown` says
  that the number kept with a ping is that of a sender since it waits, and `ShownNames` what the registers show of it
  while `task()` runs, with what a buffer that is copied first may still lack or keep for one pass.
* **SlavePduProofs**: `RepliesAreKnown`, `RefusalIsClean`, `NamedOnly`, `AcknowledgedWritesReach`. All four
  are facts about single steps; one lemma per way of answering (`QuietStep`, `RefusedStep`, `StoreStep`,
  `WriteMultipleStep`, `ReadWriteStep`) shows the predicate `Sound`, and `NextSound` collects them. The
  loops wrap and the names of a request do not: `LoopReaches` says what a loop reaches in either case, and `RangeIsNamed`
  that this is what was named if the range was compared with the last address (`Countable`), which all but
  `FC_READWRITE_REGS` do.
  * `ModbusLoop`: `SuccessIsReal`. While a request or an answer is on the line it is the one of the call under way, the
    master's registers are those it was sent with, and an answer that is no exception carries what the slave held when it
    had served the request (`LoopInv`). Words cross a frame because a swap undoes itself (`WordsCross`), coils because
    packing is division by eight (`CoilsCross`), and a list keeps its order because a span of wrapped addresses is not so long
    as to meet itself (`Offset`). It assumes that there is a word other than zero.
  * `FileRecords`: `FilesComeThrough`. A request or answer is pieces strung together, whose places are known
    (`StrungPlaces`); the walk of `masterPDU()` copies from those places what was carried (`WalkCopies`), and the file
    after a write is what was there with what was given (`ServedExactly`). A loop is a function determined by its first
    value and its step (`Recursion`).
* **RtuSlaveProofs**: `TypeCorrect`, `FramesAreWhole`, `ByteLoopsEnd`, `AnswersArePunctual`. The invariant says that,
  while `task()` waits, the line is at most one byte ahead of it: either all has been noticed and the line has been
  silent for as long as `task()` believes (`Settled`), or one byte has just come (`Fresh`); and if this
  byte came after a whole silence it is the first of its frame. Hence what is taken holds no
  byte of a frame still coming. It needs `MaxGap < Silence` and that bytes are lost only when the
  buffer is full or the station sends.
  `AnswersArePunctual` assumes `Roomy`: a frame fits into Serial2, and a silence into one wait of `task()` (4 ms
  against `MODBUSRTU_MAX_READ_US`, 100 ms). For a patient master its invariant `Served` says that Serial2 holds nothing
  but its one open request (`OneFrame`), that a request that deserves an answer is in Serial2 or being answered
  (`Wanted`), and how old the last byte may be at each place of the loop (`Deadline`). The difficult case is a wait
  that was given up: `t` and `_len` are then of an earlier call, and the bound follows from the time away since.
* **MasterMessagesProofs**: `TypeCorrect`, `WalksStayInBounds` (what is written, not what is read: a frame has no length of
  its own here), from the invariant that the position has
  room for the next step within its field (`RoomForNext`), and `BytesLandInTheirFields`, from `InPlace`: the byte
  that is next in the frame has, in the layout of the message, the field and position at which the parser stands.
* **RtuMasterProofs**: `TypeCorrect`, `ToldOnce`, `SuccessFits`, `PromptSlavesAreHeard`. The invariant adds
  `SentIsLast`: the request that is waited for is the last one that is waited for at all, and `_cb` runs only while
  there is one. Hence telling keeps the order, and an answer of the right slave cannot be of a later request. One
  lemma for each effect on the ledger of requests (`UnmovedKeepsLedger`, `TellsKeepsLedger`,
  `AcceptsKeepsLedger`, `EndsKeepsLedger`), one for each action. With prompt slaves, `OneAnswer` says that
  everything due, coming or received answers the request that is waited for; `TrueSilence` that `task()` ends a
  frame only when it is over; `NotLost` that an answer which nothing spoils is not given up before it is told.
* **DeviceProofs**, on five modules that share no state:
  * `Peripherals`: `TypeCorrect`, `ClockStaysFresh`, `LedOnTime`, `PressesSeenOnce`, for every `Wrap`, period, length
    of a pass and age of press. The invariant ties each age to the time stored: `now` is the stored time plus the
    age, modulo `Wrap` (`AgeTells`); so a difference tells the age as long as it is less than `Wrap` (`LedWaits`),
    while a sum that wrapped does not, unless it keeps a gap from the wrap (`ClockWaits`, `NotDueIsFresh`). For the
    buttons it adds that samples alternate (`Alternates`).
  * `LengthSensor`: `LengthsAreOfTheirReadings`. Each sum lies between `n` times the lowest and `n` times the
    highest of the `n` readings in it (`Sums`), and division keeps this.
  * `StationClock`: `PublishedTimeIsTheChips`, and `ClockRunsOn` (but for failed transfers and the second `adjust()`), for all valid dates and all junk. A valid date
    survives BCD, and a byte its place in a register; `ChipShows` says what date the
    chip holds, `ConfigSets` when `MD_Config` sets it, `TimeRead` and `TimeShown` follow it to the registers.
  * `Modem`: `OnlyRestartsSpoil`, `LoneReportsAreRead`, for any number of messages, lines and restarts. For the
    first, each item on its way to the modem is numbered by the restarts before it; the numbers grow where a message
    is broken off, so the modem cannot have spoiled more messages than there were restarts (`Numbered`). For the
    second, what has been read, is on the line and will be said are one sequence of lines, at whose front a
    report that came alone stays (`Leading`), and `readString` keeps the number and the text of one report together
    (`Chained`).
  * `ClockChips`: `ChipsDoAsAsked`, for every alarm, square wave, countdown, offset and byte of memory that the headers
    of RTClib offer (`ClockChipsAssumption`), and any number of calls. The invariant `ChipInv` says which bits of which
    registers hold what was asked for (`ChipSets`, chip by chip), and that what a driver has read differs from what the
    chip holds by flags only, each of which came in between (`Fresh`): so writing a register back whole
    returns the settings that share it, and may lose only such a flag (`FlagsKept`). A byte is determined by its bits
    (`Binary`), a date of an alarm by its BCD fields (`DayFieldIs`), and a mode by its bits 7 (`NamedIs`).
* **PublishingProofs**: `AnswersAreOfOnePass`, for all that sensor, clock and modem may say and all that the master writes.
  The invariant says which registers already show this pass at each call of `MB_Slave_Run` (`Ready`). Running a script
  is a function of the number of its steps (`Ran`), and `ScriptRuns` says what it leaves in a register: nothing new if no
  step puts it, otherwise the word of the step that puts it last, where a half is one of the float converted last before
  it. One lemma for each script finds that step and that conversion. It assumes that the first register of a
  request is not behind its last.
  * `BusRegister`: `RegistersHoldWhatIsGiven`, for every register address, width, order of bytes and slice, over I2C and
    both kinds of SPI. In software SPI each edge of the clock is a step; the lemmas say where the chip's shift register
    stands between two bits (`BetweenBits`), and so that a bit, a byte and a row of bytes cross in both directions
    (`BitCrosses`, `ByteCrosses`, `BytesCross`). `ValueCrosses` is the same of a number and its order of bytes, and the
    invariant `BusInv` of what the chip holds between two calls: it differs from what was asked for only where `doubt` has it.
    A failed write leaves in each byte either what was there or what was meant (`PartlyWritten`, `MixedBits`).
    Mode 3 in software is excluded, as it is in the property.
  * `CalendarWalk`: `CalendarKept`, for every set of years of the century and every ascending list of moments of a day.
    The invariant `WalkInv` says that the date is the calendar's day at the moment, and the one before it
    earlier on that day or on the day before. Days are counted in closed form (`YearsStart`, `MonthsAddUp`), which shows
    that the loops of `DateTime(t)` stop at the right year and month (`YearIsOne`, `MonthFound`) and that no second of
    the century wraps (`TimesAdd`). For the texts, `Printed` says what `toString` makes of a format: at each place it
    passes what it wrote, leaves a letter, or applies the first specifier that fits there; what it wrote starts
    none (`Inert`), although it is looked at again. One lemma for each format names the place up to which it has
    written, and `TextsKept` reads the letters back.
* **LibraryProofs**, on two modules:
  * `Registry`: `NoneTwiceNoneOrphaned`, `VectorsAreAMap`. `std::find_if` and `remove_if` are positions of a
    vector (`Place`, `Those`); the lemmas on them say that those positions keep their order and that the first entry
    of each address stays the first. `addReg` adds one register at a time, so its loop is a function of the number
    added, about which the lemmas argue by the smallest number for which they would fail. `VectorsAreAMap` shows, for
    each call, the map and the lists before and after; it assumes that a range has at most as many registers as there
    are addresses (`MaxCount <= Top` in `RegistryAssumption`; a count in the code is a `uint16_t`).
  * `CircularQueue`: `QueuesAreFifo`, for every size, every finite set of producers and every length of a block. The
    invariant `QueueInv` counts all positions from the one to be popped (`Ahead`), which turns a ring into a line.
    `Single` says that a lone producer keeps to what was free when it looked, since the consumer only frees slots.
    `Shared` orders what producers have read: published, read, claimed; that `m_concurrent_mp` is the
    number of those inside; and that one who publishes is alone in this, with the least of the positions read: it was
    alone inside when it read the count, and those who entered since have read no older position. `Contents`
    says that what is held is in its slot or about to be written there, `Consumed` what the consumer has seen of it,
    through every turn of `for_each_rev_requeue`.

The type invariants of these modules are proved and therefore not checked again by the runs.

Only model-checked:

* Liveness: `PingAnswered`, `PingSettles`, `PoliteIsTold`. `ENABLED` and fairness are out of the prover's reach.
* `FrameIsGuarded`: `crc16` is bitwise and a fold over the bytes of a frame, whose induction principle takes an operator
  as a parameter and cannot be cited.
* `ReadsWhatIsWritten`, a matter of timing: that the delays of the sender and of the interrupts leave each edge in
  its bit.
* `ReadNotedIsAnswered` and `WholeMessageAccepted`, which the code violates.

## 6. What is not modelled

* The station: frames shorter than four bytes; the values decoded by the parsers, which are only printed; the LEDs of the
  buttons; the web servers, whose only effect on the rest is a restart; `MD_Scan_I2C_Address`, not called; the wait of
  `setup()` for the web name service. The dialogue with the modem is what the code relies on, not the SIM800L's manual.
* The Modbus library: raw requests and the raw callback, requests without a callback, `onRequest`, callbacks that
  change the vectors they are in, and `darray.h`, which this build does not compile.
* RTClib: `RTC_Millis` and `RTC_Micros`, the temperature. Adafruit BusIO: printing, probing, the speed of the
  bus, `1 << _bits` for slices of 32 bits (undefined in C++), opcodes with addresses of two bytes, which read beyond the address buffer.
  EspSoftwareSerial: `rxBitSyncISR`, `onReceive`, one-wire mode, resizing and moving of queues, `push_n` of several producers
  (which uses a variable before it is set), the delegates.
* Build output and the rest of `.pio` are generated.
