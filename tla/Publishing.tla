------------------------------- MODULE Publishing -------------------------------
(***************************************************************************)
(* MB_Slave_Run: what the station publishes in each pass, and the layout   *)
(* of its registers.  Each MB_Slave_Write_ function of my_modbus.cpp is a  *)
(* script of conversions and register writes; the conversion of a float    *)
(* returns a pointer to one static buffer, which the next one overwrites.  *)
(* A register holds a half of a float, a pair of bytes, or a number.       *)
(***************************************************************************)
EXTENDS Integers, Sequences

CONSTANTS Passes,   \* what the calls of a pass may return
          Messages, \* what the master writes, and to which registers
          Asked,    \* registers that it writes to
          Reads     \* first and last register of its requests

NUMBER_REGISTER_USED == 227
SENSOR_DATA_START_REGISTER == 0
BUTTON_DATA_START_REGISTER == 32
BUTTON_CHANGE_START_REGISTER == 40
STATUS_START_REGISTER == 41
PING_STATUS_START_REGISTER == 42
CALIB_PARAMETERS_START_REGISTER == 48
GET_STATUS_START_REGISTER == 54
REQUEST_CONFIG_START_REGISTER == 60
SENSOR_NUMBER == 16
BUTTON_NUMBER == 16
Registers == 0..(NUMBER_REGISTER_USED - 1)

ASSUME PublishingAssumption ==
    /\ Asked \subseteq (REQUEST_CONFIG_START_REGISTER + 1)..(NUMBER_REGISTER_USED - 1)
    /\ Reads \subseteq Registers \X Registers
    /\ \A range \in Reads : range[1] <= range[2]

VARIABLES pcRun,     \* the next call of MB_Slave_Run
          hreg,      \* the bank
          converted, \* the static buffer of Convert_From_Float_To_Uint16
          pass,      \* what the calls of this pass return
          answer,    \* the last answer to the master: from where, which words
          served,    \* the pass it was given in: history
          written    \* what the master has written: history

publishingVars == <<pcRun, hreg, converted, pass, answer, served, written>>

Half(float, i) == <<float, i>>
Number(n) == <<n>>
Pair(low, high) == <<low, high>>  \* Convert_From_Bytes_To_Uint16

--------------------------------------------------------------------------------
(* A script, run on the bank and the buffer.                                *)

Convert(float) == [op |-> "convert", float |-> float]
PutHalf(r, i) == [op |-> "half", r |-> r, i |-> i]
Put(r, word) == [op |-> "put", r |-> r, word |-> word]

Done(state, step) ==
    CASE step.op = "convert" -> [state EXCEPT !.buffer = step.float]
      [] step.op = "half" -> [state EXCEPT !.bank[step.r] = Half(state.buffer, step.i)]
      [] step.op = "put" -> [state EXCEPT !.bank[step.r] = step.word]

Ran(script, state) ==
    LET after[n \in 0..Len(script)] ==
          IF n = 0 THEN state ELSE Done(after[n - 1], script[n])
    IN  after[Len(script)]
Runs(script) ==
    LET after == Ran(script, [bank |-> hreg, buffer |-> converted])
    IN hreg' = after.bank /\ converted' = after.buffer

Float(r, data) == <<Convert(data), PutHalf(r, 0), PutHalf(r + 1, 1)>>

(* Three steps for each value. *)
MB_Slave_Write_Sensor(data) ==
    [k \in 1..(3 * SENSOR_NUMBER) |->
        LET i == (k - 1) \div 3
        IN  Float(SENSOR_DATA_START_REGISTER + 2 * i, data[i + 1])[((k - 1) % 3) + 1]]

MB_Slave_Write_Button_Change(data) == <<Put(BUTTON_CHANGE_START_REGISTER, Number(data))>>

(* i/2, with the i of C. *)
MB_Slave_Write_Button_State(data) ==
    [i \in 1..(BUTTON_NUMBER \div 2) |->
        Put(BUTTON_DATA_START_REGISTER + i - 1, Pair(data[2 * i - 1], data[2 * i]))]

MB_Slave_Write_Status(data) == <<Put(STATUS_START_REGISTER, Number(data))>>

MB_Slave_Write_Calib_Parameters(a, b, c) ==
    LET start == CALIB_PARAMETERS_START_REGISTER
    IN Float(start, a) \o Float(start + 2, b) \o Float(start + 4, c)

(* The number that it is also given goes nowhere. *)
MB_Slave_Write_Get_Status(data) == <<Put(GET_STATUS_START_REGISTER, Number(data))>>

MB_Slave_Write_Ping_Status(data, phone_number) ==
    <<Put(PING_STATUS_START_REGISTER, Number(data))>>
        \o [i \in 1..5 |-> Put(PING_STATUS_START_REGISTER + i,
                               Pair(phone_number[2 * i - 1], phone_number[2 * i]))]

MB_Slave_Write_Request_Config(data) == <<Put(REQUEST_CONFIG_START_REGISTER, Number(data))>>

--------------------------------------------------------------------------------
(* MB_Slave_Run *)

SensorData(float) == [i \in 1..SENSOR_NUMBER |-> IF i = 1 THEN float ELSE "100.5"]
ButtonData(md_time) == [i \in 1..20 |-> IF i <= 7 THEN md_time[i] ELSE 100]

Unread == [from |-> 0, words |-> <<>>]

(* MB_Slave_Setup *)
PublishingInit ==
    /\ pcRun = "arguments" /\ pass \in Passes /\ served = pass
    /\ hreg = [r \in Registers |-> Number(0)]
    /\ written = [r \in Asked |-> Number(0)]
    /\ converted = "none" /\ answer = Unread

(* What the sensor, the clock and the modem say in this pass. *)
Arguments ==
    /\ pcRun = "arguments" /\ pcRun' = "sensor"
    /\ pass' \in Passes /\ answer' = Unread
    /\ UNCHANGED <<hreg, converted, served, written>>

Script ==
    [sensor |-> MB_Slave_Write_Sensor(SensorData(pass.sensor)),
     change |-> MB_Slave_Write_Button_Change(1),
     state |-> MB_Slave_Write_Button_State(ButtonData(pass.md_time)),
     status |-> MB_Slave_Write_Status(pass.status),
     calib |-> MB_Slave_Write_Calib_Parameters("4.5", "5.5", "6.5"),
     get |-> MB_Slave_Write_Get_Status(pass.get),
     ping |-> MB_Slave_Write_Ping_Status(pass.ping, pass.phone),
     config |-> MB_Slave_Write_Request_Config(1)]

(* Slip: the master is served before the ping is published. *)
ThenTaskFirst == [sensor |-> "change", change |-> "state", state |-> "status",
                  status |-> "calib", calib |-> "get", get |-> "task", ping |-> "config",
                  config |-> "arguments", task |-> "ping"]
Then == [sensor |-> "change", change |-> "state", state |-> "status",
         status |-> "calib", calib |-> "get", get |-> "ping", ping |-> "config",
         config |-> "task", task |-> "arguments"]

MB_Slave_Run ==
    /\ pcRun \in DOMAIN Script
    /\ Runs(Script[pcRun]) /\ pcRun' = Then[pcRun]
    /\ UNCHANGED <<pass, answer, served, written>>

(* mb.task(): a request that has come is served from the bank. *)
Task ==
    /\ pcRun = "task" /\ pcRun' = Then["task"]
    /\ \/ UNCHANGED <<hreg, answer, served, written>>
       \/ /\ \E range \in Reads :
                answer' = [from |-> range[1],
                           words |-> [i \in 1..(range[2] - range[1] + 1) |->
                                         hreg[range[1] + i - 1]]]
          /\ served' = pass
          /\ UNCHANGED <<hreg, written>>
       \/ /\ \E r \in Asked, message \in Messages :
                /\ hreg' = [hreg EXCEPT ![r] = message]
                /\ written' = [written EXCEPT ![r] = message]
          /\ answer' = Unread /\ UNCHANGED served
    /\ UNCHANGED <<converted, pass>>

PublishingNext == Arguments \/ MB_Slave_Run \/ Task

PublishingSpec == PublishingInit /\ [][PublishingNext]_publishingVars

--------------------------------------------------------------------------------
(* What the master takes a register for, by the layout of my_modbus.h: the   *)
(* values p of a pass, or what it has itself written.                       *)
Layout(r, p, own) ==
    CASE r \in 0..1 -> Half(p.sensor, r)
      [] r \in 2..31 -> Half("100.5", r % 2)
      [] r \in 32..34 -> Pair(p.md_time[2 * (r - 32) + 1], p.md_time[2 * (r - 32) + 2])
      [] r = 35 -> Pair(p.md_time[7], 100)
      [] r \in 36..39 -> Pair(100, 100)
      [] r \in {40, 60} -> Number(1)
      [] r = 41 -> Number(p.status)
      [] r = 42 -> Number(p.ping)
      [] r \in 43..47 -> Pair(p.phone[2 * (r - 43) + 1], p.phone[2 * (r - 43) + 2])
      [] r \in 48..53 -> Half(<<"4.5", "5.5", "6.5">>[(r - 48) \div 2 + 1], r % 2)
      [] r = 54 -> Number(p.get)
      [] r \in Asked -> own[r]
      [] OTHER -> Number(0)

(* An answer to the master shows one pass only, never the half of a float   *)
(* or a number of one and the rest of another; each field is where the      *)
(* layout has it, and no publication reaches what the master has written.   *)
AnswersShowOnePass ==
    \A i \in 1..Len(answer.words) :
        answer.words[i] = Layout(answer.from + i - 1, served, written)
================================================================================
