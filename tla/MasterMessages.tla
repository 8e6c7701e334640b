-------------------------- MODULE MasterMessages --------------------------
(***************************************************************************)
(* How my_modbus.cpp takes the master's messages apart.  Each message is   *)
(* FC_WRITE_REGS to a start register of its own; its bytes are walked once *)
(* and put into the fields of the message one after the other, beginning   *)
(* again with the first field when the last one is full.                   *)
(*                                                                         *)
(* The walk believes the byte count that the frame names and takes place   *)
(* before slavePDU has judged the frame.  A byte is known by its place in  *)
(* the message; what it holds is no concern of the walk.                   *)
(***************************************************************************)
EXTENDS Integers, Sequences

CONSTANTS
    Counts,      \* the byte counts that frames name: data[DEFAULT_NUMBER_DATA]
    Registers,   \* NUMBER_REGISTER_USED
    MaxWords     \* MODBUS_MAX_WORDS

ASSUME MasterMessagesAssumption ==
    /\ Counts \subseteq 0..255
    /\ Registers \in Nat /\ MaxWords \in Nat

Messages == {"led_blink", "ping_response", "frequency", "status", "location",
             "mqtt"}

\* The start registers of my_modbus.h.
Start == [ led_blink |-> 71, ping_response |-> 74, frequency |-> 109,
           status |-> 111, location |-> 140, mqtt |-> 186 ]

\* The widths of the fields of each message, in bytes and in their order.
Widths == [ led_blink     |-> <<2, 2, 2>>,
            ping_response |-> <<10, 60>>,
            frequency     |-> <<4>>,
            status        |-> <<10, 6, 20, 4, 2, 4, 2, 4, 4, 2>>,
            location      |-> <<4, 4>>,
            mqtt          |-> <<20, 2, 20, 20, 20, 20>> ]

\* The walk over an LED message takes two bytes at a time.
Stride(m) == IF m = "led_blink" THEN 2 ELSE 1

\* The layout, for the properties: where each field of a message begins, and
\* after the last one where the message ends.
Begins == [ led_blink     |-> <<0, 2, 4, 6>>,
            ping_response |-> <<0, 10, 70>>,
            frequency     |-> <<0, 4>>,
            status        |-> <<0, 10, 16, 36, 40, 42, 46, 48, 52, 56, 58>>,
            location      |-> <<0, 4, 8>>,
            mqtt          |-> <<0, 20, 22, 42, 62, 82, 102>> ]

Before(m, f) == Begins[m][f]
Total(m) == Begins[m][Len(Widths[m]) + 1]

VARIABLES
    message,   \* the message being walked, or "none"
    count,     \* number_byte
    at,        \* i - DEFAULT_DATA_START
    field,     \* message_state, counted from 1
    pos,       \* temp_position
    reply      \* what slavePDU has answered to the last message

vars == <<message, count, at, field, pos, reply>>

Init ==
    /\ message = "none"
    /\ count = 0 /\ at = 0 /\ field = 1 /\ pos = 0
    /\ reply = "none"

\* MB_Slave_Filter_Read_Multi_Register hands the frame to its parser.
Filter(m, n) ==
    /\ message = "none"
    /\ message' = m
    /\ count' = n
    /\ at' = 0 /\ field' = 1 /\ pos' = 0
    /\ reply' = "none"

\* Slips: the position is kept when a field is full; the second field is
\* followed by the first.
ResetsNot(m) == FALSE
NextFieldSkips(m, f) == IF f = 2 THEN 1 ELSE (f % Len(Widths[m])) + 1

\* Update_Frequence counts its position up and never back.
Resets(m) == m # "frequency"
NextField(m, f) == IF f = Len(Widths[m]) THEN 1 ELSE f + 1

Walking == message # "none" /\ at < count
FieldIsFull == Resets(message) /\ pos + Stride(message) = Widths[message][field]

\* A byte goes into its field.
Byte ==
    /\ Walking
    /\ ~FieldIsFull
    /\ at' = at + Stride(message)
    /\ pos' = pos + Stride(message)
    /\ UNCHANGED <<message, count, field, reply>>

\* The last byte of a field: the value is made, and the next field begins.
LastByte ==
    /\ Walking
    /\ FieldIsFull
    /\ at' = at + Stride(message)
    /\ pos' = 0
    /\ field' = NextField(message, field)
    /\ UNCHANGED <<message, count, reply>>

\* The frame goes on to slavePDU, which looks its registers up; an odd byte
\* count is that of no number of registers.
Done ==
    /\ message # "none"
    /\ at >= count
    /\ message' = "none"
    /\ LET n == count \div 2
       IN  reply' = IF count % 2 = 1 \/ n \notin 1..MaxWords THEN "EX_ILLEGAL_VALUE"
                    ELSE IF Start[message] + n > Registers THEN "EX_ILLEGAL_ADDRESS"
                    ELSE "REPLY_NORMAL"
    /\ UNCHANGED <<count, at, field, pos>>

Next == (\E m \in Messages, n \in Counts : Filter(m, n)) \/ Byte \/ LastByte \/ Done

Spec == Init /\ [][Next]_vars
--------------------------------------------------------------------------
(* Properties. *)

\* The walk keeps its types: a field of the message, and a position in it.
TypeOK ==
    /\ message \in Messages \cup {"none"}
    /\ count \in Counts \cup {0}
    /\ at \in 0..(count + 1)
    /\ message # "none" => field \in 1..Len(Widths[message])
    /\ pos \in 0..255
    /\ reply \in {"none", "EX_ILLEGAL_VALUE", "EX_ILLEGAL_ADDRESS", "REPLY_NORMAL"}

\* No parser writes behind the end of a field, whatever byte count the frame
\* names: the fields are reset, and their position with them, however often a
\* frame repeats the message. The update of the frequency never resets its
\* position and keeps to its four bytes only in frames that name no more.
InBounds ==
    (Walking /\ (message = "frequency" => count <= 4))
        => pos + Stride(message) <= Widths[message][field]

\* Every byte goes where the layout of the message has it: the field whose
\* bytes enclose its place in the message, messages repeated in a frame included.
LandsInItsField ==
    (Walking /\ Resets(message))
        => at % Total(message) = Before(message, field) + pos

\* my_modbus.cpp:506 says of the message to register 186 "Data about
\* configuration mqtt server about mqtt address, mqtt port, user and password of
\* mqtt, data received from mqtt, data send to mqtt": a message with just these
\* fields is one that the station accepts.
WholeMessageAccepted ==
    [][(message # "none" /\ message' = "none" /\ count = Total(message))
         => reply' = "REPLY_NORMAL"]_vars
==========================================================================
