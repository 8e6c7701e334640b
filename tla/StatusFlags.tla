--------------------------- MODULE StatusFlags ---------------------------
(***************************************************************************)
(* The flags through which the SIM800L side (src/test_sim800l.cpp) tells   *)
(* the Modbus side (src/my_modbus.cpp) that a text message waits for the   *)
(* master, and through which the Modbus side tells back that the master    *)
(* has read it.                                                            *)
(*                                                                         *)
(* The globals of the two files are one record `f`, because MB_Slave_Run   *)
(* calls several of their functions in a row, each on what the previous    *)
(* one left: every operator below maps the record before a call to the     *)
(* record after it.  C's 0/1 flags stay 0 and 1.                           *)
(***************************************************************************)
EXTENDS Integers

CONSTANTS
    Numbers,    \* the phone numbers that can send a message
    NoNumber    \* what a phone number is before one is stored: "0", or zeros

ASSUME NumbersAssumption == NoNumber \notin Numbers

Bit == {0, 1}

\* What a register start address means to the filter of incoming reads.
Starts == {"ping",      \* 42 = 0x2a, the ping status
           "config",    \* 48 = 0x30, the calibration parameters
           "get",       \* 54 = 0x36, the get status
           "block",     \* 40 or 41, with a count that runs over 42
           "write"}     \* a request that reads none of the status registers

FlagRecords ==
    [ have_ping_status : Bit, have_get_status : Bit, have_config_para : Bit,
      have_message : Bit,
      ai_read_ping : Bit, ai_read_get : Bit, ai_read_config : Bit,
      phone_number : Numbers \cup {NoNumber},
      phone_numner_sender : Numbers \cup {NoNumber} ]

\* The globals as the program starts, TS_Setup included.
InitFlags ==
    [ have_ping_status |-> 0, have_get_status |-> 0, have_config_para |-> 0,
      have_message |-> 0,
      ai_read_ping |-> 0, ai_read_get |-> 0, ai_read_config |-> 0,
      phone_number |-> NoNumber, phone_numner_sender |-> NoNumber ]

\* Slips: a pending flag survives every check; it survives only when read.
ClearedNever(pending, ai_read)  == pending
ClearedUnread(pending, ai_read) == IF ai_read = 1 THEN pending ELSE 0

\* A pending flag survives a check unless the master's read was noted.
Cleared(pending, ai_read) == IF ai_read = 1 THEN 0 ELSE pending

\* Slip: a noted read is tested but not cleared.
CheckKeepsNotedRead(f) ==
    LET ping == Cleared(f.have_ping_status, f.ai_read_ping)
    IN  [f EXCEPT !.have_ping_status = ping, !.have_message = ping]

\* Slip: the read of the get status clears the ping.
CheckClearsWrongFlag(f) ==
    LET ping == Cleared(f.have_ping_status, f.ai_read_get)
    IN  [f EXCEPT !.have_ping_status = ping, !.have_message = ping,
                  !.ai_read_ping = 0, !.ai_read_get = 0, !.ai_read_config = 0]

(***************************************************************************)
(* TS_Check_All_Flag: each MB_AI_Read_xxx() tests and clears its flag, a   *)
(* noted read clears the pending flag, and have_message is recomputed.     *)
(***************************************************************************)
TS_Check_All_Flag(f) ==
    LET ping   == Cleared(f.have_ping_status, f.ai_read_ping)
        get    == Cleared(f.have_get_status, f.ai_read_get)
        config == Cleared(f.have_config_para, f.ai_read_config)
    IN  [f EXCEPT !.have_ping_status = ping,
                  !.have_get_status  = get,
                  !.have_config_para = config,
                  !.ai_read_ping     = 0,
                  !.ai_read_get      = 0,
                  !.ai_read_config   = 0,
                  !.have_message     = IF config = 0 /\ get = 0 /\ ping = 0
                                       THEN 0 ELSE 1]

\* Slip: have_message is returned unchecked.
StatusUnchecked(f) == f.have_message

\* TS_Status returns have_message after the check.
TS_Status(f) == TS_Check_All_Flag(f).have_message

\* Slip: the number is not renewed.
PingStatusNotRenewed(f) ==
    LET c == TS_Check_All_Flag(f)
    IN  [c EXCEPT !.phone_numner_sender =
             IF c.have_ping_status = 1 /\ @ = NoNumber THEN c.phone_number ELSE @]

\* TS_Ping_Status returns have_ping_status after the check, and publishes the
\* number of the last sender, or wipes it when no ping waits.
TS_Ping_Status(f) ==
    LET c == TS_Check_All_Flag(f)
    IN  [c EXCEPT !.phone_numner_sender = IF c.have_ping_status = 1
                                          THEN c.phone_number ELSE NoNumber]

\* TS_Read_SMS once it has found a "+CMT" header and the text below it.
ReceiveSms(f, sms) ==
    [f EXCEPT !.phone_number     = sms.from,
              !.have_ping_status = IF sms.ping THEN 1 ELSE @,
              !.have_message     = 1]

\* Slip: every read is taken for one of the ping status.
NoteAnyRead(f, start) == [f EXCEPT !.ai_read_ping = 1]

\* The read requests that MB_Slave_Filter_Read_Message notes.
NoteRead(f, start) ==
    [f EXCEPT !.ai_read_ping   = IF start = "ping"   THEN 1 ELSE @,
              !.ai_read_config = IF start = "config" THEN 1 ELSE @,
              !.ai_read_get    = IF start = "get"    THEN 1 ELSE @]

\* A ping waits for the master, and no read of it has been noted.
PingWaits(f) == f.have_ping_status = 1 /\ f.ai_read_ping = 0

--------------------------------------------------------------------------
(* What MB_Slave_Run publishes. *)

RegisterRecords ==
    [ status : Bit, ping : Bit, get : Bit,
      phone : Numbers \cup {NoNumber} ]

\* addHreg(0, 0, 227) in MB_Slave_Setup.
InitRegisters ==
    [status |-> 0, ping |-> 0, get |-> 0, phone |-> NoNumber]

\* The flags after the three calls of lines 38, 40 and 41 of MB_Slave_Run.
FlagsAfterPublish(f) ==
    TS_Ping_Status(TS_Check_All_Flag(TS_Check_All_Flag(f)))

(***************************************************************************)
(* The registers those calls fill.  Line 41 passes TS_Ping_Status() and a  *)
(* String copy of the buffer that TS_Ping_Status() rewrites: C++ leaves    *)
(* open which argument is evaluated first, so `copyFirst` is a parameter.  *)
(***************************************************************************)
Published(f, copyFirst) ==
    LET f1 == TS_Check_All_Flag(f)
        f2 == TS_Check_All_Flag(f1)
        f3 == TS_Ping_Status(f2)
    IN  [ status |-> TS_Status(f),
          get    |-> TS_Status(f1),
          ping   |-> f3.have_ping_status,
          phone  |-> IF copyFirst THEN f2.phone_numner_sender
                                  ELSE f3.phone_numner_sender ]
==========================================================================
