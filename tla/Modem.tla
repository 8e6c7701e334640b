--------------------------------- MODULE Modem ---------------------------------
(***************************************************************************)
(* The station and its SIM800L, line by line: TS_Setup, TS_Send_SMS and    *)
(* TS_Read_SMS on one side, and on the other a modem that takes what it is *)
(* sent for a command or, after its prompt, for text.  The station waits   *)
(* 100 ms after each command and throws away what it was answered; it      *)
(* never looks for the prompt, an OK or an ERROR.                          *)
(***************************************************************************)
EXTENDS Integers, Sequences, FiniteSets

CONSTANTS Reports,      \* the text messages that others send
          MaxSends,     \* bound: text messages that the station sends
          MaxRestarts,  \* bound: restarts of the station
          MaxLines,     \* bound: lines of the modem not yet read
          MaxBacklog    \* bound: commands that the modem has not yet taken

ASSUME ModemAssumption ==
    /\ {MaxSends, MaxRestarts, MaxLines, MaxBacklog} \subseteq Nat
    /\ "own" \notin Reports  \* what no report is called

VARIABLES
    pcModem,   \* what the station does: <<routine, step>>
    toModem,   \* what it has sent and the modem has not taken
    fromModem, \* lines of the modem, not yet read
    chunk,     \* the first three lines that readString() has got so far
    received,  \* what TS_Read_SMS has stored: <<phone_number, message_receive>>
    mode,      \* the modem: "command" or "text"
    format,    \* and its settings: AT+CMGF=1 has been given,
    routed,    \* and AT+CNMI=1,2
    draft,     \* the message being entered
    pending,   \* lines that the modem will still say
    sends, restarts,
    \* history, for the properties only
    spoiled,     \* messages sent with another text than was asked
    alone,       \* reports that came while everything was quiet
    lost         \* reports that were thrown away

station == <<pcModem, chunk, received>>
modem == <<mode, format, routed, draft>>
modemVars == <<station, modem, toModem, fromModem, pending, sends, restarts,
               spoiled, alone, lost>>

--------------------------------------------------------------------------------
(* A line, and the report that it belongs to.                               *)
Line(kind, id) == [kind |-> kind, id |-> id]
Own == "own"        \* it belongs to none
Blank == Line("blank", Own)
Says == Line("OK, ERROR or >", Own)  \* nobody looks which
Report(id) == <<Blank, Line("+CMT", id), Line("body", id)>>

SetupScript == <<"AT", "AT+CSQ", "AT+CCID", "AT+CREG?", "ATI", "AT+CBC",
                 "AT+IPR", "AT+CMGF=1", "AT+CNMI">>
SmsScriptSwapped == <<"AT+CMGF=1", "AT+CMGS", "Ctrl-Z", "test send sms">>
SmsScript == <<"AT+CMGF=1", "AT+CMGS", "test send sms", "Ctrl-Z">>
Told(item) == Len(toModem) < MaxBacklog /\ toModem' = Append(toModem, item)

(* The reports with a line among these.                                     *)
In(lines) == {lines[i].id : i \in 1..Len(lines)} \cap Reports

ModemInit ==
    /\ pcModem = <<"setup", 0>> /\ toModem = <<>> /\ fromModem = <<>> /\ chunk = <<>>
    /\ received = <<Own, Own>>
    /\ mode = "command" /\ format = "pdu" /\ routed = FALSE /\ draft = <<>>
    /\ pending = <<>> /\ sends = 0 /\ restarts = 0
    /\ spoiled = 0 /\ alone = {} /\ lost = {}

--------------------------------------------------------------------------------
(* The station.                                                             *)

(* TS_Setup and TS_Setup_ReadSMS: a command, then TS_Update; the first and  *)
(* the last TS_Update follow none.                                          *)
SendSetup ==
    /\ pcModem[1] = "setup"
    /\ LET i == pcModem[2] + 1
       IN IF i <= Len(SetupScript)
          THEN Told(SetupScript[i]) /\ pcModem' = <<"update setup", i>>
          ELSE UNCHANGED toModem /\ pcModem' = <<"loop", 0>>
    /\ UNCHANGED <<modem, chunk, received, fromModem, pending, sends, restarts,
                   spoiled, alone, lost>>

(* TLB_Button: button 1 sends a text message, or not.                       *)
Press ==
    /\ pcModem = <<"loop", 0>> /\ sends < MaxSends
    /\ pcModem' = <<"sms", 0>> /\ sends' = sends + 1
    /\ alone' = alone \ In(fromModem \o pending)
    /\ UNCHANGED <<modem, chunk, received, toModem, fromModem, pending, restarts,
                   spoiled, lost>>
PassBy ==
    /\ pcModem = <<"loop", 0>>
    /\ pcModem' = <<"read", 0>>
    /\ UNCHANGED <<modem, chunk, received, toModem, fromModem, pending, sends,
                   restarts, spoiled, alone, lost>>

(* TS_Send_SMS: the last of its script, Ctrl-Z, is not followed by an       *)
(* update.                                                                  *)
SendSms ==
    /\ pcModem[1] = "sms"
    /\ LET i == pcModem[2] + 1
       IN /\ Told(SmsScript[i])
          /\ pcModem' = IF i < Len(SmsScript) THEN <<"update sms", i>> ELSE <<"read", 0>>
    /\ UNCHANGED <<modem, chunk, received, fromModem, pending, sends, restarts,
                   spoiled, alone, lost>>

(* TS_Update, after its delay: while there is something, a line is read and *)
(* forgotten.                                                               *)
Update ==
    /\ pcModem[1] \in {"update setup", "update sms"}
    /\ IF fromModem = <<>>
       THEN /\ pcModem' = <<IF pcModem[1] = "update setup" THEN "setup" ELSE "sms",
                            pcModem[2]>>
            /\ UNCHANGED <<fromModem, lost>>
       ELSE /\ fromModem' = Tail(fromModem) /\ UNCHANGED pcModem
            /\ lost' = lost \cup In(<<Head(fromModem)>>)
    /\ UNCHANGED <<modem, chunk, received, toModem, pending, sends, restarts,
                   spoiled, alone>>

(* TS_Read_SMS: while there is something, readString() takes all that comes *)
(* until one second of silence.                                             *)
ReadOn ==
    /\ pcModem = <<"read", 0>> /\ fromModem # <<>>
    /\ fromModem' = Tail(fromModem)
    /\ IF Len(chunk) < 3
       THEN chunk' = Append(chunk, Head(fromModem)) /\ UNCHANGED lost
       ELSE lost' = lost \cup In(<<Head(fromModem)>>) /\ UNCHANGED chunk
    /\ UNCHANGED <<pcModem, modem, received, toModem, pending, sends, restarts,
                   spoiled, alone>>

(* substring(2) takes the line feed before a report away, and the report    *)
(* counts if it comes first: its number, and the line after it.             *)
LeadsAnywhere(lines) == Len(lines) > 1 /\ \E i \in 1..Len(lines) : lines[i].kind = "+CMT"
Leads(lines) == Len(lines) > 1 /\ lines[1] = Blank /\ lines[2].kind = "+CMT"

Silence ==
    /\ pcModem = <<"read", 0>> /\ fromModem = <<>> /\ chunk # <<>>
    /\ pending = <<>>  \* the modem is not in the middle of a line
    /\ LET accepted == IF Leads(chunk) THEN {chunk[2].id} ELSE {}
       IN /\ received' = IF Leads(chunk) THEN <<chunk[2].id, chunk[3].id>> ELSE received
          /\ lost' = lost \cup (In(chunk) \ accepted)
          /\ alone' = alone \ accepted
    /\ chunk' = <<>>
    /\ UNCHANGED <<pcModem, modem, toModem, fromModem, pending, sends, restarts,
                   spoiled>>

EndRead ==
    /\ pcModem = <<"read", 0>> /\ fromModem = <<>> /\ chunk = <<>>
    /\ pcModem' = <<"loop", 0>>
    /\ UNCHANGED <<modem, chunk, received, toModem, fromModem, pending, sends,
                   restarts, spoiled, alone, lost>>

Station == SendSetup \/ Press \/ PassBy \/ SendSms \/ Update \/ ReadOn \/ Silence \/ EndRead

(* A restart; the modem, which has power of its own, knows nothing of it.   *)
Restart ==
    /\ restarts < MaxRestarts /\ restarts' = restarts + 1
    /\ pcModem' = <<"setup", 0>> /\ fromModem' = <<>> /\ chunk' = <<>>
    /\ received' = <<Own, Own>>
    /\ lost' = lost \cup In(fromModem \o chunk)
    /\ alone' = alone \ In(fromModem \o chunk \o pending)
    /\ UNCHANGED <<modem, toModem, pending, sends, spoiled>>

--------------------------------------------------------------------------------
(* The modem.                                                               *)

Replies == pending' = Append(pending, Says)

TakeCommand(item) ==
    \/ /\ item \in {"AT+CMGS"} /\ format = "text"
       /\ mode' = "text" /\ draft' = <<>> /\ Replies
       /\ UNCHANGED <<format, routed>>
    \/ /\ item \notin {"AT+CMGS", "test send sms", "Ctrl-Z"}
       /\ format' = (IF item = "AT+CMGF=1" THEN "text" ELSE format)
       /\ routed' = (routed \/ item = "AT+CNMI")
       /\ Replies /\ UNCHANGED <<mode, draft>>
    \* no network, a busy modem, or no command at all
    \/ /\ Replies /\ UNCHANGED <<mode, draft, format, routed>>

Take ==
    /\ toModem # <<>> /\ Len(pending) < MaxLines
    /\ toModem' = Tail(toModem)
    /\ LET item == Head(toModem)
       IN IF mode = "command" THEN TakeCommand(item) /\ UNCHANGED spoiled
          ELSE IF item # "Ctrl-Z"
          THEN /\ draft' = Append(draft, item)
               /\ UNCHANGED <<mode, format, routed, pending, spoiled>>
          ELSE /\ mode' = "command" /\ draft' = <<>>
               /\ spoiled' = spoiled + IF draft = <<"test send sms">> THEN 0 ELSE 1
               /\ Replies /\ UNCHANGED <<format, routed>>
    /\ UNCHANGED <<station, fromModem, sends, restarts, alone, lost>>

Speak ==
    /\ pending # <<>>
    /\ fromModem' = Append(fromModem, Head(pending)) /\ pending' = Tail(pending)
    /\ UNCHANGED <<station, modem, toModem, sends, restarts, spoiled, alone, lost>>

Quiet ==
    /\ pcModem[1] \in {"loop", "read"}
    /\ fromModem = <<>> /\ chunk = <<>> /\ pending = <<>> /\ toModem = <<>>

Unknown == Reports \ (In(fromModem \o chunk \o pending) \cup lost \cup alone
                        \cup {received[1]})

(* Somebody's text message: reported at once where AT+CNMI was given, and   *)
(* the modem is not taking text.                                            *)
SmsComes ==
    /\ routed /\ mode = "command" /\ Len(fromModem) + Len(pending) + 3 <= MaxLines
    /\ \E id \in Unknown :
        /\ pending' = pending \o Report(id)
        /\ alone' = IF Quiet THEN alone \cup {id} ELSE alone
    /\ UNCHANGED <<station, modem, toModem, fromModem, sends, restarts, spoiled, lost>>

ModemNext == Station \/ Restart \/ Take \/ Speak \/ SmsComes

ModemSpec == ModemInit /\ [][ModemNext]_modemVars

--------------------------------------------------------------------------------
(* A message that leaves the modem has the text that TS_Send_SMS was given, *)
(* though nobody waits for the prompt, and whatever commands fail.  Only a  *)
(* restart spoils one, which may carry commands of TS_Setup that the modem  *)
(* took for text; and each restart spoils one at most.                      *)
MessageIsAsAsked == spoiled <= restarts

(* A report that comes while everything is quiet, and is read before a      *)
(* button is pressed, is not lost; and what TS_Read_SMS stores is the       *)
(* number and the text of the same message.                                 *)
LoneReportIsRead == alone \cap lost = {} /\ received[1] = received[2]
================================================================================
