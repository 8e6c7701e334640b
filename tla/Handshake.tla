---------------------------- MODULE Handshake ----------------------------
(***************************************************************************)
(* How a text message "ping" reaches the Modbus master: the loop of        *)
(* main.cpp, with the SIM800L on one side and the RS485 line on the other. *)
(*                                                                         *)
(*   modem --rx--> TS_Read_SMS --flags--> MB_Slave_Run --regs--> mb.task() *)
(*                     ^                                            |      *)
(*                     +------------ "the master has read" ---------+      *)
(*                                                                         *)
(* The station is one thread, so one pass of the loop is a sequence of     *)
(* steps (pc); modem, master, line and power act between any two of them.  *)
(***************************************************************************)
EXTENDS StatusFlags, Sequences

CONSTANTS
    Requests,     \* the requests the master sends
    Texts,        \* for each text message: is it "ping"?  subset of BOOLEAN
    MaxChunks,    \* bound: chunks of modem output that arrive in one behaviour
    MaxRx,        \* bound: chunks of modem output not yet read
    MaxFaults     \* bound: damaged frames, repeated requests and restarts

Frames == [ to : {"own", "other", "all"}, start : Starts,
            legal : BOOLEAN,     \* the register count is one the code serves
            intact : BOOLEAN ]   \* the CRC matches

ASSUME HandshakeAssumption ==
    /\ Requests \subseteq {r \in Frames : r.intact}
    /\ Texts \subseteq BOOLEAN
    /\ MaxChunks \in Nat /\ MaxRx \in Nat /\ MaxFaults \in Nat

Sms == [from : Numbers, ping : Texts]
\* What the modem can put into the receive buffer: the report of a text
\* message, or anything else (an "OK", "+CMGS", the rest of a report).
Other == [from |-> NoNumber, ping |-> FALSE]
Chunks == Sms \cup {Other}

VARIABLES
    pc,         \* where the loop stands
    copyFirst,  \* the argument order the compiler chose, fixed for ever
    flags,      \* the globals of test_sim800l.cpp and my_modbus.cpp
    regs,       \* the holding registers about messages
    rx,         \* Serial: modem output not yet read
    bus,        \* Serial2: request frames not yet read
    answer,     \* the reply that this pass of the loop has sent
    sent,       \* chunks of modem output that have arrived
    faults,     \* faults that have happened
    tally,      \* history: what became of each ping accepted
    pingers,    \* history: who sent the pings that wait
    others,     \* history: who has sent something else while they wait
    shown       \* history: the ping register of the publication before

vars == <<pc, copyFirst, flags, regs, rx, bus, answer, sent, faults,
          tally, pingers, others, shown>>
names   == <<pingers, others, shown>>
history == <<tally, names>>
line    == <<rx, bus, sent, faults>>

PCs == {"boot", "publish", "task", "button", "send1", "send2", "send3",
        "sms", "reading"}

\* The fates of a ping message that TS_Read_SMS has accepted.
Fates == {"accepted",    \* all of them
          "answered",    \* a reply to a read of register 42 carried it
          "coalesced",   \* it came while another one waited
          "overtaken",   \* it came after a read was noted, before the check
          "unanswered",  \* a read was noted that the station did not answer
          "restarted"}   \* a restart forgot it

NoAnswer == [read |-> "none", ping |-> 0, status |-> 0, phone |-> NoNumber]
Answers == [ read : Starts \cup {"none", "exception"}, ping : Bit,
             status : Bit, phone : Numbers \cup {NoNumber} ]

Count(t, fate) == [t EXCEPT ![fate] = @ + 1]

\* The pings whose fate is known, and the one that waits, if any.
Settled(t) == t["answered"] + t["coalesced"] + t["overtaken"]
                + t["unanswered"] + t["restarted"]
Waiting(f) == IF PingWaits(f) THEN 1 ELSE 0

Init ==
    /\ pc = "boot"
    /\ copyFirst \in BOOLEAN
    /\ flags = InitFlags
    /\ regs = InitRegisters
    /\ rx = <<>>
    /\ bus = <<>>
    /\ answer = NoAnswer
    /\ sent = 0
    /\ faults = 0
    /\ tally = [fate \in Fates |-> 0]
    /\ pingers = {}
    /\ others = {}
    /\ shown = 0

--------------------------------------------------------------------------
(* The loop. *)

\* setup(): TS_Setup empties the receive buffer; the registers are added.
Boot ==
    /\ pc = "boot"
    /\ pc' = "publish"
    /\ flags' = InitFlags
    /\ regs' = InitRegisters
    /\ rx' = <<>>
    /\ UNCHANGED <<copyFirst, bus, answer, sent, faults, history>>

\* MB_Slave_Run up to mb.task(): every register is written from the flags.
Publish ==
    /\ pc = "publish"
    /\ pc' = "task"
    /\ regs' = Published(flags, copyFirst)
    /\ flags' = FlagsAfterPublish(flags)
    /\ pingers' = IF flags'.have_ping_status = 0 THEN {} ELSE pingers
    /\ others' = IF flags'.have_ping_status = 0 THEN {} ELSE others
    /\ shown' = regs.ping
    /\ UNCHANGED <<copyFirst, line, answer, tally>>

\* mb.task() finds no byte.
TaskIdle ==
    /\ pc = "task"
    /\ bus = <<>>
    /\ pc' = "button"
    /\ answer' = NoAnswer
    /\ UNCHANGED <<copyFirst, flags, regs, line, history>>

\* task() takes everything that has arrived for one frame: with more than one
\* request in the buffer the head looks like the frame and the CRC is wrong.
Taken == Head(bus)
CrcMatches == Len(bus) = 1 /\ Taken.intact

\* The frame is for another station: the whole buffer is dropped.
TaskForeign ==
    /\ pc = "task"
    /\ bus # <<>>
    /\ Taken.to = "other"
    /\ pc' = "button"
    /\ bus' = <<>>
    /\ answer' = NoAnswer
    /\ UNCHANGED <<copyFirst, flags, regs, rx, sent, faults, history>>

\* What a reply does to the waiting ping: it carries one, or the read has been
\* noted without an answer and the ping is gone.
Settle(f, g, reply) ==
    IF reply.read = "ping" /\ reply.ping = 1 THEN Count(tally, "answered")
    ELSE IF PingWaits(f) /\ ~PingWaits(g)    THEN Count(tally, "unanswered")
    ELSE tally

\* No reply: the CRC is wrong, or the request was a broadcast.  The filter runs
\* on every frame that is not foreign, before the CRC is checked.
TaskSilent ==
    /\ pc = "task"
    /\ bus # <<>>
    /\ Taken.to # "other"
    /\ ~CrcMatches \/ Taken.to = "all"
    /\ pc' = "button"
    /\ flags' = NoteRead(flags, Taken.start)
    /\ bus' = <<>>
    /\ answer' = NoAnswer
    /\ tally' = Settle(flags, flags', answer')
    /\ UNCHANGED <<copyFirst, regs, rx, sent, faults, names>>

\* The reply carries the registers as they are, or is an exception.
Reply(frame) ==
    IF ~frame.legal THEN [NoAnswer EXCEPT !.read = "exception"]
    ELSE [ read   |-> frame.start,
           ping   |-> IF frame.start \in {"ping", "block"} THEN regs.ping ELSE 0,
           status |-> CASE frame.start = "block" -> regs.status
                        [] frame.start = "get"   -> regs.get
                        [] OTHER                 -> 0,
           phone  |-> IF frame.start \in {"ping", "block"} THEN regs.phone
                                                           ELSE NoNumber ]

TaskAnswer ==
    /\ pc = "task"
    /\ bus # <<>>
    /\ Taken.to = "own"
    /\ CrcMatches
    /\ pc' = "button"
    /\ flags' = NoteRead(flags, Taken.start)
    /\ bus' = <<>>
    /\ answer' = Reply(Taken)
    /\ tally' = Settle(flags, flags', answer')
    /\ UNCHANGED <<copyFirst, regs, rx, sent, faults, names>>

\* TLB_Button: button 1 has been pressed, and a text message is sent, or not.
Button ==
    /\ pc = "button"
    /\ \E pressed \in BOOLEAN : pc' = IF pressed THEN "send1" ELSE "sms"
    /\ UNCHANGED <<copyFirst, flags, regs, line, answer, history>>

\* TS_Send_SMS: three times TS_Update waits 100 ms and reads the receive
\* buffer away, line by line; it may stop in the middle of a report.
Send ==
    /\ pc \in {"send1", "send2", "send3"}
    /\ pc' = CASE pc = "send1" -> "send2"
               [] pc = "send2" -> "send3"
               [] pc = "send3" -> "sms"
    /\ rx' \in IF rx = <<>> THEN {<<>>} ELSE {<<>>, <<Other>>}
    /\ UNCHANGED <<copyFirst, flags, regs, bus, answer, sent, faults, history>>

\* Slip: the loop waits for a text message.
ReadSmsBlocks ==
    /\ pc = "sms"
    /\ pc' = IF rx = <<>> THEN "sms" ELSE "reading"
    /\ UNCHANGED <<copyFirst, flags, regs, line, answer, history>>

\* TS_Read_SMS: while (Serial.available()) ...
ReadSms ==
    /\ pc = "sms"
    /\ pc' = IF rx = <<>> THEN "publish" ELSE "reading"
    /\ UNCHANGED <<copyFirst, flags, regs, line, answer, history>>

\* ... readString() returns all that has come until one second of silence.
\* Only a report at the very start of it counts, the rest is dropped.
FinishRead ==
    /\ pc = "reading"
    /\ pc' = "sms"
    /\ rx' = <<>>
    /\ LET sms == Head(rx)
           accepted == Count(tally, "accepted")
       IN  \/ /\ sms = Other
              /\ UNCHANGED <<flags, history>>
           \/ /\ sms # Other
              /\ flags' = ReceiveSms(flags, sms)
              /\ pingers' = IF sms.ping THEN pingers \cup {sms.from} ELSE pingers
              /\ others' = IF ~sms.ping /\ flags.have_ping_status = 1
                           THEN others \cup {sms.from} ELSE others
              /\ shown' = shown
              /\ tally' = IF ~sms.ping THEN tally
                          ELSE IF flags.ai_read_ping = 1 THEN Count(accepted, "overtaken")
                          ELSE IF PingWaits(flags) THEN Count(accepted, "coalesced")
                          ELSE accepted
    /\ UNCHANGED <<copyFirst, regs, bus, answer, sent, faults>>

Loop == \/ Boot \/ Publish
        \/ TaskIdle \/ TaskForeign \/ TaskSilent \/ TaskAnswer
        \/ Button \/ Send \/ ReadSms \/ FinishRead

--------------------------------------------------------------------------
(* The surroundings. *)

\* The modem reports a text message.
SmsArrives ==
    /\ sent < MaxChunks /\ Len(rx) < MaxRx
    /\ \E sms \in Sms : rx' = Append(rx, sms)
    /\ sent' = sent + 1
    /\ UNCHANGED <<pc, copyFirst, flags, regs, bus, answer, faults, history>>

\* The modem says something else.
ModemChatter ==
    /\ sent < MaxChunks /\ Len(rx) < MaxRx
    /\ rx' = Append(rx, Other)
    /\ sent' = sent + 1
    /\ UNCHANGED <<pc, copyFirst, flags, regs, bus, answer, faults, history>>

\* The master sends a request on a line that is free.
MasterSends(request) ==
    /\ bus = <<>>
    /\ bus' = <<request>>
    /\ UNCHANGED <<pc, copyFirst, flags, regs, rx, answer, sent, faults, history>>

\* The master has waited in vain (the loop is busy with the modem for up to
\* seconds) and repeats its request behind the first one.
MasterRetries ==
    /\ faults < MaxFaults
    /\ Len(bus) = 1
    /\ bus' = Append(bus, Head(bus))
    /\ faults' = faults + 1
    /\ UNCHANGED <<pc, copyFirst, flags, regs, rx, answer, sent, history>>

\* The line damages a frame, which may then look like any other; the CRC
\* tells, once it is checked.
Damage ==
    /\ faults < MaxFaults
    /\ Len(bus) = 1
    /\ \E f \in Frames : bus' = <<[f EXCEPT !.legal = TRUE, !.intact = FALSE]>>
    /\ faults' = faults + 1
    /\ UNCHANGED <<pc, copyFirst, flags, regs, rx, answer, sent, history>>

\* A power failure, or ESP.restart() in WD_Handler.
Restart ==
    /\ faults < MaxFaults
    /\ pc # "boot"
    /\ pc' = "boot"
    /\ faults' = faults + 1
    /\ flags' = InitFlags
    /\ regs' = InitRegisters
    /\ rx' = <<>>
    /\ bus' = <<>>
    /\ answer' = NoAnswer
    /\ tally' = IF PingWaits(flags) THEN Count(tally, "restarted") ELSE tally
    /\ pingers' = {}
    /\ others' = {}
    /\ shown' = 0
    /\ UNCHANGED <<copyFirst, sent>>

Surroundings ==
    \/ SmsArrives \/ ModemChatter
    \/ (\E request \in Requests : MasterSends(request))
    \/ MasterRetries \/ Damage \/ Restart

Next == Loop \/ Surroundings

Spec == Init /\ [][Next]_vars

\* The request whose reading acknowledges a ping.
PingRead == [to |-> "own", start |-> "ping", legal |-> TRUE, intact |-> TRUE]

(***************************************************************************)
(* The loop never stops of itself, and the master keeps polling register   *)
(* 42: whenever the line is free again and again it sends that read.       *)
(***************************************************************************)
Fairness == /\ WF_vars(Loop)
            /\ SF_vars(PingRead \in Requests /\ MasterSends(PingRead))

FairSpec == Spec /\ Fairness

--------------------------------------------------------------------------
(* Properties. *)

\* Every variable has its type.
TypeOK ==
    /\ pc \in PCs
    /\ copyFirst \in BOOLEAN
    /\ flags \in FlagRecords
    /\ regs \in RegisterRecords
    /\ rx \in Seq(Chunks)
    /\ bus \in Seq(Frames)
    /\ answer \in Answers
    /\ sent \in Nat
    /\ faults \in Nat
    /\ tally \in [Fates -> Nat]
    /\ pingers \subseteq Numbers
    /\ others \subseteq Numbers
    /\ shown \in Bit

\* The code's flags lose no ping in a way of their own, and none is answered
\* twice: each accepted ping waits, was answered, joined one that waited,
\* came too late after a read, or was given up by an unanswered read or a
\* restart (TS_Read_SMS, TS_Check_All_Flag, MB_Slave_Filter_Read_Message).
EveryPingAccountedFor ==
    tally["accepted"] = Settled(tally) + Waiting(flags)

\* A master that reads the status block in one request never sees the status
\* register and the ping register disagree, though TS_Status and
\* TS_Ping_Status each run the consuming check anew (MB_Slave_Run 38-41).
StatusAgreesWithPing ==
    answer.read = "block" => answer.status = answer.ping

\* A reply that carries a ping names one who sent it, or one whose message of
\* another kind has come since; it may show no number only if the buffer is
\* copied before it is rewritten, in the first pass that shows the ping.  No
\* number of an earlier ping is ever shown with a later one.
AnswerNamesPinger ==
    (pc = "button" /\ answer.ping = 1)
        => \/ answer.phone \in pingers \cup others
           \/ copyFirst /\ shown = 0 /\ answer.phone = NoNumber

\* A reply without a ping shows no number, if line 41 calls TS_Ping_Status()
\* before it copies the buffer; if it copies first, the number of a ping that
\* has been read is still shown in the very next pass, and no longer.
NoNumberWithoutPing ==
    (pc = "button" /\ answer.read \in {"ping", "block"} /\ answer.ping = 0)
        => \/ answer.phone = NoNumber
           \/ copyFirst /\ shown = 1

\* Both hold of every reply (MB_Slave_Run 38-41, readWords).
RepliesAgree == StatusAgreesWithPing /\ NoNumberWithoutPing

\* A read that was noted is consumed by the very next check: the flags of
\* one pass never acknowledge a ping that a later pass has published.
AckBelongsToThisPass ==
    pc = "task" => /\ flags.ai_read_ping = 0
                   /\ regs.ping = flags.have_ping_status

\* A waiting ping is cleared only in a pass whose predecessor noted a read of
\* register 42, or by a restart; no other request, message or step clears it.
ClearedOnlyByRead ==
    [][(flags.have_ping_status = 1 /\ flags'.have_ping_status = 0)
         => (flags.ai_read_ping = 1 /\ pc = "publish") \/ pc' = "boot"]_vars

\* While the master polls, no ping waits for ever.
PingSettles ==
    (flags.have_ping_status = 1) ~> (flags.have_ping_status = 0)

\* On a line without faults, where only legal reads address the station, a
\* ping that waits is answered: the reply to a read of register 42 carries it.
PingAnswered ==
    PingWaits(flags) ~> \/ answer.read = "ping" /\ answer.ping = 1
                        \/ faults > 0

\* my_modbus.cpp:676 says MB_AI_Read_Ping_Status returns "1 if AI readed":
\* the read is noted only when the reply to it has been sent.
ReadNotedIsAnswered ==
    (pc = "button" /\ flags.ai_read_ping = 1) => answer.read = "ping"

(***************************************************************************)
(* The mailbox that the handshake implements.                              *)
(***************************************************************************)
Mailbox == INSTANCE PingMailbox
    WITH slot     <- Waiting(flags),
         accepted <- tally["accepted"],
         answered <- tally["answered"]

\* Every behaviour of the handshake is one of the mailbox: a ping is answered
\* at most once, and given up only where the mailbox may give it up.
ImplementsMailbox == Mailbox!Spec
==========================================================================
