------------------------- MODULE HandshakeProofs -------------------------
(***************************************************************************)
(* Theorems about Handshake, for every set of numbers, requests and texts  *)
(* and every bound.                                                        *)
(***************************************************************************)
EXTENDS Handshake, TLAPS

--------------------------------------------------------------------------
(* What the functions of test_sim800l.cpp do to the flags. *)

\* A check leaves well-formed flags, consumes all noted reads and keeps the
\* number; have_message says whether anything is left pending.
LEMMA CheckFacts ==
    ASSUME NEW f \in FlagRecords
    PROVE  LET c == TS_Check_All_Flag(f)
           IN  /\ c \in FlagRecords
               /\ c.ai_read_ping = 0 /\ c.ai_read_get = 0 /\ c.ai_read_config = 0
               /\ c.have_ping_status = Cleared(f.have_ping_status, f.ai_read_ping)
               /\ c.have_get_status = Cleared(f.have_get_status, f.ai_read_get)
               /\ c.have_config_para = Cleared(f.have_config_para, f.ai_read_config)
               /\ c.have_message = (IF c.have_config_para = 0 /\ c.have_get_status = 0
                                       /\ c.have_ping_status = 0 THEN 0 ELSE 1)
               /\ c.phone_number = f.phone_number
               /\ c.phone_numner_sender = f.phone_numner_sender
BY DEF FlagRecords, Bit, TS_Check_All_Flag, Cleared

\* Checking twice is checking once: the calls of lines 38, 40 and 41 see the
\* same flags.
LEMMA CheckIdempotent ==
    ASSUME NEW f \in FlagRecords
    PROVE  TS_Check_All_Flag(TS_Check_All_Flag(f)) = TS_Check_All_Flag(f)
<1> DEFINE c == TS_Check_All_Flag(f)
           d == TS_Check_All_Flag(c)
<1>1. c \in FlagRecords /\ d \in FlagRecords
  BY CheckFacts
<1>2. /\ d.ai_read_ping = 0 /\ d.ai_read_get = 0 /\ d.ai_read_config = 0
      /\ c.ai_read_ping = 0 /\ c.ai_read_get = 0 /\ c.ai_read_config = 0
      /\ d.phone_number = c.phone_number
      /\ d.phone_numner_sender = c.phone_numner_sender
  BY <1>1, CheckFacts
<1>3. /\ d.have_ping_status = c.have_ping_status
      /\ d.have_get_status = c.have_get_status
      /\ d.have_config_para = c.have_config_para
  BY <1>1, <1>2, CheckFacts DEF Cleared
<1>4. d.have_message = c.have_message
  BY <1>1, <1>3, CheckFacts
<1> HIDE DEF c, d
<1>5. d = c
  BY <1>1, <1>2, <1>3, <1>4 DEF FlagRecords
<1>6. QED
  BY <1>5 DEF c, d

LEMMA PingStatusFacts ==
    ASSUME NEW f \in FlagRecords
    PROVE  LET c == TS_Ping_Status(f)
           IN  /\ c \in FlagRecords
               /\ \A name \in {"ai_read_ping", "ai_read_get", "ai_read_config"} :
                      c[name] = 0
               /\ c.have_ping_status = TS_Check_All_Flag(f).have_ping_status
               /\ c.have_get_status = TS_Check_All_Flag(f).have_get_status
               /\ c.have_config_para = TS_Check_All_Flag(f).have_config_para
               /\ c.phone_numner_sender = (IF c.have_ping_status = 1
                                           THEN f.phone_number ELSE NoNumber)
BY CheckFacts DEF FlagRecords, Bit, TS_Ping_Status

\* What a publication leaves in the flags and in the registers.
LEMMA PublishFacts ==
    ASSUME NEW f \in FlagRecords, NEW b \in BOOLEAN
    PROVE  LET g == FlagsAfterPublish(f)
               r == Published(f, b)
           IN  /\ g \in FlagRecords
               /\ r \in RegisterRecords
               /\ g.ai_read_ping = 0
               /\ g.have_ping_status = Cleared(f.have_ping_status, f.ai_read_ping)
               /\ g.have_get_status = Cleared(f.have_get_status, f.ai_read_get)
               /\ g.have_config_para = Cleared(f.have_config_para, f.ai_read_config)
               /\ r.ping = g.have_ping_status
               /\ (g.have_get_status = 0 /\ g.have_config_para = 0)
                      => r.status = r.ping /\ r.get = r.ping
               /\ g.phone_numner_sender = (IF r.ping = 1 THEN f.phone_number
                                                          ELSE NoNumber)
               /\ r.phone = (IF b THEN f.phone_numner_sender
                                  ELSE g.phone_numner_sender)
<1> DEFINE c == TS_Check_All_Flag(f)
<1>1. c \in FlagRecords
  BY CheckFacts
<1>2. TS_Check_All_Flag(c) = c
  BY CheckIdempotent
<1>3. FlagsAfterPublish(f) = TS_Ping_Status(c)
  BY <1>2 DEF FlagsAfterPublish
<1>4. Published(f, b) = [ status |-> c.have_message, get |-> c.have_message,
                          ping |-> TS_Ping_Status(c).have_ping_status,
                          phone |-> IF b THEN c.phone_numner_sender
                                    ELSE TS_Ping_Status(c).phone_numner_sender ]
  BY <1>2 DEF Published, TS_Status
<1> HIDE DEF c
<1>5. /\ TS_Ping_Status(c) \in FlagRecords
      /\ TS_Ping_Status(c).ai_read_ping = 0
      /\ TS_Ping_Status(c).have_ping_status = c.have_ping_status
      /\ TS_Ping_Status(c).have_get_status = c.have_get_status
      /\ TS_Ping_Status(c).have_config_para = c.have_config_para
      /\ TS_Ping_Status(c).phone_numner_sender =
           (IF TS_Ping_Status(c).have_ping_status = 1 THEN c.phone_number ELSE NoNumber)
  BY <1>1, <1>2, PingStatusFacts
<1>6. /\ c.phone_number = f.phone_number
      /\ c.phone_numner_sender = f.phone_numner_sender
      /\ c.have_ping_status = Cleared(f.have_ping_status, f.ai_read_ping)
      /\ c.have_get_status = Cleared(f.have_get_status, f.ai_read_get)
      /\ c.have_config_para = Cleared(f.have_config_para, f.ai_read_config)
      /\ c.have_message = (IF c.have_config_para = 0 /\ c.have_get_status = 0
                              /\ c.have_ping_status = 0 THEN 0 ELSE 1)
  BY CheckFacts DEF c
<1>7. QED
  BY <1>1, <1>3, <1>4, <1>5, <1>6 DEF RegisterRecords, FlagRecords, Bit

LEMMA ReceiveFacts ==
    ASSUME NEW f \in FlagRecords, NEW sms \in Sms
    PROVE  LET g == ReceiveSms(f, sms)
           IN  /\ g \in FlagRecords
               /\ g.have_ping_status = (IF sms.ping THEN 1 ELSE f.have_ping_status)
               /\ g.ai_read_ping = f.ai_read_ping
               /\ g.have_get_status = f.have_get_status
               /\ g.have_config_para = f.have_config_para
               /\ g.phone_numner_sender = f.phone_numner_sender
BY DEF Sms, FlagRecords, Bit, ReceiveSms

LEMMA NoteReadFacts ==
    ASSUME NEW f \in FlagRecords, NEW start
    PROVE  LET g == NoteRead(f, start)
           IN  /\ g \in FlagRecords
               /\ g.have_ping_status = f.have_ping_status
               /\ g.ai_read_ping = (IF start = "ping" THEN 1 ELSE f.ai_read_ping)
               /\ g.have_get_status = f.have_get_status
               /\ g.have_config_para = f.have_config_para
               /\ g.phone_number = f.phone_number
               /\ g.phone_numner_sender = f.phone_numner_sender
BY DEF FlagRecords, Bit, NoteRead

LEMMA InitFacts ==
    /\ InitFlags \in FlagRecords
    /\ InitRegisters \in RegisterRecords
    /\ NoAnswer \in Answers
    /\ <<>> \in Seq(Frames) /\ <<>> \in Seq(Chunks)
BY DEF InitFlags, FlagRecords, InitRegisters, RegisterRecords, NoAnswer,
       Answers, Bit
--------------------------------------------------------------------------
(* The inductive invariant. *)

\* The loop reads on only while there is something to read, nothing but a ping
\* is ever pending, and the registers agree with each other: a register that
\* is read between two publications is as old as the others.  The buffer holds
\* a number exactly while the ping register is set, so a copy of the buffer is
\* at most one publication old.
Agreement ==
    /\ pc = "boot" => flags = InitFlags
    /\ pc = "reading" => rx # <<>>
    /\ flags.have_get_status = 0 /\ flags.have_config_para = 0
    /\ regs.status = regs.ping /\ regs.get = regs.ping
    /\ regs.ping = 0 => flags.phone_numner_sender = NoNumber
    /\ (regs.ping = 0 /\ regs.phone # NoNumber) => copyFirst /\ shown = 1

IInv == /\ TypeOK
        /\ Agreement
        /\ AckBelongsToThisPass
        /\ EveryPingAccountedFor
        /\ StatusAgreesWithPing
        /\ NoNumberWithoutPing

LEMMA InitInv == Init => IInv
<1> SUFFICES ASSUME Init PROVE IInv
  OBVIOUS
<1>1. TypeOK
  BY InitFacts DEF Init, TypeOK, PCs, Bit
<1>2. Agreement /\ AckBelongsToThisPass /\ StatusAgreesWithPing /\ NoNumberWithoutPing
  BY DEF Init, Agreement, AckBelongsToThisPass, StatusAgreesWithPing,
         NoNumberWithoutPing, InitFlags, InitRegisters, NoAnswer
<1>3. EveryPingAccountedFor
  BY DEF Init, EveryPingAccountedFor, Settled, Waiting, PingWaits, InitFlags, Fates
<1>4. QED
  BY <1>1, <1>2, <1>3 DEF IInv

\* Counting a fate of a ping adds one to the settled pings, counting one that
\* is accepted adds one to those.
LEMMA CountFacts ==
    ASSUME NEW t \in [Fates -> Nat], NEW fate \in Fates
    PROVE  LET c == Count(t, fate)
           IN  /\ c \in [Fates -> Nat]
               /\ c["accepted"] = (IF fate = "accepted" THEN t["accepted"] + 1
                                                       ELSE t["accepted"])
               /\ c["answered"] = (IF fate = "answered" THEN t["answered"] + 1
                                                       ELSE t["answered"])
               /\ Settled(c) = (IF fate = "accepted" THEN Settled(t)
                                                     ELSE Settled(t) + 1)
<1> DEFINE c == Count(t, fate)
           plus(f) == IF f = fate THEN t[f] + 1 ELSE t[f]
<1>1. \A f \in Fates : t[f] \in Nat
  OBVIOUS
<1>2. c = [f \in Fates |-> plus(f)]
  BY DEF Count
<1>3. /\ c["accepted"] = plus("accepted") /\ c["answered"] = plus("answered")
      /\ c["coalesced"] = plus("coalesced") /\ c["overtaken"] = plus("overtaken")
      /\ c["unanswered"] = plus("unanswered") /\ c["restarted"] = plus("restarted")
  BY <1>2 DEF Fates
<1>4. c \in [Fates -> Nat]
  BY <1>1, <1>2
<1>5. /\ t["accepted"] \in Nat /\ t["answered"] \in Nat /\ t["coalesced"] \in Nat
      /\ t["overtaken"] \in Nat /\ t["unanswered"] \in Nat /\ t["restarted"] \in Nat
  BY <1>1 DEF Fates
<1> HIDE DEF c
<1>6. Settled(c) = (IF fate = "accepted" THEN Settled(t) ELSE Settled(t) + 1)
  BY <1>3, <1>5 DEF Settled, Fates
<1>7. QED
  BY <1>3, <1>4, <1>6 DEF c

LEMMA SettledType ==
    ASSUME NEW t \in [Fates -> Nat]
    PROVE  t["accepted"] \in Nat /\ t["answered"] \in Nat /\ Settled(t) \in Nat
<1>1. /\ t["accepted"] \in Nat /\ t["answered"] \in Nat /\ t["coalesced"] \in Nat
      /\ t["overtaken"] \in Nat /\ t["unanswered"] \in Nat /\ t["restarted"] \in Nat
  BY DEF Fates
<1>2. QED
  BY <1>1 DEF Settled

\* A reply is well-formed and shows registers that agree.
LEMMA ReplyFacts ==
    ASSUME TypeOK, Agreement, NEW frame \in Frames
    PROVE  /\ Reply(frame) \in Answers
           /\ Reply(frame).read = "block" => Reply(frame).status = Reply(frame).ping
           /\ (Reply(frame).read \in {"ping", "block"} /\ Reply(frame).ping = 0
                  /\ Reply(frame).phone # NoNumber) => copyFirst /\ shown = 1
           /\ Reply(frame).read = "ping" => /\ frame.start = "ping"
                                           /\ Reply(frame).ping = regs.ping
<1>1. regs \in RegisterRecords /\ frame.start \in Starts
  BY DEF TypeOK, Frames
<1>2. CASE ~frame.legal
  BY <1>2, InitFacts DEF Reply, NoAnswer, Answers, Bit
<1>3. CASE frame.legal
  BY <1>1, <1>3 DEF Reply, Answers, RegisterRecords, Starts, Bit, Agreement
<1>4. QED
  BY <1>2, <1>3

\* The accounting after a request for register 42 has been noted, or another
\* request has: one formula for replies and for silence.
LEMMA SettleFacts ==
    ASSUME IInv, NEW start \in Starts, NEW reply \in Answers,
           pc = "task",
           reply.read = "ping" => start = "ping" /\ reply.ping = regs.ping,
           NEW t, t = Settle(flags, NoteRead(flags, start), reply)
    PROVE  /\ t \in [Fates -> Nat]
           /\ t["accepted"] = Settled(t) + Waiting(NoteRead(flags, start))
           /\ t["accepted"] = tally["accepted"]
           /\ \/ /\ Waiting(flags) = 1 /\ Waiting(NoteRead(flags, start)) = 0
                 /\ t["answered"] \in {tally["answered"], tally["answered"] + 1}
              \/ /\ Waiting(flags) = Waiting(NoteRead(flags, start))
                 /\ t["answered"] = tally["answered"]
<1> DEFINE g == NoteRead(flags, start)
<1>1. /\ flags \in FlagRecords
      /\ tally \in [Fates -> Nat]
      /\ flags.ai_read_ping = 0
      /\ regs.ping = flags.have_ping_status
  BY DEF IInv, TypeOK, AckBelongsToThisPass
<1>2. /\ g.have_ping_status = flags.have_ping_status
      /\ g.ai_read_ping = (IF start = "ping" THEN 1 ELSE 0)
  BY <1>1, NoteReadFacts
<1>3. tally["accepted"] \in Nat /\ tally["answered"] \in Nat /\ Settled(tally) \in Nat
  BY <1>1, SettledType
<1>4. EveryPingAccountedFor
  BY DEF IInv
<1> HIDE DEF g
<1>5. CASE reply.read = "ping" /\ reply.ping = 1
  <2>1. PingWaits(flags) /\ ~PingWaits(g)
    BY <1>1, <1>2, <1>5 DEF PingWaits
  <2>2. t = Count(tally, "answered")
    BY <1>5 DEF Settle
  <2>3. /\ t \in [Fates -> Nat] /\ t["accepted"] = tally["accepted"]
        /\ t["answered"] = tally["answered"] + 1 /\ Settled(t) = Settled(tally) + 1
    BY <1>1, <2>2, CountFacts DEF Fates
  <2>4. Waiting(flags) = 1 /\ Waiting(g) = 0
    BY <2>1 DEF Waiting
  <2>5. QED
    BY <1>3, <1>4, <2>3, <2>4 DEF EveryPingAccountedFor, g
<1>6. CASE ~(reply.read = "ping" /\ reply.ping = 1) /\ PingWaits(flags) /\ ~PingWaits(g)
  <2>1. t = Count(tally, "unanswered")
    BY <1>6 DEF Settle, g
  <2>2. /\ t \in [Fates -> Nat] /\ t["accepted"] = tally["accepted"]
        /\ t["answered"] = tally["answered"] /\ Settled(t) = Settled(tally) + 1
    BY <1>1, <2>1, CountFacts DEF Fates
  <2>3. Waiting(flags) = 1 /\ Waiting(g) = 0
    BY <1>6 DEF Waiting
  <2>4. QED
    BY <1>3, <1>4, <2>2, <2>3 DEF EveryPingAccountedFor, g
<1>7. CASE ~(reply.read = "ping" /\ reply.ping = 1) /\ ~(PingWaits(flags) /\ ~PingWaits(g))
  <2>1. t = tally
    BY <1>7 DEF Settle, g
  <2>2. PingWaits(g) <=> PingWaits(flags)
    BY <1>1, <1>2, <1>7 DEF PingWaits
  <2>3. QED
    BY <1>1, <1>3, <1>4, <2>1, <2>2 DEF EveryPingAccountedFor, Waiting, g
<1>8. QED
  BY <1>5, <1>6, <1>7
--------------------------------------------------------------------------
(* Each step preserves the invariant. *)

LEMMA BootInv == ASSUME IInv, Boot PROVE IInv'
<1>1. TypeOK'
  BY InitFacts DEF Boot, history, names, IInv, TypeOK, PCs
<1>2. Agreement' /\ AckBelongsToThisPass'
  BY DEF Boot, Agreement, AckBelongsToThisPass, InitFlags, InitRegisters
<1>3. StatusAgreesWithPing' /\ NoNumberWithoutPing'
  BY DEF Boot, history, names, IInv, StatusAgreesWithPing, NoNumberWithoutPing
<1>4. flags' = flags /\ tally' = tally
  BY DEF Boot, history, IInv, Agreement
<1>5. EveryPingAccountedFor'
  BY <1>4 DEF IInv, EveryPingAccountedFor, Waiting
<1>6. QED
  BY <1>1, <1>2, <1>3, <1>5 DEF IInv

\* A publication consumes the noted read, so a ping that it clears did not
\* wait any more.
LEMMA PublishInv == ASSUME IInv, Publish PROVE IInv'
<1>1. flags \in FlagRecords /\ copyFirst \in BOOLEAN
  BY DEF IInv, TypeOK
<1>2. /\ flags' \in FlagRecords
      /\ regs' \in RegisterRecords
      /\ flags'.ai_read_ping = 0
      /\ flags'.have_ping_status = Cleared(flags.have_ping_status, flags.ai_read_ping)
      /\ flags'.have_get_status = Cleared(flags.have_get_status, flags.ai_read_get)
      /\ flags'.have_config_para = Cleared(flags.have_config_para, flags.ai_read_config)
      /\ regs'.ping = flags'.have_ping_status
      /\ (flags'.have_get_status = 0 /\ flags'.have_config_para = 0)
            => regs'.status = regs'.ping /\ regs'.get = regs'.ping
      /\ regs'.ping = 0 => flags'.phone_numner_sender = NoNumber
      /\ regs'.phone = (IF copyFirst THEN flags.phone_numner_sender
                                     ELSE flags'.phone_numner_sender)
  BY <1>1, PublishFacts DEF Publish
<1>3. flags'.have_get_status = 0 /\ flags'.have_config_para = 0
  BY <1>2 DEF IInv, Agreement, Cleared
<1>4. TypeOK'
  <2>1. regs.ping \in Bit
    BY DEF IInv, TypeOK, RegisterRecords
  <2>2. QED
    BY <1>2, <2>1 DEF Publish, line, IInv, TypeOK, PCs
<1>5. Agreement' /\ AckBelongsToThisPass'
  <2>1. copyFirst' = copyFirst /\ shown' = regs.ping /\ regs.ping \in Bit
    BY DEF Publish, IInv, TypeOK, RegisterRecords
  <2>2. regs.ping = 0 => flags.phone_numner_sender = NoNumber
    BY DEF IInv, Agreement
  <2>3. (regs'.ping = 0 /\ regs'.phone # NoNumber) => copyFirst' /\ shown' = 1
    BY <1>2, <2>1, <2>2 DEF Bit
  <2>4. QED
    BY <1>2, <1>3, <2>3 DEF Publish, Agreement, AckBelongsToThisPass
<1>6. StatusAgreesWithPing' /\ NoNumberWithoutPing'
  BY DEF Publish, IInv, StatusAgreesWithPing, NoNumberWithoutPing
<1>7. PingWaits(flags') <=> PingWaits(flags)
  BY <1>1, <1>2 DEF PingWaits, Cleared, FlagRecords, Bit
<1>8. EveryPingAccountedFor'
  BY <1>7 DEF Publish, IInv, EveryPingAccountedFor, Waiting
<1>9. QED
  BY <1>4, <1>5, <1>6, <1>8 DEF IInv

LEMMA NoAnswerFacts ==
    NoAnswer.read = "none" /\ NoAnswer.ping = 0
BY DEF NoAnswer

\* The silent steps of task(): no byte, or a frame for another station.
LEMMA TaskQuietInv == ASSUME IInv, TaskIdle \/ TaskForeign PROVE IInv'
<1>1. /\ pc = "task" /\ pc' = "button" /\ answer' = NoAnswer
      /\ UNCHANGED <<copyFirst, flags, regs, rx, sent, faults, tally, pingers,
                     others, shown>>
      /\ bus' \in {bus, <<>>}
  BY DEF TaskIdle, TaskForeign, line, history, names
<1>2. TypeOK'
  BY <1>1, InitFacts DEF IInv, TypeOK, PCs
<1>3. Agreement' /\ AckBelongsToThisPass' /\ EveryPingAccountedFor'
  BY <1>1 DEF IInv, Agreement, AckBelongsToThisPass, EveryPingAccountedFor
<1>4. StatusAgreesWithPing' /\ NoNumberWithoutPing'
  BY <1>1, NoAnswerFacts DEF StatusAgreesWithPing, NoNumberWithoutPing
<1>5. QED
  BY <1>2, <1>3, <1>4 DEF IInv

\* The steps of task() that note a read, with a reply or without.
LEMMA TaskNotesFacts ==
    ASSUME IInv, TaskSilent \/ TaskAnswer
    PROVE  /\ pc = "task" /\ pc' = "button"
           /\ UNCHANGED <<copyFirst, regs, rx, sent, faults, pingers, others, shown>>
           /\ bus' = <<>>
           /\ Taken \in Frames /\ Taken.start \in Starts
           /\ flags' = NoteRead(flags, Taken.start)
           /\ answer' \in Answers
           /\ answer'.read = "block" => answer'.status = answer'.ping
           /\ (answer'.read \in {"ping", "block"} /\ answer'.ping = 0
                  /\ answer'.phone # NoNumber) => copyFirst /\ shown = 1
           /\ answer'.read = "ping" => /\ Taken.start = "ping"
                                      /\ answer'.ping = regs.ping
           /\ tally' = Settle(flags, NoteRead(flags, Taken.start), answer')
<1>1. Taken \in Frames /\ Taken.start \in Starts
  <2>1. bus \in Seq(Frames) /\ bus # <<>>
    BY DEF IInv, TypeOK, TaskSilent, TaskAnswer
  <2>2. Taken \in Frames
    BY <2>1 DEF Taken
  <2>3. QED
    BY <2>2 DEF Frames
<1>2. CASE TaskSilent
  BY <1>1, <1>2, InitFacts, NoAnswerFacts DEF TaskSilent, names
<1>3. CASE TaskAnswer
  <2>1. TypeOK /\ Agreement
    BY DEF IInv
  <2>2. QED
    BY <1>1, <1>3, <2>1, ReplyFacts DEF TaskAnswer, names
<1>4. QED
  BY <1>2, <1>3

LEMMA TaskNotesInv == ASSUME IInv, TaskSilent \/ TaskAnswer PROVE IInv'
<1>1. flags \in FlagRecords
  BY DEF IInv, TypeOK
<1>2. /\ tally' \in [Fates -> Nat]
      /\ tally'["accepted"] = Settled(tally') + Waiting(flags')
  BY TaskNotesFacts, SettleFacts
<1>3. /\ flags' \in FlagRecords
      /\ flags'.have_get_status = flags.have_get_status
      /\ flags'.have_config_para = flags.have_config_para
      /\ flags'.phone_numner_sender = flags.phone_numner_sender
  BY <1>1, TaskNotesFacts, NoteReadFacts
<1>4. TypeOK'
  BY <1>2, <1>3, InitFacts, TaskNotesFacts DEF IInv, TypeOK, PCs
<1>5. Agreement' /\ AckBelongsToThisPass'
  BY <1>3, TaskNotesFacts DEF IInv, Agreement, AckBelongsToThisPass
<1>6. StatusAgreesWithPing' /\ NoNumberWithoutPing'
  BY TaskNotesFacts DEF StatusAgreesWithPing, NoNumberWithoutPing
<1>7. EveryPingAccountedFor'
  BY <1>2 DEF EveryPingAccountedFor
<1>8. QED
  BY <1>4, <1>5, <1>6, <1>7 DEF IInv
\* Steps that touch neither the flags nor the registers nor a reply.
LEMMA UntouchedInv ==
    ASSUME IInv, UNCHANGED <<copyFirst, flags, regs, answer, tally, shown>>,
           pc' \in PCs, rx' \in Seq(Chunks), bus' \in Seq(Frames),
           sent' \in Nat, faults' \in Nat, pingers' \subseteq Numbers,
           others' \subseteq Numbers,
           pc' = "boot" => pc = "boot",
           pc' = "task" => pc = "task",
           pc' = "button" => pc = "button",
           pc' = "reading" => rx' # <<>>
    PROVE  IInv'
<1>1. TypeOK'
  BY DEF IInv, TypeOK
<1>2. Agreement' /\ AckBelongsToThisPass'
  BY DEF IInv, Agreement, AckBelongsToThisPass
<1>3. StatusAgreesWithPing' /\ NoNumberWithoutPing' /\ EveryPingAccountedFor'
  BY DEF IInv, StatusAgreesWithPing, NoNumberWithoutPing, EveryPingAccountedFor
<1>4. QED
  BY <1>1, <1>2, <1>3 DEF IInv

LEMMA LoopQuietInv == ASSUME IInv, Button \/ Send \/ ReadSms PROVE IInv'
<1>1. TypeOK /\ Agreement
  BY DEF IInv
<1>2. CASE Button
  BY <1>1, <1>2, UntouchedInv DEF Button, line, history, names, TypeOK, PCs
<1>3. CASE Send
  <2>1. <<Other>> \in Seq(Chunks)
    BY DEF Chunks
  <2>2. rx' \in Seq(Chunks) /\ pc' \in {"send2", "send3", "sms"}
    BY <1>3, <2>1, InitFacts DEF Send
  <2>3. UNCHANGED <<copyFirst, flags, regs, bus, answer, sent, faults, tally, pingers,
                  others, shown>>
    BY <1>3 DEF Send, history, names
  <2>4. QED
    BY <1>1, <2>2, <2>3, UntouchedInv DEF TypeOK, PCs
<1>4. CASE ReadSms
  BY <1>1, <1>4, UntouchedInv DEF ReadSms, line, history, names, TypeOK, PCs
<1>5. QED
  BY <1>2, <1>3, <1>4

\* What reading the receive buffer does: nothing, or a message is taken over.
LEMMA FinishReadFacts ==
    ASSUME IInv, FinishRead
    PROVE  /\ pc' = "sms" /\ rx' = <<>>
           /\ UNCHANGED <<copyFirst, regs, bus, answer, sent, faults, shown>>
           /\ flags' \in FlagRecords
           /\ flags'.have_get_status = flags.have_get_status
           /\ flags'.have_config_para = flags.have_config_para
           /\ flags'.phone_numner_sender = flags.phone_numner_sender
           /\ tally' \in [Fates -> Nat]
           /\ pingers' \subseteq Numbers /\ others' \subseteq Numbers
           /\ flags.have_ping_status = 1 => flags'.have_ping_status = 1
           /\ tally'["answered"] = tally["answered"]
           /\ \/ /\ Waiting(flags') = Waiting(flags)
                 /\ tally'["accepted"] = tally["accepted"]
                 /\ Settled(tally') = Settled(tally)
              \/ /\ Waiting(flags') = Waiting(flags)
                 /\ tally'["accepted"] = tally["accepted"] + 1
                 /\ Settled(tally') = Settled(tally) + 1
              \/ /\ Waiting(flags) = 0 /\ Waiting(flags') = 1
                 /\ tally'["accepted"] = tally["accepted"] + 1
                 /\ Settled(tally') = Settled(tally)
<1> DEFINE sms == Head(rx)
           accepted == Count(tally, "accepted")
<1>1. /\ flags \in FlagRecords /\ tally \in [Fates -> Nat]
      /\ pingers \subseteq Numbers /\ others \subseteq Numbers
      /\ rx \in Seq(Chunks) /\ rx # <<>>
  BY DEF IInv, TypeOK, Agreement, FinishRead
<1>2. sms \in Chunks
  BY <1>1
<1>3. /\ pc' = "sms" /\ rx' = <<>>
      /\ UNCHANGED <<copyFirst, regs, bus, answer, sent, faults, shown>>
  BY DEF FinishRead, history, names
<1>4. CASE sms = Other /\ UNCHANGED <<flags, history>>
  BY <1>1, <1>3, <1>4 DEF history, names
<1>5. CASE /\ sms # Other
           /\ flags' = ReceiveSms(flags, sms)
           /\ pingers' = IF sms.ping THEN pingers \cup {sms.from} ELSE pingers
           /\ others' = IF ~sms.ping /\ flags.have_ping_status = 1
                        THEN others \cup {sms.from} ELSE others
           /\ tally' = IF ~sms.ping THEN tally
                       ELSE IF flags.ai_read_ping = 1 THEN Count(accepted, "overtaken")
                       ELSE IF PingWaits(flags) THEN Count(accepted, "coalesced")
                       ELSE accepted
  <2>1. sms \in Sms /\ sms.from \in Numbers /\ sms.ping \in BOOLEAN
    BY <1>2, <1>5, HandshakeAssumption DEF Chunks, Sms
  <2>2. /\ flags' \in FlagRecords
        /\ flags'.have_ping_status = (IF sms.ping THEN 1 ELSE flags.have_ping_status)
        /\ flags'.ai_read_ping = flags.ai_read_ping
        /\ flags'.have_get_status = flags.have_get_status
        /\ flags'.have_config_para = flags.have_config_para
        /\ flags'.phone_numner_sender = flags.phone_numner_sender
    BY <1>1, <1>5, <2>1, ReceiveFacts
  <2>3. pingers' \subseteq Numbers /\ others' \subseteq Numbers
    BY <1>1, <1>5, <2>1
  <2>4. /\ accepted \in [Fates -> Nat]
        /\ accepted["accepted"] = tally["accepted"] + 1
        /\ accepted["answered"] = tally["answered"]
        /\ Settled(accepted) = Settled(tally)
    BY <1>1, CountFacts DEF Fates
  <2> HIDE DEF sms, accepted
  <2>5. CASE ~sms.ping
    <3>1. tally' = tally /\ Waiting(flags') = Waiting(flags)
      BY <1>5, <2>2, <2>5 DEF Waiting, PingWaits
    <3>2. QED
      BY <1>1, <1>3, <2>2, <2>3, <3>1
  <2>6. CASE sms.ping /\ flags.ai_read_ping = 1
    <3>1. tally' = Count(accepted, "overtaken") /\ Waiting(flags') = 0 /\ Waiting(flags) = 0
      BY <1>5, <2>2, <2>6 DEF Waiting, PingWaits
    <3>2. /\ tally' \in [Fates -> Nat] /\ tally'["accepted"] = accepted["accepted"]
          /\ tally'["answered"] = accepted["answered"]
          /\ Settled(tally') = Settled(accepted) + 1
      BY <2>4, <3>1, CountFacts DEF Fates
    <3>3. QED
      BY <1>3, <2>2, <2>3, <2>4, <2>6, <3>1, <3>2
  <2>7. CASE sms.ping /\ flags.ai_read_ping # 1 /\ PingWaits(flags)
    <3>1. tally' = Count(accepted, "coalesced") /\ Waiting(flags') = 1 /\ Waiting(flags) = 1
      BY <1>5, <2>2, <2>7 DEF Waiting, PingWaits
    <3>2. /\ tally' \in [Fates -> Nat] /\ tally'["accepted"] = accepted["accepted"]
          /\ tally'["answered"] = accepted["answered"]
          /\ Settled(tally') = Settled(accepted) + 1
      BY <2>4, <3>1, CountFacts DEF Fates
    <3>3. QED
      BY <1>3, <2>2, <2>3, <2>4, <2>7, <3>1, <3>2
  <2>8. CASE sms.ping /\ flags.ai_read_ping # 1 /\ ~PingWaits(flags)
    <3>1. flags.ai_read_ping = 0
      BY <1>1, <2>8 DEF FlagRecords, Bit
    <3>2. tally' = accepted /\ Waiting(flags') = 1 /\ Waiting(flags) = 0
      BY <1>5, <2>2, <2>8, <3>1 DEF Waiting, PingWaits
    <3>3. QED
      BY <1>3, <2>2, <2>3, <2>4, <2>8, <3>2
  <2>9. QED
    BY <2>1, <2>5, <2>6, <2>7, <2>8
<1>6. QED
  BY <1>4, <1>5 DEF FinishRead

LEMMA FinishReadInv == ASSUME IInv, FinishRead PROVE IInv'
<1>1. TypeOK'
  BY FinishReadFacts, InitFacts DEF IInv, TypeOK, PCs
<1>2. Agreement' /\ AckBelongsToThisPass'
  BY FinishReadFacts DEF IInv, Agreement, AckBelongsToThisPass
<1>3. StatusAgreesWithPing' /\ NoNumberWithoutPing'
  BY FinishReadFacts DEF IInv, StatusAgreesWithPing, NoNumberWithoutPing
<1>4. /\ tally["accepted"] \in Nat /\ Settled(tally) \in Nat
      /\ tally["accepted"] = Settled(tally) + Waiting(flags)
      /\ Waiting(flags) \in Nat
  BY SettledType DEF IInv, TypeOK, EveryPingAccountedFor, Waiting
<1>5. EveryPingAccountedFor'
  BY <1>4, FinishReadFacts DEF EveryPingAccountedFor
<1>6. QED
  BY <1>1, <1>2, <1>3, <1>5 DEF IInv
LEMMA RestartFacts ==
    ASSUME IInv, Restart
    PROVE  /\ flags' = InitFlags /\ Waiting(flags') = 0
           /\ tally' \in [Fates -> Nat]
           /\ tally'["accepted"] = tally["accepted"]
           /\ tally'["answered"] = tally["answered"]
           /\ Settled(tally') = Settled(tally) + Waiting(flags)
<1>1. tally \in [Fates -> Nat]
  BY DEF IInv, TypeOK
<1>2. flags' = InitFlags /\ Waiting(flags') = 0
  BY DEF Restart, Waiting, PingWaits, InitFlags
<1>3. CASE PingWaits(flags)
  <2>1. tally' = Count(tally, "restarted") /\ Waiting(flags) = 1
    BY <1>3 DEF Restart, Waiting
  <2>2. QED
    BY <1>1, <1>2, <2>1, CountFacts DEF Fates
<1>4. CASE ~PingWaits(flags)
  <2>1. tally' = tally /\ Waiting(flags) = 0
    BY <1>4 DEF Restart, Waiting
  <2>2. QED
    BY <1>1, <1>2, <2>1, SettledType
<1>5. QED
  BY <1>3, <1>4

LEMMA RestartInv == ASSUME IInv, Restart PROVE IInv'
<1>1. TypeOK'
  BY RestartFacts, InitFacts DEF Restart, IInv, TypeOK, PCs, Bit
<1>2. Agreement' /\ AckBelongsToThisPass'
  BY DEF Restart, Agreement, AckBelongsToThisPass, InitFlags, InitRegisters
<1>3. StatusAgreesWithPing' /\ NoNumberWithoutPing'
  BY NoAnswerFacts DEF Restart, StatusAgreesWithPing, NoNumberWithoutPing
<1>4. /\ tally["accepted"] = Settled(tally) + Waiting(flags)
      /\ Settled(tally) \in Nat /\ Waiting(flags) \in Nat
  BY SettledType DEF IInv, TypeOK, EveryPingAccountedFor, Waiting
<1>5. EveryPingAccountedFor'
  BY <1>4, RestartFacts DEF EveryPingAccountedFor
<1>6. QED
  BY <1>1, <1>2, <1>3, <1>5 DEF IInv

\* Modem, master and line only fill the buffers.
LEMMA SurroundingsInv ==
    ASSUME IInv,
           \/ SmsArrives \/ ModemChatter
           \/ \E request \in Requests : MasterSends(request)
           \/ MasterRetries \/ Damage
    PROVE  IInv'
<1>1. /\ pc \in PCs /\ rx \in Seq(Chunks) /\ bus \in Seq(Frames)
      /\ sent \in Nat /\ faults \in Nat
      /\ pingers \subseteq Numbers /\ others \subseteq Numbers
      /\ pc = "reading" => rx # <<>>
  BY DEF IInv, TypeOK, Agreement
<1>2. CASE SmsArrives \/ ModemChatter
  <2>1. PICK chunk \in Chunks : rx' = Append(rx, chunk)
    BY <1>2 DEF SmsArrives, ModemChatter, Chunks
  <2>2. rx' \in Seq(Chunks) /\ rx' # <<>>
    BY <1>1, <2>1
  <2>3. /\ UNCHANGED <<pc, copyFirst, flags, regs, bus, answer, faults, tally,
                       pingers, others, shown>>
        /\ sent' = sent + 1
    BY <1>2 DEF SmsArrives, ModemChatter, history, names
  <2>4. QED
    BY <1>1, <2>2, <2>3, UntouchedInv
<1>3. CASE (\E request \in Requests : MasterSends(request)) \/ MasterRetries \/ Damage
  <2>1. bus' \in Seq(Frames)
    <3>1. CASE \E request \in Requests : MasterSends(request)
      BY <3>1, HandshakeAssumption DEF MasterSends
    <3>2. CASE MasterRetries
      BY <1>1, <3>2 DEF MasterRetries
    <3>3. CASE Damage
      <4>1. PICK f \in Frames : bus' = <<[f EXCEPT !.legal = TRUE, !.intact = FALSE]>>
        BY <3>3 DEF Damage
      <4>2. [f EXCEPT !.legal = TRUE, !.intact = FALSE] \in Frames
        BY DEF Frames
      <4>3. QED
        BY <4>1, <4>2
    <3>4. QED
      BY <1>3, <3>1, <3>2, <3>3
  <2>2. /\ UNCHANGED <<pc, copyFirst, flags, regs, rx, answer, sent, tally,
                       pingers, others, shown>>
        /\ faults' \in {faults, faults + 1}
    BY <1>3 DEF MasterSends, MasterRetries, Damage, history, names
  <2>3. QED
    BY <1>1, <2>1, <2>2, UntouchedInv
<1>4. QED
  BY <1>2, <1>3

LEMMA NextInv == IInv /\ [Next]_vars => IInv'
<1> SUFFICES ASSUME IInv, [Next]_vars PROVE IInv'
  OBVIOUS
<1>1. CASE Boot
  BY <1>1, BootInv
<1>2. CASE Publish
  BY <1>2, PublishInv
<1>3. CASE TaskIdle \/ TaskForeign
  BY <1>3, TaskQuietInv
<1>4. CASE TaskSilent \/ TaskAnswer
  BY <1>4, TaskNotesInv
<1>5. CASE Button \/ Send \/ ReadSms
  BY <1>5, LoopQuietInv
<1>6. CASE FinishRead
  BY <1>6, FinishReadInv
<1>7. CASE \/ SmsArrives \/ ModemChatter
           \/ \E request \in Requests : MasterSends(request)
           \/ MasterRetries \/ Damage
  BY <1>7, SurroundingsInv
<1>8. CASE Restart
  BY <1>8, RestartInv
<1>9. CASE UNCHANGED vars
  <2>1. UNCHANGED <<pc, copyFirst, flags, regs, rx, bus, answer, sent, faults, tally,
                    pingers, others, shown>>
    BY <1>9 DEF vars
  <2>2. QED
    BY <2>1, UntouchedInv DEF IInv, TypeOK, Agreement
<1>10. QED
  BY <1>1, <1>2, <1>3, <1>4, <1>5, <1>6, <1>7, <1>8, <1>9
     DEF Next, Loop, Surroundings

--------------------------------------------------------------------------
(* The theorems. *)

\* The inductive invariant holds throughout.
THEOREM Invariance == Spec => []IInv
BY InitInv, NextInv, PTL DEF Spec

\* Every variable keeps its type, whatever modem, master and line do.
THEOREM TypeCorrect == Spec => []TypeOK
<1>1. IInv => TypeOK
  BY DEF IInv
<1>2. QED
  BY <1>1, Invariance, PTL

\* Whatever is lost, damaged or restarted, each ping that TS_Read_SMS has
\* accepted waits or has exactly one fate; none is answered twice.
THEOREM Accounting == Spec => []EveryPingAccountedFor
<1>1. IInv => EveryPingAccountedFor
  BY DEF IInv
<1>2. QED
  BY <1>1, Invariance, PTL

\* A block read never sees the status and the ping register disagree.  Whichever
\* argument of MB_Slave_Run 41 is evaluated first, the reply to a read shows a
\* number only with a ping, or, if the buffer is copied first, in the one pass
\* after that which has shown the ping.
THEOREM ConsistentReplies == Spec => []RepliesAgree
<1>1. IInv => RepliesAgree
  BY DEF IInv, RepliesAgree
<1>2. QED
  BY <1>1, Invariance, PTL

\* When task() runs, no read is noted yet, and the ping register shows the flag
\* as this pass has left it: a read that task() notes is one of this ping.
THEOREM AcksAreFresh == Spec => []AckBelongsToThisPass
<1>1. IInv => AckBelongsToThisPass
  BY DEF IInv
<1>2. QED
  BY <1>1, Invariance, PTL

\* No step but the two named ones turns the flag of a waiting ping off.
LEMMA ClearingStep ==
    ASSUME IInv, [Next]_vars,
           flags.have_ping_status = 1, flags'.have_ping_status = 0
    PROVE  (flags.ai_read_ping = 1 /\ pc = "publish") \/ pc' = "boot"
<1>1. flags \in FlagRecords /\ copyFirst \in BOOLEAN
  BY DEF IInv, TypeOK
<1>2. flags' # flags
  OBVIOUS
<1>3. CASE Boot
  BY <1>2, <1>3 DEF Boot, IInv, Agreement
<1>4. CASE Publish
  <2>1. flags'.have_ping_status = Cleared(flags.have_ping_status, flags.ai_read_ping)
    BY <1>1, <1>4, PublishFacts DEF Publish
  <2>2. QED
    BY <1>4, <2>1 DEF Publish, Cleared
<1>5. CASE TaskSilent \/ TaskAnswer
  BY <1>1, <1>5, TaskNotesFacts, NoteReadFacts
<1>6. CASE FinishRead
  BY <1>6, FinishReadFacts
<1>7. CASE Restart
  BY <1>7 DEF Restart
<1>8. CASE \/ TaskIdle \/ TaskForeign \/ Button \/ Send \/ ReadSms
           \/ SmsArrives \/ ModemChatter
           \/ (\E request \in Requests : MasterSends(request))
           \/ MasterRetries \/ Damage \/ UNCHANGED vars
  BY <1>2, <1>8 DEF TaskIdle, TaskForeign, Button, Send, ReadSms, SmsArrives,
     ModemChatter, MasterSends, MasterRetries, Damage, vars
<1>9. QED
  BY <1>3, <1>4, <1>5, <1>6, <1>7, <1>8 DEF Next, Loop, Surroundings

\* Only the check that consumes a noted read of register 42 clears a ping.
THEOREM OnlyReadsClear == Spec => ClearedOnlyByRead
<1>1. IInv /\ [Next]_vars =>
        [(flags.have_ping_status = 1 /\ flags'.have_ping_status = 0)
            => (flags.ai_read_ping = 1 /\ pc = "publish") \/ pc' = "boot"]_vars
  BY ClearingStep
<1>2. QED
  BY <1>1, Invariance, PTL DEF Spec, ClearedOnlyByRead

--------------------------------------------------------------------------
(* The handshake implements the mailbox. *)

LEMMA InitRefines == Init => Mailbox!Init
BY DEF Init, Mailbox!Init, Waiting, PingWaits, InitFlags, Fates

LEMMA NextRefines ==
    ASSUME IInv, [Next]_vars
    PROVE  [Mailbox!Next]_(Mailbox!vars)
<1> USE DEF Mailbox!Next, Mailbox!vars
<1>1. /\ flags \in FlagRecords /\ copyFirst \in BOOLEAN
      /\ tally["accepted"] \in Nat /\ tally["answered"] \in Nat
  BY SettledType DEF IInv, TypeOK
<1>2. CASE Boot
  BY <1>2 DEF Boot, history, IInv, Agreement
<1>3. CASE Publish
  <2>1. /\ flags'.have_ping_status = Cleared(flags.have_ping_status, flags.ai_read_ping)
        /\ flags'.ai_read_ping = 0
    BY <1>1, <1>3, PublishFacts DEF Publish
  <2>2. Waiting(flags') = Waiting(flags)
    BY <1>1, <2>1 DEF Waiting, PingWaits, Cleared, FlagRecords, Bit
  <2>3. QED
    BY <1>3, <2>2 DEF Publish
<1>4. CASE TaskSilent \/ TaskAnswer
  <2>1. /\ tally'["accepted"] = tally["accepted"]
        /\ \/ /\ Waiting(flags) = 1 /\ Waiting(flags') = 0
              /\ tally'["answered"] \in {tally["answered"], tally["answered"] + 1}
           \/ /\ Waiting(flags) = Waiting(flags')
              /\ tally'["answered"] = tally["answered"]
    BY <1>4, TaskNotesFacts, SettleFacts
  <2>2. QED
    BY <2>1 DEF Mailbox!Take, Mailbox!Drop
<1>5. CASE FinishRead
  <2>1. /\ tally'["answered"] = tally["answered"]
        /\ \/ /\ Waiting(flags') = Waiting(flags)
              /\ tally'["accepted"] = tally["accepted"]
           \/ /\ Waiting(flags') = Waiting(flags)
              /\ tally'["accepted"] = tally["accepted"] + 1
           \/ /\ Waiting(flags) = 0 /\ Waiting(flags') = 1
              /\ tally'["accepted"] = tally["accepted"] + 1
    BY <1>5, FinishReadFacts
  <2>2. Waiting(flags) \in {0, 1}
    BY DEF Waiting
  <2>3. QED
    BY <2>1, <2>2 DEF Mailbox!Put, Mailbox!PutTooLate
<1>6. CASE Restart
  <2>1. /\ Waiting(flags') = 0
        /\ tally'["accepted"] = tally["accepted"]
        /\ tally'["answered"] = tally["answered"]
    BY <1>6, RestartFacts
  <2>2. Waiting(flags) \in {0, 1}
    BY DEF Waiting
  <2>3. QED
    BY <2>1, <2>2 DEF Mailbox!Drop
<1>7. CASE \/ TaskIdle \/ TaskForeign \/ Button \/ Send \/ ReadSms
           \/ SmsArrives \/ ModemChatter
           \/ (\E request \in Requests : MasterSends(request))
           \/ MasterRetries \/ Damage \/ UNCHANGED vars
  <2>1. UNCHANGED <<flags, tally>>
    BY <1>7 DEF TaskIdle, TaskForeign, Button, Send, ReadSms, SmsArrives,
       ModemChatter, MasterSends, MasterRetries, Damage, vars, history
  <2>2. QED
    BY <2>1
<1>8. QED
  BY <1>2, <1>3, <1>4, <1>5, <1>6, <1>7 DEF Next, Loop, Surroundings

\* The station is a mailbox: a ping is answered at most once, and is given up
\* only by a read without a reply or by a restart.
THEOREM Refinement == Spec => ImplementsMailbox
<1>1. Init => Mailbox!Init
  BY InitRefines
<1>2. IInv /\ [Next]_vars => [Mailbox!Next]_(Mailbox!vars)
  BY NextRefines
<1>3. QED
  BY <1>1, <1>2, Invariance, PTL DEF Spec, ImplementsMailbox, Mailbox!Spec

--------------------------------------------------------------------------
(* Whom a reply names. *)

\* A publication keeps the number of the last message.
LEMMA PublishKeepsNumber ==
    ASSUME NEW f \in FlagRecords
    PROVE  FlagsAfterPublish(f).phone_number = f.phone_number
<1> DEFINE c == TS_Check_All_Flag(f)
<1>1. c \in FlagRecords /\ c.phone_number = f.phone_number
  BY CheckFacts
<1>2. TS_Check_All_Flag(c) = c
  BY CheckIdempotent
<1>3. FlagsAfterPublish(f) = TS_Ping_Status(c)
  BY <1>2 DEF FlagsAfterPublish
<1> HIDE DEF c
<1>4. TS_Ping_Status(c).phone_number = c.phone_number
  BY <1>1, <1>2 DEF TS_Ping_Status, FlagRecords
<1>5. QED
  BY <1>1, <1>3, <1>4

\* While a ping waits, the number of the last message is of one who sent a ping
\* that waits, or another message since.  The buffer holds such a number as long
\* as the ping register is set, and the phone register shows it from the
\* publication to the end of mb.task(), or shows what the buffer held before.
Senders == pingers \cup others

ShownNames ==
    regs.ping = 1 => \/ regs.phone \in Senders
                     \/ copyFirst /\ shown = 0 /\ regs.phone = NoNumber

SendersKnown ==
    /\ flags.have_ping_status = 1 => flags.phone_number \in Senders
    /\ regs.ping = 1 => flags.phone_numner_sender \in Senders
    /\ pc = "task" => ShownNames
    /\ AnswerNamesPinger

\* What does not touch flags, registers, reply and history, and enters neither
\* task() nor the buttons.
LEMMA UntouchedKnown ==
    ASSUME SendersKnown,
           UNCHANGED <<copyFirst, flags, regs, answer, pingers, others, shown>>,
           pc' = "task" => pc = "task", pc' = "button" => pc = "button"
    PROVE  SendersKnown'
BY DEF SendersKnown, Senders, ShownNames, AnswerNamesPinger

LEMMA PublishKnown == ASSUME IInv, SendersKnown, Publish PROVE SendersKnown'
<1>1. /\ flags \in FlagRecords /\ copyFirst \in BOOLEAN /\ regs.ping \in Bit
      /\ pingers \subseteq Numbers /\ others \subseteq Numbers
      /\ regs.ping = 0 => flags.phone_numner_sender = NoNumber
  BY DEF IInv, TypeOK, RegisterRecords, Agreement
<1>2. /\ flags'.phone_number = flags.phone_number
      /\ flags'.have_ping_status = Cleared(flags.have_ping_status, flags.ai_read_ping)
      /\ regs'.ping = flags'.have_ping_status
      /\ flags'.phone_numner_sender = (IF regs'.ping = 1 THEN flags.phone_number
                                                         ELSE NoNumber)
      /\ regs'.phone = (IF copyFirst THEN flags.phone_numner_sender
                                     ELSE flags'.phone_numner_sender)
  BY <1>1, PublishFacts, PublishKeepsNumber DEF Publish
<1>3. CASE regs'.ping = 1
  <2>1. UNCHANGED <<pingers, others, copyFirst>> /\ shown' = regs.ping
    BY <1>2, <1>3 DEF Publish
  <2>2. flags'.phone_number \in Senders /\ flags'.phone_numner_sender \in Senders
    BY <1>2, <1>3 DEF SendersKnown, Cleared
  <2>3. regs'.phone \in Senders \/ (copyFirst /\ regs.ping = 0 /\ regs'.phone = NoNumber)
    BY <1>1, <1>2, <2>2 DEF SendersKnown, Bit
  <2>4. Senders' = Senders
    BY <2>1 DEF Senders
  <2>5. AnswerNamesPinger'
    BY DEF Publish, AnswerNamesPinger
  <2>6. QED
    BY <2>1, <2>2, <2>3, <2>4, <2>5 DEF SendersKnown, ShownNames
<1>4. CASE regs'.ping # 1
  BY <1>2, <1>4 DEF Publish, SendersKnown, ShownNames, AnswerNamesPinger
<1>5. QED
  BY <1>3, <1>4

LEMMA TaskKnown ==
    ASSUME IInv, SendersKnown, TaskIdle \/ TaskForeign \/ TaskSilent \/ TaskAnswer
    PROVE  SendersKnown'
<1>1. flags \in FlagRecords
  BY DEF IInv, TypeOK
<1>2. /\ pc = "task" /\ pc' = "button"
      /\ UNCHANGED <<copyFirst, regs, pingers, others, shown>>
      /\ \/ answer' = NoAnswer
         \/ answer' = Reply(Taken)
      /\ flags' \in {flags, NoteRead(flags, Taken.start)}
  BY DEF TaskIdle, TaskForeign, TaskSilent, TaskAnswer, line, history, names
<1>3. /\ flags'.have_ping_status = flags.have_ping_status
      /\ flags'.phone_number = flags.phone_number
      /\ flags'.phone_numner_sender = flags.phone_numner_sender
  BY <1>1, <1>2, NoteReadFacts
<1>4. answer'.ping = 1 => regs.ping = 1 /\ answer'.phone = regs.phone
  <2>1. CASE answer' = NoAnswer
    BY <2>1, NoAnswerFacts
  <2>2. CASE answer' = Reply(Taken)
    BY <2>2, NoAnswerFacts DEF Reply, NoAnswer
  <2>3. QED
    BY <1>2, <2>1, <2>2
<1>5. AnswerNamesPinger'
  BY <1>2, <1>4 DEF SendersKnown, Senders, ShownNames, AnswerNamesPinger
<1>6. QED
  BY <1>2, <1>3, <1>5 DEF SendersKnown, Senders

LEMMA FinishReadKnown == ASSUME IInv, SendersKnown, FinishRead PROVE SendersKnown'
<1> DEFINE sms == Head(rx)
<1>1. flags \in FlagRecords /\ sms \in Chunks /\ Texts \subseteq BOOLEAN
  BY HandshakeAssumption DEF IInv, TypeOK, Agreement, FinishRead
<1>2. pc' = "sms" /\ UNCHANGED <<copyFirst, regs, answer, shown>>
  BY DEF FinishRead, history, names
<1>3. CASE UNCHANGED <<flags, history>>
  BY <1>2, <1>3, UntouchedKnown DEF history, names
<1>4. CASE /\ sms # Other /\ flags' = ReceiveSms(flags, sms)
           /\ pingers' = IF sms.ping THEN pingers \cup {sms.from} ELSE pingers
           /\ others' = IF ~sms.ping /\ flags.have_ping_status = 1
                        THEN others \cup {sms.from} ELSE others
  <2>1. sms \in Sms /\ sms.ping \in BOOLEAN
    BY <1>1, <1>4 DEF Chunks, Sms
  <2>2. /\ flags'.phone_number = sms.from
        /\ flags'.phone_numner_sender = flags.phone_numner_sender
        /\ flags'.have_ping_status = (IF sms.ping THEN 1 ELSE flags.have_ping_status)
    BY <1>1, <1>4, <2>1 DEF ReceiveSms, FlagRecords
  <2>3. Senders \subseteq Senders'
    BY <1>4 DEF Senders
  <2>4. flags'.have_ping_status = 1 => sms.from \in Senders'
    BY <1>4, <2>1, <2>2 DEF Senders
  <2>5. QED
    BY <1>2, <2>2, <2>3, <2>4 DEF SendersKnown, ShownNames, AnswerNamesPinger
<1>5. QED
  BY <1>3, <1>4 DEF FinishRead

LEMMA NextKnown == ASSUME IInv, SendersKnown, [Next]_vars PROVE SendersKnown'
<1>1. CASE Boot \/ Restart
  BY <1>1 DEF Boot, Restart, SendersKnown, AnswerNamesPinger, InitFlags, InitRegisters
<1>2. CASE Publish
  BY <1>2, PublishKnown
<1>3. CASE TaskIdle \/ TaskForeign \/ TaskSilent \/ TaskAnswer
  BY <1>3, TaskKnown
<1>4. CASE FinishRead
  BY <1>4, FinishReadKnown
<1>5. CASE Button \/ Send \/ ReadSms
  <2>1. pc' \in {"send1", "send2", "send3", "sms", "publish", "reading"}
    BY <1>5 DEF Button, Send, ReadSms
  <2>2. UNCHANGED <<copyFirst, flags, regs, answer, pingers, others, shown>>
    BY <1>5 DEF Button, Send, ReadSms, history, names
  <2>3. QED
    BY <2>1, <2>2, UntouchedKnown
<1>6. CASE \/ SmsArrives \/ ModemChatter
           \/ (\E request \in Requests : MasterSends(request))
           \/ MasterRetries \/ Damage \/ UNCHANGED vars
  BY <1>6, UntouchedKnown DEF SmsArrives, ModemChatter, MasterSends, MasterRetries,
     Damage, vars, history, names
<1>7. QED
  BY <1>1, <1>2, <1>3, <1>4, <1>5, <1>6 DEF Next, Loop, Surroundings

\* Whichever argument of MB_Slave_Run 41 is evaluated first and whatever else
\* arrives, a reply that shows a ping names one who sent a ping that waits or
\* another message since; if the buffer is copied first, it may show no number
\* in the first pass of a ping.
THEOREM RepliesNamePingers == Spec => []AnswerNamesPinger
<1>1. Init => SendersKnown
  BY DEF Init, SendersKnown, AnswerNamesPinger, InitFlags, InitRegisters
<1>2. IInv /\ SendersKnown /\ [Next]_vars => SendersKnown'
  BY NextKnown
<1>3. SendersKnown => AnswerNamesPinger
  BY DEF SendersKnown
<1>4. QED
  BY <1>1, <1>2, <1>3, Invariance, PTL DEF Spec
==========================================================================
