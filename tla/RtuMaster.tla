----------------------------- MODULE RtuMaster -----------------------------
(***************************************************************************)
(* The library of modbus_rtu_library as a master: an application asks, the *)
(* request is sent, and task() tells it the answer, or that none came.     *)
(* One request at a time: while _slaveId is set, others are refused.       *)
(*                                                                         *)
(* Time advances in ticks while the rest of the application's loop runs;   *)
(* in each tick the line carries at most one byte of an answer.  A byte is *)
(* the number of the request that it answers.  An answer is all or nothing *)
(* to the CRC: damaged, cut or merged ones are found.                      *)
(***************************************************************************)
EXTENDS Integers, Sequences

CONSTANTS
    Requests,     \* [to, code, size]: slave or Broadcast, function, and what
                  \* masterPDU compares: bytes of data asked for, 1 for a write
    Broadcast,    \* MODBUSRTU_BROADCAST
    Worlds,       \* see world
    Length,       \* bytes of an answer
    Silence,      \* _t, the 3.5 characters that end a frame
    Timeout,      \* MODBUSRTU_TIMEOUT_US
    Latest,       \* the latest start of an answer, where slaves are prompt
    MaxGap,       \* the longest time from a byte of an answer to its next
    Away,         \* the longest time that the rest of the loop takes
    MaxRequests   \* bound: requests accepted in one behaviour

Choices == [ prompt : BOOLEAN,    \* slaves begin to answer by Latest
             memory : BOOLEAN,    \* malloc never fails
             polite : BOOLEAN ]   \* the loop asks only while slave() is 0

ASSUME RtuMasterAssumption ==
    /\ \A r \in Requests : DOMAIN r = {"to", "code", "size"}
    /\ Worlds \subseteq Choices
    /\ Length \in Nat \ {0} /\ Silence \in Nat /\ MaxGap \in Nat \ {0}
    /\ MaxGap < Silence
    /\ Latest \in Nat /\ Timeout \in Nat /\ Latest <= Timeout
    /\ Away \in Nat \ {0} /\ MaxRequests \in Nat

VARIABLES
    world,     \* the choices that hold for ever
    pc,        \* in "task", in a callback ("told"), or in the rest of the loop
    requests,  \* the requests accepted and sent
    sent,      \* the number of the one in _sentFrame; 0 while _slaveId is 0
    age,       \* micros() - _timestamp, up to Timeout + 1
    rx,        \* the bytes not yet read
    len,       \* _len
    since,     \* micros() - t, up to Silence
    spent,     \* ticks of this pass of the loop
    due,       \* requests whose answer may still begin
    coming,    \* the request whose answer is on the line last
    left,      \* bytes of it still to come
    gap,       \* ticks since its last byte, up to MaxGap
    spoilt,    \* requests that are lost, or their answers damaged
    told       \* history: the calls of _cb, in their order

vars == <<world, pc, requests, sent, age, rx, len, since, spent,
          due, coming, left, gap, spoilt, told>>
line == <<due, coming, left, gap, spoilt>>

AtMost(n, limit) == IF n <= limit THEN n ELSE limit

Init ==
    /\ world \in Worlds
    /\ pc = "ask"
    /\ requests = <<>>
    /\ sent = 0 /\ age = 0
    /\ rx = <<>> /\ len = 0 /\ since = 0 /\ spent = 0
    /\ due = {} /\ coming = 0 /\ left = 0 /\ gap = 0 /\ spoilt = {}
    /\ told = <<>>

--------------------------------------------------------------------------
(* The application asks: readHreg and its like, then send(). *)

\* Slip: the transaction is over before its callback is called.
BusyUntilTold == sent # 0 /\ pc # "told"

Busy == sent # 0

\* The request is sent, on top of an answer that is just coming if there is
\* one; a broadcast is not waited for.  It may be lost on its way.
Accept(r) ==
    /\ Len(requests) < MaxRequests
    /\ requests' = Append(requests, r)
    /\ sent' = IF r.to = Broadcast THEN sent ELSE Len(requests')
    /\ age' = IF r.to = Broadcast THEN age ELSE 0
    /\ \/ /\ left = 0
          /\ due' = IF r.to = Broadcast THEN due ELSE due \cup {Len(requests')}
          /\ UNCHANGED spoilt
       \/ /\ spoilt' = spoilt \cup {Len(requests')}
                           \cup (IF left > 0 THEN {coming} ELSE {})
          /\ UNCHANGED due

\* Building the frame and send() use _len, and leave it 0, also when they
\* refuse; a callback may ask, too.
Ask(r) ==
    /\ pc \in {"ask", "told"}
    /\ pc = "ask" => (world.polite => ~Busy)
    /\ pc' = IF pc = "ask" THEN "away" ELSE "told"
    /\ len' = 0
    /\ \/ ~Busy /\ Accept(r)
       \/ /\ Busy \/ ~world.memory
          /\ UNCHANGED <<requests, sent, age, due, spoilt>>
    /\ UNCHANGED <<world, rx, since, spent, coming, left, gap, told>>

AskNothing ==
    /\ pc = "ask"
    /\ pc' = "away"
    /\ UNCHANGED <<world, requests, sent, age, rx, len, since, spent, line, told>>

--------------------------------------------------------------------------
(* The rest of the loop, and the line. *)

\* Nothing comes: a prompt slave begins its answer by Latest.  age is that of
\* the last request, but no older one is due unless it was given up too early.
Quiet ==
    /\ left > 0 => gap + 1 < MaxGap
    /\ world.prompt /\ due # {} => age < Latest
    /\ gap' = AtMost(gap + 1, MaxGap)
    /\ UNCHANGED <<rx, due, coming, left, spoilt>>

NextByte ==
    /\ left > 0
    /\ left' = left - 1
    /\ rx' = Append(rx, coming)
    /\ gap' = 0
    /\ UNCHANGED <<due, coming, spoilt>>

\* A slave begins to answer a request; it may be a late answer.
FirstByte(n) ==
    /\ left = 0
    /\ world.prompt => age <= Latest
    /\ due' = due \ {n}
    /\ coming' = n
    /\ left' = Length - 1
    /\ rx' = Append(rx, n)
    /\ gap' = 0
    /\ spoilt' \in {spoilt, spoilt \cup {n}}

Line == Quiet \/ NextByte \/ \E n \in due : FirstByte(n)

AwayTick ==
    /\ pc = "away"
    /\ spent < Away
    /\ Line
    /\ spent' = spent + 1
    /\ since' = AtMost(since + 1, Silence)
    /\ age' = AtMost(age + 1, Timeout + 1)
    /\ UNCHANGED <<world, pc, requests, sent, len, told>>

Back ==
    /\ pc = "away"
    /\ spent > 0
    /\ pc' = "task"
    /\ spent' = 0
    /\ UNCHANGED <<world, requests, sent, age, rx, len, since, line, told>>

--------------------------------------------------------------------------
(* task(): it never waits. *)

Tell(n, result) ==
    /\ pc' = "told"
    /\ told' = Append(told, [request |-> sent, answer |-> n, result |-> result])

\* Slips: cleanup() is not called; milliseconds are compared with microseconds.
CleanupNever == pc' = "ask" /\ UNCHANGED told
ExpiredAtOnce == age > 0

Expired == age > Timeout

\* cleanup()
Cleanup ==
    IF Busy /\ Expired THEN Tell(0, "EX_TIMEOUT")
                       ELSE pc' = "ask" /\ UNCHANGED told

Notice    == IF Len(rx) > len THEN Len(rx) ELSE len
NoticedAt == IF Len(rx) > len THEN 0 ELSE since

TaskIdle ==
    /\ pc = "task"
    /\ Notice = 0
    /\ Cleanup
    /\ UNCHANGED <<world, requests, sent, age, rx, len, since, spent, line>>

\* Bytes have come, but it has not been silent for long enough since they were
\* noticed: nothing more is done, not even cleanup().
TaskHolds ==
    /\ pc = "task"
    /\ Notice > 0
    /\ NoticedAt < Silence
    /\ pc' = "ask"
    /\ len' = Notice
    /\ since' = NoticedAt
    /\ UNCHANGED <<world, requests, sent, age, rx, spent, line, told>>

FrameEnds == pc = "task" /\ Notice > 0 /\ NoticedAt >= Silence

\* The slave whose frame it seems to be, and the request it seems to answer.
Answered == Head(rx)
FromSlave == Busy /\ requests[Answered].to = requests[sent].to

CrcMatches == /\ len = Length
              /\ \A i \in 1..len : rx[i] = Answered
              /\ Answered \notin spoilt

\* Slip: the answer of the right slave is taken, whatever function it is of.
AnyFunction == TRUE

\* (_frame[0] & 0x7F) == _sentFrame[0]
SameFunction == requests[Answered].code = requests[sent].code

TakeFrame ==
    /\ rx' = SubSeq(rx, len + 1, Len(rx))
    /\ len' = 0
    /\ UNCHANGED <<world, requests, sent, age, since, spent, line>>

\* Another slave's frame, no memory for it, a wrong CRC, another function.
TaskDrops ==
    /\ FrameEnds
    /\ FromSlave => ~world.memory \/ ~CrcMatches \/ ~SameFunction
    /\ TakeFrame
    /\ Cleanup

\* masterPDU: the slave refuses (0x80 is set), or it sends as much as it was
\* asked for, which is compared with what is asked for now.
Results == { "EX_SLAVE_FAILURE",
             IF requests[Answered].size = requests[sent].size
             THEN "EX_SUCCESS" ELSE "EX_DATA_MISMACH" }

TaskAnswered ==
    /\ FrameEnds
    /\ FromSlave /\ CrcMatches /\ SameFunction
    /\ TakeFrame
    /\ \E result \in Results : Tell(Answered, result)

\* _cb has returned: _slaveId = 0.
Return ==
    /\ pc = "told"
    /\ pc' = "ask"
    /\ sent' = 0
    /\ UNCHANGED <<world, requests, age, rx, len, since, spent, line, told>>

Next == \/ \E r \in Requests : Ask(r)
        \/ AskNothing \/ AwayTick \/ Back
        \/ TaskIdle \/ TaskHolds \/ TaskDrops \/ TaskAnswered \/ Return

Spec == Init /\ [][Next]_vars

\* The loop of the application never stops.
FairSpec == Spec /\ WF_vars(Next)
--------------------------------------------------------------------------
(* Properties. *)

Waited(n) == requests[n].to # Broadcast

\* Everything keeps its type.
TypeOK ==
    /\ world \in Worlds
    /\ pc \in {"ask", "away", "task", "told"}
    /\ requests \in Seq(Requests) /\ Len(requests) <= MaxRequests
    /\ sent \in 0..Len(requests)
    /\ age \in 0..(Timeout + 1)
    /\ rx \in Seq(1..Len(requests)) /\ len \in 0..Len(rx)
    /\ since \in 0..Silence /\ spent \in 0..Away
    /\ due \subseteq 1..Len(requests) /\ spoilt \subseteq 1..Len(requests)
    /\ coming \in 0..Len(requests) /\ left \in 0..(Length - 1)
    /\ gap \in 0..MaxGap
    /\ told \in Seq([ request : 1..Len(requests), answer : 0..Len(requests),
                      result : {"EX_SUCCESS", "EX_DATA_MISMACH", "EX_SLAVE_FAILURE",
                                "EX_TIMEOUT"} ])

\* The requests that are not waited for any more, or being told.
Over == {n \in 1..Len(requests) : Waited(n) /\ ~(n = sent /\ pc # "told")}

\* Each request that was accepted, broadcasts apart, is told exactly once, in
\* the order of asking, when it is no longer waited for: not a second time by
\* the timeout, and not never because a callback asked for the next one.
EachToldOnce ==
    /\ {told[i].request : i \in 1..Len(told)} = Over
    /\ \A i, j \in 1..Len(told) : i < j => told[i].request < told[j].request

\* What is told as a success answers a request of the same slave, function and
\* size: this one, or an earlier one whose answer is late.
RightAnswer ==
    \A i \in 1..Len(told) : told[i].result = "EX_SUCCESS" =>
        LET asked == told[i].request
            given == told[i].answer
        IN  /\ given \in 1..asked
            /\ requests[given].to = requests[asked].to
            /\ requests[given].code = requests[asked].code
            /\ requests[given].size = requests[asked].size

\* If the slaves are prompt, no answer is taken for that to another request.
OwnAnswer ==
    world.prompt => \A i \in 1..Len(told) : told[i].answer \in {0, told[i].request}

\* If the slaves are prompt, a request whose answer came undamaged is not told
\* as timed out, however late task() is called, and however often the
\* application asks meanwhile.
NoFalseTimeout ==
    (world.prompt /\ world.memory) =>
        \A i \in 1..Len(told) : told[i].result = "EX_TIMEOUT" =>
            told[i].request \in spoilt

\* Both: with prompt slaves each request is told its own answer (task() serves a
\* whole answer before cleanup() gives the request up).
PromptIsToldRight == OwnAnswer /\ NoFalseTimeout

\* A request of an application that asks only while slave() is 0 is told.
PoliteIsTold == (world.polite /\ sent # 0) ~> (sent = 0)
==========================================================================
