-------------------------- MODULE RtuMasterProofs --------------------------
(***************************************************************************)
(* Proofs about RtuMaster, for all requests, silences, timeouts and        *)
(* behaviours of slaves and application: every request is told once, and   *)
(* no answer is taken that could not be its own.                           *)
(*                                                                         *)
(* The argument: a request is accepted only while none is waited for, so   *)
(* the one that is, is the last of those accepted and not told yet.        *)
(***************************************************************************)
EXTENDS RtuMaster, SequenceTheorems, TLAPS

\* What is said of a request when it is told.
Tellings(n) == [ request : 1..n, answer : 0..n,
                 result : {"EX_SUCCESS", "EX_DATA_MISMACH", "EX_SLAVE_FAILURE",
                           "EX_TIMEOUT"} ]

\* The request that is waited for is the last that is, and a callback is about one.
SentIsLast ==
    /\ pc = "told" => sent # 0
    /\ sent # 0 => Waited(sent) /\ \A n \in 1..Len(requests) : Waited(n) => n <= sent

\* What is on the line answers some request.
ComingIsAsked == left > 0 => coming # 0

Ledger == SentIsLast /\ EachToldOnce /\ RightAnswer

\* The parts of TypeOK.
AskedOK ==
    /\ world \in Worlds
    /\ pc \in {"ask", "away", "task", "told"}
    /\ requests \in Seq(Requests) /\ Len(requests) <= MaxRequests
    /\ sent \in 0..Len(requests)
    /\ told \in Seq(Tellings(Len(requests)))
ClockOK ==
    /\ age \in 0..(Timeout + 1)
    /\ since \in 0..Silence /\ spent \in 0..Away
BytesOK == rx \in Seq(1..Len(requests)) /\ len \in 0..Len(rx)
LineOK ==
    /\ due \subseteq 1..Len(requests) /\ spoilt \subseteq 1..Len(requests)
    /\ coming \in 0..Len(requests) /\ left \in 0..(Length - 1)
    /\ gap \in 0..MaxGap
    /\ ComingIsAsked

IInv == AskedOK /\ ClockOK /\ BytesOK /\ LineOK /\ Ledger

LEMMA TypeParts == IInv => TypeOK
BY DEF IInv, TypeOK, AskedOK, ClockOK, BytesOK, LineOK, Tellings

LEMMA Constants ==
    /\ Length \in Nat /\ Length >= 1
    /\ MaxGap \in Nat /\ MaxGap >= 1 /\ Silence \in Nat /\ Silence >= 2
    /\ Timeout \in Nat /\ Away \in Nat /\ Away >= 1 /\ MaxRequests \in Nat
BY RtuMasterAssumption

--------------------------------------------------------------------------
(* What the actions do to the requests and to what is told of them. *)

\* Nothing.
Unmoved == /\ UNCHANGED <<world, requests, sent, told>>
           /\ pc' = "told" <=> pc = "told"

\* The request that is waited for is told a result that fits it.
Tells(n, result) ==
    /\ pc = "task" /\ pc' = "told"
    /\ sent # 0
    /\ n \in 0..Len(requests)
    /\ result \in {"EX_SUCCESS", "EX_DATA_MISMACH", "EX_SLAVE_FAILURE", "EX_TIMEOUT"}
    /\ told' = Append(told, [request |-> sent, answer |-> n, result |-> result])
    /\ UNCHANGED <<world, requests, sent>>
    /\ result = "EX_SUCCESS" =>
          /\ n # 0
          /\ requests[n].to = requests[sent].to
          /\ requests[n].code = requests[sent].code
          /\ requests[n].size = requests[sent].size

\* A request is accepted.
Accepts(r) ==
    /\ sent = 0
    /\ pc' = "told" <=> pc = "told"
    /\ r \in Requests
    /\ requests' = Append(requests, r)
    /\ sent' = IF r.to = Broadcast THEN 0 ELSE Len(requests')
    /\ UNCHANGED <<world, told>>

Ends == /\ pc = "told" /\ pc' = "ask"
        /\ sent' = 0
        /\ UNCHANGED <<world, requests, told>>

LEMMA UnmovedKeepsLedger ==
    ASSUME TypeOK, Ledger, Unmoved
    PROVE  Ledger'
<1>1. SentIsLast'
      BY DEF Ledger, Unmoved, SentIsLast, Waited
<1>2. EachToldOnce'
      <2>1. Over' = Over
            BY DEF Unmoved, Over, Waited
      <2> QED BY <2>1 DEF Ledger, Unmoved, EachToldOnce
<1>3. RightAnswer'
      BY DEF Ledger, Unmoved, RightAnswer
<1> QED BY <1>1, <1>2, <1>3 DEF Ledger

LEMMA EndsKeepsLedger ==
    ASSUME TypeOK, Ledger, Ends
    PROVE  Ledger'
<1>1. SentIsLast'
      BY DEF Ends, SentIsLast
<1>2. EachToldOnce'
      <2>1. Over' = Over
            BY DEF Ends, Over, Waited, TypeOK
      <2> QED BY <2>1 DEF Ledger, Ends, EachToldOnce
<1>3. RightAnswer'
      BY DEF Ledger, Ends, RightAnswer
<1> QED BY <1>1, <1>2, <1>3 DEF Ledger

\* Telling: told grows by one, at its end.
LEMMA ToldGrows ==
    ASSUME TypeOK, NEW n, NEW result, Tells(n, result)
    PROVE  LET new == [request |-> sent, answer |-> n, result |-> result]
           IN  /\ told' \in Seq(Tellings(Len(requests)))
               /\ Len(told') = Len(told) + 1
               /\ Len(told) \in Nat
               /\ \A i \in 1..Len(told) : told'[i] = told[i]
               /\ told'[Len(told) + 1] = new
               /\ new \in Tellings(Len(requests))
<1> DEFINE new == [request |-> sent, answer |-> n, result |-> result]
<1>1. new \in Tellings(Len(requests))
      BY DEF Tells, TypeOK, Tellings
<1>2. told \in Seq(Tellings(Len(requests))) /\ told' = Append(told, new)
      BY DEF Tells, TypeOK, Tellings
<1> HIDE DEF new
<1>3. /\ told' \in Seq(Tellings(Len(requests)))
      /\ Len(told') = Len(told) + 1
      /\ \A i \in 1..Len(told) : told'[i] = told[i]
      /\ told'[Len(told) + 1] = new
      BY <1>1, <1>2, AppendProperties
<1>4. Len(told) \in Nat
      BY <1>2, LenProperties
<1> QED BY <1>1, <1>3, <1>4 DEF new

LEMMA TellsKeepsLedger ==
    ASSUME TypeOK, Ledger, NEW n, NEW result, Tells(n, result)
    PROVE  Ledger'
<1>1. /\ Len(told') = Len(told) + 1
      /\ Len(told) \in Nat
      /\ \A i \in 1..Len(told) : told'[i] = told[i]
      /\ told'[Len(told) + 1].request = sent
      /\ told'[Len(told) + 1].answer = n
      /\ told'[Len(told) + 1].result = result
      <2>1. /\ Len(told') = Len(told) + 1
            /\ Len(told) \in Nat
            /\ \A i \in 1..Len(told) : told'[i] = told[i]
            /\ told'[Len(told) + 1] = [request |-> sent, answer |-> n, result |-> result]
            BY ToldGrows, Zenon
      <2> QED BY <2>1
<1>2. /\ requests' = requests /\ sent' = sent /\ sent # 0
      /\ pc = "task" /\ pc' = "told"
      /\ sent \in 1..Len(requests) /\ Len(requests) \in Nat
      BY LenProperties DEF Tells, TypeOK
<1>3. /\ Waited(sent)
      /\ \A k \in 1..Len(requests) : Waited(k) => k <= sent
      BY <1>2 DEF Ledger, SentIsLast
<1>4. SentIsLast'
      BY <1>2, <1>3 DEF SentIsLast, Waited
<1>5. Over' = Over \cup {sent} /\ \A k \in Over : k < sent
      BY <1>2, <1>3 DEF Over, Waited
<1>6. EachToldOnce'
      <2>1. {told[i].request : i \in 1..Len(told)} = Over
            BY DEF Ledger, EachToldOnce
      <2>2. {told'[i].request : i \in 1..Len(told')} = Over \cup {sent}
            BY <1>1, <2>1
      <2>3. \A i, j \in 1..Len(told') : i < j => told'[i].request < told'[j].request
            <3> SUFFICES ASSUME NEW i \in 1..Len(told'), NEW j \in 1..Len(told'), i < j
                         PROVE  told'[i].request < told'[j].request
                OBVIOUS
            <3>1. i \in 1..Len(told) /\ told'[i].request = told[i].request
                  BY <1>1
            <3>2. CASE j \in 1..Len(told)
                  BY <1>1, <3>1, <3>2 DEF Ledger, EachToldOnce
            <3>3. CASE j = Len(told) + 1
                  <4>1. told[i].request \in Over
                        BY <2>1, <3>1
                  <4> QED BY <1>1, <1>5, <3>1, <3>3, <4>1
            <3> QED BY <1>1, <3>2, <3>3
      <2> QED BY <1>5, <2>2, <2>3 DEF EachToldOnce
<1>7. RightAnswer'
      <2> SUFFICES ASSUME NEW i \in 1..Len(told'), told'[i].result = "EX_SUCCESS"
                   PROVE  LET asked == told'[i].request
                              given == told'[i].answer
                          IN  /\ given \in 1..asked
                              /\ requests[given].to = requests[asked].to
                              /\ requests[given].code = requests[asked].code
                              /\ requests[given].size = requests[asked].size
          BY <1>2 DEF RightAnswer
      <2>1. CASE i \in 1..Len(told)
            BY <1>1, <2>1 DEF Ledger, RightAnswer
      <2>2. CASE i = Len(told) + 1
            <3>1. /\ n \in 1..Len(requests)
                  /\ requests[n].to = requests[sent].to
                  /\ requests[n].code = requests[sent].code
                  /\ requests[n].size = requests[sent].size
                  BY <1>1, <1>2, <2>2 DEF Tells
            <3>2. n <= sent
                  BY <1>3, <3>1 DEF Waited
            <3> QED BY <1>1, <1>2, <2>2, <3>1, <3>2
      <2> QED BY <1>1, <2>1, <2>2
<1> QED BY <1>4, <1>6, <1>7 DEF Ledger

LEMMA AcceptsKeepsLedger ==
    ASSUME TypeOK, Ledger, NEW r, Accepts(r)
    PROVE  Ledger'
<1> DEFINE L == Len(requests)
<1>1. /\ L \in Nat /\ Len(requests') = L + 1
      /\ \A k \in 1..L : requests'[k] = requests[k]
      /\ requests'[L + 1] = r
      BY AppendProperties, LenProperties DEF Accepts, TypeOK
<1>2. /\ sent = 0
      /\ sent' = (IF r.to = Broadcast THEN 0 ELSE L + 1)
      /\ told' = told
      /\ pc # "told" /\ pc' # "told"
      BY <1>1 DEF Accepts, Ledger, SentIsLast
<1> HIDE DEF L
<1>3. /\ Len(requests) = L
      /\ \A k \in 1..L : requests'[k].to # Broadcast <=> Waited(k)
      /\ requests'[L + 1].to # Broadcast <=> r.to # Broadcast
      BY <1>1 DEF Waited, L
<1>4. SentIsLast'
      BY <1>1, <1>2, <1>3 DEF SentIsLast, Waited
<1>5. EachToldOnce'
      <2>1. Over = {k \in 1..L : Waited(k)}
            BY <1>1, <1>2, <1>3 DEF Over
      <2>2. Over' = {k \in 1..(L + 1) : requests'[k].to # Broadcast /\ k # sent'}
            BY <1>1, <1>2 DEF Over, Waited
      <2>3. Over' = Over
            BY <1>1, <1>2, <1>3, <2>1, <2>2
      <2> QED BY <1>2, <2>3 DEF Ledger, EachToldOnce
<1>6. RightAnswer'
      <2> SUFFICES ASSUME NEW i \in 1..Len(told), told[i].result = "EX_SUCCESS"
                   PROVE  LET asked == told[i].request
                              given == told[i].answer
                          IN  /\ given \in 1..asked
                              /\ requests'[given].to = requests'[asked].to
                              /\ requests'[given].code = requests'[asked].code
                              /\ requests'[given].size = requests'[asked].size
          BY <1>2 DEF RightAnswer
      <2>1. told[i].request \in 1..L
            <3>1. told \in Seq(Tellings(Len(requests)))
                  BY DEF TypeOK, Tellings
            <3>2. told[i] \in Tellings(Len(requests))
                  BY <3>1, ElementOfSeq
            <3> QED BY <1>3, <3>2 DEF Tellings
      <2>2. /\ told[i].answer \in 1..told[i].request
            /\ requests[told[i].answer].to = requests[told[i].request].to
            /\ requests[told[i].answer].code = requests[told[i].request].code
            /\ requests[told[i].answer].size = requests[told[i].request].size
            BY DEF Ledger, RightAnswer
      <2>3. told[i].answer \in 1..L
            BY <1>1, <2>1, <2>2
      <2>4. /\ requests'[told[i].request] = requests[told[i].request]
            /\ requests'[told[i].answer] = requests[told[i].answer]
            BY <1>1, <1>3, <2>1, <2>3
      <2> QED BY <2>2, <2>4
<1> QED BY <1>4, <1>5, <1>6 DEF Ledger

--------------------------------------------------------------------------
(* What the actions do to the types. *)

LEMMA UnmovedKeepsAsked ==
    ASSUME AskedOK, Unmoved, pc' \in {"ask", "away", "task", "told"}
    PROVE  AskedOK'
BY DEF AskedOK, Unmoved

\* One tick of the line.
LEMMA LineStep ==
    ASSUME BytesOK, LineOK, Len(requests) \in Nat, Line,
           UNCHANGED <<requests, len>>
    PROVE  BytesOK' /\ LineOK'
<1> DEFINE L == Len(requests)
<1>1. CASE Quiet
      <2>1. gap' \in 0..MaxGap
            BY <1>1, Constants DEF Quiet, LineOK, AtMost
      <2> QED BY <1>1, <2>1 DEF Quiet, BytesOK, LineOK, ComingIsAsked
<1>2. ASSUME NEW n \in 1..L, rx' = Append(rx, n)
      PROVE  BytesOK'
      <2>1. rx' \in Seq(1..L) /\ Len(rx') = Len(rx) + 1 /\ Len(rx) \in Nat
            BY <1>2, AppendProperties, LenProperties DEF BytesOK
      <2> QED BY <2>1 DEF BytesOK
<1>3. CASE NextByte
      <2>1. coming \in 1..L
            BY <1>3 DEF NextByte, LineOK, ComingIsAsked
      <2>2. BytesOK'
            BY <1>2, <1>3, <2>1 DEF NextByte
      <2>3. left' \in 0..(Length - 1) /\ gap' \in 0..MaxGap
            BY <1>3, Constants DEF NextByte, LineOK
      <2>4. LineOK'
            BY <1>3, <2>1, <2>3 DEF NextByte, LineOK, ComingIsAsked
      <2> QED BY <2>2, <2>4
<1>4. ASSUME NEW n \in due, FirstByte(n)
      PROVE  BytesOK' /\ LineOK'
      <2>1. n \in 1..L
            BY DEF LineOK
      <2>2. BytesOK'
            BY <1>2, <1>4, <2>1 DEF FirstByte
      <2>3. left' \in 0..(Length - 1) /\ gap' \in 0..MaxGap
            BY <1>4, Constants DEF FirstByte
      <2>4. LineOK'
            BY <1>4, <2>1, <2>3 DEF FirstByte, LineOK, ComingIsAsked
      <2> QED BY <2>2, <2>4
<1> QED BY <1>1, <1>3, <1>4 DEF Line

--------------------------------------------------------------------------
(* The actions. *)

LEMMA ClockTypes ==
    ASSUME ClockOK
    PROVE  /\ age \in Nat /\ since \in Nat /\ spent \in Nat
           /\ NoticedAt \in 0..Silence
BY Constants DEF ClockOK, NoticedAt

LEMMA ByteTypes ==
    ASSUME BytesOK
    PROVE  Len(rx) \in Nat /\ Notice = Len(rx)
<1>1. Len(rx) \in Nat
      BY LenProperties DEF BytesOK
<1> QED BY <1>1 DEF BytesOK, Notice

\* Asking: the request is accepted, or nothing but _len and pc changes.
LEMMA AskStep ==
    ASSUME IInv, NEW r \in Requests, Ask(r)
    PROVE  IInv'
<1>1. AskedOK /\ ClockOK /\ BytesOK /\ LineOK /\ Ledger /\ TypeOK
      BY TypeParts DEF IInv
<1>2. /\ pc' \in {"away", "told"} /\ (pc' = "told" <=> pc = "told")
      /\ len' = 0
      /\ UNCHANGED <<world, rx, since, spent, coming, left, gap, told>>
      BY DEF Ask
<1>3. Len(requests) \in Nat /\ Len(rx) \in Nat
      BY <1>1, ByteTypes, LenProperties DEF AskedOK
<1>4. CASE UNCHANGED <<requests, sent, age, due, spoilt>>
      <2>1. Unmoved
            BY <1>2, <1>4, Zenon DEF Unmoved
      <2>2. AskedOK'
            BY <1>1, <1>2, <2>1, UnmovedKeepsAsked
      <2>3. ClockOK' /\ BytesOK' /\ LineOK'
            BY <1>1, <1>2, <1>3, <1>4 DEF ClockOK, BytesOK, LineOK, ComingIsAsked
      <2>4. Ledger'
            BY <1>1, <2>1, UnmovedKeepsLedger
      <2> QED BY <2>2, <2>3, <2>4 DEF IInv
<1>5. CASE ~Busy /\ Accept(r)
      <2>1. /\ Len(requests) < MaxRequests
            /\ requests' = Append(requests, r)
            /\ sent' = IF r.to = Broadcast THEN sent ELSE Len(requests')
            /\ age' = IF r.to = Broadcast THEN age ELSE 0
            /\ sent = 0
            BY <1>5 DEF Accept, Busy
      <2>2. Accepts(r)
            BY <1>2, <2>1, Zenon DEF Accepts
      <2>3. Ledger'
            BY <1>1, <2>2, AcceptsKeepsLedger
      <2>4. requests' \in Seq(Requests) /\ Len(requests') = Len(requests) + 1
            BY <1>1, <2>1, AppendProperties DEF AskedOK
      <2>5. /\ Seq(1..Len(requests)) \subseteq Seq(1..Len(requests'))
            /\ Seq(Tellings(Len(requests))) \subseteq Seq(Tellings(Len(requests')))
            <3>1. 1..Len(requests) \subseteq 1..Len(requests')
                  BY <1>3, <2>4
            <3>2. Tellings(Len(requests)) \subseteq Tellings(Len(requests'))
                  BY <1>3, <2>4 DEF Tellings
            <3> QED BY <3>1, <3>2, SeqMonotonic
      <2>6. AskedOK'
            <3>1. Len(requests') <= MaxRequests /\ sent' \in 0..Len(requests')
                  BY <1>3, <2>1, <2>4, Constants
            <3>2. world' \in Worlds /\ told' \in Seq(Tellings(Len(requests')))
                  BY <1>1, <1>2, <2>5 DEF AskedOK
            <3> QED BY <1>2, <2>4, <3>1, <3>2 DEF AskedOK
      <2>7. ClockOK'
            BY <1>1, <1>2, <2>1, Constants DEF ClockOK
      <2>8. BytesOK'
            BY <1>1, <1>2, <1>3, <2>5 DEF BytesOK
      <2>9. LineOK'
            <3>1. /\ due \subseteq 1..Len(requests')
                  /\ spoilt \subseteq 1..Len(requests')
                  /\ coming \in 0..Len(requests')
                  /\ left > 0 => coming \in 1..Len(requests')
                  /\ Len(requests') \in 1..Len(requests')
                  BY <1>1, <1>3, <2>4 DEF LineOK, ComingIsAsked
            <3>2. due' \subseteq 1..Len(requests') /\ spoilt' \subseteq 1..Len(requests')
                  BY <1>5, <3>1 DEF Accept
            <3> QED BY <1>1, <1>2, <3>1, <3>2 DEF LineOK, ComingIsAsked
      <2> QED BY <2>3, <2>6, <2>7, <2>8, <2>9 DEF IInv
<1> QED BY <1>4, <1>5 DEF Ask

\* Steps that neither accept a request nor tell of one.
LEMMA UnmovedStep ==
    ASSUME IInv, Unmoved, pc' \in {"ask", "away", "task", "told"},
           ClockOK', BytesOK', LineOK'
    PROVE  IInv'
<1>1. AskedOK'
      BY UnmovedKeepsAsked DEF IInv
<1>2. Ledger'
      BY TypeParts, UnmovedKeepsLedger DEF IInv
<1> QED BY <1>1, <1>2 DEF IInv

LEMMA ApplicationStep ==
    ASSUME IInv, AskNothing \/ Back
    PROVE  IInv'
<1>1. /\ pc' \in {"away", "task"} /\ pc' # "told" /\ pc # "told"
      /\ spent' \in {0, spent}
      /\ UNCHANGED <<world, requests, sent, age, rx, len, since, due, coming,
                     left, gap, spoilt, told>>
      BY DEF AskNothing, Back, line
<1>2. Unmoved
      BY <1>1 DEF Unmoved
<1>3. ClockOK' /\ BytesOK' /\ LineOK'
      BY <1>1, Constants DEF IInv, ClockOK, BytesOK, LineOK, ComingIsAsked
<1> QED BY <1>1, <1>2, <1>3, UnmovedStep

LEMMA TickStep ==
    ASSUME IInv, AwayTick
    PROVE  IInv'
<1>1. /\ pc' = "away" /\ pc = "away" /\ spent < Away /\ Line
      /\ spent' = spent + 1
      /\ since' = AtMost(since + 1, Silence)
      /\ age' = AtMost(age + 1, Timeout + 1)
      /\ UNCHANGED <<world, requests, sent, len, told>>
      BY DEF AwayTick
<1>2. Unmoved
      BY <1>1 DEF Unmoved
<1>3. ClockOK'
      <2>1. age \in Nat /\ since \in Nat /\ spent \in Nat
            BY ClockTypes DEF IInv
      <2> QED BY <1>1, <2>1, Constants DEF ClockOK, AtMost
<1>4. BytesOK' /\ LineOK'
      <2>1. Len(requests) \in Nat
            BY LenProperties DEF IInv, AskedOK
      <2> QED BY <1>1, <2>1, LineStep DEF IInv
<1> QED BY <1>1, <1>2, <1>3, <1>4, UnmovedStep

\* The end of a transaction, as far as the requests are concerned.
LEMMA TellsStep ==
    ASSUME IInv, NEW n, NEW result, Tells(n, result)
    PROVE  AskedOK' /\ Ledger'
<1>1. TypeOK /\ AskedOK /\ Ledger
      BY TypeParts DEF IInv
<1>2. told' \in Seq(Tellings(Len(requests)))
      BY <1>1, ToldGrows, Zenon
<1>3. AskedOK'
      BY <1>1, <1>2 DEF AskedOK, Tells
<1> QED BY <1>1, <1>3, TellsKeepsLedger

\* cleanup() tells of a request whose time is over, and of nothing else.
LEMMA CleanupStep ==
    ASSUME IInv, pc = "task", Cleanup, UNCHANGED <<world, requests, sent>>
    PROVE  AskedOK' /\ Ledger'
<1>1. CASE Busy /\ Expired
      <2>1. Tell(0, "EX_TIMEOUT")
            BY <1>1 DEF Cleanup
      <2>2. Len(requests) \in Nat
            BY LenProperties DEF IInv, AskedOK
      <2>3. Tells(0, "EX_TIMEOUT")
            BY <1>1, <2>1, <2>2 DEF Tell, Tells, Busy
      <2> QED BY <2>3, TellsStep
<1>2. CASE ~(Busy /\ Expired)
      <2>1. pc' = "ask" /\ told' = told
            BY <1>2 DEF Cleanup
      <2>2. Unmoved
            BY <2>1 DEF Unmoved
      <2>3. AskedOK'
            BY <2>1, <2>2, UnmovedKeepsAsked DEF IInv
      <2> QED BY <2>2, <2>3, TypeParts, UnmovedKeepsLedger DEF IInv
<1> QED BY <1>1, <1>2

LEMMA TaskIdleStep ==
    ASSUME IInv, TaskIdle
    PROVE  IInv'
<1>1. /\ pc = "task" /\ Cleanup
      /\ UNCHANGED <<world, requests, sent, age, rx, len, since, spent, due,
                     coming, left, gap, spoilt>>
      BY DEF TaskIdle, line
<1>2. AskedOK' /\ Ledger'
      BY <1>1, CleanupStep
<1>3. ClockOK' /\ BytesOK' /\ LineOK'
      BY <1>1 DEF IInv, ClockOK, BytesOK, LineOK, ComingIsAsked
<1> QED BY <1>2, <1>3 DEF IInv

LEMMA TaskHoldsStep ==
    ASSUME IInv, TaskHolds
    PROVE  IInv'
<1>1. /\ pc = "task" /\ pc' = "ask"
      /\ len' = Notice /\ since' = NoticedAt
      /\ UNCHANGED <<world, requests, sent, age, rx, spent, due, coming, left,
                     gap, spoilt, told>>
      BY DEF TaskHolds, line
<1>2. Unmoved
      BY <1>1 DEF Unmoved
<1>3. Notice = Len(rx) /\ Len(rx) \in Nat /\ NoticedAt \in 0..Silence
      BY ByteTypes, ClockTypes DEF IInv
<1>4. ClockOK' /\ BytesOK' /\ LineOK'
      BY <1>1, <1>3 DEF IInv, ClockOK, BytesOK, LineOK, ComingIsAsked
<1> QED BY <1>1, <1>2, <1>4, UnmovedStep

\* A frame is taken: its bytes leave the buffer.
LEMMA TakeStep ==
    ASSUME IInv, TakeFrame
    PROVE  ClockOK' /\ BytesOK' /\ LineOK' /\ UNCHANGED <<world, requests, sent>>
<1>1. /\ rx' = SubSeq(rx, len + 1, Len(rx)) /\ len' = 0
      /\ UNCHANGED <<world, requests, sent, age, since, spent, due, coming, left,
                     gap, spoilt>>
      BY DEF TakeFrame, line
<1>2. /\ rx \in Seq(1..Len(requests)) /\ len \in 0..Len(rx) /\ Len(rx) \in Nat
      BY ByteTypes DEF IInv, BytesOK
<1>3. \A i \in (len + 1)..Len(rx) : rx[i] \in 1..Len(requests)
      BY <1>2, ElementOfSeq
<1>4. rx' \in Seq(1..Len(requests))
      <2>1. len + 1 \in 1..(Len(rx) + 1)
            BY <1>2
      <2> QED BY <1>1, <1>2, <1>3, <2>1, SubSeqProperties
<1>5. BytesOK'
      BY <1>1, <1>4, LenProperties DEF BytesOK
<1>6. ClockOK' /\ LineOK'
      BY <1>1 DEF IInv, ClockOK, LineOK, ComingIsAsked
<1> QED BY <1>1, <1>5, <1>6

LEMMA TaskDropsStep ==
    ASSUME IInv, TaskDrops
    PROVE  IInv'
<1>1. pc = "task" /\ TakeFrame /\ Cleanup
      BY DEF TaskDrops, FrameEnds
<1>2. ClockOK' /\ BytesOK' /\ LineOK' /\ UNCHANGED <<world, requests, sent>>
      BY <1>1, TakeStep
<1>3. AskedOK' /\ Ledger'
      BY <1>1, <1>2, CleanupStep
<1> QED BY <1>2, <1>3 DEF IInv

LEMMA TaskAnsweredStep ==
    ASSUME IInv, TaskAnswered
    PROVE  IInv'
<1>1. PICK result \in Results : Tell(Answered, result)
      BY DEF TaskAnswered
<1>2. PICK n : n = Answered
      OBVIOUS
<1>3. /\ pc = "task" /\ sent # 0 /\ TakeFrame
      /\ requests[n].to = requests[sent].to
      /\ requests[n].code = requests[sent].code
      /\ len = Length
      BY <1>2 DEF TaskAnswered, FrameEnds, FromSlave, SameFunction, CrcMatches, Busy
<1>4. n \in 1..Len(requests)
      <2>1. rx \in Seq(1..Len(requests)) /\ 1 \in 1..Len(rx)
            BY <1>3, Constants, ByteTypes DEF IInv, BytesOK
      <2>2. n = rx[1]
            BY <1>2, <2>1 DEF Answered
      <2> QED BY <2>1, <2>2, ElementOfSeq
<1>5. ClockOK' /\ BytesOK' /\ LineOK' /\ UNCHANGED <<world, requests, sent>>
      BY <1>3, TakeStep
<1>6. /\ result \in {"EX_SUCCESS", "EX_DATA_MISMACH", "EX_SLAVE_FAILURE", "EX_TIMEOUT"}
      /\ result = "EX_SUCCESS" => requests[n].size = requests[sent].size
      BY <1>1, <1>2 DEF Results
<1>7. Tells(n, result)
      <2>1. Len(requests) \in Nat
            BY LenProperties DEF IInv, AskedOK
      <2>2. /\ pc' = "told"
            /\ told' = Append(told, [request |-> sent, answer |-> n, result |-> result])
            BY <1>1, <1>2 DEF Tell
      <2> QED BY <1>3, <1>4, <1>5, <1>6, <2>1, <2>2 DEF Tells
<1>8. AskedOK' /\ Ledger'
      BY <1>7, TellsStep
<1> QED BY <1>5, <1>8 DEF IInv

LEMMA ReturnStep ==
    ASSUME IInv, Return
    PROVE  IInv'
<1>1. /\ pc = "told" /\ pc' = "ask" /\ sent' = 0
      /\ UNCHANGED <<world, requests, age, rx, len, since, spent, due, coming,
                     left, gap, spoilt, told>>
      BY DEF Return, line
<1>2. Len(requests) \in Nat
      BY LenProperties DEF IInv, AskedOK
<1>3. AskedOK' /\ ClockOK' /\ BytesOK' /\ LineOK'
      BY <1>1, <1>2 DEF IInv, AskedOK, ClockOK, BytesOK, LineOK, ComingIsAsked
<1>4. Ends
      BY <1>1 DEF Ends
<1>5. Ledger'
      BY <1>4, TypeParts, EndsKeepsLedger DEF IInv
<1> QED BY <1>3, <1>5 DEF IInv

--------------------------------------------------------------------------
(* The theorems. *)

LEMMA InitInv == Init => IInv
<1> SUFFICES ASSUME Init
             PROVE  IInv
    OBVIOUS
<1>1. /\ world \in Worlds /\ pc = "ask" /\ requests = <<>> /\ told = <<>> /\ rx = <<>>
      /\ sent = 0 /\ age = 0 /\ len = 0 /\ since = 0 /\ spent = 0
      /\ due = {} /\ coming = 0 /\ left = 0 /\ gap = 0 /\ spoilt = {}
      BY DEF Init
<1>2. /\ Len(<<>>) = 0
      /\ \A S : <<>> \in Seq(S)
      BY EmptySeq
<1>3. AskedOK /\ ClockOK /\ BytesOK /\ LineOK
      BY <1>1, <1>2, Constants DEF AskedOK, ClockOK, BytesOK, LineOK, ComingIsAsked
<1>4. SentIsLast /\ EachToldOnce /\ RightAnswer
      BY <1>1, <1>2 DEF SentIsLast, EachToldOnce, RightAnswer, Over
<1> QED BY <1>3, <1>4 DEF IInv, Ledger

LEMMA StepInv == IInv /\ [Next]_vars => IInv'
<1> SUFFICES ASSUME IInv, [Next]_vars
             PROVE  IInv'
    OBVIOUS
<1>1. CASE \E r \in Requests : Ask(r)
      BY <1>1, AskStep
<1>2. CASE AskNothing \/ Back
      BY <1>2, ApplicationStep
<1>3. CASE AwayTick
      BY <1>3, TickStep
<1>4. CASE TaskIdle
      BY <1>4, TaskIdleStep
<1>5. CASE TaskHolds
      BY <1>5, TaskHoldsStep
<1>6. CASE TaskDrops
      BY <1>6, TaskDropsStep
<1>7. CASE TaskAnswered
      BY <1>7, TaskAnsweredStep
<1>8. CASE Return
      BY <1>8, ReturnStep
<1>9. CASE UNCHANGED vars
      BY <1>9 DEF vars, IInv, AskedOK, ClockOK, BytesOK, LineOK, ComingIsAsked,
                  Ledger, SentIsLast, EachToldOnce, RightAnswer, Over, Waited
<1> QED BY <1>1, <1>2, <1>3, <1>4, <1>5, <1>6, <1>7, <1>8, <1>9 DEF Next

LEMMA Invariance == Spec => []IInv
BY InitInv, StepInv, PTL DEF Spec

\* Every variable of the master, its application and the line keeps its type.
THEOREM TypeCorrect == Spec => []TypeOK
BY Invariance, TypeParts, PTL

\* Each accepted request is told exactly once and in order, whatever the line
\* loses, however late task() is called and whatever a callback asks for.
THEOREM ToldOnce == Spec => []EachToldOnce
<1>1. IInv => EachToldOnce
      BY DEF IInv, Ledger
<1> QED BY <1>1, Invariance, PTL

\* A success is only told of an answer of the slave, function and size asked
\* for, whatever slaves say and however late they are.
THEOREM SuccessFits == Spec => []RightAnswer
<1>1. IInv => RightAnswer
      BY DEF IInv, Ledger
<1> QED BY <1>1, Invariance, PTL

--------------------------------------------------------------------------
(* Prompt slaves.  While no answer begins after Latest, everything on the  *)
(* line and in the buffer is the answer to the request that is waited for: *)
(* the transaction ends with that answer, when the line is silent, or when *)
(* it is too late for one to begin.                                        *)

\* What is due, in the buffer or coming answers the request waited for, and
\* the answer of a callback's request has left the buffer.
OneAnswer ==
    /\ due \subseteq {sent}
    /\ \A i \in 1..Len(rx) : rx[i] = sent
    /\ Len(rx) > 0 => Len(rx) = Length - left /\ due = {}
    /\ left > 0 => Len(rx) > 0 /\ coming = sent /\ gap < MaxGap
    /\ due # {} => age <= Latest
    /\ (pc = "told" \/ sent = 0) => due = {} /\ Len(rx) = 0

\* What task() takes for silence is one, up to MaxGap.
TrueSilence == len = Len(rx) /\ len > 0 => gap >= AtMost(since, MaxGap)

\* An answer that is not spoilt is due or in the buffer until it is told.
NotLost ==
    (world.memory = TRUE /\ sent # 0 /\ pc # "told" /\ sent \notin spoilt)
        => sent \in due \/ Len(rx) > 0

ToldRight ==
    \A i \in 1..Len(told) :
        /\ told[i].answer \in {0, told[i].request}
        /\ (world.memory = TRUE /\ told[i].result = "EX_TIMEOUT")
              => told[i].request \in spoilt

Prompted == OneAnswer /\ TrueSilence /\ NotLost /\ ToldRight
PInv == world.prompt = TRUE => Prompted

LEMMA Types ==
    ASSUME IInv
    PROVE  /\ Len(rx) \in Nat /\ len \in 0..Len(rx) /\ rx \in Seq(1..Len(requests))
           /\ left \in 0..(Length - 1) /\ gap \in 0..MaxGap
           /\ age \in 0..(Timeout + 1) /\ since \in 0..Silence
           /\ due \subseteq 1..Len(requests) /\ spoilt \subseteq 1..Len(requests)
           /\ Len(requests) \in Nat /\ sent \in 0..Len(requests) /\ Len(told) \in Nat
           /\ pc = "told" => sent # 0
           /\ Latest \in Nat /\ Timeout \in Nat /\ Latest <= Timeout
           /\ Silence \in Nat /\ MaxGap \in Nat /\ MaxGap >= 1 /\ MaxGap < Silence
           /\ Length \in Nat /\ Length >= 1
BY ByteTypes, Constants, LenProperties, RtuMasterAssumption
   DEF IInv, BytesOK, LineOK, ClockOK, AskedOK, Ledger, SentIsLast

\* The last of what is told, and that the rest stays.
LEMMA ToldLast ==
    ASSUME IInv, NEW n, NEW result, Tells(n, result)
    PROVE  /\ Len(told') = Len(told) + 1
           /\ \A i \in 1..Len(told) : told'[i] = told[i]
           /\ told'[Len(told) + 1].request = sent
           /\ told'[Len(told) + 1].answer = n
           /\ told'[Len(told) + 1].result = result
<1>1. TypeOK
      BY TypeParts
<1>2. /\ Len(told') = Len(told) + 1
      /\ \A i \in 1..Len(told) : told'[i] = told[i]
      /\ told'[Len(told) + 1] = [request |-> sent, answer |-> n, result |-> result]
      BY <1>1, ToldGrows, Zenon
<1> QED BY <1>2

LEMMA ToldKept ==
    ASSUME ToldRight, UNCHANGED <<world, told>>, spoilt \subseteq spoilt'
    PROVE  ToldRight'
BY DEF ToldRight

\* Steps that change neither the line nor the transaction.
LEMMA PromptedKept ==
    ASSUME Prompted, UNCHANGED <<world, sent, age, rx, due, coming, left, gap, spoilt, told>>,
           pc' = "told" <=> pc = "told", TrueSilence'
    PROVE  Prompted'
<1>1. OneAnswer' /\ NotLost'
      BY DEF Prompted, OneAnswer, NotLost
<1>2. ToldRight'
      BY ToldKept DEF Prompted
<1> QED BY <1>1, <1>2 DEF Prompted

\* A request that is accepted finds nothing of an earlier one.
LEMMA AskPrompted ==
    ASSUME IInv, Prompted, NEW r \in Requests, Ask(r) PROVE Prompted'
<1>1. OneAnswer /\ TrueSilence /\ NotLost /\ ToldRight
      BY DEF Prompted
<1>2. /\ pc' = "told" <=> pc = "told"
      /\ len' = 0
      /\ UNCHANGED <<world, rx, since, coming, left, gap, told>>
      BY DEF Ask
<1>3. TrueSilence'
      BY <1>2 DEF TrueSilence
<1>4. CASE UNCHANGED <<requests, sent, age, due, spoilt>>
      BY <1>2, <1>3, <1>4, PromptedKept
<1>5. CASE ~Busy /\ Accept(r)
      <2>1. sent = 0 /\ due = {} /\ Len(rx) = 0 /\ left = 0 /\ pc # "told"
            BY <1>1, <1>5, Types DEF Busy, OneAnswer
      <2>2. Len(requests') = Len(requests) + 1
            BY <1>5, AppendProperties DEF Accept, IInv, AskedOK
      <2>3. spoilt \subseteq spoilt'
            BY <1>5 DEF Accept
      <2>4. CASE r.to = Broadcast
            <3>1. sent' = 0 /\ due' = {}
                  BY <1>5, <2>1, <2>4 DEF Accept
            <3> QED BY <1>1, <1>2, <1>3, <2>1, <2>3, <3>1, ToldKept
                    DEF Prompted, OneAnswer, NotLost
      <2>5. CASE r.to # Broadcast
            <3>0. /\ sent' = Len(requests') /\ age' = 0
                  /\ \/ due' = due \cup {Len(requests')}
                     \/ spoilt' = spoilt \cup {Len(requests')} \cup (IF left > 0 THEN {coming} ELSE {})
                        /\ due' = due
                  BY <1>5, <2>5 DEF Accept
            <3>1. /\ sent' = Len(requests') /\ age' = 0
                  /\ (due' = {sent'}) \/ (due' = {} /\ sent' \in spoilt')
                  BY <2>1, <3>0
            <3>2. OneAnswer'
                  BY <1>2, <2>1, <2>2, <3>1, Types DEF OneAnswer
            <3>3. NotLost'
                  BY <3>1 DEF NotLost
            <3>4. ToldRight'
                  BY <1>1, <1>2, <2>3, ToldKept
            <3> QED BY <1>3, <3>2, <3>3, <3>4 DEF Prompted
      <2> QED BY <2>4, <2>5
<1> QED BY <1>4, <1>5 DEF Ask

\* Two times that count up to their limits keep their order.
LEMMA BothTick ==
    ASSUME NEW g \in Nat, NEW s \in Nat, NEW m \in Nat, NEW q \in Nat, m < q, g >= AtMost(s, m)
    PROVE  AtMost(g + 1, m) >= AtMost(AtMost(s + 1, q), m)
BY DEF AtMost

\* A tick: an answer begins in time, and only after the line was free.
LEMMA TickPrompted ==
    ASSUME IInv, world.prompt = TRUE, Prompted, AwayTick PROVE Prompted'
<1>1. OneAnswer /\ TrueSilence /\ NotLost /\ ToldRight
      BY DEF Prompted
<1>2. /\ pc = "away" /\ pc' = "away" /\ Line
      /\ since' = AtMost(since + 1, Silence)
      /\ age' = AtMost(age + 1, Timeout + 1)
      /\ UNCHANGED <<world, requests, sent, len, told>>
      BY DEF AwayTick
<1>3. CASE Quiet
      <2>1. /\ left > 0 => gap + 1 < MaxGap
            /\ due # {} => age < Latest
            /\ gap' = AtMost(gap + 1, MaxGap)
            /\ UNCHANGED <<rx, due, coming, left, spoilt>>
            BY <1>3, world.prompt = TRUE DEF Quiet
      <2>2. OneAnswer'
            <3>0. age \in Nat /\ Latest \in Nat /\ Timeout \in Nat /\ Latest <= Timeout
                  BY Types
            <3>1. due # {} => age' <= Latest
                  BY <1>2, <2>1, <3>0 DEF AtMost
            <3>2. left > 0 => gap' < MaxGap
                  BY <2>1, Types DEF AtMost
            <3> QED BY <1>1, <1>2, <2>1, <3>1, <3>2 DEF OneAnswer
      <2>3. TrueSilence'
            <3>0. gap \in Nat /\ since \in Nat /\ MaxGap \in Nat /\ Silence \in Nat /\ MaxGap < Silence
                  BY Types
            <3>1. gap >= AtMost(since, MaxGap) => gap' >= AtMost(since', MaxGap)
                  BY <1>2, <2>1, <3>0, BothTick
            <3> QED BY <1>1, <1>2, <2>1, <3>1 DEF TrueSilence
      <2>4. NotLost' /\ ToldRight'
            BY <1>1, <1>2, <2>1, ToldKept DEF NotLost
      <2> QED BY <2>2, <2>3, <2>4 DEF Prompted
<1>4. CASE NextByte
      <2>1. /\ left > 0 /\ left' = left - 1 /\ rx' = Append(rx, coming) /\ gap' = 0
            /\ UNCHANGED <<due, coming, spoilt>>
            BY <1>4 DEF NextByte
      <2>2. /\ Len(rx) > 0 /\ Len(rx) = Length - left /\ due = {} /\ coming = sent /\ sent # 0
            BY <1>1, <2>1 DEF OneAnswer
      <2>3. /\ Len(rx') = Len(rx) + 1
            /\ \A i \in 1..Len(rx) : rx'[i] = rx[i]
            /\ rx'[Len(rx) + 1] = coming
            BY <2>1, Types, AppendProperties
      <2>4. OneAnswer'
            <3>0. /\ Len(rx) \in Nat /\ Length \in Nat /\ left \in Nat /\ MaxGap >= 1
                  /\ MaxGap \in Nat
                  BY Types
            <3>1. /\ Len(rx') > 0 /\ Len(rx') = Length - left'
                  /\ coming' = sent' /\ gap' < MaxGap /\ due' = {} /\ sent' # 0
                  /\ pc' # "told"
                  BY <1>2, <2>1, <2>2, <2>3, <3>0
            <3>2. \A i \in 1..Len(rx') : rx'[i] = sent'
                  <4>1. \A i \in 1..Len(rx) : rx[i] = sent
                        BY <1>1 DEF OneAnswer
                  <4>2. \A i \in 1..Len(rx') : i \in 1..Len(rx) \/ i = Len(rx) + 1
                        BY <2>3, <3>0
                  <4> QED BY <1>2, <2>2, <2>3, <4>1, <4>2
            <3> QED BY <3>1, <3>2 DEF OneAnswer
      <2>5. TrueSilence'
            BY <1>2, <2>3, Types DEF TrueSilence
      <2>6. NotLost'
            BY <2>3, Types DEF NotLost
      <2>7. ToldRight'
            BY <1>1, <1>2, <2>1, ToldKept
      <2> QED BY <2>4, <2>5, <2>6, <2>7 DEF Prompted
<1>5. ASSUME NEW n \in due, FirstByte(n)
      PROVE  Prompted'
      <2>1. /\ left = 0 /\ due' = due \ {n} /\ coming' = n /\ left' = Length - 1
            /\ rx' = Append(rx, n) /\ gap' = 0 /\ spoilt \subseteq spoilt'
            BY <1>5 DEF FirstByte
      <2>2. n = sent /\ due' = {} /\ Len(rx) = 0 /\ sent # 0
            <3>0. /\ Len(rx) \in Nat /\ 0 \notin due
                  BY Types
            <3>1. n = sent /\ due \subseteq {sent} /\ sent # 0
                  BY <1>1, <3>0 DEF OneAnswer
            <3>2. ~(Len(rx) > 0)
                  BY <1>1 DEF OneAnswer
            <3> QED BY <2>1, <3>0, <3>1, <3>2
      <2>3. Len(rx') = 1 /\ rx'[1] = n
            BY <2>1, <2>2, Types, AppendProperties
      <2>4. OneAnswer'
            BY <1>2, <2>1, <2>2, <2>3, Constants DEF OneAnswer
      <2>5. TrueSilence'
            BY <1>2, <2>2, <2>3, Types DEF TrueSilence
      <2>6. NotLost'
            BY <2>3 DEF NotLost
      <2>7. ToldRight'
            BY <1>1, <1>2, <2>1, ToldKept
      <2> QED BY <2>4, <2>5, <2>6, <2>7 DEF Prompted
<1> QED BY <1>2, <1>3, <1>4, <1>5 DEF Line

\* cleanup() gives a request up only when no answer to it can come any more.
LEMMA CleanupPrompted ==
    ASSUME IInv, Prompted, pc = "task", Cleanup,
           UNCHANGED <<world, requests, sent, age, due, coming, left, gap, spoilt>>,
           Len(rx') = 0, left = 0, due # {} => Len(rx) = 0,
           (world.memory = TRUE /\ sent # 0 /\ sent \notin spoilt) => sent \in due
    PROVE  OneAnswer' /\ NotLost' /\ ToldRight'
<1>1. OneAnswer /\ NotLost /\ ToldRight
      BY DEF Prompted
<1>2. CASE Busy /\ Expired
      <2>1. /\ pc' = "told" /\ sent # 0
            /\ told' = Append(told, [request |-> sent, answer |-> 0,
                                     result |-> "EX_TIMEOUT"])
            BY <1>2 DEF Cleanup, Tell, Busy
      <2>2. due = {}
            BY <1>1, <1>2, Types DEF OneAnswer, Expired
      <2>3. world.memory = TRUE => sent \in spoilt
            BY <2>1, <2>2
      <2>4. OneAnswer' /\ NotLost'
            BY <2>1, <2>2 DEF OneAnswer, NotLost
      <2>5. /\ Len(told') = Len(told) + 1
            /\ \A i \in 1..Len(told) : told'[i] = told[i]
            /\ told'[Len(told) + 1].request = sent
            /\ told'[Len(told) + 1].answer = 0
            /\ told'[Len(told) + 1].result = "EX_TIMEOUT"
            <3>1. Tells(0, "EX_TIMEOUT")
                  BY <2>1, Types DEF Tells
            <3> QED BY <3>1, ToldLast
      <2>6. ToldRight'
            <3> SUFFICES ASSUME NEW i \in 1..Len(told')
                         PROVE  /\ told'[i].answer \in {0, told'[i].request}
                                /\ (world.memory = TRUE /\ told'[i].result = "EX_TIMEOUT")
                                      => told'[i].request \in spoilt
                BY DEF ToldRight
            <3>1. CASE i \in 1..Len(told)
                  BY <1>1, <2>5, <3>1 DEF ToldRight
            <3>2. CASE i = Len(told) + 1
                  BY <2>3, <2>5, <3>2
            <3>3. Len(told) \in Nat
                  BY Types
            <3>4. Len(told') = Len(told) + 1
                  BY <2>5
            <3>5. i \in 1..Len(told) \/ i = Len(told) + 1
                  BY <3>3, <3>4
            <3> QED BY <3>1, <3>2, <3>5
      <2> QED BY <2>4, <2>6
<1>3. CASE ~(Busy /\ Expired)
      <2>1. pc' = "ask" /\ told' = told
            BY <1>3 DEF Cleanup
      <2>2. OneAnswer'
            BY <1>1, <2>1 DEF OneAnswer
      <2>3. NotLost' /\ ToldRight'
            BY <1>1, <2>1, ToldKept DEF NotLost
      <2> QED BY <2>2, <2>3
<1> QED BY <1>2, <1>3

LEMMA TaskIdlePrompted ==
    ASSUME IInv, Prompted, TaskIdle PROVE Prompted'
<1>1. OneAnswer /\ TrueSilence /\ NotLost
      BY DEF Prompted
<1>2. /\ pc = "task" /\ Cleanup /\ Notice = 0
      /\ UNCHANGED <<world, requests, sent, age, rx, len, since, due, coming, left,
                     gap, spoilt>>
      BY DEF TaskIdle, line
<1>3. Len(rx) = 0
      BY <1>2, ByteTypes DEF IInv
<1>4. left = 0 /\ ((world.memory = TRUE /\ sent # 0 /\ sent \notin spoilt) => sent \in due)
      BY <1>1, <1>2, <1>3, Types DEF OneAnswer, NotLost
<1>5. OneAnswer' /\ NotLost' /\ ToldRight'
      BY <1>2, <1>3, <1>4, CleanupPrompted
<1>6. TrueSilence'
      BY <1>1, <1>2 DEF TrueSilence
<1> QED BY <1>5, <1>6 DEF Prompted

LEMMA TaskHoldsPrompted ==
    ASSUME IInv, Prompted, TaskHolds PROVE Prompted'
<1>1. /\ pc = "task" /\ pc' = "ask" /\ len' = Notice /\ since' = NoticedAt
      /\ UNCHANGED <<world, sent, age, rx, due, coming, left, gap, spoilt, told>>
      BY DEF TaskHolds, line
<1>2. Notice = Len(rx) /\ Len(rx) \in Nat
      BY ByteTypes DEF IInv
<1>3. TrueSilence'
      <2>1. CASE Len(rx) > len
            BY <1>1, <1>2, <2>1, Types, Constants DEF NoticedAt, TrueSilence, AtMost
      <2>2. CASE Len(rx) = len
            BY <1>1, <1>2, <2>2 DEF Prompted, NoticedAt, TrueSilence
      <2> QED BY <2>1, <2>2, Types
<1> QED BY <1>1, <1>3, PromptedKept

\* At the end of a silence the buffer holds the whole answer to the request
\* that is waited for, and nothing else.
LEMMA WholeAnswer ==
    ASSUME IInv, Prompted, FrameEnds
    PROVE  /\ len = Length /\ len = Len(rx) /\ left = 0 /\ due = {} /\ sent # 0
           /\ Answered = sent /\ \A i \in 1..len : rx[i] = sent
<1>1. OneAnswer /\ TrueSilence
      BY DEF Prompted
<1>2. Notice = Len(rx) /\ Len(rx) > 0 /\ NoticedAt >= Silence
      BY ByteTypes DEF IInv, FrameEnds
<1>3. len = Len(rx) /\ since = Silence
      BY <1>2, Types, Constants DEF NoticedAt
<1>4. gap >= MaxGap
      BY <1>1, <1>2, <1>3, Types, Constants DEF TrueSilence, AtMost
<1>5. left = 0
      BY <1>1, <1>4, Types DEF OneAnswer
<1>6. Len(rx) = Length /\ due = {} /\ sent # 0 /\ rx[1] = sent
      BY <1>1, <1>2, <1>5, Types, Constants DEF OneAnswer
<1>7. Answered = rx[1]
      BY <1>2, Types DEF Answered
<1> QED BY <1>1, <1>3, <1>5, <1>6, <1>7 DEF OneAnswer

\* The buffer is empty when that answer has been taken.
LEMMA TakenPrompted ==
    ASSUME IInv, Prompted, FrameEnds, TakeFrame
    PROVE  /\ Len(rx') = 0 /\ len' = 0 /\ TrueSilence'
           /\ UNCHANGED <<world, requests, sent, age, due, coming, left, gap, spoilt>>
<1>1. /\ rx' = SubSeq(rx, len + 1, Len(rx)) /\ len' = 0
      /\ UNCHANGED <<world, requests, sent, age, since, due, coming, left, gap, spoilt>>
      BY DEF TakeFrame, line
<1>2. len = Len(rx)
      BY WholeAnswer
<1>3. Len(rx') = 0
      BY <1>1, <1>2, Types
<1>4. ~(len' > 0)
      BY <1>1
<1> QED BY <1>1, <1>3, <1>4 DEF TrueSilence

LEMMA TaskDropsPrompted ==
    ASSUME IInv, Prompted, TaskDrops PROVE Prompted'
<1>1. /\ FrameEnds /\ TakeFrame /\ Cleanup
      /\ FromSlave => ~world.memory \/ ~CrcMatches \/ ~SameFunction
      BY DEF TaskDrops
<1>2. /\ len = Length /\ left = 0 /\ due = {} /\ sent # 0
      /\ Answered = sent /\ \A i \in 1..len : rx[i] = sent
      BY <1>1, WholeAnswer
<1>3. FromSlave /\ SameFunction
      BY <1>2 DEF FromSlave, SameFunction, Busy
<1>4. sent \notin spoilt => CrcMatches
      BY <1>2 DEF CrcMatches
<1>5. world.memory = TRUE => sent \in spoilt
      BY <1>1, <1>3, <1>4
<1>6. pc = "task"
      BY <1>1 DEF FrameEnds
<1>7. /\ Len(rx') = 0 /\ TrueSilence'
      /\ UNCHANGED <<world, requests, sent, age, due, coming, left, gap, spoilt>>
      BY <1>1, TakenPrompted
<1>8. OneAnswer' /\ NotLost' /\ ToldRight'
      BY <1>1, <1>2, <1>5, <1>6, <1>7, CleanupPrompted
<1> QED BY <1>7, <1>8 DEF Prompted

LEMMA TaskAnsweredPrompted ==
    ASSUME IInv, Prompted, TaskAnswered PROVE Prompted'
<1>1. /\ FrameEnds /\ TakeFrame
      /\ \E result \in Results : Tell(Answered, result)
      BY DEF TaskAnswered
<1>2. left = 0 /\ due = {} /\ sent # 0 /\ Answered = sent
      BY <1>1, WholeAnswer
<1>3. PICK result \in Results : Tell(sent, result)
      BY <1>1, <1>2
<1>4. /\ Len(rx') = 0 /\ TrueSilence'
      /\ UNCHANGED <<world, requests, sent, age, due, coming, left, gap, spoilt>>
      BY <1>1, TakenPrompted
<1>5. /\ pc' = "told"
      /\ told' = Append(told, [request |-> sent, answer |-> sent, result |-> result])
      BY <1>3 DEF Tell
<1>6. result \in {"EX_SLAVE_FAILURE", "EX_SUCCESS", "EX_DATA_MISMACH"}
      BY DEF Results
<1>7. OneAnswer' /\ NotLost'
      BY <1>2, <1>4, <1>5 DEF OneAnswer, NotLost
<1>8. /\ Len(told') = Len(told) + 1
      /\ \A i \in 1..Len(told) : told'[i] = told[i]
      /\ told'[Len(told) + 1].request = sent
      /\ told'[Len(told) + 1].answer = sent
      /\ told'[Len(told) + 1].result = result
      <2>1. result = "EX_SUCCESS" => requests[sent].size = requests[sent].size
            OBVIOUS
      <2>2. pc = "task"
            BY <1>1 DEF FrameEnds
      <2>3. Tells(sent, result)
            BY <1>2, <1>4, <1>5, <1>6, <2>2, Types DEF Tells
      <2> QED BY <2>3, ToldLast
<1>9. ToldRight'
      <2> SUFFICES ASSUME NEW i \in 1..Len(told')
                   PROVE  /\ told'[i].answer \in {0, told'[i].request}
                          /\ (world.memory = TRUE /\ told'[i].result = "EX_TIMEOUT")
                                => told'[i].request \in spoilt
          BY <1>4 DEF ToldRight
      <2>1. CASE i \in 1..Len(told)
            BY <1>8, <2>1 DEF Prompted, ToldRight
      <2>2. CASE i = Len(told) + 1
            BY <1>6, <1>8, <2>2
      <2>3. Len(told) \in Nat
            BY Types
      <2>4. Len(told') = Len(told) + 1
            BY <1>8
      <2>5. i \in 1..Len(told) \/ i = Len(told) + 1
            BY <2>3, <2>4
      <2> QED BY <2>1, <2>2, <2>5
<1> QED BY <1>4, <1>7, <1>9 DEF Prompted

LEMMA ReturnPrompted ==
    ASSUME IInv, Prompted, Return PROVE Prompted'
<1>1. /\ pc = "told" /\ pc' = "ask" /\ sent' = 0
      /\ UNCHANGED <<world, requests, age, rx, len, since, due, coming, left, gap,
                     spoilt, told>>
      BY DEF Return, line
<1>2. due = {} /\ Len(rx) = 0 /\ left = 0
      BY <1>1, Types DEF Prompted, OneAnswer
<1>3. OneAnswer' /\ TrueSilence' /\ NotLost'
      BY <1>1, <1>2 DEF Prompted, OneAnswer, TrueSilence, NotLost
<1>4. ToldRight'
      BY <1>1, ToldKept DEF Prompted
<1> QED BY <1>3, <1>4 DEF Prompted

LEMMA StepPrompted ==
    ASSUME IInv, PInv, [Next]_vars PROVE PInv'
<1>1. CASE UNCHANGED vars
      <2>1. UNCHANGED <<world, sent, age, rx, len, since, due, coming, left, gap, spoilt,
                        told, pc>>
            BY <1>1 DEF vars
      <2>2. Prompted => Prompted'
            BY <2>1, PromptedKept DEF Prompted, TrueSilence
      <2> QED BY <2>1, <2>2 DEF PInv
<1>2. CASE Next
      <2>1. world' = world
            BY <1>2 DEF Next, Ask, AskNothing, AwayTick, Back, TaskIdle, TaskHolds, TaskDrops,
               TaskAnswered, TakeFrame, Return
      <2> SUFFICES ASSUME world.prompt = TRUE PROVE Prompted'
          BY <2>1 DEF PInv
      <2>2. Prompted
            BY DEF PInv
      <2>3. CASE AskNothing \/ Back
            <3>1. /\ pc' # "told" /\ pc # "told"
                  /\ UNCHANGED <<world, sent, age, rx, len, since, due, coming, left, gap,
                                 spoilt, told>>
                  BY <2>3 DEF AskNothing, Back, line
            <3>2. TrueSilence'
                  BY <2>2, <3>1 DEF Prompted, TrueSilence
            <3> QED BY <2>2, <3>1, <3>2, PromptedKept
      <2> QED BY <1>2, <2>2, <2>3, AskPrompted, TickPrompted, TaskIdlePrompted,
                 TaskHoldsPrompted, TaskDropsPrompted, TaskAnsweredPrompted, ReturnPrompted
              DEF Next
<1> QED BY <1>1, <1>2

LEMMA InitPrompted == ASSUME Init PROVE Prompted
<1>1. Len(<<>>) = 0
      OBVIOUS
<1> QED BY <1>1 DEF Init, Prompted, OneAnswer, TrueSilence, NotLost, ToldRight

LEMMA PromptedSuffices == ASSUME IInv, PInv PROVE PromptIsToldRight
<1>1. world.prompt \in BOOLEAN /\ world.memory \in BOOLEAN
      BY RtuMasterAssumption DEF IInv, AskedOK, Choices
<1>2. OwnAnswer
      BY <1>1 DEF PInv, Prompted, ToldRight, OwnAnswer
<1>3. NoFalseTimeout
      BY <1>1 DEF PInv, Prompted, ToldRight, NoFalseTimeout
<1> QED BY <1>2, <1>3 DEF PromptIsToldRight

\* With slaves that begin to answer before the timeout, no answer is taken for
\* that to another request, and none that came undamaged is given up, however
\* late task() is called and whatever the loop and the callbacks ask meanwhile:
\* task() serves the buffer before cleanup() looks at the clock.
THEOREM PromptSlavesAreHeard == Spec => []PromptIsToldRight
<1>1. Init => PInv
      BY InitPrompted DEF PInv
<1>2. IInv /\ PInv /\ [Next]_vars => PInv'
      BY StepPrompted
<1>3. IInv /\ PInv => PromptIsToldRight
      BY PromptedSuffices
<1> QED BY <1>1, <1>2, <1>3, Invariance, PTL DEF Spec
=============================================================================
