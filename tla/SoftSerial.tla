------------------------------- MODULE SoftSerial -------------------------------
(***************************************************************************)
(* EspSoftwareSerial: what one UARTBase writes on a line, bit by bit with  *)
(* delays, and another reads from the edges that its interrupt notes with  *)
(* their time.  The interrupt comes late, the sender's delays too; rxBits, *)
(* called by the task, turns the noted edges into bits by rounding their   *)
(* distance.  Times are in ticks, counted from the last noted edge; a low  *)
(* level is 0, and an inverted line has the same edges the other way       *)
(* round.                                                                  *)
(***************************************************************************)
EXTENDS Integers, Sequences, SequencesExt

CONSTANTS BitTicks,    \* m_bitTicks
          DataBits,    \* m_dataBits
          StopBits,    \* m_stopBits
          Parities,    \* m_parityMode, one of these
          Words,       \* the bytes that are written: their bits, lowest first
          Capacity,    \* of m_buffer
          IsrCapacity, \* of m_isrBuffer
          PerByte,     \* parity bits in an element of m_parityBuffer: 8
          Jitter,      \* bound: how much too long a delay of the sender is
          Latency,     \* bound: how late the interrupt comes
          MaxUnread    \* bound: bytes written and not read

ASSUME SoftSerialAssumption ==
    /\ {BitTicks, DataBits, StopBits, Capacity, IsrCapacity, PerByte} \subseteq Nat \ {0}
    /\ {Jitter, Latency, MaxUnread} \subseteq Nat
    /\ Words \subseteq [1..DataBits -> {0, 1}]
    /\ Parities \subseteq {"none", "even", "odd", "mark", "space"}

VARIABLES
    parity,
    \* the sender: bits still to be put on the line, its level, ticks left at it
    todo, line, left,
    late,    \* ticks since an edge that the interrupt has not noted, or -1
    elapsed, \* ticks since the last noted edge
    m_isrBuffer, m_isrOverflow,
    pcRx,    \* where rxBits is
    rx,      \* what the task has made of the edges: see RxInit
    \* history: bytes written and not read, whether all that were read are the
    \* ones written, an overflow was noted, or an edge came between two checks
    unread, faithful, warned, raced

serialVars == <<parity, todo, line, left, late, elapsed, m_isrBuffer, m_isrOverflow,
                pcRx, rx, unread, faithful, warned, raced>>
sender == <<parity, todo, line, left, unread>>

ParityBits == IF parity = "none" THEN 0 ELSE 1
m_pduBits == DataBits + ParityBits + StopBits
LongTime == (DataBits + 1 + StopBits + 2) * BitTicks  \* as good as any longer one
Least(a, b) == IF a < b THEN a ELSE b

Ones(word) == FoldLeft(LAMBDA n, bit : n + bit, 0, word)
parityEven(word) == Ones(word) % 2
parityOdd(word) == 1 - (Ones(word) % 2)
ParityOf(word) ==
    CASE parity = "even" -> parityEven(word) [] parity = "odd" -> parityOdd(word)
      [] parity = "space" -> 0 [] OTHER -> 1

--------------------------------------------------------------------------------
(* The sender. *)

(* Start bit, data, parity, stop bits.                                      *)
Frame(word) == <<0>> \o word \o [i \in 1..ParityBits |-> ParityOf(word)]
                     \o [i \in 1..StopBits |-> 1]

RunLength(bits) ==
    LET ends == {i \in 1..Len(bits) : \A j \in 1..i : bits[j] = Head(bits)}
    IN CHOOSE n \in ends : \A i \in ends : i <= n

(* A byte of write(buffer, size): the delay after a stop bit is a lazy one, *)
(* which may last, so each byte is like a write of its own.                 *)
Write(word) ==
    /\ todo = <<>> /\ left <= 0 /\ Len(unread) < MaxUnread
    /\ todo' = Frame(word) /\ unread' = Append(unread, word)
    /\ UNCHANGED <<parity, line, left, late, elapsed, m_isrBuffer, m_isrOverflow, pcRx,
                   rx, faithful, warned, raced>>

(* writePeriod and its preciseDelay: bits of one level are one period.      *)
Edge ==
    /\ todo # <<>> /\ left <= 0 /\ late = -1
    /\ line' = Head(todo)
    /\ left' = RunLength(todo) * BitTicks
    /\ todo' = SubSeq(todo, RunLength(todo) + 1, Len(todo))
    /\ late' = 0
    /\ UNCHANGED <<parity, elapsed, m_isrBuffer, m_isrOverflow, pcRx, rx,
                   unread, faithful, warned, raced>>

Tick ==
    /\ late < Latency /\ (todo # <<>> => left > -Jitter)
    /\ left' = IF todo = <<>> /\ left <= 0 THEN 0 ELSE left - 1
    /\ late' = IF late = -1 THEN -1 ELSE late + 1
    /\ elapsed' = Least(elapsed + 1, LongTime)
    /\ UNCHANGED <<parity, todo, line, m_isrBuffer, m_isrOverflow, pcRx, rx,
                   unread, faithful, warned, raced>>

--------------------------------------------------------------------------------
(* The receiver. *)

(* The edge with its time, if there is room for it.                         *)
rxBitISR ==
    /\ late >= 0 /\ late' = -1
    /\ IF Len(m_isrBuffer) < IsrCapacity
       THEN /\ m_isrBuffer' = Append(m_isrBuffer, [ticks |-> elapsed, level |-> line])
            /\ elapsed' = 0 /\ UNCHANGED m_isrOverflow
       ELSE m_isrOverflow' = TRUE /\ UNCHANGED <<m_isrBuffer, elapsed>>
    /\ raced' = (raced \/ pcRx = "time")
    /\ UNCHANGED <<sender, pcRx, rx, faithful, warned>>

(* Slip: the distance of edges is cut off, not rounded.                     *)
BitsUnrounded(ticks) == ticks \div BitTicks
Bits(ticks) == (ticks \div BitTicks) + IF 2 * (ticks % BitTicks) > BitTicks THEN 1 ELSE 0

(* The m_parityBuffer, whose elements have PerByte bits each: the next bit  *)
(* is put into the element that pushpeek() gives.                           *)
ParitySlots == ((Capacity + PerByte - 1) \div PerByte) + 1
PutParity(s) ==
    LET full == ((s.in \div PerByte) + 1) % ParitySlots = s.out \div PerByte
        next == (s.in + 1) % (ParitySlots * PerByte)
    IN [s EXCEPT !.ring[s.in] = s.parity,
                 !.in = IF next % PerByte = 0 /\ full
                        THEN PerByte * (s.in \div PerByte) ELSE next]
DropParity(s, n) ==
    LET bits == (s.out % PerByte) + n
        whole == Least(bits \div PerByte,
                       ((s.in \div PerByte) - (s.out \div PerByte)) % ParitySlots)
        slot == ((s.out \div PerByte) + whole) % ParitySlots
    IN slot * PerByte + (bits % PerByte)

RxInit == [last |-> m_pduBits - 1, byte |-> <<>>, parity |-> 0, level |-> 1,
           buffer |-> <<>>, ring |-> [i \in 0..(ParitySlots * PerByte - 1) |-> 0],
           in |-> 0, out |-> 0, overflow |-> FALSE, bits |-> 0]

(* rxBits(isrTick): start, data, parity and stop bits, as far as the bits   *)
(* since the last edge go, all of the level after it.                       *)
StartBit(s) ==
    IF s.bits = 0 \/ s.last < m_pduBits - 1 THEN s
    ELSE IF s.level = 1 THEN [s EXCEPT !.bits = 0]
    ELSE [s EXCEPT !.last = -1, !.bits = s.bits - 1]
DataBit(s) ==
    LET n == Least(s.bits, DataBits - 1 - s.last)
    IN IF s.last >= DataBits - 1 THEN s
       ELSE [s EXCEPT !.last = s.last + n, !.bits = s.bits - n,
                      !.byte = s.byte \o [i \in 1..n |-> s.level]]
ParityBit(s) ==
    IF s.bits = 0 \/ parity = "none" \/ s.last # DataBits - 1 THEN s
    ELSE [s EXCEPT !.last = s.last + 1, !.bits = s.bits - 1, !.parity = s.level]
StoreByte(s) ==
    IF Len(s.buffer) >= Capacity THEN [s EXCEPT !.overflow = TRUE]
    ELSE IF parity = "none" THEN [s EXCEPT !.buffer = Append(s.buffer, s.byte)]
    ELSE PutParity([s EXCEPT !.buffer = Append(s.buffer, s.byte)])
StopBit(s) ==
    LET missing == m_pduBits - 1 - s.last
    IN IF s.bits = 0 \/ missing > StopBits \/ missing <= 0 THEN s
       ELSE [IF s.bits >= missing /\ s.level = 1 THEN StoreByte(s) ELSE s
                EXCEPT !.last = m_pduBits - 1, !.byte = <<>>, !.parity = 0]

AfterEdge(s, edge) ==
    [StopBit(ParityBit(DataBit(StartBit([s EXCEPT !.bits = Bits(edge.ticks)]))))
        EXCEPT !.level = edge.level, !.bits = 0]

(* rxBits(), first half: the overflow of the interrupt is taken over, and   *)
(* all that it noted.                                                       *)
TakeEdges ==
    /\ pcRx = "idle"
    /\ rx' = FoldLeft(AfterEdge, [rx EXCEPT !.overflow = rx.overflow \/ m_isrOverflow],
                      m_isrBuffer)
    /\ m_isrBuffer' = <<>> /\ m_isrOverflow' = FALSE
    /\ pcRx' = IF rx'.last < m_pduBits - 1 THEN "edges" ELSE "idle"
    /\ warned' = (warned \/ rx'.overflow)
    /\ UNCHANGED <<sender, late, elapsed, faithful, raced>>

(* Second half: a byte may be complete though no edge has shown its end.    *)
(* Whether there are new edges is asked before the time is.                 *)
AskForEdges ==
    /\ pcRx = "edges" /\ pcRx' = IF m_isrBuffer = <<>> THEN "time" ELSE "idle"
    /\ UNCHANGED <<sender, late, elapsed, m_isrBuffer, m_isrOverflow, rx, faithful, warned,
                   raced>>

DetectionTicks == (m_pduBits - 1 - rx.last) * BitTicks
(* The time of the next edge is then counted from this one; before it, it   *)
(* wraps to a long time.                                                    *)
Since(ticks) == IF ticks >= DetectionTicks THEN ticks - DetectionTicks ELSE LongTime

FauxStopBit ==
    /\ pcRx = "time" /\ pcRx' = "idle"
    /\ LET asked == FoldLeft(LAMBDA n, edge : n + edge.ticks, elapsed, m_isrBuffer)
       IN IF asked > DetectionTicks
          THEN /\ rx' = AfterEdge(rx, [ticks |-> DetectionTicks, level |-> 1])
               /\ IF m_isrBuffer = <<>>
                  THEN elapsed' = Since(elapsed) /\ UNCHANGED m_isrBuffer
                  ELSE /\ m_isrBuffer' = [m_isrBuffer EXCEPT ![1].ticks = Since(@)]
                       /\ UNCHANGED elapsed
          ELSE UNCHANGED <<rx, elapsed, m_isrBuffer>>
    /\ warned' = (warned \/ rx'.overflow)
    /\ UNCHANGED <<sender, late, m_isrOverflow, faithful, raced>>

(* read() and read(buffer, n); where the buffer is empty, rxBits() comes    *)
(* before.                                                                  *)
Read(n) ==
    /\ pcRx = "idle" /\ n <= Len(rx.buffer)
    /\ rx' = [rx EXCEPT !.buffer = SubSeq(rx.buffer, n + 1, Len(rx.buffer)),
                        !.out = IF parity = "none" THEN 0 ELSE DropParity(rx, n)]
    /\ faithful' = /\ IsPrefix(SubSeq(rx.buffer, 1, n), unread)
                   /\ (parity # "none" => rx.ring[rx.out] = ParityOf(Head(rx.buffer)))
    /\ unread' = SubSeq(unread, n + 1, Len(unread))
    /\ UNCHANGED <<parity, todo, line, left, late, elapsed, m_isrBuffer, m_isrOverflow,
                   pcRx, warned, raced>>

(* flush() forgets what has been received, but not what is being received.  *)
flush ==
    /\ pcRx = "idle" /\ rx.buffer # <<>>
    /\ rx' = [rx EXCEPT !.buffer = <<>>, !.in = PerByte * (rx.in \div PerByte),
                        !.out = PerByte * (rx.in \div PerByte)]
    /\ unread' = SubSeq(unread, Len(rx.buffer) + 1, Len(unread))
    /\ UNCHANGED <<parity, todo, line, left, late, elapsed, m_isrBuffer, m_isrOverflow,
                   pcRx, faithful, warned, raced>>

overflow ==
    /\ pcRx = "idle" /\ rx.overflow /\ rx' = [rx EXCEPT !.overflow = FALSE]
    /\ UNCHANGED <<sender, late, elapsed, m_isrBuffer, m_isrOverflow, pcRx, faithful, warned,
                   raced>>

(* begin(), beginRx(), beginTx() and enableRx(TRUE). *)
SerialInit ==
    /\ parity \in Parities
    /\ todo = <<>> /\ line = 1 /\ left = 0 /\ late = -1 /\ elapsed = 0
    /\ m_isrBuffer = <<>> /\ m_isrOverflow = FALSE
    /\ pcRx = "idle" /\ rx = RxInit
    /\ unread = <<>> /\ faithful = TRUE /\ warned = FALSE /\ raced = FALSE

(* Both sides end() and begin() again.  Nothing is claimed once a byte may  *)
(* have been lost, so the model goes on in no other way then.               *)
Again ==
    /\ warned \/ raced
    /\ todo' = <<>> /\ line' = 1 /\ left' = 0 /\ late' = -1 /\ elapsed' = 0
    /\ m_isrBuffer' = <<>> /\ m_isrOverflow' = FALSE
    /\ pcRx' = "idle" /\ rx' = RxInit
    /\ unread' = <<>> /\ faithful' = TRUE /\ warned' = FALSE /\ raced' = FALSE
    /\ UNCHANGED parity

SerialNext ==
    \/ /\ ~warned /\ ~raced
       /\ \/ \E word \in Words : Write(word)
          \/ Edge \/ Tick \/ rxBitISR
          \/ TakeEdges \/ AskForEdges \/ FauxStopBit
          \/ \E n \in 1..Capacity : Read(n)
          \/ flush
    \/ overflow \/ Again

--------------------------------------------------------------------------------
(* What is read is what was written, in order and with its parity, and once *)
(* the receiver is between two bytes it has stored all that the line has    *)
(* brought: in spite of late interrupts, and of a stop bit that no edge     *)
(* shows.  Otherwise an overflow was noted, or an edge came between the two *)
(* checks of rxBits() before a stop bit is made up.                         *)
ReadsWhatIsWritten ==
    warned \/ raced \/ m_isrOverflow
    \/ /\ faithful
       /\ (/\ todo = <<>> /\ left <= 0 /\ late = -1
           /\ m_isrBuffer = <<>> /\ rx.last = m_pduBits - 1)
            => Len(rx.buffer) = Len(unread)
================================================================================
