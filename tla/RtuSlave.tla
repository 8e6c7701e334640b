----------------------------- MODULE RtuSlave -----------------------------
(***************************************************************************)
(* How task() of modbus_rtu_library/ModbusRTU.cpp cuts what arrives on the *)
(* RS485 line into frames, by silence alone, while the rest of loop() keeps *)
(* it away from the line for a time, and the master may lose patience.     *)
(*                                                                         *)
(* Time advances in ticks, the same for the station and the line: in each  *)
(* tick the line carries at most one byte.  A byte is the number of the    *)
(* frame that it belongs to.  The CRC finds every frame that is not whole  *)
(* and every two frames taken for one.                                     *)
(***************************************************************************)
EXTENDS Integers, Sequences

CONSTANTS
    Length,      \* bytes of a frame, the address first
    Silence,     \* _t, the 3.5 characters that end a frame
    MaxRead,     \* MODBUSRTU_MAX_READ_US, the longest wait in one call
    Away,        \* the longest time that the rest of loop() takes
    ReplyTime,   \* the time that a reply takes to send
    MaxGap,      \* the longest time from a byte of a frame to its next
    Pause,       \* the shortest silence the master keeps before a frame
    Patiences,   \* the silences after which a master gives an answer up
    BufferSize,  \* bytes that Serial2 holds
    LoopLimit,   \* values of the uint8_t that counts the bytes read: 256
    Kinds,       \* the frames the master sends
    MaxFrames    \* bound: frames the master sends in one behaviour

ASSUME RtuSlaveAssumption ==
    /\ Length \in Nat /\ Length >= 2
    /\ MaxGap \in Nat \ {0} /\ Silence \in Nat /\ MaxGap < Silence
    /\ MaxRead \in Nat /\ Away \in Nat \ {0} /\ ReplyTime \in Nat \ {0}
    /\ Pause \in Nat /\ Pause >= Silence
    /\ Patiences \subseteq Nat /\ \A p \in Patiences : p >= Pause
    /\ BufferSize \in Nat /\ LoopLimit \in Nat /\ BufferSize <= LoopLimit
    /\ Kinds \subseteq [to : {"own", "other", "all"}, intact : BOOLEAN]
    /\ MaxFrames \in Nat

VARIABLES
    patience, \* the patience of this master, the same for ever
    memory,   \* malloc never fails, the same for ever
    pc,       \* "away" from task(), in its "wait" for silence, or in rawSend
    rx,       \* Serial2: the bytes not yet read
    len,      \* _len: how many of them task() has noticed
    since,    \* micros() - t, up to Silence
    spent,    \* ticks since pc became what it is
    frames,   \* the frames that the master has begun
    left,     \* bytes of the last of them still to come
    gap,      \* ticks since the line carried a byte, up to patience
    owed,     \* the master waits for the answer to the last frame
    overrun,  \* a byte has been lost because Serial2 was full
    taken     \* history: the bytes that task() has last taken for a frame

vars == <<patience, memory, pc, rx, len, since, spent, frames, left, gap, owed,
          overrun, taken>>
station == <<len, taken>>

AtMost(n, limit) == IF n <= limit THEN n ELSE limit

Init ==
    /\ patience \in Patiences
    /\ memory \in BOOLEAN
    /\ pc = "away"
    /\ rx = <<>>
    /\ len = 0
    /\ since = 0
    /\ spent = 0
    /\ frames = <<>>
    /\ left = 0
    /\ gap = Pause
    /\ owed = FALSE
    /\ overrun = FALSE
    /\ taken = <<>>

--------------------------------------------------------------------------
(* One tick of the line. *)

\* A byte of frame f comes in.  While the station sends, its receiver is off.
Receive(f) ==
    /\ rx' = IF pc # "send" /\ Len(rx) < BufferSize THEN Append(rx, f) ELSE rx
    /\ overrun' = (overrun \/ (pc # "send" /\ Len(rx) >= BufferSize))
    /\ gap' = 0

\* The line is silent; inside a frame only for less than MaxGap.
Quiet ==
    /\ left > 0 => gap + 1 < MaxGap
    /\ gap' = AtMost(gap + 1, patience)
    /\ UNCHANGED <<patience, memory, rx, frames, left, owed, overrun>>

NextByte ==
    /\ left > 0
    /\ left' = left - 1
    /\ Receive(Len(frames))
    /\ UNCHANGED <<patience, memory, frames, owed>>

\* The master begins a frame when it has its answer, or no longer waits for it.
FirstByte ==
    /\ left = 0
    /\ Len(frames) < MaxFrames
    /\ gap >= Pause
    /\ owed => gap >= patience
    /\ UNCHANGED <<patience, memory>>
    /\ \E kind \in Kinds : frames' = Append(frames, kind)
    /\ owed' = TRUE
    /\ left' = Length - 1
    /\ Receive(Len(frames) + 1)

Line == Quiet \/ NextByte \/ FirstByte

--------------------------------------------------------------------------
(* The station. *)

\* The rest of loop().
AwayTick ==
    /\ pc = "away"
    /\ spent < Away
    /\ Line
    /\ spent' = spent + 1
    /\ since' = AtMost(since + 1, Silence)
    /\ UNCHANGED <<pc, station>>

\* if (_port->available() > _len) { _len = _port->available(); t = micros(); }
Notice == IF Len(rx) > len THEN Len(rx) ELSE len
NoticedAt == IF Len(rx) > len THEN 0 ELSE since

\* Slip: every call of task() begins the silence anew.
TaskRestarts ==
    /\ pc = "away"
    /\ spent > 0
    /\ pc' = IF Notice = 0 THEN "away" ELSE "wait"
    /\ len' = Notice
    /\ since' = 0
    /\ spent' = 0
    /\ UNCHANGED <<patience, memory, rx, frames, left, gap, owed, overrun, taken>>

\* task() is called: there is nothing, or the wait for silence begins.
Task ==
    /\ pc = "away"
    /\ spent > 0
    /\ pc' = IF Notice = 0 THEN "away" ELSE "wait"
    /\ len' = Notice
    /\ since' = NoticedAt
    /\ spent' = 0
    /\ UNCHANGED <<patience, memory, rx, frames, left, gap, owed, overrun, taken>>

\* Slip: the wait just ends, and what has come is taken for the frame.
GiveUpAndTake ==
    /\ spent > MaxRead
    /\ pc' = pc
    /\ since' = Silence
    /\ spent' = 0
    /\ UNCHANGED <<patience, memory, rx, frames, left, gap, owed, overrun>>

\* The wait has taken too long: _len and t are kept for the next call.
GiveUp ==
    /\ spent > MaxRead
    /\ pc' = "away"
    /\ since' = NoticedAt
    /\ spent' = 0
    /\ UNCHANGED <<patience, memory, rx, frames, left, gap, owed, overrun>>

\* One iteration of the wait.
Wait ==
    /\ pc = "wait"
    /\ since < Silence
    /\ len' = Notice
    /\ UNCHANGED taken
    /\ \/ GiveUp
       \/ /\ spent <= MaxRead
          /\ Line
          /\ spent' = spent + 1
          /\ since' = AtMost(NoticedAt + 1, Silence)
          /\ UNCHANGED pc

\* Silence: what has been noticed is one frame.
FrameEnds == pc = "wait" /\ since >= Silence
Sender == frames[Head(rx)]

\* Slip: the address is counted with the bytes after it.
AllBytes == len

\* The bytes after the address that task() reads or skips, counted by a uint8_t.
BodyBytes == len - 1

\* The CRC is right only for a single, whole and undamaged frame.
CrcMatches == /\ len = Length
              /\ \A i \in 1..len : rx[i] = Head(rx)
              /\ Sender.intact

\* Reading as many bytes as have been noticed.
TakeFrame ==
    /\ taken' = SubSeq(rx, 1, len)
    /\ rx' = SubSeq(rx, len + 1, Len(rx))
    /\ len' = 0
    /\ UNCHANGED <<patience, memory, since, frames, left, gap, owed, overrun>>

\* Another station's frame, no memory, a wrong CRC, or a broadcast: no reply.
Drop ==
    /\ FrameEnds
    /\ Sender.to # "own" \/ ~memory \/ ~CrcMatches
    /\ TakeFrame
    /\ pc' = "away"
    /\ spent' = 0

\* MB_Slave_RS485_Write, slavePDU, and rawSend begins.
Answer ==
    /\ FrameEnds
    /\ Sender.to = "own"
    /\ CrcMatches
    /\ TakeFrame
    /\ pc' = "send"
    /\ spent' = 0

SendTick ==
    /\ pc = "send"
    /\ spent < ReplyTime
    /\ Line
    /\ spent' = spent + 1
    /\ since' = AtMost(since + 1, Silence)
    /\ UNCHANGED <<pc, station>>

\* flush() and MB_Slave_RS485_Read: the reply is out.
Sent ==
    /\ pc = "send"
    /\ spent = ReplyTime
    /\ pc' = "away"
    /\ spent' = 0
    /\ owed' = (owed /\ left > 0)
    /\ gap' = 0
    /\ UNCHANGED <<patience, memory, rx, station, since, frames, left, overrun>>

Next == AwayTick \/ Task \/ Wait \/ Drop \/ Answer \/ SendTick \/ Sent

Spec == Init /\ [][Next]_vars
--------------------------------------------------------------------------
(* Properties. *)

\* Everything keeps its type, and no stage of task() lasts longer than its cap.
TypeOK ==
    /\ pc \in {"away", "wait", "send"}
    /\ rx \in Seq(1..MaxFrames) /\ Len(rx) <= BufferSize
    /\ len \in 0..Len(rx)
    /\ since \in 0..Silence
    /\ spent \in Nat
    /\ pc = "away" => spent <= Away
    /\ pc = "wait" => spent <= MaxRead + 1
    /\ pc = "send" => spent <= ReplyTime
    /\ frames \in Seq(Kinds) /\ Len(frames) <= MaxFrames
    /\ left \in 0..(Length - 1)
    /\ patience \in Patiences /\ gap \in Nat
    /\ memory \in BOOLEAN
    /\ owed \in BOOLEAN
    /\ overrun \in BOOLEAN
    /\ taken \in Seq(1..MaxFrames)

\* task() never takes a part of a frame whose other bytes are still to come,
\* whether it was away, gave its wait up half-way or has waited: unless Serial2
\* was full, a frame is not split.
NoFrameSplit ==
    [][(taken' # taken /\ ~overrun /\ left > 0)
         => \A i \in 1..Len(taken') : taken'[i] # Len(frames)]_vars

\* The worst case of an answer: the rest of loop(), the silence, the reply.
ResponseTime == Away + Silence + ReplyTime

\* The station drives the line only while the master waits for the answer to
\* the last frame it has sent (replies are neither late nor in its way), if the
\* master has the patience to wait for ResponseTime.
RepliesFindMasterWaiting ==
    (pc = "send" /\ patience >= ResponseTime)
        => /\ owed
           /\ left = 0
           /\ Head(taken) = Len(frames)

\* An intact request has its answer within ResponseTime, whatever came before
\* it and wherever the loop stood, if the master lets the station have it and
\* malloc never fails.
AnswersInTime ==
    (/\ owed /\ left = 0 /\ frames[Len(frames)] = [to |-> "own", intact |-> TRUE]
     /\ patience >= ResponseTime /\ memory)
        => gap < ResponseTime

\* Both: a master that waits long enough has its answer in time, and neither
\* meets the other's frames on the line (task() and rawSend).
Punctual == RepliesFindMasterWaiting /\ AnswersInTime

\* The uint8_t that counts the bytes to read or to skip reaches their number.
ByteLoopEnds == FrameEnds => BodyBytes < LoopLimit
==========================================================================
