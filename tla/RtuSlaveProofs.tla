-------------------------- MODULE RtuSlaveProofs --------------------------
(***************************************************************************)
(* Proofs about RtuSlave, for every frame length, silence, cap, buffer and *)
(* patience: no frame is split, and every loop over its bytes ends.        *)
(*                                                                         *)
(* The argument: when the wait ends, no byte has been noticed for Silence  *)
(* ticks.  The line is at most one byte ahead of task() (Settled or Fresh),*)
(* and inside a frame it is never silent for that long, so what task() has *)
(* noticed holds no byte of a frame that is still coming in.               *)
(***************************************************************************)
EXTENDS RtuSlave, SequenceTheorems, TLAPS

\* The line and its buffer keep their types; bytes are of frames begun.
LineOK ==
    /\ rx \in Seq(1..MaxFrames) /\ Len(rx) <= BufferSize
    /\ frames \in Seq(Kinds) /\ Len(frames) <= MaxFrames
    /\ left \in 0..(Length - 1)
    /\ patience \in Patiences /\ gap \in Nat
    /\ memory \in BOOLEAN
    /\ owed \in BOOLEAN
    /\ overrun \in BOOLEAN
    /\ left > 0 => Len(frames) >= 1 /\ gap < MaxGap
    /\ \A i \in 1..Len(rx) : rx[i] <= Len(frames)

\* When one byte of a frame has come, only the last byte received is of it.
FirstIsLast ==
    left = Length - 1 => \A i \in 1..Len(rx) : rx[i] = Len(frames) => i = Len(rx)

StationOK ==
    /\ pc \in {"away", "wait", "send"}
    /\ len \in 0..Len(rx)
    /\ since \in 0..Silence
    /\ spent \in Nat
    /\ pc = "away" => spent <= Away
    /\ pc = "wait" => spent <= MaxRead + 1
    /\ pc = "send" => spent <= ReplyTime /\ len = 0
    /\ taken \in Seq(1..MaxFrames)

\* task() has noticed all that has come, and the line has been silent since.
Settled == Len(rx) = len /\ gap >= since

\* One byte has come since task() looked; if the wait ends on it, it is the
\* first of a frame.
Fresh == /\ Len(rx) = len + 1
         /\ gap = 0
         /\ (since = Silence /\ left > 0) => left = Length - 1

Watched ==
    ~overrun => /\ (pc = "away" /\ len > 0 /\ Len(rx) = len) => gap >= since
                /\ pc = "wait" => Settled \/ Fresh

IInv == LineOK /\ FirstIsLast /\ StationOK /\ Watched

\* The body of NoFrameSplit.
Whole == (taken' # taken /\ ~overrun /\ left > 0)
            => \A i \in 1..Len(taken') : taken'[i] # Len(frames)

LEMMA Constants ==
    /\ Length \in Nat /\ Length >= 2
    /\ MaxGap \in Nat /\ MaxGap >= 1 /\ Silence \in Nat /\ MaxGap < Silence
    /\ MaxRead \in Nat /\ Away \in Nat /\ Away >= 1
    /\ ReplyTime \in Nat /\ ReplyTime >= 1
    /\ Pause \in Nat /\ Pause >= Silence
    /\ \A p \in Patiences : p \in Nat /\ p >= Pause
    /\ BufferSize \in Nat /\ LoopLimit \in Nat /\ BufferSize <= LoopLimit
    /\ MaxFrames \in Nat
BY RtuSlaveAssumption

--------------------------------------------------------------------------
(* One tick of the line. *)

\* A byte of frame f is appended to Serial2, or it is lost.
LEMMA ReceiveEffect ==
    ASSUME LineOK, NEW f \in 1..MaxFrames, Receive(f)
    PROVE  /\ rx' \in Seq(1..MaxFrames) /\ Len(rx') <= BufferSize
           /\ overrun' \in BOOLEAN /\ (overrun => overrun')
           /\ gap' = 0
           /\ \/ rx' = rx /\ (overrun' \/ pc = "send")
              \/ /\ Len(rx') = Len(rx) + 1
                 /\ \A i \in 1..Len(rx) : rx'[i] = rx[i]
                 /\ rx'[Len(rx) + 1] = f
<1>1. CASE pc # "send" /\ Len(rx) < BufferSize
      <2>1. /\ rx' = Append(rx, f)
            /\ gap' = 0
            /\ overrun' = overrun
            BY <1>1, Constants DEF Receive, LineOK
      <2>2. /\ rx' \in Seq(1..MaxFrames)
            /\ Len(rx') = Len(rx) + 1
            /\ \A i \in 1..Len(rx) : rx'[i] = rx[i]
            /\ rx'[Len(rx) + 1] = f
            BY <2>1, AppendProperties DEF LineOK
      <2> QED BY <1>1, <2>1, <2>2, Constants DEF LineOK
<1>2. CASE ~(pc # "send" /\ Len(rx) < BufferSize)
      <2>1. /\ rx' = rx
            /\ gap' = 0
            /\ overrun' = (overrun \/ (pc # "send" /\ Len(rx) >= BufferSize))
            BY <1>2 DEF Receive
      <2>2. overrun \in BOOLEAN /\ Len(rx) <= BufferSize /\ rx \in Seq(1..MaxFrames)
            BY DEF LineOK
      <2>3. pc # "send" => Len(rx) >= BufferSize
            BY <1>2, <2>2, Constants
      <2>4. overrun' \in BOOLEAN /\ (overrun => overrun') /\ (overrun' \/ pc = "send")
            BY <2>1, <2>2, <2>3, Zenon
      <2> QED BY <2>1, <2>2, <2>4
<1> QED BY <1>1, <1>2

\* What a tick of the line does: it keeps LineOK and FirstIsLast, and either
\* nothing comes and the silence grows, or a byte comes (or is lost), and after
\* a long silence that byte is the first of its frame.
LEMMA LineEffect ==
    ASSUME LineOK, FirstIsLast, Line
    PROVE  /\ LineOK'
           /\ FirstIsLast'
           /\ overrun => overrun'
           /\ \/ rx' = rx /\ gap' = AtMost(gap + 1, patience) /\ overrun' = overrun
              \/ gap' = 0 /\ rx' = rx /\ (overrun' \/ pc = "send")
              \/ /\ gap' = 0 /\ Len(rx') = Len(rx) + 1
                 /\ gap >= MaxGap => left' = Length - 1
<1>1. CASE Quiet
      <2>1. /\ gap' = AtMost(gap + 1, patience)
            /\ UNCHANGED <<patience, memory, rx, frames, left, owed, overrun>>
            /\ left > 0 => gap + 1 < MaxGap
            BY <1>1 DEF Quiet
      <2>2. gap' \in Nat /\ (left' > 0 => gap' < MaxGap)
            <3>1. gap \in Nat /\ patience \in Nat
                  BY Constants DEF LineOK
            <3>2. gap' \in Nat /\ gap' <= gap + 1
                  BY <2>1, <3>1 DEF AtMost
            <3> QED BY <2>1, <3>1, <3>2, Constants
      <2>3. LineOK'
            BY <2>1, <2>2 DEF LineOK
      <2>4. FirstIsLast'
            BY <2>1 DEF FirstIsLast
      <2> QED BY <2>1, <2>3, <2>4
<1>2. CASE NextByte
      <2>1. /\ left > 0 /\ left' = left - 1
            /\ Receive(Len(frames))
            /\ frames' = frames /\ owed' = owed /\ UNCHANGED <<patience, memory>>
            BY <1>2 DEF NextByte
      <2>2. Len(frames) \in 1..MaxFrames
            BY <2>1 DEF LineOK
      <2>3. /\ rx' \in Seq(1..MaxFrames) /\ Len(rx') <= BufferSize
            /\ overrun' \in BOOLEAN /\ (overrun => overrun')
            /\ gap' = 0
            /\ \/ rx' = rx /\ (overrun' \/ pc = "send")
               \/ /\ Len(rx') = Len(rx) + 1
                  /\ \A i \in 1..Len(rx) : rx'[i] = rx[i]
                  /\ rx'[Len(rx) + 1] = Len(frames)
            BY <2>1, <2>2, ReceiveEffect
      <2>4. Len(rx) \in Nat /\ left \in 0..(Length - 1)
            BY DEF LineOK
      <2>5. \A i \in 1..Len(rx') : rx'[i] <= Len(frames)
            BY <2>2, <2>3, <2>4 DEF LineOK
      <2>6. left' \in 0..(Length - 1) /\ left' # Length - 1
            BY <2>1, <2>4, Constants
      <2>7. gap' \in Nat /\ gap' < MaxGap
            BY <2>3, Constants
      <2>8. LineOK'
            BY <2>1, <2>2, <2>3, <2>5, <2>6, <2>7 DEF LineOK
      <2>9. FirstIsLast'
            BY <2>6 DEF FirstIsLast
      <2>10. gap < MaxGap
            BY <2>1 DEF LineOK
      <2>11. ~(gap >= MaxGap)
            BY <2>10, Constants DEF LineOK
      <2> QED BY <2>3, <2>8, <2>9, <2>11
<1>3. CASE FirstByte
      <2>1. PICK kind \in Kinds : frames' = Append(frames, kind)
            BY <1>3 DEF FirstByte
      <2>2. /\ Len(frames) < MaxFrames
            /\ left' = Length - 1 /\ owed' = TRUE /\ UNCHANGED <<patience, memory>>
            /\ Receive(Len(frames) + 1)
            BY <1>3 DEF FirstByte
      <2>3. /\ frames' \in Seq(Kinds) /\ Len(frames') = Len(frames) + 1
            /\ Len(frames) \in Nat /\ Len(rx) \in Nat
            BY <2>1, AppendProperties DEF LineOK
      <2>4. Len(frames) + 1 \in 1..MaxFrames
            BY <2>2, <2>3, Constants
      <2>5. /\ rx' \in Seq(1..MaxFrames) /\ Len(rx') <= BufferSize
            /\ overrun' \in BOOLEAN /\ (overrun => overrun')
            /\ gap' = 0
            /\ \/ rx' = rx /\ (overrun' \/ pc = "send")
               \/ /\ Len(rx') = Len(rx) + 1
                  /\ \A i \in 1..Len(rx) : rx'[i] = rx[i]
                  /\ rx'[Len(rx) + 1] = Len(frames) + 1
            BY <2>2, <2>4, ReceiveEffect
      <2>6. \A i \in 1..Len(rx) : rx[i] \in 1..MaxFrames /\ rx[i] <= Len(frames)
            BY ElementOfSeq DEF LineOK
      <2>7. \A i \in 1..Len(rx') : /\ rx'[i] <= Len(frames')
                                   /\ rx'[i] = Len(frames') => i = Len(rx')
            BY <2>3, <2>5, <2>6, Constants
      <2>8. /\ left' \in 0..(Length - 1)
            /\ gap' \in Nat /\ gap' < MaxGap
            /\ Len(frames') <= MaxFrames /\ Len(frames') >= 1
            BY <2>2, <2>3, <2>4, <2>5, Constants
      <2>9. LineOK'
            BY <2>2, <2>3, <2>5, <2>7, <2>8 DEF LineOK
      <2>10. FirstIsLast'
            BY <2>7 DEF FirstIsLast
      <2> QED BY <2>2, <2>5, <2>9, <2>10
<1> QED BY <1>1, <1>2, <1>3 DEF Line

--------------------------------------------------------------------------
(* The steps of the station. *)

LEMMA InitIInv == Init => IInv
<1> SUFFICES ASSUME Init PROVE IInv
    OBVIOUS
<1>1. /\ <<>> \in Seq(1..MaxFrames) /\ <<>> \in Seq(Kinds) /\ Len(<<>>) = 0
      BY EmptySeq
<1>2. LineOK
      <2>1. /\ rx = <<>> /\ frames = <<>> /\ left = 0 /\ gap = Pause
            /\ owed = FALSE /\ overrun = FALSE /\ patience \in Patiences
            /\ memory \in BOOLEAN
            BY DEF Init
      <2>2. /\ rx \in Seq(1..MaxFrames) /\ Len(rx) = 0
            /\ frames \in Seq(Kinds) /\ Len(frames) = 0
            BY <1>1, <2>1
      <2>3. \A i \in 1..Len(rx) : rx[i] <= Len(frames)
            BY <2>2
      <2>4. /\ left \in 0..(Length - 1) /\ gap \in Nat /\ ~(left > 0)
            /\ Len(rx) <= BufferSize /\ Len(frames) <= MaxFrames
            BY <2>1, <2>2, Constants
      <2>5. owed \in BOOLEAN /\ overrun \in BOOLEAN
            BY <2>1
      <2> QED BY <2>1, <2>2, <2>3, <2>4, <2>5, Zenon DEF LineOK
<1>3. FirstIsLast /\ Watched
      BY <1>1, Constants DEF Init, FirstIsLast, Watched
<1>4. StationOK
      BY <1>1, Constants DEF Init, StationOK
<1> QED BY <1>2, <1>3, <1>4 DEF IInv

\* The rest of loop(): the silence that task() has seen is not longer than the
\* real one.
LEMMA AwayTickStep == ASSUME IInv, AwayTick PROVE IInv'
<1>1. LineOK /\ FirstIsLast /\ StationOK /\ Watched
      BY DEF IInv
<1>2. /\ pc = "away" /\ pc' = "away" /\ spent < Away /\ spent' = spent + 1
      /\ since' = AtMost(since + 1, Silence)
      /\ len' = len /\ taken' = taken
      /\ Line
      BY DEF AwayTick, station
<1>3. /\ LineOK' /\ FirstIsLast' /\ (overrun => overrun')
      /\ \/ rx' = rx /\ gap' = AtMost(gap + 1, patience) /\ overrun' = overrun
         \/ gap' = 0 /\ rx' = rx /\ (overrun' \/ pc = "send")
         \/ gap' = 0 /\ Len(rx') = Len(rx) + 1
      BY <1>1, <1>2, LineEffect
<1>4. Len(rx) \in Nat /\ Len(rx') \in Nat /\ len \in 0..Len(rx) /\ gap \in Nat
      /\ since \in 0..Silence /\ spent \in Nat /\ taken \in Seq(1..MaxFrames)
      BY <1>1, <1>3 DEF LineOK, StationOK
<1>5. since' \in 0..Silence
      BY <1>2, <1>4, Constants DEF AtMost
<1>6. StationOK'
      BY <1>2, <1>3, <1>4, <1>5, Constants DEF StationOK
<1>7. Watched'
      <2> SUFFICES ASSUME ~overrun', len' > 0, Len(rx') = len' PROVE gap' >= since'
          BY <1>2 DEF Watched
      <2>1. rx' = rx /\ gap' = AtMost(gap + 1, patience)
            BY <1>2, <1>3, <1>4
      <2>2. gap >= since
            BY <1>1, <1>2, <1>3, <2>1 DEF Watched
      <2>3. patience \in Nat /\ patience >= Silence /\ Silence \in Nat
            BY <1>1, Constants DEF LineOK
      <2> QED BY <1>2, <1>4, <2>1, <2>2, <2>3 DEF AtMost
<1> QED BY <1>3, <1>6, <1>7 DEF IInv

\* The call of task(): it notices all that has come.
LEMMA TaskStep == ASSUME IInv, Task PROVE IInv'
<1>1. LineOK /\ FirstIsLast /\ StationOK /\ Watched
      BY DEF IInv
<1>2. /\ pc = "away" /\ pc' = (IF Notice = 0 THEN "away" ELSE "wait")
      /\ len' = Notice /\ since' = NoticedAt /\ spent' = 0
      /\ UNCHANGED <<patience, memory, rx, frames, left, gap, owed, overrun, taken>>
      BY DEF Task
<1>3. LineOK' /\ FirstIsLast'
      BY <1>1, <1>2 DEF LineOK, FirstIsLast
<1>4. Len(rx) \in Nat /\ len \in 0..Len(rx) /\ gap \in Nat /\ since \in 0..Silence
      BY <1>1 DEF LineOK, StationOK
<1>5. /\ Notice = Len(rx)
      /\ NoticedAt = 0 \/ (NoticedAt = since /\ Len(rx) = len)
      BY <1>4 DEF Notice, NoticedAt
<1>6. NoticedAt \in 0..Silence
      BY <1>4, <1>5, Constants
<1>7. StationOK'
      BY <1>1, <1>2, <1>4, <1>5, <1>6, Constants DEF StationOK
<1>8. Watched'
      <2> SUFFICES ASSUME ~overrun PROVE len' > 0 => Settled'
          BY <1>2, <1>4, <1>5 DEF Watched
      <2> QED BY <1>1, <1>2, <1>4, <1>5 DEF Watched, Settled
<1> QED BY <1>3, <1>7, <1>8 DEF IInv

\* An iteration of the wait: task() is at most one byte behind the line, and the
\* byte that ends a silence begins a frame.
LEMMA WaitStep == ASSUME IInv, Wait PROVE IInv'
<1>1. LineOK /\ FirstIsLast /\ StationOK /\ Watched
      BY DEF IInv
<1>2. pc = "wait" /\ since < Silence /\ len' = Notice /\ taken' = taken
      BY DEF Wait
<1>3. /\ Len(rx) \in Nat /\ len \in 0..Len(rx) /\ gap \in Nat /\ left \in Nat
      /\ since \in 0..Silence /\ spent \in Nat /\ taken \in Seq(1..MaxFrames)
      BY <1>1 DEF LineOK, StationOK
<1>4. /\ Notice = Len(rx)
      /\ NoticedAt = 0 \/ (NoticedAt = since /\ Len(rx) = len)
      BY <1>3 DEF Notice, NoticedAt
<1>5. ~overrun => gap >= NoticedAt
      <2>1. CASE Settled
            BY <1>3, <1>4, <2>1 DEF Settled, NoticedAt
      <2>2. CASE Fresh
            BY <1>3, <1>4, <2>2 DEF Fresh, NoticedAt
      <2> QED BY <1>1, <1>2, <2>1, <2>2 DEF Watched
<1>6. NoticedAt \in 0..(Silence - 1)
      BY <1>2, <1>3, <1>4, Constants
<1>7. CASE GiveUp
      <2>1. /\ pc' = "away" /\ since' = NoticedAt /\ spent' = 0
            /\ UNCHANGED <<patience, memory, rx, frames, left, gap, owed, overrun>>
            BY <1>7 DEF GiveUp
      <2>2. LineOK' /\ FirstIsLast'
            BY <1>1, <2>1 DEF LineOK, FirstIsLast
      <2>3. StationOK'
            BY <1>2, <1>3, <1>4, <1>6, <2>1, Constants DEF StationOK
      <2>4. Watched'
            BY <1>5, <2>1 DEF Watched
      <2> QED BY <2>2, <2>3, <2>4 DEF IInv
<1>8. CASE /\ spent <= MaxRead /\ Line /\ spent' = spent + 1
           /\ since' = AtMost(NoticedAt + 1, Silence) /\ pc' = pc
      <2>1. /\ LineOK' /\ FirstIsLast' /\ (overrun => overrun')
            /\ \/ rx' = rx /\ gap' = AtMost(gap + 1, patience) /\ overrun' = overrun
               \/ gap' = 0 /\ rx' = rx /\ (overrun' \/ pc = "send")
               \/ /\ gap' = 0 /\ Len(rx') = Len(rx) + 1
                  /\ gap >= MaxGap => left' = Length - 1
            BY <1>1, <1>8, LineEffect
      <2>2. since' = NoticedAt + 1 /\ since' \in 0..Silence
            BY <1>6, <1>8, Constants DEF AtMost
      <2>3. StationOK'
            <3>1. len' \in 0..Len(rx')
                  BY <1>2, <1>3, <1>4, <2>1
            <3> QED BY <1>2, <1>3, <1>8, <2>2, <3>1, Constants DEF StationOK
      <2>4. Watched'
            <3> SUFFICES ASSUME ~overrun' PROVE Settled' \/ Fresh'
                BY <1>2, <1>8 DEF Watched
            <3>1. gap >= NoticedAt
                  BY <1>5, <2>1
            <3>2. CASE rx' = rx /\ gap' = AtMost(gap + 1, patience)
                  <4>2. patience \in Nat /\ patience >= Silence /\ Silence \in Nat
                        BY <1>1, Constants DEF LineOK
                  <4>1. gap' >= since'
                        BY <1>3, <1>6, <2>2, <3>1, <3>2, <4>2 DEF AtMost
                  <4> QED BY <1>2, <1>4, <3>2, <4>1 DEF Settled
            <3>3. CASE /\ gap' = 0 /\ Len(rx') = Len(rx) + 1
                       /\ gap >= MaxGap => left' = Length - 1
                  <4>1. since' = Silence => gap >= MaxGap
                        BY <1>3, <1>6, <2>2, <3>1, Constants
                  <4> QED BY <1>2, <1>4, <3>3, <4>1 DEF Fresh
            <3> QED BY <1>2, <2>1, <3>2, <3>3
      <2> QED BY <2>1, <2>3, <2>4 DEF IInv
<1> QED BY <1>7, <1>8 DEF Wait

\* The end of the wait: what is taken holds no byte of an unfinished frame.
LEMMA TakeStep ==
    ASSUME IInv, FrameEnds, TakeFrame, spent' = 0, pc' \in {"away", "send"}
    PROVE  IInv' /\ Whole
<1>1. LineOK /\ FirstIsLast /\ StationOK /\ Watched
      BY DEF IInv
<1>2. /\ taken' = SubSeq(rx, 1, len) /\ rx' = SubSeq(rx, len + 1, Len(rx))
      /\ len' = 0
      /\ UNCHANGED <<patience, memory, since, frames, left, gap, owed, overrun>>
      BY DEF TakeFrame
<1>3. /\ rx \in Seq(1..MaxFrames) /\ Len(rx) \in Nat /\ len \in 0..Len(rx)
      /\ gap \in Nat /\ left \in Nat /\ since \in 0..Silence
      BY <1>1 DEF LineOK, StationOK
<1>a. \A i \in 1..Len(rx) : rx[i] \in 1..MaxFrames
      BY <1>3, ElementOfSeq
<1>4. /\ taken' \in Seq(1..MaxFrames) /\ Len(taken') = len
      /\ \A i \in 1..len : taken'[i] = rx[i]
      <2>1. \A i \in 1..len : rx[i] \in 1..MaxFrames
            BY <1>3, <1>a
      <2>2. /\ SubSeq(rx, 1, len) \in Seq(1..MaxFrames)
            /\ Len(SubSeq(rx, 1, len)) = IF 1 <= len THEN len - 1 + 1 ELSE 0
            /\ \A i \in 1..(len - 1 + 1) : SubSeq(rx, 1, len)[i] = rx[1 + i - 1]
            BY <1>3, <2>1, SubSeqProperties
      <2> QED BY <1>2, <1>3, <2>2
<1>5. /\ rx' \in Seq(1..MaxFrames) /\ Len(rx') = Len(rx) - len
      /\ \A i \in 1..Len(rx') : rx'[i] = rx[len + i]
      <2> DEFINE m == len + 1  n == Len(rx)
      <2>1. m \in Int /\ n \in Int /\ \A i \in m..n : rx[i] \in 1..MaxFrames
            BY <1>3, <1>a
      <2>2. /\ SubSeq(rx, m, n) \in Seq(1..MaxFrames)
            /\ Len(SubSeq(rx, m, n)) = IF m <= n THEN n - m + 1 ELSE 0
            /\ \A i \in 1..(n - m + 1) : SubSeq(rx, m, n)[i] = rx[m + i - 1]
            BY <2>1, SubSeqProperties
      <2>3. Len(rx') = Len(rx) - len
            BY <1>2, <1>3, <2>2
      <2>4. \A i \in 1..Len(rx') : i \in 1..(n - m + 1) /\ m + i - 1 = len + i
            BY <1>3, <2>3
      <2> QED BY <1>2, <2>2, <2>3, <2>4
<1>6. \A i \in 1..Len(rx') : len + i \in 1..Len(rx)
      BY <1>3, <1>5
<1>7. LineOK'
      <2>1. Len(rx') <= BufferSize
            BY <1>1, <1>3, <1>5, Constants DEF LineOK
      <2>2. \A i \in 1..Len(rx') : rx'[i] <= Len(frames)
            BY <1>1, <1>5, <1>6 DEF LineOK
      <2> QED BY <1>1, <1>2, <1>5, <2>1, <2>2 DEF LineOK
<1>8. FirstIsLast'
      <2> SUFFICES ASSUME left = Length - 1, NEW i \in 1..Len(rx'),
                          rx'[i] = Len(frames)
                   PROVE  i = Len(rx')
          BY <1>2 DEF FirstIsLast
      <2>1. /\ rx[len + i] = Len(frames) /\ len + i \in 1..Len(rx)
            /\ left = Length - 1
            BY <1>2, <1>5, <1>6
      <2>2. len + i = Len(rx)
            BY <1>1, <2>1 DEF FirstIsLast
      <2>3. Len(rx') = Len(rx) - len /\ i \in Int
            BY <1>5
      <2> QED BY ONLY <1>3, <2>2, <2>3
<1>9. StationOK' /\ Watched'
      BY <1>1, <1>2, <1>3, <1>4, <1>5, Constants DEF StationOK, Watched
<1>10. Whole
      <2> SUFFICES ASSUME ~overrun, left > 0, NEW i \in 1..len PROVE rx[i] # Len(frames)
          BY <1>4 DEF Whole
      <2>1. gap < MaxGap /\ since = Silence
            BY <1>1, <1>3, Constants DEF LineOK, FrameEnds
      <2>2. ~Settled
            BY <1>3, <2>1, Constants DEF Settled
      <2>3. Fresh
            BY <1>1, <2>2 DEF Watched, FrameEnds
      <2>4. left = Length - 1 /\ Len(rx) = len + 1
            BY <2>1, <2>3 DEF Fresh
      <2>5. rx[i] = Len(frames) => i = Len(rx)
            BY <1>1, <1>3, <2>4 DEF FirstIsLast
      <2> QED BY <1>3, <2>4, <2>5
<1> QED BY <1>7, <1>8, <1>9, <1>10 DEF IInv

\* While the reply goes out nothing is received.
LEMMA SendTickStep == ASSUME IInv, SendTick PROVE IInv'
<1>1. LineOK /\ FirstIsLast /\ StationOK
      BY DEF IInv
<1>2. /\ pc = "send" /\ pc' = "send" /\ spent < ReplyTime /\ spent' = spent + 1
      /\ since' = AtMost(since + 1, Silence)
      /\ len' = len /\ taken' = taken
      /\ Line
      BY DEF SendTick, station
<1>3. LineOK' /\ FirstIsLast'
      BY <1>1, <1>2, LineEffect
<1>4. /\ len = 0 /\ since' \in 0..Silence /\ spent \in Nat
      /\ taken \in Seq(1..MaxFrames) /\ Len(rx') \in Nat
      BY <1>1, <1>2, <1>3, Constants DEF StationOK, LineOK, AtMost
<1>5. StationOK' /\ Watched'
      BY <1>2, <1>4, Constants DEF StationOK, Watched
<1> QED BY <1>3, <1>5 DEF IInv

LEMMA SentStep == ASSUME IInv, Sent PROVE IInv'
<1>1. LineOK /\ FirstIsLast /\ StationOK
      BY DEF IInv
<1>2. /\ pc = "send" /\ pc' = "away" /\ spent' = 0 /\ gap' = 0
      /\ owed' = (owed /\ left > 0)
      /\ UNCHANGED <<patience, memory, rx, len, taken, since, frames, left, overrun>>
      BY DEF Sent, station
<1>3. LineOK'
      BY <1>1, <1>2, Constants DEF LineOK
<1>4. FirstIsLast' /\ StationOK' /\ Watched'
      BY <1>1, <1>2, Constants DEF FirstIsLast, StationOK, Watched
<1> QED BY <1>3, <1>4 DEF IInv

--------------------------------------------------------------------------
LEMMA StepIInv == ASSUME IInv, Next PROVE IInv' /\ Whole
<1>1. CASE AwayTick
      BY <1>1, AwayTickStep DEF AwayTick, Whole, station
<1>2. CASE Task
      BY <1>2, TaskStep DEF Task, Whole
<1>3. CASE Wait
      BY <1>3, WaitStep DEF Wait, Whole
<1>4. CASE Drop
      BY <1>4, TakeStep DEF Drop
<1>5. CASE Answer
      BY <1>5, TakeStep DEF Answer
<1>6. CASE SendTick
      BY <1>6, SendTickStep DEF SendTick, Whole, station
<1>7. CASE Sent
      BY <1>7, SentStep DEF Sent, Whole, station
<1> QED BY <1>1, <1>2, <1>3, <1>4, <1>5, <1>6, <1>7 DEF Next

THEOREM Invariance == Spec => []IInv
<1>1. IInv /\ UNCHANGED vars => IInv'
      BY DEF vars, IInv, LineOK, FirstIsLast, StationOK, Watched, Settled, Fresh
<1>2. IInv /\ [Next]_vars => IInv'
      BY <1>1, StepIInv
<1> QED BY InitIInv, <1>2, PTL DEF Spec

\* task() and the line keep their types; the wait, the reply and the rest of
\* loop() stay within their caps.
THEOREM TypeCorrect == Spec => []TypeOK
<1>1. IInv => TypeOK
      BY DEF IInv, LineOK, StationOK, TypeOK
<1> QED BY <1>1, Invariance, PTL

\* Unless Serial2 was full, task() never takes a part of a frame that is still
\* coming in: MODBUSRTU_MAX_READ_US, which ends the wait in the middle of a long
\* frame, and the passes of the loop that it has to wait for, split nothing.
THEOREM FramesAreWhole == Spec => NoFrameSplit
<1>1. IInv /\ [Next]_vars => [Whole]_vars
      BY StepIInv
<1>2. Spec => [][Whole]_vars
      BY <1>1, Invariance, PTL DEF Spec
<1> QED BY <1>2 DEF NoFrameSplit, Whole

\* The uint8_t that counts the bytes read or skipped reaches their number
\* whenever Serial2 holds no more than 256 bytes.
THEOREM ByteLoopsEnd == Spec => []ByteLoopEnds
<1>1. IInv => ByteLoopEnds
      <2> SUFFICES ASSUME IInv PROVE len - 1 < LoopLimit
          BY DEF ByteLoopEnds, BodyBytes
      <2>1. len \in 0..Len(rx) /\ Len(rx) \in Nat /\ Len(rx) <= BufferSize
            BY DEF IInv, LineOK, StationOK
      <2> QED BY <2>1, Constants
<1> QED BY <1>1, Invariance, PTL

--------------------------------------------------------------------------
(* Answers in time.  The master is patient, Serial2 holds a frame, and the *)
(* wait may last as long as the silence that it waits for: at 9600 baud    *)
(* that is 4 ms, and MODBUSRTU_MAX_READ_US 100 ms.                         *)

Roomy == Length <= BufferSize /\ Silence <= MaxRead + 1
Patient == patience >= ResponseTime

\* Serial2 holds nothing, or what has come of the one frame that the master has
\* sent and waits to see answered.
OneFrame ==
    /\ ~overrun
    /\ Len(rx) > 0 => /\ owed = TRUE
                      /\ Len(rx) = Length - left
                      /\ \A i \in 1..Len(rx) : rx[i] = Len(frames)
    /\ left > 0 => Len(rx) > 0

Position ==
    /\ pc = "wait" => len > 0
    /\ pc = "send" => /\ owed = TRUE /\ left = 0 /\ Len(rx) = 0
                      /\ Len(taken) > 0 /\ Head(taken) = Len(frames)

\* A request that deserves an answer is in Serial2, or its answer is on the way.
Wanted ==
    (/\ owed = TRUE /\ left = 0 /\ memory = TRUE
     /\ frames[Len(frames)] = [to |-> "own", intact |-> TRUE])
        => Len(rx) > 0 \/ pc = "send"

\* How old the last byte may be.  The wait that notices a byte late lasts until
\* the silence is over; a wait that gives up has noticed its last byte in time.
Deadline ==
    /\ pc = "away" /\ Len(rx) > len => gap < spent
    /\ pc = "away" /\ Len(rx) = len /\ len > 0
          => /\ gap < Silence + spent
             /\ gap <= since \/ since = Silence
    /\ pc = "wait" /\ Len(rx) > len => gap = 0 /\ since < Silence
    /\ pc = "wait" /\ Len(rx) = len
          => \/ gap <= since
             \/ /\ since >= AtMost(spent, Silence)
                /\ gap < since + Away
    /\ pc = "send" => gap < Away + Silence + spent

Served == OneFrame /\ Position /\ Wanted /\ Deadline

LEMMA PatienceFacts ==
    ASSUME LineOK, Patient
    PROVE  patience \in Nat /\ patience >= Away + Silence + ReplyTime
BY Constants DEF LineOK, Patient, ResponseTime

\* While the last frame waits for its answer and the master for it, the line
\* brings only the rest of that frame.
LEMMA LineServed ==
    ASSUME Roomy, LineOK, OneFrame, Line,
           (Len(rx) > 0 \/ pc = "send") /\ left = 0 => owed = TRUE /\ gap < patience,
           pc = "send" => left = 0
    PROVE  /\ OneFrame'
           /\ UNCHANGED <<patience, memory>>
           /\ \/ /\ UNCHANGED <<rx, frames, left, owed>> /\ gap' <= gap + 1
              \/ /\ pc # "send" /\ gap' = 0 /\ Len(rx') = Len(rx) + 1
                 /\ Len(rx) > 0 => left > 0
<1>0. /\ Len(rx) \in Nat /\ gap \in Nat /\ left \in 0..(Length - 1)
      /\ patience \in Nat /\ rx \in Seq(1..MaxFrames) /\ ~overrun
      /\ frames \in Seq(Kinds) /\ Len(frames) \in Nat
      BY Constants DEF LineOK, OneFrame
<1>1. CASE Quiet
      BY <1>0, <1>1 DEF Quiet, OneFrame, AtMost
<1>2. CASE NextByte
      <2>1. /\ left > 0 /\ left' = left - 1 /\ frames' = frames /\ owed' = owed
            /\ UNCHANGED <<patience, memory>>
            /\ Receive(Len(frames))
            BY <1>2 DEF NextByte
      <2>2. /\ pc # "send" /\ Len(rx) > 0 /\ Len(rx) = Length - left /\ owed = TRUE
            /\ \A i \in 1..Len(rx) : rx[i] = Len(frames)
            BY <1>0, <2>1 DEF OneFrame
      <2>3. Len(rx) < BufferSize
            BY <1>0, <2>1, <2>2, Constants DEF Roomy
      <2>4. /\ rx' = Append(rx, Len(frames)) /\ gap' = 0
            /\ overrun' = (overrun \/ (pc # "send" /\ Len(rx) >= BufferSize))
            BY <2>1, <2>2, <2>3 DEF Receive
      <2>5. ~overrun'
            <3>1. ~(Len(rx) >= BufferSize)
                  BY <1>0, <2>3, Constants
            <3> QED BY <1>0, <2>4, <3>1, Zenon
      <2>6. /\ Len(rx') = Len(rx) + 1
            /\ \A i \in 1..Len(rx) : rx'[i] = rx[i]
            /\ rx'[Len(rx) + 1] = Len(frames)
            BY <1>0, <2>4, AppendProperties
      <2>7. OneFrame'
            BY <1>0, <2>1, <2>2, <2>5, <2>6, Constants DEF OneFrame
      <2> QED BY <2>1, <2>2, <2>4, <2>6, <2>7
<1>3. CASE FirstByte
      <2>1. /\ left = 0 /\ (owed => gap >= patience) /\ left' = Length - 1
            /\ owed' = TRUE /\ UNCHANGED <<patience, memory>>
            /\ Receive(Len(frames) + 1)
            /\ \E kind \in Kinds : frames' = Append(frames, kind)
            BY <1>3 DEF FirstByte
      <2>2. Len(rx) = 0 /\ pc # "send"
            BY <1>0, <2>1
      <2>3. /\ rx = <<>> /\ Len(rx) < BufferSize /\ Len(frames') = Len(frames) + 1
            BY <1>0, <2>1, <2>2, Constants, EmptySeq, AppendProperties DEF Roomy
      <2>4. /\ rx' = Append(rx, Len(frames) + 1) /\ gap' = 0
            /\ overrun' = (overrun \/ (pc # "send" /\ Len(rx) >= BufferSize))
            BY <2>1, <2>2, <2>3 DEF Receive
      <2>5. ~overrun'
            <3>1. ~(Len(rx) >= BufferSize)
                  BY <1>0, <2>3, Constants
            <3> QED BY <1>0, <2>4, <3>1, Zenon
      <2>6. rx' = <<Len(frames')>> /\ Len(rx') = 1
            BY <2>3, <2>4
      <2>7. OneFrame'
            BY <2>1, <2>5, <2>6, Constants DEF OneFrame
      <2>8. gap' = 0 /\ Len(rx') = Len(rx) + 1 /\ ~(Len(rx) > 0)
            BY <2>2, <2>4, <2>6
      <2> QED BY <2>1, <2>2, <2>7, <2>8
<1> QED BY <1>1, <1>2, <1>3 DEF Line

LEMMA ServedAwayTick ==
    ASSUME Roomy, IInv, Patient, Served, AwayTick PROVE Served'
<1>1. LineOK /\ StationOK /\ OneFrame /\ Position /\ Wanted /\ Deadline
      BY DEF IInv, Served
<1>2. /\ pc = "away" /\ pc' = "away" /\ spent < Away /\ spent' = spent + 1
      /\ since' = AtMost(since + 1, Silence) /\ len' = len /\ Line
      BY DEF AwayTick, station
<1>3. /\ Len(rx) \in Nat /\ len \in 0..Len(rx) /\ gap \in Nat /\ left \in Nat
      /\ since \in 0..Silence /\ spent \in Nat
      /\ patience \in Nat /\ patience >= Away + Silence + ReplyTime
      BY <1>1, PatienceFacts DEF LineOK, StationOK
<1>4. Len(rx) > 0 => owed = TRUE /\ gap < patience
      BY <1>1, <1>2, <1>3, Constants DEF OneFrame, Deadline
<1>5. /\ OneFrame'
      /\ UNCHANGED <<patience, memory>>
      /\ \/ /\ UNCHANGED <<rx, frames, left, owed>> /\ gap' <= gap + 1
         \/ /\ gap' = 0 /\ Len(rx') = Len(rx) + 1
      BY <1>1, <1>2, <1>4, LineServed
<1>6. Position'
      BY <1>2 DEF Position
<1>7. Wanted'
      <2>1. CASE UNCHANGED <<rx, frames, left, owed>>
            BY <1>1, <1>2, <1>5, <2>1 DEF Wanted
      <2>2. CASE Len(rx') = Len(rx) + 1
            BY <1>3, <2>2 DEF Wanted
      <2> QED BY <1>5, <2>1, <2>2
<1>8. LineOK'
      BY <1>1, <1>2, LineEffect DEF IInv
<1>9. Deadline'
      BY <1>1, <1>2, <1>3, <1>5, <1>8, Constants DEF Deadline, AtMost, LineOK
<1> QED BY <1>5, <1>6, <1>7, <1>9 DEF Served

LEMMA ServedTask ==
    ASSUME Roomy, IInv, Patient, Served, Task PROVE Served'
<1>1. LineOK /\ StationOK /\ OneFrame /\ Position /\ Wanted /\ Deadline
      BY DEF IInv, Served
<1>2. /\ pc = "away" /\ pc' = (IF Notice = 0 THEN "away" ELSE "wait")
      /\ len' = Notice /\ since' = NoticedAt /\ spent' = 0
      /\ UNCHANGED <<patience, memory, rx, frames, left, gap, owed, overrun, taken>>
      BY DEF Task
<1>3. /\ Len(rx) \in Nat /\ len \in 0..Len(rx) /\ gap \in Nat
      /\ since \in 0..Silence /\ spent \in Nat /\ spent <= Away
      BY <1>1, <1>2 DEF LineOK, StationOK
<1>4. /\ Notice = Len(rx)
      /\ Len(rx) > len => NoticedAt = 0
      /\ Len(rx) = len => NoticedAt = since
      BY <1>3 DEF Notice, NoticedAt
<1>5. OneFrame' /\ Wanted'
      BY <1>1, <1>2 DEF OneFrame, Wanted
<1>6. Position'
      BY <1>1, <1>2, <1>3, <1>4 DEF Position
<1>7. Deadline'
      BY <1>1, <1>2, <1>3, <1>4, Constants DEF Deadline, AtMost
<1> QED BY <1>5, <1>6, <1>7 DEF Served

LEMMA ServedWait ==
    ASSUME Roomy, IInv, Patient, Served, Wait PROVE Served'
<1>1. LineOK /\ StationOK /\ OneFrame /\ Position /\ Wanted /\ Deadline
      BY DEF IInv, Served
<1>2. pc = "wait" /\ since < Silence /\ len' = Notice /\ taken' = taken
      BY DEF Wait
<1>3. /\ Len(rx) \in Nat /\ len \in 0..Len(rx) /\ len > 0 /\ gap \in Nat /\ left \in Nat
      /\ since \in 0..Silence /\ spent \in Nat /\ spent <= MaxRead + 1
      /\ patience \in Nat /\ patience >= Away + Silence + ReplyTime
      BY <1>1, <1>2, PatienceFacts DEF LineOK, StationOK, Position
<1>4. /\ Notice = Len(rx)
      /\ Len(rx) > len => NoticedAt = 0
      /\ Len(rx) = len => NoticedAt = since
      BY <1>3 DEF Notice, NoticedAt
<1>5. /\ NoticedAt \in 0..(Silence - 1)
      /\ \/ gap <= NoticedAt
         \/ NoticedAt >= AtMost(spent, Silence) /\ gap < NoticedAt + Away
      BY <1>1, <1>2, <1>3, <1>4, Constants DEF Deadline
<1>6. CASE GiveUp
      <2>1. /\ pc' = "away" /\ since' = NoticedAt /\ spent' = 0 /\ spent > MaxRead
            /\ UNCHANGED <<patience, memory, rx, frames, left, gap, owed, overrun>>
            BY <1>6 DEF GiveUp
      <2>2. OneFrame' /\ Position' /\ Wanted'
            BY <1>1, <1>2, <2>1 DEF OneFrame, Position, Wanted
      <2>3. gap <= NoticedAt
            BY <1>3, <1>5, <2>1, Constants DEF Roomy, AtMost
      <2>4. Deadline'
            BY <1>2, <1>3, <1>4, <1>5, <2>1, <2>3, Constants DEF Deadline
      <2> QED BY <2>2, <2>4 DEF Served
<1>7. CASE /\ spent <= MaxRead /\ Line /\ spent' = spent + 1
           /\ since' = AtMost(NoticedAt + 1, Silence) /\ pc' = pc
      <2>1. Len(rx) > 0 /\ owed = TRUE /\ gap < patience
            BY <1>1, <1>3, <1>5, Constants DEF OneFrame
      <2>2. /\ OneFrame'
            /\ UNCHANGED <<patience, memory>>
            /\ \/ /\ UNCHANGED <<rx, frames, left, owed>> /\ gap' <= gap + 1
               \/ gap' = 0 /\ Len(rx') = Len(rx) + 1 /\ left > 0
            BY <1>1, <1>2, <1>7, <2>1, LineServed
      <2>3. since' = NoticedAt + 1
            BY <1>5, <1>7, Constants DEF AtMost
      <2>4. LineOK'
            BY <1>1, <1>7, LineEffect DEF IInv
      <2>5. Position'
            BY <1>2, <1>3, <1>4, <1>7 DEF Position
      <2>6. Wanted'
            BY <1>1, <1>2, <1>3, <1>7, <2>1, <2>2 DEF Wanted
      <2>7. ASSUME UNCHANGED <<rx, frames, left, owed>>, gap' <= gap + 1
            PROVE  Deadline'
            <3>1. pc' = "wait" /\ Len(rx') = len' /\ gap' \in Nat
                  BY <1>2, <1>4, <1>7, <2>4, <2>7 DEF LineOK
            <3>2. CASE gap <= NoticedAt
                  <4>1. gap' <= since'
                        BY <1>3, <1>5, <2>3, <2>7, <3>1, <3>2
                  <4> QED BY <3>1, <4>1 DEF Deadline
            <3>3. CASE NoticedAt >= AtMost(spent, Silence) /\ gap < NoticedAt + Away
                  <4>1. NoticedAt >= spent
                        BY <1>3, <1>5, <3>3, Constants DEF AtMost
                  <4>2. since' >= AtMost(spent', Silence) /\ gap' < since' + Away
                        BY <1>3, <1>5, <1>7, <2>3, <2>7, <3>1, <3>3, <4>1, Constants DEF AtMost
                  <4> QED BY <3>1, <4>2 DEF Deadline
            <3> QED BY <1>5, <3>2, <3>3
      <2>8. ASSUME gap' = 0, Len(rx') = Len(rx) + 1, left > 0
            PROVE  Deadline'
            <3>1. gap < MaxGap
                  BY <1>1, <2>8 DEF LineOK
            <3>2. Settled \/ Fresh
                  BY <1>1, <1>2 DEF IInv, Watched, OneFrame
            <3>3. gap >= NoticedAt
                  BY <1>3, <1>4, <3>2 DEF Settled, Fresh
            <3>4. since' < Silence
                  BY <1>3, <1>5, <2>3, <3>1, <3>3, Constants
            <3>5. pc' = "wait" /\ Len(rx') > len'
                  BY <1>2, <1>3, <1>4, <1>7, <2>8
            <3> QED BY <1>3, <2>8, <3>4, <3>5 DEF Deadline
      <2> QED BY <2>2, <2>5, <2>6, <2>7, <2>8 DEF Served
<1> QED BY <1>6, <1>7 DEF Wait

\* When the wait ends, Serial2 holds exactly the master's last frame.
LEMMA WholeFrame ==
    ASSUME Roomy, IInv, Patient, Served, FrameEnds
    PROVE  /\ left = 0 /\ owed = TRUE
           /\ len = Length /\ Len(rx) = Length
           /\ \A i \in 1..len : rx[i] = Len(frames)
           /\ Head(rx) = Len(frames) /\ rx \in Seq(1..MaxFrames)
           /\ gap < Away + Silence
<1>1. LineOK /\ StationOK /\ Watched /\ OneFrame /\ Position /\ Deadline
      BY DEF IInv, Served
<1>2. pc = "wait" /\ since = Silence
      BY <1>1, Constants DEF FrameEnds, StationOK
<1>3. /\ Len(rx) \in Nat /\ len \in 0..Len(rx) /\ len > 0 /\ gap \in Nat
      /\ left \in 0..(Length - 1) /\ rx \in Seq(1..MaxFrames)
      BY <1>1, <1>2 DEF LineOK, StationOK, Position
<1>4. Len(rx) = len
      BY <1>1, <1>2, <1>3, Constants DEF Deadline
<1>5. gap >= Silence
      BY <1>1, <1>2, <1>3, <1>4 DEF Watched, OneFrame, Settled, Fresh
<1>6. left = 0
      BY <1>1, <1>3, <1>5, Constants DEF LineOK
<1>7. gap < Away + Silence
      BY <1>1, <1>2, <1>3, <1>4, Constants DEF Deadline
<1>8. /\ owed = TRUE /\ Len(rx) = Length
      /\ \A i \in 1..len : rx[i] = Len(frames)
      BY <1>1, <1>3, <1>4, <1>6, Constants DEF OneFrame
<1>9. Head(rx) = rx[1] /\ 1 \in 1..len
      BY <1>3, <1>4
<1> QED BY <1>3, <1>4, <1>6, <1>7, <1>8, <1>9

LEMMA ServedTake ==
    ASSUME Roomy, IInv, Patient, Served, Drop \/ Answer PROVE Served'
<1>1. FrameEnds /\ TakeFrame
      BY DEF Drop, Answer
<1>2. /\ left = 0 /\ owed = TRUE /\ len = Length /\ Len(rx) = Length
      /\ \A i \in 1..len : rx[i] = Len(frames)
      /\ Head(rx) = Len(frames) /\ rx \in Seq(1..MaxFrames)
      /\ gap < Away + Silence
      BY <1>1, WholeFrame
<1>3. /\ taken' = SubSeq(rx, 1, Length) /\ rx' = SubSeq(rx, Length + 1, Length)
      /\ len' = 0
      /\ UNCHANGED <<patience, memory, since, frames, left, gap, owed, overrun>>
      BY <1>1, <1>2 DEF TakeFrame
<1>4. rx' = <<>> /\ Len(rx') = 0
      BY <1>2, <1>3, Constants
<1>5. taken' = rx /\ Len(taken') > 0 /\ Head(taken') = Len(frames)
      BY <1>2, <1>3, Constants
<1>6. ~overrun
      BY DEF Served, OneFrame
<1>7. OneFrame'
      BY <1>2, <1>3, <1>4, <1>6 DEF OneFrame
<1>8. CASE Drop
      <2>1. Sender.to # "own" \/ ~memory \/ ~CrcMatches
            BY <1>8 DEF Drop
      <2>2. Position' /\ Deadline'
            <3>1. pc' = "away" /\ len' = 0 /\ Len(rx') = 0
                  BY <1>3, <1>4, <1>8 DEF Drop
            <3> QED BY <3>1 DEF Position, Deadline
      <2>3. Wanted'
            <3> SUFFICES ASSUME memory = TRUE,
                                frames[Len(frames)] = [to |-> "own", intact |-> TRUE]
                         PROVE  FALSE
                BY <1>3 DEF Wanted
            <3>1. Sender = [to |-> "own", intact |-> TRUE]
                  BY <1>2 DEF Sender
            <3>2. CrcMatches
                  BY <1>2, <3>1 DEF CrcMatches
            <3> QED BY <2>1, <3>1, <3>2
      <2> QED BY <1>7, <2>2, <2>3 DEF Served
<1>9. CASE Answer
      <2>1. pc' = "send" /\ spent' = 0
            BY <1>9 DEF Answer
      <2>2. Position' /\ Wanted'
            BY <1>2, <1>3, <1>4, <1>5, <2>1 DEF Position, Wanted
      <2>3. gap \in Nat
            BY DEF IInv, LineOK
      <2>4. Deadline'
            BY <1>2, <1>3, <2>1, <2>3, Constants DEF Deadline
      <2> QED BY <1>7, <2>2, <2>4 DEF Served
<1> QED BY <1>8, <1>9

LEMMA ServedSend ==
    ASSUME Roomy, IInv, Patient, Served, SendTick \/ Sent PROVE Served'
<1>1. LineOK /\ StationOK /\ OneFrame /\ Position /\ Wanted /\ Deadline
      BY DEF IInv, Served
<1>2. /\ pc = "send" /\ len' = len /\ taken' = taken
      BY DEF SendTick, Sent, station
<1>3. /\ Len(rx) = 0 /\ len = 0 /\ gap \in Nat /\ left = 0 /\ spent \in Nat /\ owed = TRUE
      /\ patience \in Nat /\ patience >= Away + Silence + ReplyTime
      /\ Len(taken) > 0 /\ Head(taken) = Len(frames) /\ spent <= ReplyTime
      /\ gap < Away + Silence + spent
      BY <1>1, <1>2, PatienceFacts DEF LineOK, StationOK, Position, Deadline
<1>4. CASE SendTick
      <2>1. pc' = "send" /\ spent < ReplyTime /\ spent' = spent + 1 /\ Line
            BY <1>4 DEF SendTick
      <2>2. gap < patience
            BY <1>3, <2>1, Constants
      <2>3. /\ OneFrame' /\ UNCHANGED <<memory, rx, frames, left, owed>>
            /\ gap' <= gap + 1
            BY <1>1, <1>2, <1>3, <2>1, <2>2, LineServed
      <2>4. LineOK'
            BY <1>1, <2>1, LineEffect DEF IInv
      <2>5. gap' \in Nat
            BY <2>4 DEF LineOK
      <2>6. Position' /\ Wanted'
            BY <1>2, <1>3, <2>1, <2>3 DEF Position, Wanted
      <2>7. Deadline'
            BY <1>3, <2>1, <2>3, <2>5, Constants DEF Deadline
      <2> QED BY <2>3, <2>6, <2>7 DEF Served
<1>5. CASE Sent
      <2>1. /\ pc' = "away" /\ spent' = 0 /\ owed' = (owed /\ left > 0)
            /\ UNCHANGED <<patience, memory, rx, frames, left, overrun>>
            BY <1>5 DEF Sent
      <2>2. ~owed'
            <3>1. ~(left > 0)
                  BY <1>3
            <3> QED BY <2>1, <3>1, Zenon
      <2>3. OneFrame' /\ Position' /\ Wanted' /\ Deadline'
            BY <1>1, <1>2, <1>3, <2>1, <2>2 DEF OneFrame, Position, Wanted, Deadline
      <2> QED BY <2>3 DEF Served
<1> QED BY <1>4, <1>5

LEMMA StepServed ==
    ASSUME Roomy, IInv, Patient => Served, [Next]_vars PROVE (Patient => Served)'
<1>1. CASE UNCHANGED vars
      <2>1. (Patient <=> Patient') /\ (Served <=> Served')
            BY <1>1 DEF vars, Patient, Served, OneFrame, Position, Wanted, Deadline
      <2> QED BY <2>1
<1>2. CASE Next
      <2> SUFFICES ASSUME Patient' PROVE Served'
          OBVIOUS
      <2>1. patience' = patience
            BY <1>2 DEF Next, AwayTick, Task, Wait, GiveUp, Drop, Answer, TakeFrame, SendTick,
               Sent, Line, Quiet, NextByte, FirstByte
      <2>2. Patient /\ Served
            BY <2>1 DEF Patient
      <2> QED BY <1>2, <2>2, ServedAwayTick, ServedTask, ServedWait, ServedTake, ServedSend
              DEF Next
<1> QED BY <1>1, <1>2

LEMMA InitServed == ASSUME Init PROVE Served
<1>1. Len(<<>>) = 0
      OBVIOUS
<1> QED BY <1>1 DEF Init, Served, OneFrame, Position, Wanted, Deadline

LEMMA ServedPunctual == ASSUME Roomy, IInv, Patient => Served PROVE Punctual
<1>1. CASE ~Patient
      BY <1>1 DEF Patient, Punctual, RepliesFindMasterWaiting, AnswersInTime
<1>2. CASE Patient
      <2>1. LineOK /\ StationOK /\ OneFrame /\ Position /\ Wanted /\ Deadline
            BY <1>2 DEF IInv, Served
      <2>2. RepliesFindMasterWaiting
            BY <2>1 DEF RepliesFindMasterWaiting, Position
      <2>3. /\ Len(rx) \in Nat /\ len \in 0..Len(rx) /\ gap \in Nat
            /\ since \in 0..Silence /\ spent \in Nat
            /\ pc \in {"away", "wait", "send"}
            /\ pc = "away" => spent <= Away
            /\ pc = "send" => spent <= ReplyTime
            BY <2>1 DEF LineOK, StationOK
      <2>4. CASE Len(rx) > 0 \/ pc = "send"
            <3>1. gap < ResponseTime
                  BY <2>1, <2>3, <2>4, Constants DEF Deadline, ResponseTime, Position
            <3> QED BY <2>2, <3>1 DEF Punctual, AnswersInTime
      <2>5. CASE ~(Len(rx) > 0 \/ pc = "send")
            <3>1. owed \in BOOLEAN /\ memory \in BOOLEAN
                  BY <2>1 DEF LineOK
            <3>2. AnswersInTime
                  BY <2>1, <2>5, <3>1 DEF Wanted, AnswersInTime
            <3> QED BY <2>2, <3>2 DEF Punctual
      <2> QED BY <2>4, <2>5
<1> QED BY <1>1, <1>2

\* A master that waits for Away, the silence and the reply has the answer to an
\* intact request within that time, whatever came before it, and never meets a
\* reply on the line, for every length of frame, pass and silence: the passes in
\* which task() gives its wait up cost no more time, because _len and t are kept.
THEOREM AnswersArePunctual ==
    ASSUME Roomy
    PROVE  Spec => []Punctual
<1>1. Init => (Patient => Served)
      BY InitServed
<1>2. IInv /\ (Patient => Served) /\ [Next]_vars => (Patient => Served)'
      BY StepServed
<1>3. IInv /\ (Patient => Served) => Punctual
      BY ServedPunctual
<1> QED BY <1>1, <1>2, <1>3, Invariance, PTL DEF Spec
==========================================================================
