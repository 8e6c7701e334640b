-------------------------------- MODULE RtuFrame --------------------------------
(***************************************************************************)
(* What guards a frame on the RS-485 line: the CRC that rawSend() appends  *)
(* and task() compares, computed by crc16() from a table of words, and the *)
(* silence that ends a frame.  Sender and receiver run crc16() over the    *)
(* whole frame; here both go along with the bytes on the line, which may   *)
(* damage two bytes that follow each other.                                *)
(***************************************************************************)
EXTENDS Integers, Sequences, Bitwise

CONSTANTS Bytes,      \* bytes that frames are made of
          Damages,    \* what damage flips in a byte, as a mask
          MaxLength,  \* bytes of a PDU
          Bauds       \* speeds of the port

ASSUME RtuFrameAssumption ==
    /\ Bytes \subseteq 0..255 /\ Damages \subseteq 1..255
    /\ MaxLength \in Nat /\ Bauds \subseteq 1..115200

VARIABLES baud,      \* the speed of the port
          t,         \* the silence that ends a frame, of begin(port)
          stage,     \* what comes next: "address", "pdu", "lo", "silence", "done"
          length,    \* bytes of the PDU so far
          sentCrc,   \* the register of the sender
          reference, \* the one of the Modbus specification
          gotCrc,    \* the register of the receiver
          frameCrc,  \* the last two bytes received
          damage,    \* bytes since the damage began, 0 when there was none
          accepted   \* what the receiver decides

frameVars == <<baud, t, stage, length, sentCrc, reference, gotCrc, frameCrc,
               damage, accepted>>

NibbleXor == [x \in 0..15 |-> [y \in 0..15 |-> x ^^ y]]
ByteXor == [x \in 0..255 |-> [y \in 0..255 |->
               16 * NibbleXor[x \div 16][y \div 16] + NibbleXor[x % 16][y % 16]]]
Xored(x, y) == ByteXor[x][y]
LowOf(word) == word % 256
HighOf(word) == word \div 256

--------------------------------------------------------------------------------
auchCRC == <<
    \h0000, \hC1C0, \h81C1, \h4001, \h01C3, \hC003, \h8002, \h41C2, \h01C6, \hC006,
    \h8007, \h41C7, \h0005, \hC1C5, \h81C4, \h4004, \h01CC, \hC00C, \h800D, \h41CD,
    \h000F, \hC1CF, \h81CE, \h400E, \h000A, \hC1CA, \h81CB, \h400B, \h01C9, \hC009,
    \h8008, \h41C8, \h01D8, \hC018, \h8019, \h41D9, \h001B, \hC1DB, \h81DA, \h401A,
    \h001E, \hC1DE, \h81DF, \h401F, \h01DD, \hC01D, \h801C, \h41DC, \h0014, \hC1D4,
    \h81D5, \h4015, \h01D7, \hC017, \h8016, \h41D6, \h01D2, \hC012, \h8013, \h41D3,
    \h0011, \hC1D1, \h81D0, \h4010, \h01F0, \hC030, \h8031, \h41F1, \h0033, \hC1F3,
    \h81F2, \h4032, \h0036, \hC1F6, \h81F7, \h4037, \h01F5, \hC035, \h8034, \h41F4,
    \h003C, \hC1FC, \h81FD, \h403D, \h01FF, \hC03F, \h803E, \h41FE, \h01FA, \hC03A,
    \h803B, \h41FB, \h0039, \hC1F9, \h81F8, \h4038, \h0028, \hC1E8, \h81E9, \h4029,
    \h01EB, \hC02B, \h802A, \h41EA, \h01EE, \hC02E, \h802F, \h41EF, \h002D, \hC1ED,
    \h81EC, \h402C, \h01E4, \hC024, \h8025, \h41E5, \h0027, \hC1E7, \h81E6, \h4026,
    \h0022, \hC1E2, \h81E3, \h4023, \h01E1, \hC021, \h8020, \h41E0, \h01A0, \hC060,
    \h8061, \h41A1, \h0063, \hC1A3, \h81A2, \h4062, \h0066, \hC1A6, \h81A7, \h4067,
    \h01A5, \hC065, \h8064, \h41A4, \h006C, \hC1AC, \h81AD, \h406D, \h01AF, \hC06F,
    \h806E, \h41AE, \h01AA, \hC06A, \h806B, \h41AB, \h0069, \hC1A9, \h81A8, \h4068,
    \h0078, \hC1B8, \h81B9, \h4079, \h01BB, \hC07B, \h807A, \h41BA, \h01BE, \hC07E,
    \h807F, \h41BF, \h007D, \hC1BD, \h81BC, \h407C, \h01B4, \hC074, \h8075, \h41B5,
    \h0077, \hC1B7, \h81B6, \h4076, \h0072, \hC1B2, \h81B3, \h4073, \h01B1, \hC071,
    \h8070, \h41B0, \h0050, \hC190, \h8191, \h4051, \h0193, \hC053, \h8052, \h4192,
    \h0196, \hC056, \h8057, \h4197, \h0055, \hC195, \h8194, \h4054, \h019C, \hC05C,
    \h805D, \h419D, \h005F, \hC19F, \h819E, \h405E, \h005A, \hC19A, \h819B, \h405B,
    \h0199, \hC059, \h8058, \h4198, \h0188, \hC048, \h8049, \h4189, \h004B, \hC18B,
    \h818A, \h404A, \h004E, \hC18E, \h818F, \h404F, \h018D, \hC04D, \h804C, \h418C,
    \h0044, \hC184, \h8185, \h4045, \h0187, \hC047, \h8046, \h4186, \h0182, \hC042,
    \h8043, \h4183, \h0041, \hC181, \h8180, \h4040, \h0000 >>

(* crc16(): what the address makes of the register, and each byte after it.  *)
(* CRCHi is the half that is sent first.                                     *)
CrcOfAddress(a) == LET val == auchCRC[Xored(255, a) + 1]
                   IN [hi |-> Xored(255, HighOf(val)), lo |-> LowOf(val)]

CrcForgetsLow(crc, b) == LET val == auchCRC[Xored(crc.hi, b) + 1]
                         IN [hi |-> HighOf(val), lo |-> LowOf(val)]
CrcOfByte(crc, b) == LET val == auchCRC[Xored(crc.hi, b) + 1]
                     IN [hi |-> Xored(crc.lo, HighOf(val)), lo |-> LowOf(val)]

(* charSendTime and calculateMinimumInterFrameTime, in microseconds.         *)
CharBits == 11
charSendTime(speed) == (CharBits * 1000000) \div speed
calculateMinimumInterFrameTime(speed) ==
    IF speed > 19200 THEN 1750 ELSE (7 * charSendTime(speed)) \div 2

(* One bit of the register that the specification shifts, and one byte.      *)
Shifted(reg) ==
    LET half == reg \div 2
    IN IF reg % 2 = 0 THEN half ELSE Xored(LowOf(half), 1) + 256 * Xored(HighOf(half), 160)
ReferenceStep(reg, b) ==
    LET first == Xored(LowOf(reg), b) + 256 * HighOf(reg)
    IN Shifted(Shifted(Shifted(Shifted(Shifted(Shifted(Shifted(Shifted(first))))))))

--------------------------------------------------------------------------------
FrameInit ==
    /\ baud \in Bauds /\ t = calculateMinimumInterFrameTime(baud)
    /\ stage = "address" /\ length = 0 /\ damage = 0 /\ accepted = FALSE
    /\ sentCrc = [hi |-> 255, lo |-> 255] /\ gotCrc = sentCrc
    /\ frameCrc = [hi |-> 0, lo |-> 0] /\ reference = 65535

(* The line flips the bits of the mask: of one byte, or of two neighbours.   *)
Flips(mask) ==
    IF mask = 0 THEN damage' = (IF damage = 0 THEN 0 ELSE 2)
                ELSE damage < 2 /\ damage' = damage + 1
ErrorMasks == {0} \cup Damages

SendAddress ==
    /\ stage = "address"
    /\ \E b \in Bytes, mask \in ErrorMasks :
        /\ Flips(mask)
        /\ sentCrc' = CrcOfAddress(b) /\ gotCrc' = CrcOfAddress(Xored(b, mask))
        /\ reference' = ReferenceStep(reference, b)
    /\ stage' = "pdu"
    /\ UNCHANGED <<baud, t, length, frameCrc, accepted>>

SendByte ==
    /\ stage = "pdu" /\ length < MaxLength
    /\ \E b \in Bytes, mask \in ErrorMasks :
        /\ Flips(mask)
        /\ sentCrc' = CrcOfByte(sentCrc, b) /\ gotCrc' = CrcOfByte(gotCrc, Xored(b, mask))
        /\ reference' = ReferenceStep(reference, b)
    /\ length' = length + 1
    /\ UNCHANGED <<baud, t, stage, frameCrc, accepted>>

(* newCrc >> 8, then newCrc & 0xFF.                                          *)
SendCrcHi ==
    /\ stage = "pdu" /\ length > 0 /\ stage' = "lo"
    /\ \E mask \in ErrorMasks :
        Flips(mask) /\ frameCrc' = [frameCrc EXCEPT !.hi = Xored(sentCrc.hi, mask)]
    /\ UNCHANGED <<baud, t, length, sentCrc, reference, gotCrc, accepted>>

SendCrcLo ==
    /\ stage = "lo" /\ stage' = "silence"
    /\ \E mask \in ErrorMasks :
        Flips(mask) /\ frameCrc' = [frameCrc EXCEPT !.lo = Xored(sentCrc.lo, mask)]
    /\ UNCHANGED <<baud, t, length, sentCrc, reference, gotCrc, accepted>>

(* task(), after the silence: the last two bytes against crc16().            *)
CheckCrc ==
    /\ stage = "silence" /\ stage' = "done"
    /\ accepted' = (frameCrc = gotCrc)
    /\ UNCHANGED <<baud, t, length, sentCrc, reference, gotCrc, frameCrc, damage>>

NextFrame ==
    /\ stage = "done" /\ stage' = "address" /\ length' = 0 /\ damage' = 0
    /\ sentCrc' = [hi |-> 255, lo |-> 255] /\ gotCrc' = sentCrc'
    /\ frameCrc' = [hi |-> 0, lo |-> 0] /\ reference' = 65535 /\ accepted' = FALSE
    /\ UNCHANGED <<baud, t>>

FrameNext == NextFrame \/ SendAddress \/ SendByte \/ SendCrcHi \/ SendCrcLo \/ CheckCrc

--------------------------------------------------------------------------------
(* The table and the two halves compute the CRC of the Modbus specification, *)
(* whatever byte comes next, and leave the half first that other devices     *)
(* expect first.                                                             *)
CrcIsModbus ==
    /\ sentCrc.hi + 256 * sentCrc.lo = reference
    /\ stage = "pdu" /\ damage = 0 =>
           \A b \in 0..255 : LET crc == CrcOfByte(sentCrc, b)
                             IN crc.hi + 256 * crc.lo = ReferenceStep(reference, b)

(* The receiver takes a frame exactly when the line did no damage: no damage *)
(* to one byte or to two neighbours, the CRC's own included, goes unnoticed. *)
DamageIsNoticed == stage = "done" => accepted = (damage = 0)

(* The silence is three and a half characters, less what two divisions lose, *)
(* and never so short that the pause between two characters ends a frame.    *)
SilenceIsLong ==
    IF baud > 19200 THEN t = 1750
    ELSE 77000000 \in (2 * baud * t)..(2 * baud * (t + 5))

FrameIsGuarded == CrcIsModbus /\ DamageIsNoticed /\ SilenceIsLong
================================================================================
