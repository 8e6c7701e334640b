------------------------------ MODULE BusRegister ------------------------------
(***************************************************************************)
(* Registers of a chip behind I2C or SPI, and slices of their bits, as     *)
(* Adafruit BusIO gives them to RTClib and others: the width and the byte  *)
(* order of a register, the ways in which chips tell reading from writing, *)
(* and SPI in software, which drives the lines bit by bit in four modes.   *)
(* A byte or value is the set of its bits that are 1.                      *)
(***************************************************************************)
EXTENDS Naturals, SequencesExt

CONSTANTS Interfaces, \* of "i2c", "hardware" and "software" SPI
          Modes,      \* of SPI: 0..3, bit 0 the phase, bit 1 the idle clock
          RegTypes,   \* the Adafruit_BusIO_SPIRegType, 0..3
          Addresses,  \* of the register: sets of bits
          Values,     \* written to it
          Slices,     \* <<bits, shift>> of the RegisterBits
          Fillings    \* bytes that the registers of the chip hold at first

ASSUME BusAssumption ==
    /\ Modes \subseteq 0..3 /\ RegTypes \subseteq 0..3
    /\ Addresses \subseteq SUBSET (0..15) /\ Fillings \subseteq SUBSET (0..7)

VARIABLES bus,    \* the settings of device and register
          wire,   \* levels of the lines, and what the chip saw on them
          memory, \* the four registers of the chip from that address on
          holds,  \* history: the value that the calls asked for
          doubt,  \* history: the bits of it that a failure may have changed
          outcome \* what the last call returned
busVars == <<bus, wire, memory, holds, doubt, outcome>>

NumberOf(bits) ==
    LET top[n \in 0..16] ==  \* the number that the n highest of 16 bits are
          IF n = 0 THEN 0 ELSE 2 * top[n - 1] + (IF 16 - n \in bits THEN 1 ELSE 0)
    IN top[16]
AllOnes == 0..31

--------------------------------------------------------------------------------
(* The chip.  It knows a write from a read, and the address, by the first   *)
(* bytes that it gets after its select line went low.                       *)
Opcode == 3
Header == bus.addresswidth + (IF bus.interface # "i2c" /\ bus.type = Opcode THEN 1 ELSE 0)

IsRead(bytes) ==
    CASE bus.type \in {0, 1} -> 7 \in bytes[1]
      [] bus.type = 2 -> 7 \notin bytes[1]
      [] bus.type = Opcode -> 0 \in bytes[1]
AddressBits == CASE bus.type \in {0, 2} -> 0..6 [] bus.type = 1 -> 0..5
(* An address has none of the bits that tell reading from writing.          *)
FlagBits == CASE bus.type \in {0, 2} -> {7} [] bus.type = 1 -> {6, 7} [] bus.type = Opcode -> {8}
(* A chip of type 1 moves on from register to register when bit 6 says so.  *)
Step(bytes) == IF bus.type = 1 /\ 6 \notin bytes[1] THEN 0 ELSE 1
AddressOf(bytes) ==
    IF bus.type = Opcode THEN bytes[2] \cup {b + 8 : b \in bytes[1] \ {0}}
    ELSE (bytes[1] \cap AddressBits)
           \cup {b + 8 : b \in IF bus.addresswidth = 2 THEN bytes[2] ELSE {}}
(* The register that byte i of the data concerns.                           *)
Register(bytes, i) == NumberOf(AddressOf(bytes)) - NumberOf(bus.address) + i * Step(bytes)

Reply(bytes) ==
    LET i == Len(bytes) - Header
        r == Register(bytes, i)
    IN IF i >= 0 /\ IsRead(bytes) /\ r \in 0..3 THEN memory[r] ELSE {}

Stored(bytes) ==
    IF Len(bytes) <= Header \/ IsRead(bytes) THEN memory
    ELSE [r \in 0..3 |->
            LET hits == {i \in 0..(Len(bytes) - Header - 1) : Register(bytes, i) = r}
            IN IF hits = {} THEN memory[r]
               ELSE bytes[Header + 1 + CHOOSE i \in hits : \A j \in hits : j <= i]]

BitOrder == IF bus.msbFirst THEN <<7, 6, 5, 4, 3, 2, 1, 0>> ELSE <<0, 1, 2, 3, 4, 5, 6, 7>>

(* Its shift register: the bytes it has, the bits of the next, and the byte *)
(* that it gives meanwhile.                                                 *)
Deselected == [bytes |-> <<>>, bits |-> {}, count |-> 0, out |-> {}]
Shifted(chip, bit) ==
    LET bits == chip.bits \cup (IF bit THEN {BitOrder[chip.count + 1]} ELSE {})
        bytes == Append(chip.bytes, bits)
    IN IF chip.count = 7
       THEN [bytes |-> bytes, bits |-> {}, count |-> 0, out |-> Reply(bytes)]
       ELSE [chip EXCEPT !.bits = bits, !.count = @ + 1]
Driven(chip) == BitOrder[chip.count + 1] \in chip.out

--------------------------------------------------------------------------------
(* transfer() in software.  The chip takes a bit from mosi at one edge of    *)
(* the clock and gives the next at the other, depending on the mode.        *)

SecondPhase == bus.mode \in {1, 3}
Idle == bus.mode \in {2, 3}
Clock(w, level) ==
    IF w.sck = level THEN w
    ELSE IF (level = Idle) = SecondPhase
         THEN [w EXCEPT !.sck = level, !.chip = Shifted(@, w.mosi)]
         ELSE [w EXCEPT !.sck = level, !.miso = Driven(w.chip)]

(* Slip: transfer() takes the line to be low when it begins.                *)
LastMosiLow(byte) == FALSE
LastMosi(byte) == BitOrder[1] \notin byte

TransferBit(s, b) ==
    LET set == b \in s.send
        mosi == IF SecondPhase \/ s.last # set THEN set ELSE s.w.mosi
        high == Clock(IF SecondPhase THEN s.w ELSE [s.w EXCEPT !.mosi = mosi], TRUE)
        low == Clock([high EXCEPT !.mosi = mosi], FALSE)
        bit == IF SecondPhase THEN low.miso ELSE high.miso
    IN [s EXCEPT !.w = low, !.last = set, !.reply = @ \cup (IF bit THEN {b} ELSE {})]

Transfer(s, byte) ==
    LET after[n \in 0..8] ==
          IF n = 0 THEN [s EXCEPT !.send = byte, !.last = LastMosi(byte), !.reply = {}]
          ELSE TransferBit(after[n - 1], BitOrder[n])
    IN [after[8] EXCEPT !.replies = Append(@, after[8].reply)]

setChipSelect(w, high) ==
    IF high THEN [w EXCEPT !.chip = Deselected]
    ELSE [w EXCEPT !.miso = IF SecondPhase THEN @ ELSE Driven(w.chip)]

(* The bytes of a transaction and the chip's answers to them.  Hardware does *)
(* it faithfully; I2C tells the direction apart from the address.           *)
InSoftware(w, bytes) ==
    LET after[n \in 0..Len(bytes)] ==
          IF n = 0 THEN [w |-> setChipSelect(w, FALSE), send |-> {}, last |-> FALSE,
                         reply |-> {}, replies |-> <<>>]
          ELSE Transfer(after[n - 1], bytes[n])
    IN after[Len(bytes)]
Exchange(w, bytes) ==
    IF bus.interface = "software"
    THEN {[w |-> setChipSelect(s.w, TRUE), replies |-> s.replies,
           memory |-> Stored(s.w.chip.bytes)] : s \in {InSoftware(w, bytes)}}
    ELSE {[w |-> w, memory |-> Stored(bytes),
           replies |-> [i \in 1..Len(bytes) |-> Reply(SubSeq(bytes, 1, i - 1))]]}

Filler(len) == [i \in 1..len |-> 0..7]
Data(bytes) == SubSeq(bytes, Header + 1, Len(bytes))

(* write(buffer, len, prefix) and write_then_read(prefix, buffer, len)      *)
SpiWrite(w, header, buffer) == Exchange(w, header \o buffer)
write_then_read(w, header, len) == Exchange(w, header \o Filler(len))

--------------------------------------------------------------------------------
(* Adafruit_BusIO_Register.                                                 *)

LowByte == bus.address \cap 0..7
HighByte == {b - 8 : b \in bus.address \cap 8..15}

AddrBuffer(reading) ==
    CASE bus.type = 0 -> <<IF reading THEN LowByte \cup {7} ELSE LowByte \ {7}, HighByte>>
      [] bus.type = 1 -> <<IF reading THEN LowByte \cup {6, 7}
                           ELSE (LowByte \ {7}) \cup {6}, HighByte>>
      [] bus.type = 2 -> <<IF reading THEN LowByte \ {7} ELSE LowByte \cup {7}, HighByte>>
      [] bus.type = Opcode ->
            <<IF reading THEN HighByte \cup {0} ELSE HighByte \ {0}, LowByte>>
AddressBytes(reading) == SubSeq(AddrBuffer(reading), 1, Header)

(* write(buffer, len) and read(buffer, len).  The I2C chip may not answer,  *)
(* or no longer: a write that fails may have stored some of its bytes.      *)
I2CWritten(buffer) ==
    [r \in 0..3 |-> IF r < Len(buffer) THEN buffer[r + 1] ELSE memory[r]]
WriteBuffer(w, buffer) ==
    IF bus.interface = "i2c"
    THEN {[ok |-> TRUE, w |-> w, memory |-> I2CWritten(buffer)]}
           \cup {[ok |-> FALSE, w |-> w, memory |-> I2CWritten(SubSeq(buffer, 1, n))] :
                   n \in 0..Len(buffer)}
    ELSE {[ok |-> TRUE, w |-> x.w, memory |-> x.memory] :
            x \in SpiWrite(w, AddressBytes(FALSE), buffer)}
ReadBuffer(w, len) ==
    IF bus.interface = "i2c"
    THEN {[ok |-> TRUE, w |-> w, bytes |-> [i \in 1..len |-> memory[i - 1]]],
          [ok |-> FALSE, w |-> w, bytes |-> <<>>]}
    ELSE {[ok |-> TRUE, w |-> x.w, bytes |-> Data(x.replies)] :
            x \in write_then_read(w, AddressBytes(TRUE), len)}

Ordered(bytes) == IF bus.lsbFirst THEN bytes ELSE Reverse(bytes)
BytesOf(value, n) ==
    Ordered([i \in 1..n |-> {b - 8 * (i - 1) : b \in value \cap (8 * (i - 1))..(8 * i - 1)}])
ValueOf(bytes) ==
    LET b == Ordered(bytes)
    IN UNION {{j + 8 * (i - 1) : j \in b[i]} : i \in 1..Len(b)}

(* What read() gives for the result of read(buffer, width).                 *)
ReadValue(r) == IF r.ok THEN ValueOf(r.bytes) ELSE AllOnes

OwnBits == 0..(8 * bus.width - 1)
Truncated(value) == value \cap OwnBits
Untouched == UNCHANGED <<bus, wire, memory, holds, doubt>>

(* The caller has asked that `part` of the register be as in `asked`.  What *)
(* the call can spoil beside it, and what a failed write may have changed,  *)
(* is in doubt until it is written again.                                   *)
Differing(a, b) == (a \ b) \cup (b \ a)
Ask(asked, part, ok, spoilt) ==
    /\ holds' = IF ok THEN asked ELSE holds
    /\ doubt' = spoilt \cup IF ok THEN doubt \ part
                            ELSE doubt \cup Differing(asked, holds)

--------------------------------------------------------------------------------
BusInit ==
    /\ bus \in [interface : Interfaces, mode : Modes, msbFirst : BOOLEAN, type : RegTypes,
                address : Addresses, addresswidth : {1, 2}, width : {1, 2, 4},
                lsbFirst : BOOLEAN]
    /\ bus.type = Opcode => bus.addresswidth = 1  \* addrbuffer has two bytes
    /\ (bus.addresswidth = 1 /\ bus.type # Opcode) = (bus.address \subseteq 0..7)
    /\ bus.address \cap FlagBits = {}
    /\ bus.interface # "software" => bus.mode = 0 /\ bus.msbFirst
    /\ bus.interface = "i2c" => bus.type = 0
    /\ wire = [sck |-> Idle, mosi |-> TRUE, miso |-> FALSE, chip |-> Deselected]  \* begin()
    /\ \E byte \in Fillings :
         /\ memory = [r \in 0..3 |-> byte]
         /\ holds = ValueOf([r \in 1..bus.width |-> byte])
    /\ doubt = {}
    /\ outcome = [call |-> "none"]

(* write(value, numbytes): 0 stands for the width, more than 4 is refused.  *)
WriteValue(value, numbytes) ==
    IF numbytes > 4 THEN outcome' = [call |-> "write", ok |-> FALSE] /\ Untouched
    ELSE \E x \in WriteBuffer(wire, BytesOf(value, bus.width)) :
           /\ wire' = x.w /\ memory' = x.memory
           /\ Ask(Truncated(value), OwnBits, x.ok, {})
           /\ outcome' = [call |-> "write", ok |-> x.ok] /\ UNCHANGED bus

(* read(), or one that gives as many bytes.                                 *)
ReadRegister ==
    \E r \in ReadBuffer(wire, bus.width) :
        /\ wire' = r.w /\ outcome' = [call |-> "read", ok |-> r.ok, value |-> ReadValue(r)]
        /\ UNCHANGED <<bus, memory, holds, doubt>>

InSlice(slice) == slice[2]..(slice[2] + slice[1] - 1)
Extract(slice, value) == {b - slice[2] : b \in value \cap InSlice(slice)}
Insert(slice, value, data) ==
    (value \ InSlice(slice)) \cup {b + slice[2] : b \in data \cap 0..(slice[1] - 1)}

ReadBits(slice) ==
    \E r \in ReadBuffer(wire, bus.width) :
        /\ wire' = r.w
        /\ outcome' = [call |-> "bits", ok |-> r.ok, slice |-> slice,
                      value |-> Extract(slice, ReadValue(r))]
        /\ UNCHANGED <<bus, memory, holds, doubt>>

(* A read that fails goes unnoticed: its ones are written around the slice. *)
WriteBits(slice, data) ==
    \E r \in ReadBuffer(wire, bus.width) :
        LET value == Insert(slice, ReadValue(r), data)
        IN \E x \in WriteBuffer(r.w, BytesOf(value, bus.width)) :
             /\ wire' = x.w /\ memory' = x.memory
             /\ Ask(Truncated(Insert(slice, holds, data)), InSlice(slice), x.ok,
                    IF r.ok THEN {} ELSE OwnBits \ InSlice(slice))
             /\ outcome' = [call |-> "write", ok |-> x.ok] /\ UNCHANGED bus

BusNext ==
    \/ \E value \in Values, numbytes \in {0, 5} : WriteValue(value, numbytes)
    \/ ReadRegister
    \/ \E slice \in Slices : ReadBits(slice)
    \/ \E slice \in Slices, data \in Values : WriteBits(slice, data)

BusSpec == BusInit /\ [][BusNext]_busVars

--------------------------------------------------------------------------------
(* Whatever the bus, its mode and orders, the type of the register, its     *)
(* address and width: the chip holds the value that the calls asked for, no *)
(* other register is written, a write to a slice changes no bit outside of  *)
(* it, and a read that succeeds gives that value.  Excepted are the bits in *)
(* doubt: those that an I2C write that failed should have changed, and those*)
(* outside of a slice that is written although the read before it failed    *)
(* (Adafruit_BusIO_Register.cpp 320, which line 295 does not foresee), until*)
(* they are written again.  Not in mode 3 in software, where transfer()     *)
(* leaves the clock low: the chip never sees the edge for the last bit.     *)
RegisterAsGiven ==
    ~(bus.interface = "software" /\ bus.mode = 3) =>
        (/\ Differing(ValueOf([i \in 1..bus.width |-> memory[i - 1]]), holds) \subseteq doubt
         /\ \A r \in bus.width..3 : memory[r] \in Fillings
         /\ outcome.call = "read" /\ outcome.ok
               => Differing(outcome.value, holds) \subseteq doubt
         /\ outcome.call = "bits" /\ outcome.ok
               => Differing(outcome.value, Extract(outcome.slice, holds))
                    \subseteq Extract(outcome.slice, doubt))
================================================================================
