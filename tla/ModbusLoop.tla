------------------------------ MODULE ModbusLoop ------------------------------
(***************************************************************************)
(* A call of the ModbusAPI from end to end: the master's library builds    *)
(* the request, slavePDU() of SlavePdu serves it on the slave's bank, and  *)
(* masterPDU() stores what the answer brings and tells the application.    *)
(* Here the bytes matter: words cross the line with the high byte first,   *)
(* coils packed into bytes, and a frame's length is an uint8_t.            *)
(***************************************************************************)
EXTENDS SlavePdu, FiniteSets

CONSTANTS
    ByteBits,     \* bits of a byte: 8
    Octet,        \* how many values a uint8_t has: 256
    MaxRwWrites,  \* words that readWriteHreg writes at most: 0x79
    Capacity,     \* MODBUS_MAX_REGS
    Words,        \* the words an application writes
    Masks,        \* masks of maskHreg
    OwnRegisters  \* the <<kind, address>> pairs the master has at first

ASSUME ModbusLoopAssumption ==
    /\ ByteBits \in Nat \ {0} /\ Bits = 0..(2 * ByteBits - 1)
    /\ Words \subseteq Word /\ Masks \subseteq Word /\ \E w \in Words : w # Zero
    /\ OwnRegisters \subseteq Kinds \X Address

VARIABLES
    local,   \* _regs of the master
    line,    \* what is on its way: nothing, a request or an answer
    out,     \* the buffer of the application
    told,    \* the result the callback is given
    \* history, for the properties only
    call,    \* what the application asked for
    was,     \* the slave's registers before it served the request
    seen,    \* and after it
    kept     \* the master's registers when the request was sent

ownVars == <<local, line, out, told, call, was, seen, kept>>
loopVars == <<vars, ownVars>>

Nothing == [at |-> "nobody"]
NoCall == [op |-> "none"]

--------------------------------------------------------------------------------
(* Words and coils as bytes.  A byte is the set of its bits that are one.   *)

Low(w) == w \cap 0..(ByteBits - 1)
High(w) == {b - ByteBits : b \in w \ Low(w)}
Joined(low, high) == low \cup {b + ByteBits : b \in high}

(* __swap_16; memory holds the low byte first.                              *)
Swap(w) == Joined(High(w), Low(w))
InMemory(w) == <<Low(w), High(w)>>

(* writeSlaveWords and getMultipleWords; setMultipleWords.                  *)
OnLineUnswapped(values) ==
    [i \in 1..(2 * Len(values)) |-> InMemory(values[(i + 1) \div 2])[2 - (i % 2)]]
OnLine(values) ==
    [i \in 1..(2 * Len(values)) |-> InMemory(Swap(values[(i + 1) \div 2]))[2 - (i % 2)]]
FromLine(bytes) ==
    [i \in 1..(Len(bytes) \div 2) |-> Swap(Joined(bytes[2 * i - 1], bytes[2 * i]))]

BytesFor(n) == (n + ByteBits - 1) \div ByteBits

(* boolToBits and getMultipleBits; setMultipleBits and bitsToBool, which    *)
(* take n bits.                                                             *)
Packed(values) ==
    [i \in 1..BytesFor(Len(values)) |->
        {b \in 0..(ByteBits - 1) :
            LET j == (i - 1) * ByteBits + b + 1
            IN j <= Len(values) /\ values[j] = On}]
Unpacked(bytes, n) ==
    [j \in 1..n |->
        IF (j - 1) % ByteBits \in bytes[((j - 1) \div ByteBits) + 1] THEN On ELSE Zero]

IsBits(kind) == kind \in {"COIL", "ISTS"}
Encoded(kind, values) == IF IsBits(kind) THEN Packed(values) ELSE OnLine(values)
Decoded(kind, bytes, n) == IF IsBits(kind) THEN Unpacked(bytes, n) ELSE FromLine(bytes)

(* Reg() of a bank: the address behind the last is the first, and a missing *)
(* register reads as zero.                                                  *)
ReadsAs(bank, r) ==
    LET at == <<r[1], r[2] % Space>> IN IF at \in DOMAIN bank THEN bank[at] ELSE Zero

Held(bank, kind, a, n) == [i \in 1..n |-> ReadsAs(bank, <<kind, a + i - 1>>)]

(* What a list asks for: a value for each register, counted on from the     *)
(* first without a thought of where the addresses end.                      *)
Listed(kind, a, values) ==
    [r \in {<<kind, a + i>> : i \in 0..(Len(values) - 1)} |-> values[r[2] - a + 1]]

--------------------------------------------------------------------------------
(* The master: a call builds a frame and sends it.                          *)

Idle == line.at = "nobody" /\ told = "none" /\ call = NoCall

(* send(), when there was memory for the frame.  rawSend's length wraps: of *)
(* a full frame only address and CRC leave, and the slave takes the CRC for *)
(* a function code.                                                         *)
Send(asked, request, size, heap) ==
    /\ Idle /\ call' = asked
    /\ line' = IF heap # "ok" THEN Nothing
               ELSE [at |-> "slave", request |-> request, whole |-> size % Octet # 0]
    /\ told' = IF heap # "ok" THEN "not sent" ELSE "none"
    /\ UNCHANGED <<vars, out, was, seen>>

(* readSlave() of a write; a single coil is 0xFF00 or 0.                    *)
WriteOne(fn, kind, a, value, heap) ==
    /\ Send([op |-> "write", writes |-> [r \in {<<kind, a>>} |-> value]],
            [fn |-> fn, a |-> a, value |-> value], 5, heap)
    /\ kept' = local /\ UNCHANGED local

(* writeCoil and writeHreg with a list, and the four kinds of push, which   *)
(* take it from the master's registers.                                     *)
FrameOfMany(kind, a, values) ==
    [fn |-> IF kind = "COIL" THEN "FC_WRITE_COILS" ELSE "FC_WRITE_REGS", a |-> a,
     n |-> Len(values), data |-> Encoded(kind, values)]

WriteMany(kind, a, values, heap) ==
    /\ Len(values) \in 1..(IF kind = "COIL" THEN MaxBits ELSE MaxWords)
    /\ Send([op |-> "write", writes |-> Listed(kind, a, values)],
            FrameOfMany(kind, a, values),
            6 + Len(Encoded(kind, values)), heap)
    /\ kept' = local /\ UNCHANGED local

Push(fromKind, b, kind, a, n, heap) ==
    /\ <<fromKind, b>> \in DOMAIN local
    /\ WriteMany(kind, a, Held(local, fromKind, b, n), heap)

(* readCoil ... readIreg with a buffer, or without one: then the answer     *)
(* goes to the master's own registers of the same kind.                     *)
ReadFunction(kind) ==
    CASE kind = "COIL" -> "FC_READ_COILS"      [] kind = "ISTS" -> "FC_READ_INPUT_STAT"
      [] kind = "HREG" -> "FC_READ_REGS"       [] kind = "IREG" -> "FC_READ_INPUT_REGS"

KindOf(fn) ==
    CASE fn = "FC_READ_COILS" -> "COIL"     [] fn = "FC_READ_INPUT_STAT" -> "ISTS"
      [] fn \in {"FC_READ_REGS", "FC_READWRITE_REGS"} -> "HREG"
      [] fn = "FC_READ_INPUT_REGS" -> "IREG"
Reading == {"FC_READ_COILS", "FC_READ_INPUT_STAT", "FC_READ_REGS", "FC_READ_INPUT_REGS",
            "FC_READWRITE_REGS"}

ReadMany(kind, a, n, where, heap) ==
    /\ n \in 1..(IF IsBits(kind) THEN MaxBits ELSE MaxWords)
    /\ Send([op |-> "read", kind |-> kind, a |-> a, n |-> n, where |-> where],
            [fn |-> ReadFunction(kind), a |-> a, n |-> n], 5, heap)

Read1(kind, a, n, where, heap) ==
    ReadMany(kind, a, n, where, heap) /\ kept' = local /\ UNCHANGED local

(* addReg() leaves out the last address, and adds nothing over capacity.    *)
WithRegisters(kind, b, n) ==
    LET added == {<<kind, b + i>> : i \in 0..((IF Space - 1 - b < n
                                               THEN Space - 1 - b ELSE n) - 1)}
    IN IF Cardinality(DOMAIN local) + n > Capacity THEN local
       ELSE [r \in DOMAIN local \cup added |->
                IF r \in DOMAIN local THEN local[r] ELSE Zero]

Pull(kind, a, toKind, b, n, heap) ==
    /\ ReadMany(kind, a, n, <<toKind, b>>, heap)
    /\ local' = WithRegisters(toKind, b, n) /\ kept' = local'

(* maskHreg alone does not look whether there was memory for its frame: it  *)
(* writes through a null pointer, which stops the processor.  The call is   *)
(* the last that is heard of this master.                                   *)
Crash(asked) ==
    /\ Idle /\ call' = asked /\ told' = "crashed"
    /\ UNCHANGED <<vars, line, out, was, seen>>

MaskHreg(a, and_mask, or_mask, heap) ==
    /\ LET asked == [op |-> "mask", a |-> a, and_mask |-> and_mask, or_mask |-> or_mask]
       IN \/ heap # "ok" /\ Crash(asked)
          \/ heap = "ok" /\ Send(asked, [fn |-> "FC_MASKWRITE_REG", a |-> a,
                                  and_mask |-> and_mask, or_mask |-> or_mask], 7, heap)
    /\ kept' = local /\ UNCHANGED local

ReadWriteHreg(a, n, w, values, heap) ==
    /\ n \in 1..MaxWords /\ Len(values) \in 1..MaxRwWrites
    /\ Send([op |-> "readwrite", kind |-> "HREG", a |-> a, n |-> n, where |-> "buffer",
             writes |-> Listed("HREG", w, values)],
            [fn |-> "FC_READWRITE_REGS", a |-> a, n |-> n, w |-> w,
             data |-> OnLine(values)],
            10 + 2 * Len(values), heap)
    /\ kept' = local /\ UNCHANGED local

--------------------------------------------------------------------------------
(* The slave serves what reaches it.                                        *)

Slave(heap, q) ==
    \/ q.fn = "FC_WRITE_REG" /\ WriteReg(heap, q.a, q.value)
    \/ q.fn = "FC_WRITE_COIL" /\ WriteCoil(heap, q.a, q.value)
    \/ q.fn = "FC_WRITE_REGS"
         /\ WriteRegs(heap, q.a, FromLine(q.data), Len(q.data) = 2 * q.n)
    \/ q.fn = "FC_WRITE_COILS"
         /\ WriteCoils(heap, q.a, Unpacked(q.data, q.n), Len(q.data) = BytesFor(q.n))
    \/ q.fn \in {"FC_READ_REGS", "FC_READ_INPUT_REGS"}
         /\ ReadWords(heap, q.fn, KindOf(q.fn), q.a, q.n)
    \/ q.fn \in {"FC_READ_COILS", "FC_READ_INPUT_STAT"}
         /\ ReadBits(heap, q.fn, KindOf(q.fn), q.a, q.n)
    \/ q.fn = "FC_MASKWRITE_REG" /\ MaskWrite(heap, q.a, q.and_mask, q.or_mask)
    \/ q.fn = "FC_READWRITE_REGS"
         /\ ReadWrite(heap, q.a, q.n, q.w, FromLine(q.data), TRUE)

(* An answer carries the function of its request, the exception if there is *)
(* one, and what was read as it is after the request is done.               *)
Answer(q, fn) ==
    CASE reply' \in Exceptions -> [at |-> "master", request |-> q, fn |-> fn, ex |-> reply']
      [] reply' \in Positive ->
           [at |-> "master", request |-> q, fn |-> fn, ex |-> "none",
            data |-> IF fn \in Reading
                     THEN Encoded(KindOf(fn), Held(regs', KindOf(fn), q.a, q.n))
                     ELSE <<>>]
      [] OTHER -> Nothing

Serve ==
    /\ line.at = "slave"
    /\ \E heap \in Heaps :
        \/ /\ line.whole /\ Slave(heap, line.request)
           /\ line' = Answer(line.request, line.request.fn)
        \/ /\ ~ line.whole /\ OtherFunction(heap)
           /\ line' = Answer(line.request, "other")
    /\ was' = regs /\ seen' = regs'
    /\ UNCHANGED <<local, out, told, call, kept>>

(* The slave's own application goes on.                                     *)
SlavePublishes ==
    /\ line.at = "master"
    /\ \E a \in Address, value \in Words : Exists("HREG", a) /\ Publish(a, value)
    /\ UNCHANGED ownVars

Lost ==
    /\ line # Nothing /\ line' = Nothing
    /\ UNCHANGED <<vars, local, out, told, call, was, seen, kept>>

--------------------------------------------------------------------------------
(* The master is answered: masterPDU().                                     *)

(* setMultipleWords and setMultipleBits: registers that do not exist are    *)
(* skipped, and nobody looks at the result.                                 *)
StoredIn(bank, kind, a, values) ==
    [r \in DOMAIN bank |-> IF r \in Span(kind, a, Len(values))
                           THEN values[((r[2] - a) % Space) + 1] ELSE bank[r]]

MasterPDU ==
    /\ line.at = "master" /\ line.fn = line.request.fn
    /\ told' = IF line.ex = "none" THEN "EX_SUCCESS" ELSE line.ex
    /\ IF line.ex = "none" /\ line.fn \in Reading
       THEN LET values == Decoded(KindOf(line.fn), line.data, line.request.n)
            IN IF call.where = "buffer"
               THEN out' = values /\ UNCHANGED local
               ELSE /\ local' = StoredIn(local, call.where[1], call.where[2], values)
                    /\ UNCHANGED out
       ELSE UNCHANGED <<out, local>>
    /\ line' = Nothing
    /\ UNCHANGED <<vars, call, was, seen, kept>>

(* An answer to another function is dropped; the request times out.         *)
NotMine ==
    /\ line.at = "master" /\ line.fn # line.request.fn
    /\ line' = Nothing
    /\ UNCHANGED <<vars, local, out, told, call, was, seen, kept>>

Timeout ==
    /\ call # NoCall /\ told = "none" /\ line = Nothing
    /\ told' = "EX_TIMEOUT"
    /\ UNCHANGED <<vars, local, line, out, call, was, seen, kept>>

(* One call is looked at; what the next one finds is a bank like any other. *)
Told == told # "none" /\ UNCHANGED loopVars

--------------------------------------------------------------------------------
(* What the banks hold at first, so that neighbours differ.                 *)
Pattern(registers, parity) ==
    [r \in registers |-> IF r[2] % 2 = parity THEN Zero
                         ELSE IF IsBits(r[1]) THEN On
                         ELSE CHOOSE w \in Words : w # Zero]

LoopInit ==
    /\ \E parity \in {0, 1} :
           regs = Pattern(Existing, parity) /\ local = Pattern(OwnRegisters, parity)
    /\ last = [fn |-> "none", kind |-> "HREG", a |-> 0, n |-> 0] /\ reply = "REPLY_OFF"
    /\ line = Nothing /\ out = <<>> /\ told = "none"
    /\ call = NoCall /\ was = <<>> /\ seen = <<>> /\ kept = <<>>

Coil == {On, Zero}

Ask(heap) ==
    \E a \in Address :
        \/ \E value \in Words : WriteOne("FC_WRITE_REG", "HREG", a, value, heap)
        \/ \E value \in Coil : WriteOne("FC_WRITE_COIL", "COIL", a, value, heap)
        \/ \E values \in Lists : WriteMany("HREG", a, values, heap)
        \/ \E n \in 1..MaxBits : \E values \in [1..n -> Coil] :
               WriteMany("COIL", a, values, heap)
        \/ \E b \in Address, n \in 1..MaxBits :
               \/ Push("COIL", b, "COIL", a, n, heap) \/ Push("ISTS", b, "COIL", a, n, heap)
               \/ Push("HREG", b, "HREG", a, n, heap) \/ Push("IREG", b, "HREG", a, n, heap)
               \/ \E kind \in Kinds : Pull(kind, a, kind, b, n, heap)
               \/ Pull("HREG", a, "IREG", b, n, heap) \/ Pull("COIL", a, "ISTS", b, n, heap)
        \/ \E kind \in Kinds, n \in 1..MaxBits :
               \/ Read1(kind, a, n, "buffer", heap) \/ Read1(kind, a, n, <<kind, a>>, heap)
        \/ \E and_mask, or_mask \in Masks : MaskHreg(a, and_mask, or_mask, heap)
        \/ \E n \in 1..MaxWords, w \in Address, values \in Lists :
               ReadWriteHreg(a, n, w, values, heap)

LoopNext == \/ \E heap \in {"ok", "full"} : Ask(heap)
            \/ Serve \/ SlavePublishes \/ Lost \/ MasterPDU \/ NotMine \/ Timeout \/ Told

LoopSpec == LoopInit /\ [][LoopNext]_loopVars

--------------------------------------------------------------------------------
(* An application that is told EX_SUCCESS has got what it asked for: what it *)
(* wrote is in the slave's registers, what it read is what they held when    *)
(* the slave served it (of a range, registers that are missing behind the    *)
(* first read as zero), in the buffer or in the master's own registers, and  *)
(* no other register of the master has changed; where the range to fill runs *)
(* over the master's last address, the registers at its bottom are the rest. *)
(*                                                                           *)
(* What readWriteHreg writes is the exception: FC_READWRITE_REGS looks       *)
(* neither whether those registers exist nor where the addresses end, only   *)
(* whether every value reads back.  So EX_SUCCESS does not say that they     *)
(* exist: zeros that were meant for a register that does not are            *)
(* acknowledged although nothing was stored, and of a range that runs over   *)
(* the last address the rest is in registers at the bottom that nobody       *)
(* named.                                                                    *)
Written ==
    /\ call.op = "write" =>
           \A r \in DOMAIN call.writes : r \in Existing /\ seen[r] = call.writes[r]
    /\ call.op = "readwrite" =>
           \A r \in DOMAIN call.writes : ReadsAs(seen, r) = call.writes[r]
    /\ call.op = "mask" =>
           seen[<<"HREG", call.a>>] =
               Masked(was[<<"HREG", call.a>>], call.and_mask, call.or_mask)

Obtained ==
    call.op \in {"read", "readwrite"} =>
        LET values == Held(seen, call.kind, call.a, call.n)
        IN IF call.where = "buffer" THEN out = values /\ local = kept
           ELSE \A r \in DOMAIN local :
                    local[r] = IF r \in Span(call.where[1], call.where[2], call.n)
                               THEN values[((r[2] - call.where[2]) % Space) + 1]
                               ELSE kept[r]

SuccessMeansDone == told = "EX_SUCCESS" => Written /\ Obtained
================================================================================
