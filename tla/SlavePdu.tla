----------------------------- MODULE SlavePdu -----------------------------
(***************************************************************************)
(* The register bank and slavePDU() of modbus_rtu_library/Modbus.cpp: what *)
(* one request does to the registers, and what is answered.                *)
(*                                                                         *)
(* A word is the set of its bits that are one, so that the masks of        *)
(* function 0x16 are intersection and union.  Function codes, exceptions   *)
(* and register kinds keep the names of Modbus.h.  No callback is          *)
(* registered by the station, so Reg() stores and returns plain values,    *)
(* and _onRequest always says EX_SUCCESS.                                  *)
(***************************************************************************)
EXTENDS Integers, Sequences

CONSTANTS
    Space,      \* how many addresses there are: 65536
    Existing,   \* the <<kind, address>> pairs that addReg has added
    Bits,       \* the bits of a word: 0..15
    On,         \* what a coil that is on holds: 0xFF00
    Lists,      \* the lists of words that multiple writes carry
    MaxWords,   \* MODBUS_MAX_WORDS
    MaxBits     \* MODBUS_MAX_BITS

Kinds   == {"COIL", "ISTS", "IREG", "HREG"}
Address == 0..(Space - 1)
Word    == SUBSET Bits
Zero    == {}

ASSUME SlavePduAssumption ==
    /\ Space \in Nat \ {0}
    /\ Existing \subseteq Kinds \X Address
    /\ On \in Word
    /\ Lists \subseteq Seq(Word)
    /\ MaxWords \in 0..(Space - 1) /\ MaxBits \in 0..(Space - 1)

FunctionCodes ==
    {"FC_READ_COILS", "FC_READ_INPUT_STAT", "FC_READ_REGS", "FC_READ_INPUT_REGS",
     "FC_WRITE_COIL", "FC_WRITE_REG", "FC_WRITE_COILS", "FC_WRITE_REGS",
     "FC_READ_FILE_REC", "FC_WRITE_FILE_REC", "FC_MASKWRITE_REG",
     "FC_READWRITE_REGS", "other"}

Exceptions == {"EX_ILLEGAL_FUNCTION", "EX_ILLEGAL_ADDRESS",
               "EX_ILLEGAL_VALUE", "EX_SLAVE_FAILURE"}

\* Is there memory?  For every buffer; for the two bytes of an exception but
\* not for a reply; for nothing.
Heaps == {"ok", "tight", "full"}

\* The registers that a loop of n steps reaches from address a on: addresses
\* are uint16_t, and the one behind the last is the first.
Span(kind, a, n) == {<<kind, (a + i) % Space>> : i \in 0..(n - 1)}

VARIABLES
    regs,     \* _regs: the value of every register that exists
    last,     \* the request as it came: its function, and the kind, the first
              \* address and the number of the registers it names to write
    reply     \* _reply as slavePDU leaves it: the exception sent, if it is one;
              \* "null frame" is REPLY_NORMAL without a frame

vars == <<regs, last, reply>>

Init ==
    /\ regs = [r \in Existing |-> Zero]
    /\ last = [fn |-> "none", kind |-> "HREG", a |-> 0, n |-> 0]
    /\ reply = "REPLY_OFF"

Exists(kind, a) == <<kind, a>> \in Existing

\* Reg(address): a register that does not exist reads as zero.
Reg(kind, a) == IF Exists(kind, a) THEN regs[<<kind, a>>] ELSE Zero

Asked(fn, kind, a, n) == last' = [fn |-> fn, kind |-> kind, a |-> a, n |-> n]
NamesNone(fn) == Asked(fn, "HREG", 0, 0)

\* Slip: the exception is sent without looking at its buffer.
RefuseUnchecked(heap, ex) == reply' = IF heap = "full" THEN "null frame" ELSE ex

\* exceptionResponse: without memory nothing is sent.
Refuse(heap, ex) == reply' = IF heap = "full" THEN "REPLY_OFF" ELSE ex

\* REPLY_ECHO sends the request back from the buffer it came in.
Echo == reply' = "REPLY_ECHO"

\* successResponce, and the caller's _reply = REPLY_NORMAL after it: without
\* memory rawSend is given no frame.
Succeed(heap) == reply' = IF heap = "ok" THEN "REPLY_NORMAL" ELSE "null frame"

\* Slip: the range is not compared with the last address.
CountableAnywhere(a, n, max) == n >= 1 /\ n <= max

\* The check of a count in every multiple request: one to max of them, and no
\* further than the last address (which is therefore never reached).
Countable(a, n, max) == n >= 1 /\ n <= max /\ (Space - 1) - a >= n

--------------------------------------------------------------------------
(* Reading. *)

\* readWords and readBits differ in their limit and in the exception for a
\* start that does not exist; only the start is looked up.
Read(heap, kind, a, n, max, missing) ==
    IF ~Countable(a, n, max) THEN Refuse(heap, "EX_ILLEGAL_VALUE")
    ELSE IF ~Exists(kind, a) THEN Refuse(heap, missing)
    ELSE IF heap # "ok"      THEN Refuse(heap, "EX_SLAVE_FAILURE")
    ELSE reply' = "REPLY_NORMAL"

ReadWords(heap, fn, kind, a, n) ==
    /\ NamesNone(fn)
    /\ Read(heap, kind, a, n, MaxWords, "EX_ILLEGAL_ADDRESS")
    /\ UNCHANGED regs

ReadBits(heap, fn, kind, a, n) ==
    /\ NamesNone(fn)
    /\ Read(heap, kind, a, n, MaxBits, "EX_ILLEGAL_VALUE")
    /\ UNCHANGED regs

--------------------------------------------------------------------------
(* Writing one register. *)

\* Reg(address, value), and the reading back that follows it.
Store(heap, kind, a, value) ==
    IF Exists(kind, a)
    THEN regs' = [regs EXCEPT ![<<kind, a>>] = value] /\ Echo
    ELSE UNCHANGED regs /\ Refuse(heap, "EX_ILLEGAL_ADDRESS")

WriteReg(heap, a, value) ==
    /\ Asked("FC_WRITE_REG", "HREG", a, 1)
    /\ Store(heap, "HREG", a, value)

WriteCoil(heap, a, value) ==
    /\ Asked("FC_WRITE_COIL", "COIL", a, 1)
    /\ IF value \in {On, Zero}
       THEN Store(heap, "COIL", a, value)
       ELSE UNCHANGED regs /\ Refuse(heap, "EX_ILLEGAL_VALUE")

\* (current AND and_mask) OR (or_mask AND NOT and_mask)
Masked(value, and_mask, or_mask) ==
    (value \cap and_mask) \cup (or_mask \ and_mask)

MaskWrite(heap, a, and_mask, or_mask) ==
    /\ Asked("FC_MASKWRITE_REG", "HREG", a, 1)
    /\ Store(heap, "HREG", a, Masked(Reg("HREG", a), and_mask, or_mask))

--------------------------------------------------------------------------
(* Writing several registers. *)

\* setMultipleWords, setMultipleBits: registers that do not exist are skipped.
Stored(kind, a, values) ==
    [r \in Existing |->
        IF r \in Span(kind, a, Len(values))
        THEN values[((r[2] - a) % Space) + 1] ELSE regs[r]]

\* Their result: every value reads back, a missing register as zero.
ReadsBack(kind, a, values) ==
    \A i \in 1..Len(values) :
        Exists(kind, (a + i - 1) % Space) \/ values[i] = Zero

\* Slips: as in readWords, only the start is looked up; the registers are
\* written while they are looked up.
WriteMultipleStartOnly(heap, kind, a, values, sized, max) ==
    IF ~Countable(a, Len(values), max) \/ ~sized
    THEN UNCHANGED regs /\ Refuse(heap, "EX_ILLEGAL_VALUE")
    ELSE IF ~Exists(kind, a)
    THEN UNCHANGED regs /\ Refuse(heap, "EX_ILLEGAL_ADDRESS")
    ELSE regs' = Stored(kind, a, values) /\ Succeed(heap)
WriteMultipleUnchecked(heap, kind, a, values, sized, max) ==
    IF ~Countable(a, Len(values), max) \/ ~sized
    THEN UNCHANGED regs /\ Refuse(heap, "EX_ILLEGAL_VALUE")
    ELSE /\ regs' = Stored(kind, a, values)
         /\ IF Span(kind, a, Len(values)) \subseteq Existing
            THEN Succeed(heap) ELSE Refuse(heap, "EX_ILLEGAL_ADDRESS")

\* FC_WRITE_REGS and FC_WRITE_COILS look every address up before they write.
WriteMultiple(heap, kind, a, values, sized, max) ==
    IF ~Countable(a, Len(values), max) \/ ~sized
    THEN UNCHANGED regs /\ Refuse(heap, "EX_ILLEGAL_VALUE")
    ELSE IF ~(Span(kind, a, Len(values)) \subseteq Existing)
    THEN UNCHANGED regs /\ Refuse(heap, "EX_ILLEGAL_ADDRESS")
    ELSE regs' = Stored(kind, a, values) /\ Succeed(heap)

\* sized: the byte count in the request is the one its number of registers has.
WriteRegs(heap, a, values, sized) ==
    /\ Asked("FC_WRITE_REGS", "HREG", a, Len(values))
    /\ WriteMultiple(heap, "HREG", a, values, sized, MaxWords)

WriteCoils(heap, a, values, sized) ==
    /\ Asked("FC_WRITE_COILS", "COIL", a, Len(values))
    /\ WriteMultiple(heap, "COIL", a, values, sized, MaxBits)

\* FC_READWRITE_REGS checks the range to read twice and the range to write
\* never, and writes before anything is looked up; the reply is of the reading.
ReadWrite(heap, a, n, w, values, sized) ==
    /\ Asked("FC_READWRITE_REGS", "HREG", w, Len(values))
    /\ IF ~Countable(a, n, MaxWords) \/ Len(values) \notin 1..MaxWords \/ ~sized
       THEN UNCHANGED regs /\ Refuse(heap, "EX_ILLEGAL_VALUE")
       ELSE /\ regs' = Stored("HREG", w, values)
            /\ IF ~ReadsBack("HREG", w, values) THEN Refuse(heap, "EX_SLAVE_FAILURE")
               ELSE IF ~Exists("HREG", a)       THEN Refuse(heap, "EX_ILLEGAL_ADDRESS")
               ELSE IF heap # "ok"              THEN Refuse(heap, "EX_SLAVE_FAILURE")
               ELSE reply' = "REPLY_NORMAL"

--------------------------------------------------------------------------
(* The rest. *)

\* FC_READ_FILE_REC: the size of the request and its sub-requests are checked,
\* the reply's buffer is taken, and then there is no onFile to read from.
ReadFile(heap, sized, wellFormed) ==
    /\ NamesNone("FC_READ_FILE_REC")
    /\ Refuse(heap, IF ~sized               THEN "EX_ILLEGAL_VALUE"
                    ELSE IF ~wellFormed     THEN "EX_ILLEGAL_ADDRESS"
                    ELSE IF heap # "ok"     THEN "EX_SLAVE_FAILURE"
                    ELSE "EX_ILLEGAL_ADDRESS")
    /\ UNCHANGED regs

\* FC_WRITE_FILE_REC has no onFile to write to either.
WriteFile(heap, sized) ==
    /\ NamesNone("FC_WRITE_FILE_REC")
    /\ Refuse(heap, IF sized THEN "EX_ILLEGAL_ADDRESS" ELSE "EX_ILLEGAL_VALUE")
    /\ UNCHANGED regs

OtherFunction(heap) ==
    /\ NamesNone("other")
    /\ Refuse(heap, "EX_ILLEGAL_FUNCTION")
    /\ UNCHANGED regs

\* mb.Hreg(address, value) in my_modbus.cpp: the station publishes a value.
Publish(a, value) ==
    /\ Asked("local", "HREG", a, 1)
    /\ regs' = IF Exists("HREG", a) THEN [regs EXCEPT ![<<"HREG", a>>] = value]
                                    ELSE regs
    /\ UNCHANGED reply

--------------------------------------------------------------------------
Counts(max) == 0..(max + 1)
Coils == {values \in Lists : \A i \in 1..Len(values) : values[i] \in {On, Zero}}

SlavePDU(heap) ==
    \/ \E a \in Address, n \in Counts(MaxWords) :
           \/ ReadWords(heap, "FC_READ_REGS", "HREG", a, n)
           \/ ReadWords(heap, "FC_READ_INPUT_REGS", "IREG", a, n)
    \/ \E a \in Address, n \in Counts(MaxBits) :
           \/ ReadBits(heap, "FC_READ_COILS", "COIL", a, n)
           \/ ReadBits(heap, "FC_READ_INPUT_STAT", "ISTS", a, n)
    \/ \E a \in Address, value \in Word :
           WriteReg(heap, a, value) \/ WriteCoil(heap, a, value)
    \/ \E a \in Address, and_mask, or_mask \in Word :
           MaskWrite(heap, a, and_mask, or_mask)
    \/ \E a \in Address, values \in Lists, sized \in BOOLEAN :
           WriteRegs(heap, a, values, sized)
    \/ \E a \in Address, values \in Coils, sized \in BOOLEAN :
           WriteCoils(heap, a, values, sized)
    \/ \E a, w \in Address, n \in Counts(MaxWords), values \in Lists,
          sized \in BOOLEAN : ReadWrite(heap, a, n, w, values, sized)
    \/ \E sized, wellFormed \in BOOLEAN :
           ReadFile(heap, sized, wellFormed) \/ WriteFile(heap, sized)
    \/ OtherFunction(heap)

Next == \/ \E heap \in Heaps : SlavePDU(heap)
        \/ \E a \in Address, value \in Word : Publish(a, value)

Spec == Init /\ [][Next]_vars
--------------------------------------------------------------------------
(* Properties. *)

Replies == Exceptions \cup {"REPLY_OFF", "REPLY_ECHO", "REPLY_NORMAL", "null frame"}

\* Registers keep their words, and a reply is one that task() knows.
TypeOK ==
    /\ regs \in [Existing -> Word]
    /\ last \in [fn : FunctionCodes \cup {"none", "local"},
                 kind : Kinds, a : Address, n : Nat]
    /\ reply \in Replies

Positive == {"REPLY_ECHO", "REPLY_NORMAL"}
Request == last'.fn # "local"

\* A request that is refused has changed nothing, however many registers it
\* names and wherever among them the missing one is; FC_READWRITE_REGS, which
\* writes before it looks, is the exception.
RefusedChangesNothing ==
    [][(Request /\ reply' \in Exceptions /\ last'.fn # "FC_READWRITE_REGS")
         => regs' = regs]_vars

\* The registers that a request names, by its offset and its count: those
\* behind the last address are none at all.
NamedBy(request) ==
    {<<request.kind, request.a + i>> : i \in 0..(request.n - 1)}

\* FC_READWRITE_REGS never compares the range it writes with the last address.
Overruns(request) ==
    request.fn = "FC_READWRITE_REGS" /\ request.a + request.n > Space

\* No request touches a register that its offset and its count do not name,
\* although the loops of setMultipleWords and setMultipleBits go on from the
\* last address to the first.  The exception is an FC_READWRITE_REGS whose
\* range runs over the last address: it changes registers at the bottom, as
\* far as the range runs over, and no others.
OnlyNamedRegistersChange ==
    [][\A r \in Existing : regs'[r] # regs[r] =>
          \/ r \in NamedBy(last')
          \/ Overruns(last') /\ <<r[1], r[2] + Space>> \in NamedBy(last')]_vars

\* A write that is acknowledged names, by its offset and its count, registers
\* that exist and no others; FC_READWRITE_REGS is the exception.
AcknowledgedWritesExist ==
    [][(Request /\ reply' \in Positive /\ last'.fn # "FC_READWRITE_REGS")
         => NamedBy(last') \subseteq Existing]_vars

\* When memory runs out, nothing but a multiple write leaves task() a reply
\* without a frame: successResponce sets REPLY_OFF and slavePDU overrides it.
OnlyMultipleWritesLoseTheFrame ==
    reply = "null frame" => last.fn \in {"FC_WRITE_REGS", "FC_WRITE_COILS", "local"}
==========================================================================
