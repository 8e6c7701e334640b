------------------------- MODULE SlavePduProofs -------------------------
(***************************************************************************)
(* Proofs about SlavePdu, ModbusLoop and FileRecords, for every address    *)
(* space, set of registers, width of a word, limit on a count, and length  *)
(* of a file's registers.                                                  *)
(*                                                                         *)
(* Every function of slavePDU ends in one of a few ways (it refuses,       *)
(* stores one register, stores a list, or only reads), so the lemmas of    *)
(* the first part are about those, and each action of Next is a case of    *)
(* one lemma.  The second part follows a call of the ModbusAPI to the      *)
(* slave and back: words and coils come out of a frame as they went in,    *)
(* and every step keeps LoopInv, which says what each frame on the line    *)
(* has to do with the call that is under way.  The third part does the     *)
(* same for files: what the loops of both sides string together lies in    *)
(* known places of the frame, and masterPDU() walks along those places.    *)
(***************************************************************************)
EXTENDS ModbusLoop, FileRecords, WellFoundedInduction, TLAPS

\* The bodies of the action properties of SlavePdu.
Clean == (Request /\ reply' \in Exceptions /\ last'.fn # "FC_READWRITE_REGS")
            => regs' = regs
Named == \A r \in Existing : regs'[r] # regs[r] =>
            \/ r \in NamedBy(last')
            \/ Overruns(last') /\ <<r[1], r[2] + Space>> \in NamedBy(last')
Reached == (Request /\ reply' \in Positive /\ last'.fn # "FC_READWRITE_REGS")
            => NamedBy(last') \subseteq Existing

\* What is shown of every step.
Sound == /\ TypeOK'
         /\ OnlyMultipleWritesLoseTheFrame'
         /\ Clean
         /\ Named
         /\ Reached

Refusals == {"EX_ILLEGAL_FUNCTION", "EX_ILLEGAL_ADDRESS", "EX_ILLEGAL_VALUE",
             "EX_SLAVE_FAILURE"}

--------------------------------------------------------------------------
\* exceptionResponse answers with the exception it is given, or not at all.
LEMMA RefuseAnswers ==
    ASSUME NEW heap, NEW ex \in Refusals, Refuse(heap, ex)
    PROVE  reply' \in Exceptions \cup {"REPLY_OFF"}
BY DEF Refuse, Refusals, Exceptions

\* A request that leaves the registers alone and names none is sound, whether
\* it is refused or answered.
LEMMA QuietStep ==
    ASSUME TypeOK, NEW fn \in FunctionCodes, NamesNone(fn), UNCHANGED regs,
           reply' \in Exceptions \cup {"REPLY_OFF", "REPLY_NORMAL"}
    PROVE  Sound
<1>1. /\ last' = [fn |-> fn, kind |-> "HREG", a |-> 0, n |-> 0]
      /\ regs' = regs /\ NamedBy(last') = {}
      BY DEF NamesNone, Asked, NamedBy
<1>2. TypeOK'
      <2>1. 0 \in Address /\ "HREG" \in Kinds
            BY SlavePduAssumption DEF Address, Kinds
      <2> QED BY <1>1, <2>1 DEF TypeOK, Replies
<1>3. OnlyMultipleWritesLoseTheFrame'
      BY DEF OnlyMultipleWritesLoseTheFrame, Exceptions
<1> QED BY <1>1, <1>2, <1>3 DEF Sound, Clean, Named, Reached

\* A request that is refused without touching a register is sound, whatever
\* registers it names.
LEMMA RefusedStep ==
    ASSUME TypeOK, NEW fn \in FunctionCodes,
           NEW kind \in Kinds, NEW a \in Address, NEW n \in Nat,
           NEW heap, NEW ex \in Refusals,
           Asked(fn, kind, a, n), UNCHANGED regs, Refuse(heap, ex)
    PROVE  Sound
<1>1. /\ last' = [fn |-> fn, kind |-> kind, a |-> a, n |-> n]
      /\ regs' = regs
      /\ reply' \in Exceptions \cup {"REPLY_OFF"}
      BY RefuseAnswers DEF Asked
<1>2. TypeOK'
      BY <1>1 DEF TypeOK, Replies
<1>3. /\ OnlyMultipleWritesLoseTheFrame'
      /\ Reached
      BY <1>1 DEF OnlyMultipleWritesLoseTheFrame, Reached, Exceptions, Positive
<1> QED BY <1>1, <1>2, <1>3 DEF Sound, Clean, Named

\* A request for one register names that register.
LEMMA NamesOne ==
    ASSUME NEW fn, NEW kind, NEW a \in Address
    PROVE  NamedBy([fn |-> fn, kind |-> kind, a |-> a, n |-> 1]) = {<<kind, a>>}
<1>1. 0..(1 - 1) = {0} /\ a + 0 = a
      BY DEF Address
<1> QED BY <1>1 DEF NamedBy

\* A loop of n steps reaches the registers that the request names, or those at
\* the bottom of the bank when the range runs over the last address.
LEMMA LoopReaches ==
    ASSUME NEW fn, NEW kind, NEW a \in Address, NEW n \in Nat, n <= Space,
           NEW r \in Span(kind, a, n)
    PROVE  LET q == [fn |-> fn, kind |-> kind, a |-> a, n |-> n]
           IN  \/ r \in NamedBy(q)
               \/ a + n > Space /\ <<r[1], r[2] + Space>> \in NamedBy(q)
<1>1. PICK i \in 0..(n - 1) : r = <<kind, (a + i) % Space>>
      BY DEF Span
<1>2. /\ a \in Nat /\ a < Space /\ i \in Nat /\ i < n /\ i < Space
      /\ Space \in Nat /\ Space > 0
      BY SlavePduAssumption DEF Address
<1>3. CASE a + i < Space
      <2>1. (a + i) % Space = a + i
            BY <1>2, <1>3
      <2> QED BY <1>1, <2>1 DEF NamedBy
<1>4. CASE a + i >= Space
      <2>1. (a + i) % Space = a + i - Space
            BY <1>2, <1>4
      <2>2. r[1] = kind /\ r[2] + Space = a + i
            BY <1>1, <1>2, <2>1
      <2>3. a + n > Space
            BY <1>2, <1>4
      <2> QED BY <2>2, <2>3 DEF NamedBy
<1> QED BY <1>2, <1>3, <1>4

\* Where the range ends before the last address, it reaches all that it names.
LEMMA RangeIsNamed ==
    ASSUME NEW fn, NEW kind, NEW a \in Address, NEW n \in Nat, a + n <= Space
    PROVE  Span(kind, a, n) = NamedBy([fn |-> fn, kind |-> kind, a |-> a, n |-> n])
<1>1. \A i \in 0..(n - 1) : (a + i) % Space = a + i
      <2>1. TAKE i \in 0..(n - 1)
      <2>2. a + i \in 0..(Space - 1) /\ Space \in Nat /\ Space > 0
            BY SlavePduAssumption DEF Address
      <2> QED BY <2>2
<1> QED BY <1>1 DEF Span, NamedBy

\* FC_WRITE_REG, FC_WRITE_COIL and FC_MASKWRITE_REG: one register, or a refusal.
LEMMA StoreStep ==
    ASSUME TypeOK, NEW fn \in FunctionCodes, NEW heap,
           NEW kind \in Kinds, NEW a \in Address, NEW value \in Word,
           Asked(fn, kind, a, 1), Store(heap, kind, a, value)
    PROVE  Sound
<1>1. CASE ~Exists(kind, a)
      <2>1. UNCHANGED regs /\ Refuse(heap, "EX_ILLEGAL_ADDRESS")
            BY <1>1 DEF Store
      <2> QED BY <2>1, RefusedStep DEF Refusals
<1>2. CASE Exists(kind, a)
      <2>1. /\ regs' = [regs EXCEPT ![<<kind, a>>] = value]
            /\ reply' = "REPLY_ECHO"
            /\ last' = [fn |-> fn, kind |-> kind, a |-> a, n |-> 1]
            /\ NamedBy(last') = {<<kind, a>>}
            /\ <<kind, a>> \in Existing
            BY <1>2, NamesOne DEF Store, Echo, Asked, Exists
      <2>2. TypeOK'
            BY <2>1, SlavePduAssumption DEF TypeOK, Replies, FunctionCodes
      <2>3. Named
            BY <2>1 DEF Named, TypeOK
      <2>4. /\ OnlyMultipleWritesLoseTheFrame'
            /\ Clean /\ Reached
            BY <2>1 DEF OnlyMultipleWritesLoseTheFrame, Clean, Reached,
                        Exceptions, Positive, FunctionCodes
      <2> QED BY <2>2, <2>3, <2>4 DEF Sound
<1> QED BY <1>1, <1>2

--------------------------------------------------------------------------
\* setMultipleWords and setMultipleBits keep every register a word, and touch
\* none outside the list.
LEMMA StoredType ==
    ASSUME TypeOK, NEW kind \in Kinds, NEW a \in Address, NEW values \in Seq(Word),
           Len(values) <= Space
    PROVE  /\ Stored(kind, a, values) \in [Existing -> Word]
           /\ \A r \in Existing : Stored(kind, a, values)[r] # regs[r]
                                    => r \in Span(kind, a, Len(values))
<1>1. ASSUME NEW r \in Existing, r \in Span(kind, a, Len(values))
      PROVE  values[((r[2] - a) % Space) + 1] \in Word
      <2>1. PICK i \in 0..(Len(values) - 1) : r = <<kind, (a + i) % Space>>
            BY <1>1 DEF Span
      <2>2. /\ a \in Nat /\ a < Space
            /\ i \in Nat /\ i < Len(values) /\ i < Space
            /\ Space \in Nat /\ Space > 0
            BY SlavePduAssumption DEF Address
      <2>3. (((a + i) % Space) - a) % Space = i
            <3>1. CASE a + i < Space
                  <4>1. (a + i) % Space = a + i
                        BY <3>1, <2>2
                  <4> QED BY <4>1, <2>2
            <3>2. CASE a + i >= Space
                  <4>1. (a + i) % Space = a + i - Space
                        BY <3>2, <2>2
                  <4>2. (i - Space) % Space = i
                        BY <2>2
                  <4> QED BY <4>1, <4>2, <2>2
            <3> QED BY <3>1, <3>2, <2>2
      <2> QED BY <2>1, <2>2, <2>3
<1> QED BY <1>1 DEF Stored, TypeOK

\* FC_WRITE_REGS and FC_WRITE_COILS: all of the list, or a refusal.
LEMMA WriteMultipleStep ==
    ASSUME TypeOK, NEW fn \in {"FC_WRITE_REGS", "FC_WRITE_COILS"}, NEW heap,
           NEW kind \in Kinds, NEW a \in Address, NEW values \in Seq(Word),
           NEW sized \in BOOLEAN, NEW max \in 0..(Space - 1),
           Asked(fn, kind, a, Len(values)),
           WriteMultiple(heap, kind, a, values, sized, max)
    PROVE  Sound
<1> DEFINE writes == Span(kind, a, Len(values))
<1>2. CASE ~Countable(a, Len(values), max) \/ ~sized
      <2>1. UNCHANGED regs /\ Refuse(heap, "EX_ILLEGAL_VALUE")
            BY <1>2 DEF WriteMultiple
      <2> QED BY <2>1, RefusedStep DEF Refusals, FunctionCodes
<1>3. CASE /\ ~(~Countable(a, Len(values), max) \/ ~sized)
           /\ ~(writes \subseteq Existing)
      <2>1. UNCHANGED regs /\ Refuse(heap, "EX_ILLEGAL_ADDRESS")
            BY <1>3 DEF WriteMultiple
      <2> QED BY <2>1, RefusedStep DEF Refusals, FunctionCodes
<1>4. CASE /\ ~(~Countable(a, Len(values), max) \/ ~sized)
           /\ writes \subseteq Existing
      <2>1. /\ regs' = Stored(kind, a, values)
            /\ reply' \in {"REPLY_NORMAL", "null frame"}
            /\ last' = [fn |-> fn, kind |-> kind, a |-> a, n |-> Len(values)]
            BY <1>4 DEF WriteMultiple, Succeed, Asked
      <2>2. /\ Len(values) \in Nat /\ Len(values) <= Space
            /\ a + Len(values) <= Space
            BY <1>4, SlavePduAssumption DEF Countable, Address
      <2>3. writes = NamedBy(last')
            BY <2>1, <2>2, RangeIsNamed
      <2>5. Named
            <3>1. \A r \in Existing : Stored(kind, a, values)[r] # regs[r] => r \in writes
                  BY <2>2, StoredType
            <3> HIDE DEF writes
            <3> QED BY <2>1, <2>3, <3>1 DEF Named
      <2>6. TypeOK'
            <3>1. regs' \in [Existing -> Word]
                  BY <2>1, <2>2, StoredType
            <3> QED BY <2>1, <2>2, <3>1 DEF TypeOK, Replies, FunctionCodes
      <2>4. /\ OnlyMultipleWritesLoseTheFrame'
            /\ Clean /\ Reached
            BY <2>1, <2>3, <1>4 DEF OnlyMultipleWritesLoseTheFrame, Clean, Reached,
                                    Exceptions, Positive
      <2> QED BY <2>4, <2>5, <2>6 DEF Sound
<1> QED BY <1>2, <1>3, <1>4

\* FC_READWRITE_REGS writes before it looks, yet writes only what it names, or
\* the bottom of the bank when its range runs over the last address.
LEMMA ReadWriteStep ==
    ASSUME TypeOK, NEW heap, NEW a \in Address, NEW w \in Address, NEW n \in Nat,
           NEW values \in Seq(Word), NEW sized \in BOOLEAN,
           ReadWrite(heap, a, n, w, values, sized)
    PROVE  Sound
<1> DEFINE writes == Span("HREG", w, Len(values))
           Illegal == \/ ~Countable(a, n, MaxWords)
                      \/ Len(values) \notin 1..MaxWords \/ ~sized
<1>0. "HREG" \in Kinds
      BY DEF Kinds
<1>2. CASE Illegal
      <2>1. /\ UNCHANGED regs /\ Refuse(heap, "EX_ILLEGAL_VALUE")
            /\ Asked("FC_READWRITE_REGS", "HREG", w, Len(values))
            BY <1>2 DEF ReadWrite
      <2> QED BY <2>1, <1>0, RefusedStep DEF Refusals, FunctionCodes
<1>3. CASE ~Illegal
      <2>1. /\ regs' = Stored("HREG", w, values)
            /\ last' = [fn |-> "FC_READWRITE_REGS", kind |-> "HREG", a |-> w,
                        n |-> Len(values)]
            /\ reply' \in Exceptions \cup {"REPLY_OFF", "REPLY_NORMAL"}
            BY <1>3 DEF ReadWrite, Asked, Refuse, Exceptions
      <2>2. Len(values) <= Space
            BY <1>3, SlavePduAssumption
      <2>3. /\ Stored("HREG", w, values) \in [Existing -> Word]
            /\ \A r \in Existing : Stored("HREG", w, values)[r] # regs[r] => r \in writes
            BY <2>2, <1>0, StoredType
      <2>5. ASSUME NEW r \in writes
            PROVE  \/ r \in NamedBy(last')
                   \/ Overruns(last') /\ <<r[1], r[2] + Space>> \in NamedBy(last')
            <3>1. Len(values) \in Nat
                  OBVIOUS
            <3>2. \/ r \in NamedBy(last')
                  \/ /\ w + Len(values) > Space
                     /\ <<r[1], r[2] + Space>> \in NamedBy(last')
                  BY <2>1, <2>2, <2>5, <3>1, LoopReaches
            <3> QED BY <2>1, <3>2 DEF Overruns
      <2>6. Named
            BY <2>1, <2>3, <2>5 DEF Named
      <2>7. TypeOK'
            <3>1. Len(values) \in Nat
                  OBVIOUS
            <3> QED BY <2>1, <2>3, <1>0, <3>1 DEF TypeOK, Replies, FunctionCodes
      <2>4. /\ OnlyMultipleWritesLoseTheFrame'
            /\ Clean /\ Reached
            BY <2>1 DEF OnlyMultipleWritesLoseTheFrame, Clean, Reached, Exceptions
      <2> QED BY <2>4, <2>6, <2>7 DEF Sound
<1> QED BY <1>2, <1>3

--------------------------------------------------------------------------
LEMMA InitTypeOK == Init => TypeOK /\ OnlyMultipleWritesLoseTheFrame
BY SlavePduAssumption DEF Init, TypeOK, OnlyMultipleWritesLoseTheFrame, Replies,
                          Zero, Word, Kinds, Address

\* Every request and every value published is sound.
LEMMA NextSound == ASSUME TypeOK, Next, OnlyMultipleWritesLoseTheFrame PROVE Sound
<1> USE DEF Kinds, FunctionCodes
<1>1. ASSUME NEW heap \in Heaps, SlavePDU(heap) PROVE Sound
      <2>1. ASSUME NEW a \in Address, NEW n \in Counts(MaxWords), NEW fn \in {"FC_READ_REGS", "FC_READ_INPUT_REGS"},
                   NEW kind \in Kinds, ReadWords(heap, fn, kind, a, n)
            PROVE  Sound
            BY <2>1, QuietStep DEF ReadWords, Read, Refuse, Exceptions
      <2>2. ASSUME NEW a \in Address, NEW n \in Counts(MaxBits), NEW fn \in FunctionCodes,
                   NEW kind \in Kinds, ReadBits(heap, fn, kind, a, n)
            PROVE  Sound
            BY <2>2, QuietStep DEF ReadBits, Read, Refuse, Exceptions
      <2>3. ASSUME NEW a \in Address, NEW value \in Word, WriteReg(heap, a, value)
            PROVE  Sound
            BY <2>3, StoreStep DEF WriteReg
      <2>4. ASSUME NEW a \in Address, NEW value \in Word, WriteCoil(heap, a, value)
            PROVE  Sound
            <3>1. CASE value \in {On, Zero}
                  BY <2>4, <3>1, StoreStep DEF WriteCoil
            <3>2. CASE value \notin {On, Zero}
                  <4> QED BY <2>4, <3>2, RefusedStep DEF WriteCoil, Refusals
            <3> QED BY <3>1, <3>2
      <2>5. ASSUME NEW a \in Address, NEW and_mask \in Word, NEW or_mask \in Word,
                   MaskWrite(heap, a, and_mask, or_mask)
            PROVE  Sound
            <3>1. Masked(Reg("HREG", a), and_mask, or_mask) \in Word
                  BY DEF Masked, Reg, Word, Zero, TypeOK, Exists
            <3> QED BY <2>5, <3>1, StoreStep DEF MaskWrite
      <2>6. ASSUME NEW a \in Address, NEW values \in Lists, NEW sized \in BOOLEAN,
                   WriteRegs(heap, a, values, sized)
            PROVE  Sound
            BY <2>6, WriteMultipleStep, SlavePduAssumption DEF WriteRegs
      <2>7. ASSUME NEW a \in Address, NEW values \in Coils, NEW sized \in BOOLEAN,
                   WriteCoils(heap, a, values, sized)
            PROVE  Sound
            BY <2>7, WriteMultipleStep, SlavePduAssumption DEF WriteCoils, Coils
      <2>8. ASSUME NEW a \in Address, NEW w \in Address, NEW n \in Counts(MaxWords),
                   NEW values \in Lists, NEW sized \in BOOLEAN,
                   ReadWrite(heap, a, n, w, values, sized)
            PROVE  Sound
            BY <2>8, ReadWriteStep, SlavePduAssumption DEF Counts
      <2>9. ASSUME NEW sized \in BOOLEAN, NEW wellFormed \in BOOLEAN,
                   ReadFile(heap, sized, wellFormed) \/ WriteFile(heap, sized)
            PROVE  Sound
            BY <2>9, QuietStep DEF ReadFile, WriteFile, Refuse, Exceptions
      <2>10. CASE OtherFunction(heap)
            BY <2>10, QuietStep DEF OtherFunction, Refuse, Exceptions
      <2> QED BY <1>1, <2>1, <2>2, <2>3, <2>4, <2>5, <2>6, <2>7, <2>8, <2>9, <2>10
                 DEF SlavePDU
<1>2. ASSUME NEW a \in Address, NEW value \in Word, Publish(a, value) PROVE Sound
      <2>1. /\ last' = [fn |-> "local", kind |-> "HREG", a |-> a, n |-> 1]
            /\ NamedBy(last') = {<<"HREG", a>>} /\ reply' = reply
            BY <1>2, NamesOne DEF Publish, Asked
      <2>2. regs' \in [Existing -> Word] /\ Named
            BY <1>2, <2>1 DEF Publish, Exists, Named, TypeOK
      <2>3. TypeOK'
            BY <2>1, <2>2 DEF TypeOK
      <2> QED BY <2>1, <2>2, <2>3 DEF Sound, Clean, Reached, Request,
                                      OnlyMultipleWritesLoseTheFrame
<1> QED BY <1>1, <1>2 DEF Next

--------------------------------------------------------------------------
\* Every register that addReg added holds a word for ever, and every reply is
\* one that task() knows; when memory runs out, only FC_WRITE_REGS and
\* FC_WRITE_COILS leave task() a reply without a frame.
THEOREM RepliesAreKnown == Spec => [](TypeOK /\ OnlyMultipleWritesLoseTheFrame)
<1> DEFINE Inv == TypeOK /\ OnlyMultipleWritesLoseTheFrame
<1>1. Init => Inv
      BY InitTypeOK
<1>2. Inv /\ [Next]_vars => Inv'
      <2>1. ASSUME Inv, Next PROVE Inv'
            BY <2>1, NextSound DEF Sound
      <2>2. ASSUME Inv, UNCHANGED vars PROVE Inv'
            BY <2>2 DEF vars, TypeOK, OnlyMultipleWritesLoseTheFrame
      <2> QED BY <2>1, <2>2
<1> QED BY <1>1, <1>2, PTL DEF Spec

\* A request that slavePDU refuses, FC_READWRITE_REGS apart, has changed no
\* register, wherever in it the illegal part is.
THEOREM RefusalIsClean == Spec => RefusedChangesNothing
<1>1. TypeOK /\ OnlyMultipleWritesLoseTheFrame /\ [Next]_vars => [Clean]_vars
      BY NextSound DEF Sound
<1>2. Spec => [][Clean]_vars
      BY <1>1, RepliesAreKnown, PTL DEF Spec
<1> QED BY <1>2 DEF RefusedChangesNothing, Clean

\* No request and no publication touches a register that its offset and its
\* count do not name, except an FC_READWRITE_REGS whose range runs over the last
\* address: that one touches the bottom of the bank, as far as it runs over.
THEOREM NamedOnly == Spec => OnlyNamedRegistersChange
<1>1. TypeOK /\ OnlyMultipleWritesLoseTheFrame /\ [Next]_vars => [Named]_vars
      BY NextSound DEF Sound
<1>2. Spec => [][Named]_vars
      BY <1>1, RepliesAreKnown, PTL DEF Spec
<1> QED BY <1>2 DEF OnlyNamedRegistersChange, Named

\* A write that slavePDU acknowledges, FC_READWRITE_REGS apart, names only
\* registers that exist.
THEOREM AcknowledgedWritesReach == Spec => AcknowledgedWritesExist
<1>1. TypeOK /\ OnlyMultipleWritesLoseTheFrame /\ [Next]_vars => [Reached]_vars
      BY NextSound DEF Sound
<1>2. Spec => [][Reached]_vars
      BY <1>1, RepliesAreKnown, PTL DEF Spec
<1> QED BY <1>2 DEF AcknowledgedWritesExist, Reached

--------------------------------------------------------------------------------
\* Words as bytes.

\* A swap exchanges the bytes of a word, and memory holds the low one first.
LEMMA Swapped ==
    ASSUME NEW w \in Word
    PROVE  /\ Swap(w) \in Word /\ Low(Swap(w)) = High(w) /\ High(Swap(w)) = Low(w)
           /\ Swap(Joined(High(w), Low(w))) = w
<1>1. /\ ByteBits \in Nat /\ ByteBits > 0 /\ Bits = 0..(2 * ByteBits - 1)
      BY ModbusLoopAssumption
<1>2. /\ \A b \in w : b \in Int /\ 0 <= b /\ b < 2 * ByteBits
      BY <1>1 DEF Word
<1>3. /\ \A b \in High(w) : b \in Int /\ 0 <= b /\ b < ByteBits
      /\ \A b \in Low(w) : b \in Int /\ 0 <= b /\ b < ByteBits
      BY <1>1, <1>2 DEF High, Low
<1>4. ASSUME NEW low, NEW high,
             \A b \in low : b \in Int /\ 0 <= b /\ b < ByteBits,
             \A b \in high : b \in Int /\ 0 <= b /\ b < ByteBits
      PROVE  /\ Low(Joined(low, high)) = low /\ High(Joined(low, high)) = high
             /\ Joined(low, high) \in Word
      <2> DEFINE j == Joined(low, high)
      <2>1. \A b : b \in j <=> (b \in low \/ \E c \in high : b = c + ByteBits)
            BY DEF Joined
      <2> HIDE DEF j
      <2>2. Low(j) = low
            BY <1>1, <1>4, <2>1 DEF Low
      <2>3. \A b : b \in j \ low <=> \E c \in high : b = c + ByteBits
            BY <1>1, <1>4, <2>1
      <2>4. \A b : b \in High(j) <=> \E d \in j \ low : b = d - ByteBits
            BY <2>2 DEF High
      <2>5. \A b \in High(j) : b \in high
            BY <1>1, <1>4, <2>3, <2>4
      <2>6. \A b \in high : b \in High(j)
            <3>1. TAKE b \in high
            <3>2. b + ByteBits \in j \ low /\ b = (b + ByteBits) - ByteBits
                  BY <1>1, <1>4, <2>3
            <3> QED BY <3>2, <2>4
      <2>7. j \in Word
            BY <1>1, <1>4, <2>1 DEF Word
      <2> QED BY <2>2, <2>5, <2>6, <2>7 DEF j
<1>5. /\ Low(Swap(w)) = High(w) /\ High(Swap(w)) = Low(w) /\ Swap(w) \in Word
      BY <1>3, <1>4 DEF Swap
<1>6. Joined(High(w), Low(w)) = Swap(w)
      BY DEF Swap
<1>7. Joined(Low(w), High(w)) = w
      <2>1. \A b : b \in High(w) <=> \E d \in w \ Low(w) : b = d - ByteBits
            BY DEF High
      <2>2. \A b \in w \ Low(w) : (b - ByteBits) \in High(w) /\ b = (b - ByteBits) + ByteBits
            BY <1>1, <1>2, <2>1
      <2>3. \A b \in High(w) : b + ByteBits \in w
            BY <1>1, <1>2, <2>1 DEF Low
      <2>4. \A b : b \in Joined(Low(w), High(w)) <=> (b \in Low(w) \/ \E c \in High(w) : b = c + ByteBits)
            BY DEF Joined
      <2>5. Low(w) \subseteq w
            BY DEF Low
      <2>6. \A b \in w : b \in Joined(Low(w), High(w))
            BY <2>2, <2>4
      <2>7. \A b \in Joined(Low(w), High(w)) : b \in w
            BY <2>3, <2>4, <2>5
      <2> QED BY <2>6, <2>7
<1>8. Swap(Swap(w)) = w
      BY <1>5, <1>7 DEF Swap
<1> QED BY <1>5, <1>6, <1>8

\* Words come out of a frame as they went in.
LEMMA WordsCross ==
    ASSUME NEW values \in Seq(Word)
    PROVE  /\ FromLine(OnLine(values)) = values
           /\ Len(OnLine(values)) = 2 * Len(values)
<1> DEFINE n == Len(values)
           bytes == OnLine(values)
<1>1. n \in Nat /\ values = [i \in 1..n |-> values[i]] /\ \A i \in 1..n : values[i] \in Word
      OBVIOUS
<1>2. bytes = [i \in 1..(2 * n) |-> InMemory(Swap(values[(i + 1) \div 2]))[2 - (i % 2)]]
      BY DEF OnLine
<1> HIDE DEF n, bytes
<1>3. Len(bytes) = 2 * n /\ (2 * n) \div 2 = n
      BY <1>1, <1>2
<1>4. ASSUME NEW i \in 1..n
      PROVE  bytes[2 * i - 1] = High(values[i]) /\ bytes[2 * i] = Low(values[i])
      <2>1. /\ 2 * i - 1 \in 1..(2 * n) /\ ((2 * i - 1) + 1) \div 2 = i
            /\ 2 - ((2 * i - 1) % 2) = 1
            /\ 2 * i \in 1..(2 * n) /\ ((2 * i) + 1) \div 2 = i /\ 2 - ((2 * i) % 2) = 2
            <3>1. i \in Nat /\ 1 <= i /\ i <= n
                  BY <1>1
            <3>2. 2 * i - 1 \in 1..(2 * n) /\ 2 * i \in 1..(2 * n)
                  BY <1>1, <3>1
            <3>3. ((2 * i - 1) + 1) \div 2 = i /\ 2 - ((2 * i - 1) % 2) = 1
                  BY <3>1
            <3>4. ((2 * i) + 1) \div 2 = i /\ 2 - ((2 * i) % 2) = 2
                  BY <3>1
            <3> QED BY <3>2, <3>3, <3>4
      <2>2. /\ bytes[2 * i - 1] = InMemory(Swap(values[i]))[1]
            /\ bytes[2 * i] = InMemory(Swap(values[i]))[2]
            BY <1>2, <2>1
      <2> QED BY <1>1, <2>2, Swapped DEF InMemory
<1>5. \A i \in 1..n : Swap(Joined(bytes[2 * i - 1], bytes[2 * i])) = values[i]
      BY <1>1, <1>4, Swapped
<1>6. FromLine(bytes) = [i \in 1..n |-> Swap(Joined(bytes[2 * i - 1], bytes[2 * i]))]
      BY <1>3 DEF FromLine
<1> QED BY <1>1, <1>3, <1>5, <1>6 DEF n, bytes

\* Coils.
LEMMA Divided ==
    ASSUME NEW x \in Nat, NEW n \in Nat, n > 0
    PROVE  /\ x \div n \in Nat /\ x % n \in 0..(n - 1) /\ x = n * (x \div n) + (x % n)
OBVIOUS

\* So do coils, packed eight to a byte.
LEMMA CoilsCross ==
    ASSUME NEW values \in Seq({On, Zero})
    PROVE  /\ Unpacked(Packed(values), Len(values)) = values
           /\ Len(Packed(values)) = BytesFor(Len(values))
<1> DEFINE n == Len(values)
           bytes == Packed(values)
           B == ByteBits
<1>1. n \in Nat /\ values = [i \in 1..n |-> values[i]] /\ \A i \in 1..n : values[i] \in {On, Zero}
      OBVIOUS
<1>2. B \in Nat /\ B > 0
      BY ModbusLoopAssumption
<1>3. bytes = [i \in 1..BytesFor(n) |->
                {b \in 0..(B - 1) : (i - 1) * B + b + 1 <= n /\ values[(i - 1) * B + b + 1] = On}]
      BY DEF Packed
<1> HIDE DEF n, bytes, B
<1>4. BytesFor(n) = (n + B - 1) \div B
      BY DEF BytesFor, B
<1>5. BytesFor(n) \in Nat
      <2>1. n + B - 1 \in Nat
            BY <1>1, <1>2
      <2> QED BY <1>2, <1>4, <2>1, Divided
<1>6. ASSUME NEW j \in 1..n
      PROVE  (IF (j - 1) % B \in bytes[((j - 1) \div B) + 1] THEN On ELSE Zero) = values[j]
      <2> DEFINE d == (j - 1) \div B
                 b == (j - 1) % B
                 e == (n + B - 1) \div B
                 f == (n + B - 1) % B
      <2>0. j - 1 \in Nat /\ n + B - 1 \in Nat
            BY <1>1, <1>2
      <2>1. d \in Nat /\ b \in 0..(B - 1) /\ j - 1 = B * d + b
            BY <1>2, <2>0, Divided
      <2>2. e \in Nat /\ f \in 0..(B - 1) /\ n + B - 1 = B * e + f
            BY <1>2, <2>0, Divided
      <2>3. d + 1 \in 1..BytesFor(n)
            <3>1. d + 1 <= e
                  <4> HIDE DEF d, b, e, f
                  <4>1. SUFFICES ASSUME e <= d PROVE FALSE
                        BY <2>1, <2>2
                  <4>2. B * e <= B * d
                        BY <1>2, <2>1, <2>2, <4>1
                  <4>3. B * e \in Nat /\ B * d \in Nat
                        BY <1>2, <2>1, <2>2
                  <4> QED BY <1>1, <1>2, <2>1, <2>2, <4>2, <4>3
            <3> QED BY <1>4, <2>1, <3>1
      <2>4. ((d + 1) - 1) * B + b + 1 = j
            <3> HIDE DEF d, b
            <3>1. ((d + 1) - 1) * B = B * d
                  BY <1>2, <2>1
            <3> QED BY <1>1, <1>2, <2>1, <3>1
      <2>5. bytes[d + 1] = {c \in 0..(B - 1) : ((d + 1) - 1) * B + c + 1 <= n
                                                /\ values[((d + 1) - 1) * B + c + 1] = On}
            BY <1>3, <2>3
      <2>6. b \in bytes[d + 1] <=> values[j] = On
            <3> HIDE DEF d, b
            <3> QED BY <1>1, <2>1, <2>4, <2>5
      <2> QED BY <1>1, <2>6
<1>7. Unpacked(bytes, n) =
        [j \in 1..n |-> IF (j - 1) % B \in bytes[((j - 1) \div B) + 1] THEN On ELSE Zero]
      BY DEF Unpacked, B
<1>8. Len(bytes) = BytesFor(n)
      BY <1>3, <1>5
<1> QED BY <1>1, <1>6, <1>7, <1>8 DEF n, bytes

--------------------------------------------------------------------------------
\* Banks: a coil or a discrete input is on or off, a register holds a word.
Holds(kind) == IF IsBits(kind) THEN {On, Zero} ELSE Word
Bank(bank) == /\ bank = [r \in DOMAIN bank |-> bank[r]]
              /\ \A r \in DOMAIN bank : bank[r] \in Holds(r[1])

\* Whatever a register holds is a word, and zero is held by every kind.
LEMMA HoldsWords ==
    ASSUME NEW kind
    PROVE  Holds(kind) \subseteq Word /\ Zero \in Holds(kind) /\ On \in Word
BY SlavePduAssumption DEF Holds, Word, Zero

\* What is sent of a kind of registers is what the other side stores.
LEMMA Crosses ==
    ASSUME NEW kind, NEW values \in Seq(Holds(kind))
    PROVE  Decoded(kind, Encoded(kind, values), Len(values)) = values
<1>1. CASE IsBits(kind)
      BY <1>1, CoilsCross DEF Decoded, Encoded, Holds
<1>2. CASE ~ IsBits(kind)
      BY <1>2, WordsCross DEF Decoded, Encoded, Holds
<1> QED BY <1>1, <1>2

\* What a bank holds from an address on.
LEMMA HeldType ==
    ASSUME NEW bank, Bank(bank), NEW kind, NEW a, NEW n \in Nat
    PROVE  /\ Held(bank, kind, a, n) \in Seq(Holds(kind))
           /\ Len(Held(bank, kind, a, n)) = n
<1>1. ASSUME NEW x PROVE ReadsAs(bank, <<kind, x>>) \in Holds(kind)
      <2> DEFINE at == <<kind, x % Space>>
      <2>1. at[1] = kind /\ ReadsAs(bank, <<kind, x>>) = IF at \in DOMAIN bank THEN bank[at] ELSE Zero
            BY DEF ReadsAs
      <2> HIDE DEF at
      <2> QED BY <2>1, HoldsWords DEF Bank
<1>2. Held(bank, kind, a, n) \in [1..n -> Holds(kind)]
      BY <1>1 DEF Held
<1> QED BY <1>2

\* Addresses wrap, and no list is so long that it comes back to its start.
LEMMA Offset ==
    ASSUME NEW a \in Address, NEW i \in 0..(Space - 1)
    PROVE  (((a + i) % Space) - a) % Space = i /\ (a + i) % Space \in Address
<1>1. /\ a \in Nat /\ a < Space /\ i \in Nat /\ i < Space
      /\ Space \in Nat /\ Space > 0
      BY SlavePduAssumption DEF Address
<1>2. CASE a + i < Space
      <2>1. (a + i) % Space = a + i
            BY <1>1, <1>2
      <2> QED BY <1>1, <1>2, <2>1 DEF Address
<1>3. CASE a + i >= Space
      <2>1. (a + i) % Space = a + i - Space
            BY <1>1, <1>3
      <2>2. (i - Space) % Space = i
            BY <1>1
      <2>3. ((a + i) - Space) - a = i - Space
            BY <1>1
      <2> QED BY <1>1, <1>3, <2>1, <2>2, <2>3 DEF Address
<1> QED BY <1>1, <1>2, <1>3

\* Each register of a span has its place in the list that is written there.
LEMMA SpanPlaces ==
    ASSUME NEW kind, NEW a \in Address, NEW n \in 0..Space, NEW r \in Span(kind, a, n)
    PROVE  /\ r[1] = kind /\ ((r[2] - a) % Space) + 1 \in 1..n
           /\ r[2] \in Address /\ r = <<kind, r[2]>>
<1>1. PICK i \in 0..(n - 1) : r = <<kind, (a + i) % Space>>
      BY DEF Span
<1>2. i \in 0..(Space - 1)
      BY SlavePduAssumption
<1>3. ((r[2] - a) % Space) = i /\ r[2] \in Address
      BY <1>1, <1>2, Offset
<1> QED BY <1>1, <1>3

\* Storing a list adds no register and keeps the bank of its types.
LEMMA StoredInType ==
    ASSUME NEW bank, Bank(bank), NEW kind, NEW a \in Address, 
           NEW values \in Seq(Holds(kind)), Len(values) <= Space
    PROVE  /\ Bank(StoredIn(bank, kind, a, values))
           /\ DOMAIN StoredIn(bank, kind, a, values) = DOMAIN bank
<1> DEFINE new == StoredIn(bank, kind, a, values)
<1>1. new = [r \in DOMAIN bank |-> IF r \in Span(kind, a, Len(values))
                                  THEN values[((r[2] - a) % Space) + 1] ELSE bank[r]]
      BY DEF StoredIn
<1>2. ASSUME NEW r \in Span(kind, a, Len(values))
      PROVE  values[((r[2] - a) % Space) + 1] \in Holds(r[1])
      <2>1. Len(values) \in 0..Space
            BY SlavePduAssumption
      <2>2. r[1] = kind /\ ((r[2] - a) % Space) + 1 \in 1..Len(values)
            BY <2>1, SpanPlaces
      <2> QED BY <2>2
<1> HIDE DEF new
<1> QED BY <1>1, <1>2 DEF Bank, new

LEMMA StoredIsStoredIn ==
    ASSUME DOMAIN regs = Existing, NEW kind, NEW a, NEW values
    PROVE  Stored(kind, a, values) = StoredIn(regs, kind, a, values)
BY DEF Stored, StoredIn

--------------------------------------------------------------------------------
\* What a call asks of the slave: the request is the one that the call describes.
AsksOne(c, q) ==
    \E fn \in {"FC_WRITE_REG", "FC_WRITE_COIL"}, a \in Address :
        LET kind == IF fn = "FC_WRITE_REG" THEN "HREG" ELSE "COIL"
        IN \E value \in Holds(kind) :
             /\ q = [fn |-> fn, a |-> a, value |-> value]
             /\ c = [op |-> "write", writes |-> [r \in {<<kind, a>>} |-> value]]
AsksMany(c, q) ==
    \E kind \in {"HREG", "COIL"}, a \in Address : \E values \in Seq(Holds(kind)) :
        /\ q = FrameOfMany(kind, a, values)
        /\ c = [op |-> "write", writes |-> Listed(kind, a, values)]
AsksRead(c, q) ==
    \E kind \in Kinds, a \in Address, n \in Nat :
        /\ q = [fn |-> ReadFunction(kind), a |-> a, n |-> n]
        /\ n < Space
        /\ c = [op |-> "read", kind |-> kind, a |-> a, n |-> n, where |-> c.where]
        /\ \/ c.where = "buffer"
           \/ /\ c.where[1] \in Kinds /\ c.where[2] \in Address
              /\ IsBits(c.where[1]) <=> IsBits(kind)
AsksMask(c, q) ==
    \E a \in Address, and_mask, or_mask \in Word :
        /\ q = [fn |-> "FC_MASKWRITE_REG", a |-> a, and_mask |-> and_mask, or_mask |-> or_mask]
        /\ c = [op |-> "mask", a |-> a, and_mask |-> and_mask, or_mask |-> or_mask]
AsksReadWrite(c, q) ==
    \E a, w \in Address, n \in Nat, values \in Seq(Word) :
        /\ q = [fn |-> "FC_READWRITE_REGS", a |-> a, n |-> n, w |-> w, data |-> OnLine(values)]
        /\ n < Space
        /\ c = [op |-> "readwrite", kind |-> "HREG", a |-> a, n |-> n, where |-> "buffer",
                writes |-> Listed("HREG", w, values)]
Asks(c, q) == AsksOne(c, q) \/ AsksMany(c, q) \/ AsksRead(c, q) \/ AsksMask(c, q)
                \/ AsksReadWrite(c, q)

\* Written, of any call and of the registers before and after it.
Wrote(c, old, new) ==
    /\ c.op = "write" =>
           \A r \in DOMAIN c.writes : r \in Existing /\ new[r] = c.writes[r]
    /\ c.op = "readwrite" =>
           \A r \in DOMAIN c.writes : ReadsAs(new, r) = c.writes[r]
    /\ c.op = "mask" =>
           new[<<"HREG", c.a>>] = Masked(old[<<"HREG", c.a>>], c.and_mask, c.or_mask)

\* What is shown of a request that is served.
Served(c) == /\ Bank(regs') /\ DOMAIN regs' = Existing
             /\ reply' \in Positive => Wrote(c, regs, regs')

\* A single register or coil that was written.
LEMMA StoreServes ==
    ASSUME Bank(regs), DOMAIN regs = Existing, NEW heap, NEW kind, NEW a, NEW value \in Holds(kind),
           Store(heap, kind, a, value)
    PROVE  /\ Bank(regs') /\ DOMAIN regs' = Existing
           /\ reply' \in Positive => <<kind, a>> \in Existing /\ regs'[<<kind, a>>] = value
<1>1. CASE Exists(kind, a)
      <2>1. regs' = [regs EXCEPT ![<<kind, a>>] = value] /\ <<kind, a>> \in Existing
            BY <1>1 DEF Store, Exists
      <2>2. <<kind, a>>[1] = kind
            OBVIOUS
      <2> QED BY <2>1, <2>2 DEF Bank
<1>2. CASE ~ Exists(kind, a)
      <2>1. regs' = regs /\ reply' \notin Positive
            BY <1>2 DEF Store, Refuse, Positive
      <2> QED BY <2>1
<1> QED BY <1>1, <1>2

LEMMA OneServes ==
    ASSUME Bank(regs), DOMAIN regs = Existing, NEW heap, NEW c, NEW q, AsksOne(c, q),
           Slave(heap, q)
    PROVE  Served(c)
<1>1. PICK fn \in {"FC_WRITE_REG", "FC_WRITE_COIL"}, a \in Address :
        LET kind == IF fn = "FC_WRITE_REG" THEN "HREG" ELSE "COIL"
        IN \E value \in Holds(kind) :
             /\ q = [fn |-> fn, a |-> a, value |-> value]
             /\ c = [op |-> "write", writes |-> [r \in {<<kind, a>>} |-> value]]
      BY DEF AsksOne
<1> DEFINE kind == IF fn = "FC_WRITE_REG" THEN "HREG" ELSE "COIL"
<1>2. PICK value \in Holds(kind) :
             /\ q = [fn |-> fn, a |-> a, value |-> value]
             /\ c = [op |-> "write", writes |-> [r \in {<<kind, a>>} |-> value]]
      BY <1>1
<1>3. Store(heap, kind, a, value)
      <2>1. CASE fn = "FC_WRITE_REG"
            BY <1>2, <2>1 DEF Slave, WriteReg
      <2>2. CASE fn = "FC_WRITE_COIL"
            <3>1. value \in {On, Zero}
                  BY <1>2, <2>2 DEF Holds, IsBits
            <3> QED BY <1>2, <2>2, <3>1 DEF Slave, WriteCoil
      <2> QED BY <2>1, <2>2
<1>4. /\ c.op = "write" /\ DOMAIN c.writes = {<<kind, a>>}
      /\ c.writes[<<kind, a>>] = value
      BY <1>2
<1> HIDE DEF kind
<1> QED BY <1>3, <1>4, StoreServes DEF Served, Wrote

\* The mask write.
LEMMA MaskServes ==
    ASSUME Bank(regs), DOMAIN regs = Existing, NEW heap, NEW c, NEW q, AsksMask(c, q),
           Slave(heap, q)
    PROVE  Served(c)
<1>1. PICK a \in Address, and_mask \in Word, or_mask \in Word :
        /\ q = [fn |-> "FC_MASKWRITE_REG", a |-> a, and_mask |-> and_mask, or_mask |-> or_mask]
        /\ c = [op |-> "mask", a |-> a, and_mask |-> and_mask, or_mask |-> or_mask]
      BY DEF AsksMask
<1> DEFINE value == Masked(Reg("HREG", a), and_mask, or_mask)
<1>2. Store(heap, "HREG", a, value)
      BY <1>1 DEF Slave, MaskWrite
<1>3. value \in Holds("HREG")
      BY DEF Masked, Holds, IsBits, Word
<1>4. <<"HREG", a>> \in Existing => value = Masked(regs[<<"HREG", a>>], and_mask, or_mask)
      BY DEF Reg, Exists
<1> HIDE DEF value
<1>5. /\ Bank(regs') /\ DOMAIN regs' = Existing
      /\ reply' \in Positive => <<"HREG", a>> \in Existing /\ regs'[<<"HREG", a>>] = value
      BY <1>2, <1>3, StoreServes
<1> QED BY <1>1, <1>4, <1>5 DEF Served, Wrote

\* A list of values that is stored wherever a register is: the loop reaches the
\* register of each value, over the last address if need be.
LEMMA ListStored ==
    ASSUME Bank(regs), DOMAIN regs = Existing, NEW kind, NEW a \in Address,
           NEW values \in Seq(Holds(kind)), Len(values) <= Space,
           regs' = Stored(kind, a, values)
    PROVE  /\ Bank(regs') /\ DOMAIN regs' = Existing
           /\ \A i \in 0..(Len(values) - 1) : <<kind, (a + i) % Space>> \in Existing =>
                 regs'[<<kind, (a + i) % Space>>] = values[i + 1]
<1>1. regs' = StoredIn(regs, kind, a, values)
      BY StoredIsStoredIn
<1>2. Bank(regs') /\ DOMAIN regs' = Existing
      BY <1>1, StoredInType
<1>3. ASSUME NEW i \in 0..(Len(values) - 1), <<kind, (a + i) % Space>> \in Existing
      PROVE  regs'[<<kind, (a + i) % Space>>] = values[i + 1]
      <2> DEFINE x == (a + i) % Space
                 r == <<kind, x>>
      <2>1. i \in 0..(Space - 1)
            BY SlavePduAssumption
      <2>2. (x - a) % Space = i
            BY <2>1, Offset
      <2>3. r \in Span(kind, a, Len(values)) /\ r \in Existing
            BY <1>3 DEF Span
      <2> HIDE DEF x
      <2>4. r[2] = x
            OBVIOUS
      <2> HIDE DEF r
      <2>5. regs'[r] = values[((r[2] - a) % Space) + 1]
            BY <2>3 DEF Stored
      <2> QED BY <2>2, <2>4, <2>5 DEF r, x
<1> QED BY <1>2, <1>3

\* A list asks for each of its values at one address.
LEMMA ListedAt ==
    ASSUME NEW kind, NEW a \in Address, NEW values, Len(values) \in Nat,
           NEW r \in DOMAIN Listed(kind, a, values)
    PROVE  \E i \in 0..(Len(values) - 1) :
              r = <<kind, a + i>> /\ Listed(kind, a, values)[r] = values[i + 1]
<1>1. PICK i \in 0..(Len(values) - 1) : r = <<kind, a + i>>
      BY DEF Listed
<1>2. r[2] - a + 1 = i + 1
      BY <1>1 DEF Address
<1>3. Listed(kind, a, values)[r] = values[r[2] - a + 1]
      BY DEF Listed
<1> QED BY <1>1, <1>2, <1>3

\* A list that was written, and its two functions.
LEMMA MultipleServes ==
    ASSUME Bank(regs), DOMAIN regs = Existing, NEW heap, NEW kind, NEW a \in Address,
           NEW values \in Seq(Holds(kind)), NEW sized, NEW max \in 0..(Space - 1),
           WriteMultiple(heap, kind, a, values, sized, max)
    PROVE  Served([op |-> "write", writes |-> Listed(kind, a, values)])
<1> DEFINE c == [op |-> "write", writes |-> Listed(kind, a, values)]
           n == Len(values)
           written == Span(kind, a, n)
<1>0. c.op = "write" /\ c.writes = Listed(kind, a, values) /\ n \in Nat
      OBVIOUS
<1>1. CASE /\ ~(~Countable(a, n, max) \/ ~sized) /\ written \subseteq Existing
      <2>1. regs' = Stored(kind, a, values)
            BY <1>1 DEF WriteMultiple
      <2>2. n <= Space /\ a + n <= Space
            BY <1>0, <1>1, SlavePduAssumption DEF Countable, Address
      <2>3. /\ Bank(regs') /\ DOMAIN regs' = Existing
            /\ \A i \in 0..(n - 1) : <<kind, (a + i) % Space>> \in Existing =>
                 regs'[<<kind, (a + i) % Space>>] = values[i + 1]
            BY <2>1, <2>2, ListStored
      <2>4. ASSUME NEW r \in DOMAIN Listed(kind, a, values)
            PROVE  r \in Existing /\ regs'[r] = Listed(kind, a, values)[r]
            <3>1. PICK i \in 0..(n - 1) :
                     r = <<kind, a + i>> /\ Listed(kind, a, values)[r] = values[i + 1]
                  BY <1>0, <2>4, ListedAt
            <3>2. (a + i) % Space = a + i
                  <4>1. a + i \in 0..(Space - 1) /\ Space \in Nat /\ Space > 0
                        BY <1>0, <2>2, SlavePduAssumption DEF Address
                  <4> QED BY <4>1
            <3>3. <<kind, (a + i) % Space>> \in Existing
                  BY <1>1 DEF Span
            <3>4. regs'[<<kind, (a + i) % Space>>] = values[i + 1]
                  BY <2>3, <3>3
            <3> QED BY <3>1, <3>2, <3>3, <3>4
      <2> HIDE DEF c, written, n
      <2> QED BY <1>0, <2>3, <2>4 DEF Served, Wrote
<1>2. CASE ~ (/\ ~(~Countable(a, n, max) \/ ~sized) /\ written \subseteq Existing)
      <2>1. regs' = regs /\ reply' \notin Positive
            BY <1>2 DEF WriteMultiple, Refuse, Positive
      <2> QED BY <2>1 DEF Served
<1> QED BY <1>1, <1>2

LEMMA ManyServes ==
    ASSUME Bank(regs), DOMAIN regs = Existing, NEW heap, NEW c, NEW q, AsksMany(c, q),
           Slave(heap, q)
    PROVE  Served(c)
<1>1. PICK kind \in {"HREG", "COIL"}, a \in Address : \E values \in Seq(Holds(kind)) :
        /\ q = FrameOfMany(kind, a, values)
        /\ c = [op |-> "write", writes |-> Listed(kind, a, values)]
      BY DEF AsksMany
<1>2. PICK values \in Seq(Holds(kind)) :
        /\ q = FrameOfMany(kind, a, values)
        /\ c = [op |-> "write", writes |-> Listed(kind, a, values)]
      BY <1>1
<1>3. /\ q.fn = IF kind = "COIL" THEN "FC_WRITE_COILS" ELSE "FC_WRITE_REGS"
      /\ q.a = a /\ q.n = Len(values) /\ q.data = Encoded(kind, values)
      BY <1>2 DEF FrameOfMany
<1>4. Decoded(kind, Encoded(kind, values), Len(values)) = values
      BY Crosses
<1>5. CASE kind = "COIL"
      <2>1. q.fn = "FC_WRITE_COILS" /\ q.data = Packed(values) /\ Unpacked(q.data, q.n) = values
            BY <1>3, <1>4, <1>5 DEF Decoded, Encoded, IsBits
      <2>2. WriteCoils(heap, a, values, Len(q.data) = BytesFor(q.n))
            BY <1>3, <2>1 DEF Slave
      <2> QED BY <1>2, <1>5, <2>2, MultipleServes, SlavePduAssumption DEF WriteCoils
<1>6. CASE kind = "HREG"
      <2>1. q.fn = "FC_WRITE_REGS" /\ q.data = OnLine(values) /\ FromLine(q.data) = values
            BY <1>3, <1>4, <1>6 DEF Decoded, Encoded, IsBits
      <2>2. WriteRegs(heap, a, values, Len(q.data) = 2 * q.n)
            BY <1>3, <2>1 DEF Slave
      <2> QED BY <1>2, <1>6, <2>2, MultipleServes, SlavePduAssumption DEF WriteRegs
<1> QED BY <1>5, <1>6

\* What only reads leaves all registers as they were.
LEMMA ReadServes ==
    ASSUME Bank(regs), DOMAIN regs = Existing, NEW heap, NEW c, NEW q, AsksRead(c, q),
           Slave(heap, q)
    PROVE  Served(c)
<1>1. PICK kind \in Kinds, a \in Address, n \in Nat :
        /\ q = [fn |-> ReadFunction(kind), a |-> a, n |-> n]
        /\ c = [op |-> "read", kind |-> kind, a |-> a, n |-> n, where |-> c.where]
      BY DEF AsksRead
<1>2. c.op = "read" /\ q.fn = ReadFunction(kind)
      BY <1>1
<1>3. regs' = regs
      BY <1>2 DEF Slave, ReadFunction, Kinds, ReadWords, ReadBits
<1> QED BY <1>2, <1>3 DEF Served, Wrote

\* FC_READWRITE_REGS writes what exists, and is acknowledged when all of it reads
\* back, a missing register as zero.
LEMMA ReadWriteServes ==
    ASSUME Bank(regs), DOMAIN regs = Existing, NEW heap, NEW c, NEW q, AsksReadWrite(c, q),
           Slave(heap, q)
    PROVE  Served(c)
<1>1. PICK a \in Address, w \in Address, n \in Nat, values \in Seq(Word) :
        /\ q = [fn |-> "FC_READWRITE_REGS", a |-> a, n |-> n, w |-> w, data |-> OnLine(values)]
        /\ c = [op |-> "readwrite", kind |-> "HREG", a |-> a, n |-> n, where |-> "buffer",
                writes |-> Listed("HREG", w, values)]
      BY DEF AsksReadWrite
<1>2. c.op = "readwrite" /\ c.writes = Listed("HREG", w, values)
      BY <1>1
<1>3. FromLine(OnLine(values)) = values
      BY WordsCross
<1>4. ReadWrite(heap, a, n, w, values, TRUE)
      BY <1>1, <1>3 DEF Slave
<1>5. CASE ~Countable(a, n, MaxWords) \/ Len(values) \notin 1..MaxWords
      <2>1. regs' = regs /\ reply' \notin Positive
            BY <1>4, <1>5 DEF ReadWrite, Refuse, Positive
      <2> QED BY <2>1 DEF Served
<1>6. CASE ~(~Countable(a, n, MaxWords) \/ Len(values) \notin 1..MaxWords)
      <2>1. regs' = Stored("HREG", w, values)
            BY <1>4, <1>6 DEF ReadWrite
      <2>2. Len(values) <= Space
            BY <1>6, SlavePduAssumption
      <2>3. Word = Holds("HREG")
            BY DEF Holds, IsBits
      <2>4. /\ Bank(regs') /\ DOMAIN regs' = Existing
            /\ \A i \in 0..(Len(values) - 1) : <<"HREG", (w + i) % Space>> \in Existing =>
                 regs'[<<"HREG", (w + i) % Space>>] = values[i + 1]
            BY <2>1, <2>2, <2>3, ListStored
      <2>5. reply' \in Positive => ReadsBack("HREG", w, values)
            BY <1>4, <1>6 DEF ReadWrite, Refuse, Positive
      <2>6. Len(values) \in Nat
            OBVIOUS
      <2>7. ASSUME reply' \in Positive, NEW r \in DOMAIN Listed("HREG", w, values)
            PROVE  ReadsAs(regs', r) = Listed("HREG", w, values)[r]
            <3>1. PICK i \in 0..(Len(values) - 1) :
                     /\ r = <<"HREG", w + i>>
                     /\ Listed("HREG", w, values)[r] = values[i + 1]
                  BY <2>6, <2>7, ListedAt
            <3> DEFINE at == <<"HREG", (w + i) % Space>>
            <3>2. ReadsAs(regs', r) = IF at \in Existing THEN regs'[at] ELSE Zero
                  BY <2>4, <3>1 DEF ReadsAs
            <3>3. i + 1 \in 1..Len(values) /\ w + (i + 1) - 1 = w + i
                  BY <2>6 DEF Address
            <3>4. at \in Existing \/ values[i + 1] = Zero
                  BY <2>5, <2>7, <3>3 DEF ReadsBack, Exists
            <3>5. at \in Existing => regs'[at] = values[i + 1]
                  BY <2>4
            <3> QED BY <3>1, <3>2, <3>4, <3>5
      <2> QED BY <1>2, <2>4, <2>7 DEF Served, Wrote
<1> QED BY <1>5, <1>6

\* Whatever the call, a positive reply says that it was carried out.
LEMMA SlaveServes ==
    ASSUME Bank(regs), DOMAIN regs = Existing, NEW heap, NEW c, NEW q, Asks(c, q),
           Slave(heap, q)
    PROVE  Served(c)
BY OneServes, ManyServes, ReadServes, MaskServes, ReadWriteServes DEF Asks

--------------------------------------------------------------------------------
\* The invariant: while a request or an answer is on the line, it is the one of
\* the call, the master's registers are those it was sent with, and an answer that
\* is no exception carries what the slave held when it had served the request.
Brings(q) ==
    q.fn \in Reading =>
        line.data = Encoded(KindOf(q.fn), Held(seen, KindOf(q.fn), q.a, q.n))
Coming ==
    /\ line.at = "slave" => told = "none" /\ local = kept /\ Asks(call, line.request)
    /\ line.at = "master" =>
          /\ told = "none" /\ local = kept /\ line.ex # "EX_SUCCESS"
          /\ line.fn = line.request.fn =>
                /\ Asks(call, line.request) /\ Bank(seen)
                /\ line.ex = "none" => Wrote(call, was, seen) /\ Brings(line.request)
LoopInv ==
    /\ Bank(regs) /\ DOMAIN regs = Existing /\ Bank(local)
    /\ Coming /\ SuccessMeansDone

LEMMA WrittenIsWrote == Written <=> Wrote(call, was, seen)
BY DEF Written, Wrote

LEMMA PatternType ==
    ASSUME NEW registers, NEW parity
    PROVE  Bank(Pattern(registers, parity)) /\ DOMAIN Pattern(registers, parity) = registers
<1> DEFINE w == CHOOSE w \in Words : w # Zero
<1>1. w \in Word
      BY ModbusLoopAssumption
<1> HIDE DEF w
<1>2. ASSUME NEW r
      PROVE  (IF r[2] % 2 = parity THEN Zero ELSE IF IsBits(r[1]) THEN On ELSE w) \in Holds(r[1])
      BY <1>1, HoldsWords DEF Holds
<1>3. Pattern(registers, parity) =
        [r \in registers |-> IF r[2] % 2 = parity THEN Zero ELSE IF IsBits(r[1]) THEN On ELSE w]
      BY DEF Pattern, w
<1> QED BY <1>2, <1>3 DEF Bank

\* The invariant holds at first.
LEMMA LoopStarts == LoopInit => LoopInv
<1> SUFFICES ASSUME LoopInit PROVE LoopInv
      OBVIOUS
<1>1. Bank(regs) /\ DOMAIN regs = Existing /\ Bank(local)
      BY PatternType DEF LoopInit
<1>2. line.at = "nobody" /\ told = "none"
      BY DEF LoopInit, Nothing
<1> QED BY <1>1, <1>2 DEF LoopInv, Coming, SuccessMeansDone

\* The slave serves a request, and its answer brings what was read.
LEMMA ServeKeeps == ASSUME LoopInv, Serve PROVE LoopInv'
<1>1. /\ line.at = "slave" /\ told = "none" /\ local = kept /\ Asks(call, line.request)
      /\ was' = regs /\ seen' = regs' /\ UNCHANGED <<local, out, told, call, kept>>
      BY DEF Serve, LoopInv, Coming
<1> DEFINE q == line.request
<1>2. CASE \E heap \in Heaps : Slave(heap, q) /\ line' = Answer(q, q.fn)
      <2>1. PICK heap \in Heaps : Slave(heap, q) /\ line' = Answer(q, q.fn)
            BY <1>2
      <2>2. Served(call)
            BY <1>1, <2>1, SlaveServes DEF LoopInv
      <2>3. \/ /\ line'.at = "master" /\ line'.ex \in Exceptions
            \/ /\ line'.at = "master" /\ line'.ex = "none" /\ reply' \in Positive
               /\ line'.request = q
               /\ q.fn \in Reading =>
                    line'.data = Encoded(KindOf(q.fn), Held(regs', KindOf(q.fn), q.a, q.n))
            \/ line'.at = "nobody"
            BY <2>1 DEF Answer, Nothing
      <2>4. line'.at = "master" => line'.request = q
            BY <2>1 DEF Answer, Nothing
      <2>5. Coming'
            BY <1>1, <2>2, <2>3, <2>4 DEF Coming, Served, Brings, Exceptions
      <2> QED BY <1>1, <2>2, <2>5 DEF LoopInv, Served, SuccessMeansDone
<1>3. CASE \E heap \in Heaps : OtherFunction(heap) /\ line' = Answer(q, "other")
      <2>1. regs' = regs /\ line' = Answer(q, "other")
            BY <1>3 DEF OtherFunction
      <2>2. reply' \notin Positive
            BY <1>3 DEF OtherFunction, Refuse, Positive
      <2>3. \/ line'.at = "nobody"
            \/ line'.at = "master" /\ line'.request = q /\ line'.fn = "other" /\ line'.ex \in Exceptions
            BY <2>1, <2>2 DEF Answer, Nothing
      <2>4. q.fn # "other"
            <3> HIDE DEF q
            <3>1. AsksOne(call, q) => q.fn # "other"
                  BY DEF AsksOne
            <3>2. AsksMany(call, q) => q.fn # "other"
                  BY DEF AsksMany, FrameOfMany
            <3>3. AsksRead(call, q) => q.fn # "other"
                  BY DEF AsksRead, ReadFunction, Kinds
            <3>4. AsksMask(call, q) => q.fn # "other"
                  BY DEF AsksMask
            <3>5. AsksReadWrite(call, q) => q.fn # "other"
                  BY DEF AsksReadWrite
            <3> QED BY <1>1, <3>1, <3>2, <3>3, <3>4, <3>5 DEF Asks, q
      <2>5. Coming'
            BY <1>1, <2>3, <2>4 DEF Coming, Exceptions
      <2> QED BY <1>1, <2>1, <2>5 DEF LoopInv, SuccessMeansDone
<1> QED BY <1>2, <1>3 DEF Serve

\* The actions that only change what is on the line, or nothing that matters.
LEMMA QuietKeeps ==
    ASSUME LoopInv, SlavePublishes \/ Lost \/ NotMine \/ Timeout \/ Told
    PROVE  LoopInv'
<1>1. CASE SlavePublishes
      <2>1. PICK a \in Address, value \in Words : Exists("HREG", a) /\ Publish(a, value)
            BY <1>1 DEF SlavePublishes
      <2>2. regs' = [regs EXCEPT ![<<"HREG", a>>] = value]
            BY <2>1 DEF Publish
      <2>3. value \in Holds("HREG")
            BY ModbusLoopAssumption DEF Holds, IsBits
      <2>4. <<"HREG", a>>[1] = "HREG"
            OBVIOUS
      <2>5. Bank(regs') /\ DOMAIN regs' = Existing
            BY <2>2, <2>3, <2>4 DEF Bank, LoopInv
      <2> QED BY <1>1, <2>5 DEF LoopInv, SlavePublishes, ownVars, Coming, SuccessMeansDone, Brings,
                                Written, Obtained
<1>2. CASE Lost
      <2>1. told' = told /\ line'.at = "nobody"
            BY <1>2 DEF Lost, Nothing
      <2> QED BY <1>2, <2>1 DEF LoopInv, Lost, vars, Coming, SuccessMeansDone, Written, Obtained
<1>3. CASE NotMine
      <2>1. told' = told /\ line'.at = "nobody"
            BY <1>3 DEF NotMine, Nothing
      <2> QED BY <1>3, <2>1 DEF LoopInv, NotMine, vars, Coming, SuccessMeansDone, Written, Obtained
<1>4. CASE Timeout
      <2>1. told' = "EX_TIMEOUT" /\ line.at = "nobody" /\ line' = line
            BY <1>4 DEF Timeout, Nothing
      <2> QED BY <1>4, <2>1 DEF LoopInv, Timeout, vars, Coming, SuccessMeansDone
<1>5. CASE Told
      BY <1>5 DEF LoopInv, Told, loopVars, ownVars, vars, Coming, SuccessMeansDone, Brings, Written,
                  Obtained
<1> QED BY <1>1, <1>2, <1>3, <1>4, <1>5

\* The answer: what is read is stored where it was asked to be.
LEMMA Reads ==
    ASSUME NEW c, NEW q, Asks(c, q)
    PROVE  /\ c.op \in {"read", "readwrite"} <=> q.fn \in Reading
           /\ q.fn \in Reading =>
                /\ c.kind = KindOf(q.fn) /\ c.a = q.a /\ c.n = q.n /\ c.n \in Nat /\ c.n < Space
                /\ \/ c.where = "buffer"
                   \/ /\ c.where[1] \in Kinds /\ c.where[2] \in Address
                      /\ IsBits(c.where[1]) <=> IsBits(c.kind)
<1>1. CASE AsksOne(c, q)
      <2>1. q.fn \in {"FC_WRITE_REG", "FC_WRITE_COIL"} /\ c.op = "write"
            BY <1>1 DEF AsksOne
      <2> QED BY <2>1 DEF Reading
<1>2. CASE AsksMany(c, q)
      <2>1. q.fn \in {"FC_WRITE_REGS", "FC_WRITE_COILS"} /\ c.op = "write"
            BY <1>2 DEF AsksMany, FrameOfMany
      <2> QED BY <2>1 DEF Reading
<1>3. CASE AsksMask(c, q)
      <2>1. q.fn = "FC_MASKWRITE_REG" /\ c.op = "mask"
            BY <1>3 DEF AsksMask
      <2> QED BY <2>1 DEF Reading
<1>4. CASE AsksReadWrite(c, q)
      <2>1. /\ q.fn = "FC_READWRITE_REGS" /\ c.op = "readwrite" /\ c.kind = "HREG"
            /\ c.a = q.a /\ c.n = q.n /\ c.n \in Nat /\ c.n < Space /\ c.where = "buffer"
            BY <1>4 DEF AsksReadWrite
      <2> QED BY <2>1 DEF Reading, KindOf
<1>5. CASE AsksRead(c, q)
      <2>1. PICK kind \in Kinds, a \in Address, n \in Nat :
              /\ q = [fn |-> ReadFunction(kind), a |-> a, n |-> n]
              /\ n < Space
              /\ c = [op |-> "read", kind |-> kind, a |-> a, n |-> n, where |-> c.where]
              /\ \/ c.where = "buffer"
                 \/ /\ c.where[1] \in Kinds /\ c.where[2] \in Address
                    /\ IsBits(c.where[1]) <=> IsBits(kind)
            BY <1>5 DEF AsksRead
      <2>2. /\ c.op = "read" /\ c.kind = kind /\ c.a = a /\ c.n = n
            /\ q.fn = ReadFunction(kind) /\ q.a = a /\ q.n = n
            BY <2>1
      <2>3. ReadFunction(kind) \in Reading /\ KindOf(ReadFunction(kind)) = kind
            BY DEF ReadFunction, KindOf, Kinds, Reading
      <2> QED BY <2>1, <2>2, <2>3
<1> QED BY <1>1, <1>2, <1>3, <1>4, <1>5 DEF Asks

\* masterPDU() stores what an answer brings and tells the application.
LEMMA PduKeeps == ASSUME LoopInv, MasterPDU PROVE LoopInv'
<1> DEFINE q == line.request
           values == Decoded(KindOf(line.fn), line.data, line.request.n)
<1>1. /\ line.at = "master" /\ line.fn = q.fn /\ Bank(local) /\ local = kept
      /\ Asks(call, q) /\ Bank(seen) /\ line.ex # "EX_SUCCESS"
      /\ line.ex = "none" => Wrote(call, was, seen) /\ Brings(q)
      BY DEF MasterPDU, LoopInv, Coming
<1>2. /\ line'.at = "nobody" /\ UNCHANGED <<vars, call, was, seen, kept>>
      /\ told' = IF line.ex = "none" THEN "EX_SUCCESS" ELSE line.ex
      BY DEF MasterPDU, Nothing
<1>3. CASE line.ex = "none" /\ q.fn \in Reading
      <2>1. /\ call.kind = KindOf(q.fn) /\ call.a = q.a /\ call.n = q.n /\ call.n \in Nat
            /\ call.n < Space /\ call.op \in {"read", "readwrite"}
            /\ \/ call.where = "buffer"
               \/ /\ call.where[1] \in Kinds /\ call.where[2] \in Address
                  /\ IsBits(call.where[1]) <=> IsBits(call.kind)
            BY <1>1, <1>3, Reads
      <2> DEFINE held == Held(seen, call.kind, call.a, call.n)
      <2>2. held \in Seq(Holds(call.kind)) /\ Len(held) = call.n
            BY <1>1, <2>1, HeldType
      <2>3. values = held
            <3>1. line.data = Encoded(call.kind, held)
                  BY <1>1, <1>3, <2>1 DEF Brings
            <3>2. Decoded(call.kind, Encoded(call.kind, held), Len(held)) = held
                  BY <2>2, Crosses
            <3> QED BY <1>1, <2>1, <2>2, <3>1, <3>2
      <2> HIDE DEF held, values
      <2>4. CASE call.where = "buffer"
            <3>1. out' = values /\ local' = local
                  BY <1>1, <1>3, <2>4 DEF MasterPDU, values
            <3>2. Obtained'
                  BY <1>1, <1>2, <2>1, <2>3, <2>4, <3>1 DEF Obtained, held
            <3>3. Written'
                  BY <1>1, <1>2, <1>3 DEF Wrote, Written
            <3> QED BY <1>1, <1>2, <3>1, <3>2, <3>3 DEF LoopInv, vars, Coming, SuccessMeansDone
      <2>5. CASE call.where # "buffer"
            <3>1. local' = StoredIn(local, call.where[1], call.where[2], values)
                  BY <1>1, <1>3, <2>5 DEF MasterPDU, values
            <3>2. Holds(call.where[1]) = Holds(call.kind)
                  BY <2>1, <2>5 DEF Holds
            <3>3. Bank(local') /\ DOMAIN local' = DOMAIN local
                  <4>1. values \in Seq(Holds(call.where[1])) /\ Len(values) = call.n
                        BY <2>2, <2>3, <3>2
                  <4>2. Len(values) <= Space
                        BY <2>1, <4>1, SlavePduAssumption
                  <4>3. call.where[2] \in Address /\ Bank(local)
                        BY <1>1, <2>1, <2>5
                  <4>4. Bank(StoredIn(local, call.where[1], call.where[2], values))
                        /\ DOMAIN StoredIn(local, call.where[1], call.where[2], values) = DOMAIN local
                        BY ONLY <4>1, <4>2, <4>3, StoredInType
                  <4> QED BY <3>1, <4>4
            <3>4. \A r \in DOMAIN local :
                    local'[r] = IF r \in Span(call.where[1], call.where[2], call.n)
                                THEN held[((r[2] - call.where[2]) % Space) + 1] ELSE kept[r]
                  BY <1>1, <2>2, <2>3, <3>1 DEF StoredIn
            <3>5. Obtained'
                  BY <1>2, <2>1, <2>5, <3>3, <3>4 DEF Obtained, held
            <3>6. Written'
                  BY <1>1, <1>2, <1>3 DEF Wrote, Written
            <3> QED BY <1>2, <3>3, <3>5, <3>6 DEF LoopInv, vars, Coming, SuccessMeansDone
      <2> QED BY <2>4, <2>5
<1>4. CASE ~ (line.ex = "none" /\ q.fn \in Reading)
      <2>1. local' = local /\ out' = out
            BY <1>1, <1>4 DEF MasterPDU
      <2>2. told' = "EX_SUCCESS" => Written' /\ Obtained'
            <3>1. SUFFICES ASSUME told' = "EX_SUCCESS" PROVE Written' /\ Obtained'
                  OBVIOUS
            <3>2. line.ex = "none" /\ q.fn \notin Reading
                  BY <1>1, <1>2, <1>4, <3>1
            <3>3. call.op \notin {"read", "readwrite"}
                  BY <1>1, <3>2, Reads
            <3>4. Obtained'
                  BY <1>2, <3>3 DEF Obtained
            <3>5. Written'
                  BY <1>1, <1>2, <3>2 DEF Wrote, Written
            <3> QED BY <3>4, <3>5
      <2> QED BY <1>1, <1>2, <2>1, <2>2 DEF LoopInv, vars, Coming, SuccessMeansDone
<1> QED BY <1>3, <1>4

\* A call: what is sent is what it asks for.
LEMMA SendKeeps ==
    ASSUME LoopInv, NEW asking, NEW request, NEW size, NEW heap, Send(asking, request, size, heap),
           Bank(local'), kept' = local', Asks(asking, request)
    PROVE  LoopInv'
<1>1. \/ line' = Nothing /\ told' = "not sent"
      \/ line'.at = "slave" /\ line'.request = request /\ told' = "none"
      <2>1. CASE heap # "ok"
            BY <2>1 DEF Send
      <2>2. CASE heap = "ok"
            <3>1. line' = [at |-> "slave", request |-> request, whole |-> size % Octet # 0]
                  /\ told' = "none"
                  BY <2>2 DEF Send
            <3> QED BY <3>1
      <2> QED BY <2>1, <2>2
<1>2. told' # "EX_SUCCESS"
      BY <1>1
<1>3. Coming'
      BY <1>1 DEF Send, Coming, Nothing
<1> QED BY <1>2, <1>3 DEF LoopInv, Send, vars, SuccessMeansDone

\* addReg() adds registers that hold zero.
LEMMA WithRegistersType ==
    ASSUME Bank(local), NEW kind, NEW b, NEW n
    PROVE  Bank(WithRegisters(kind, b, n))
<1> DEFINE added == {<<kind, b + i>> : i \in 0..((IF Space - 1 - b < n
                                               THEN Space - 1 - b ELSE n) - 1)}
           more == [r \in DOMAIN local \cup added |->
                     IF r \in DOMAIN local THEN local[r] ELSE Zero]
<1>1. WithRegisters(kind, b, n) \in {local, more}
      BY DEF WithRegisters
<1> HIDE DEF added
<1>2. Bank(more)
      BY HoldsWords DEF Bank
<1> QED BY <1>1, <1>2

\* The calls, by what they ask for.
LEMMA ManyAsks ==
    ASSUME LoopInv, NEW kind \in {"HREG", "COIL"}, NEW a \in Address,
           NEW values \in Seq(Holds(kind)), NEW heap, WriteMany(kind, a, values, heap)
    PROVE  LoopInv'
<1> DEFINE c == [op |-> "write",
                 writes |-> Listed(kind, a, values)]
           q == FrameOfMany(kind, a, values)
<1>1. Send(c, q, 6 + Len(Encoded(kind, values)), heap) /\ kept' = local /\ local' = local
      BY DEF WriteMany
<1>3. AsksMany(c, q)
      BY DEF AsksMany
<1> HIDE DEF c, q
<1> QED BY <1>1, <1>3, SendKeeps DEF LoopInv, Asks

LEMMA OneAsks ==
    ASSUME LoopInv, NEW fn, NEW kind, NEW a \in Address, NEW value \in Holds(kind), NEW heap,
           <<fn, kind>> \in {<<"FC_WRITE_REG", "HREG">>, <<"FC_WRITE_COIL", "COIL">>},
           WriteOne(fn, kind, a, value, heap)
    PROVE  LoopInv'
<1> DEFINE c == [op |-> "write", writes |-> [r \in {<<kind, a>>} |-> value]]
           q == [fn |-> fn, a |-> a, value |-> value]
<1>1. Send(c, q, 5, heap) /\ kept' = local /\ local' = local
      BY DEF WriteOne
<1>2. /\ fn \in {"FC_WRITE_REG", "FC_WRITE_COIL"}
      /\ kind = IF fn = "FC_WRITE_REG" THEN "HREG" ELSE "COIL"
      OBVIOUS
<1>3. AsksOne(c, q)
      BY <1>2 DEF AsksOne
<1> HIDE DEF c, q
<1> QED BY <1>1, <1>3, SendKeeps DEF LoopInv, Asks

LEMMA ReadAsks ==
    ASSUME LoopInv, NEW kind \in Kinds, NEW a \in Address, NEW n, NEW where, NEW heap,
           \/ where = "buffer"
           \/ where[1] \in Kinds /\ where[2] \in Address /\ (IsBits(where[1]) <=> IsBits(kind)),
           ReadMany(kind, a, n, where, heap), kept' = local', Bank(local')
    PROVE  LoopInv'
<1> DEFINE c == [op |-> "read", kind |-> kind, a |-> a, n |-> n, where |-> where]
           q == [fn |-> ReadFunction(kind), a |-> a, n |-> n]
<1>1. Send(c, q, 5, heap)
      BY DEF ReadMany
<1>2. n \in Nat /\ n < Space
      BY SlavePduAssumption DEF ReadMany
<1>3. c.where = where /\ c = [op |-> "read", kind |-> kind, a |-> a, n |-> n, where |-> c.where]
      OBVIOUS
<1>4. AsksRead(c, q)
      <2> HIDE DEF c
      <2> QED BY <1>2, <1>3 DEF AsksRead
<1> HIDE DEF c, q
<1> QED BY <1>1, <1>4, SendKeeps DEF Asks

\* Every call of the ModbusAPI is one of those.
LEMMA AskKeeps == ASSUME LoopInv, NEW heap, Ask(heap) PROVE LoopInv'
<1>0. Bank(local)
      BY DEF LoopInv
<1>1. PICK a \in Address :
        \/ \E value \in Words : WriteOne("FC_WRITE_REG", "HREG", a, value, heap)
        \/ \E value \in Coil : WriteOne("FC_WRITE_COIL", "COIL", a, value, heap)
        \/ \E values \in Lists : WriteMany("HREG", a, values, heap)
        \/ \E n \in 1..MaxBits : \E values \in [1..n -> Coil] :
               WriteMany("COIL", a, values, heap)
        \/ \E b \in Address, n \in 1..MaxBits :
               \/ Push("COIL", b, "COIL", a, n, heap) \/ Push("ISTS", b, "COIL", a, n, heap)
               \/ Push("HREG", b, "HREG", a, n, heap) \/ Push("IREG", b, "HREG", a, n, heap)
               \/ \E kind \in Kinds : Pull(kind, a, kind, b, n, heap)
               \/ Pull("HREG", a, "IREG", b, n, heap) \/ Pull("COIL", a, "ISTS", b, n, heap)
        \/ \E kind \in Kinds, n \in 1..MaxBits :
               \/ Read1(kind, a, n, "buffer", heap) \/ Read1(kind, a, n, <<kind, a>>, heap)
        \/ \E and_mask, or_mask \in Masks : MaskHreg(a, and_mask, or_mask, heap)
        \/ \E n \in 1..MaxWords, w \in Address, values \in Lists :
               ReadWriteHreg(a, n, w, values, heap)
      BY Zenon DEF Ask
<1>2. ASSUME NEW value \in Words, WriteOne("FC_WRITE_REG", "HREG", a, value, heap) PROVE LoopInv'
      <2>1. value \in Holds("HREG")
            BY ModbusLoopAssumption DEF Holds, IsBits
      <2> QED BY <1>2, <2>1, OneAsks
<1>3. ASSUME NEW value \in Coil, WriteOne("FC_WRITE_COIL", "COIL", a, value, heap) PROVE LoopInv'
      <2>1. value \in Holds("COIL")
            BY DEF Holds, IsBits, Coil
      <2> QED BY <1>3, <2>1, OneAsks
<1>4. ASSUME NEW values \in Lists, WriteMany("HREG", a, values, heap) PROVE LoopInv'
      <2>1. values \in Seq(Holds("HREG"))
            BY SlavePduAssumption DEF Holds, IsBits
      <2> QED BY <1>4, <2>1, ManyAsks
<1>5. ASSUME NEW n \in 1..MaxBits, NEW values \in [1..n -> Coil], WriteMany("COIL", a, values, heap)
      PROVE  LoopInv'
      <2>1. Coil = Holds("COIL")
            BY DEF Holds, IsBits, Coil
      <2>2. n \in Nat
            BY SlavePduAssumption
      <2>3. values \in Seq(Coil)
            BY <2>2
      <2> QED BY <1>5, <2>1, <2>3, ManyAsks
<1>6. ASSUME NEW b \in Address, NEW n \in 1..MaxBits, NEW from, NEW kind,
             <<from, kind>> \in {<<"COIL", "COIL">>, <<"ISTS", "COIL">>,
                                <<"HREG", "HREG">>, <<"IREG", "HREG">>},
             Push(from, b, kind, a, n, heap)
      PROVE  LoopInv'
      <2> DEFINE values == Held(local, from, b, n)
      <2>1. n \in Nat
            BY SlavePduAssumption
      <2>2. values \in Seq(Holds(from))
            BY <1>0, <2>1, HeldType
      <2>3. Holds(from) = Holds(kind) /\ kind \in {"HREG", "COIL"}
            BY <1>6 DEF Holds, IsBits
      <2>4. WriteMany(kind, a, values, heap)
            BY <1>6 DEF Push
      <2> HIDE DEF values
      <2> QED BY <2>2, <2>3, <2>4, ManyAsks
<1>7. ASSUME NEW b \in Address, NEW n \in 1..MaxBits, NEW kind \in Kinds, NEW to \in Kinds,
             IsBits(to) <=> IsBits(kind), Pull(kind, a, to, b, n, heap)
      PROVE  LoopInv'
      <2>1. /\ ReadMany(kind, a, n, <<to, b>>, heap)
            /\ local' = WithRegisters(to, b, n) /\ kept' = local'
            BY <1>7 DEF Pull
      <2>2. Bank(local')
            BY <1>0, <2>1, WithRegistersType
      <2>3. <<to, b>>[1] = to /\ <<to, b>>[2] = b
            OBVIOUS
      <2> QED BY <1>7, <2>1, <2>2, <2>3, ReadAsks
<1>8. ASSUME NEW n \in 1..MaxBits, NEW kind \in Kinds, NEW where,
             where = "buffer" \/ where = <<kind, a>>, Read1(kind, a, n, where, heap)
      PROVE  LoopInv'
      <2>1. ReadMany(kind, a, n, where, heap) /\ kept' = local' /\ Bank(local')
            BY <1>0, <1>8 DEF Read1
      <2>2. \/ where = "buffer"
            \/ where[1] \in Kinds /\ where[2] \in Address /\ (IsBits(where[1]) <=> IsBits(kind))
            BY <1>8
      <2> QED BY <2>1, <2>2, ReadAsks
<1>9. ASSUME NEW and_mask \in Masks, NEW or_mask \in Masks, MaskHreg(a, and_mask, or_mask, heap)
      PROVE  LoopInv'
      <2> DEFINE c == [op |-> "mask", a |-> a, and_mask |-> and_mask, or_mask |-> or_mask]
                 q == [fn |-> "FC_MASKWRITE_REG", a |-> a, and_mask |-> and_mask,
                       or_mask |-> or_mask]
      <2>1. CASE heap = "ok"
            <3>1. Send(c, q, 7, heap) /\ kept' = local /\ local' = local
                  BY <1>9, <2>1 DEF MaskHreg
            <3>2. and_mask \in Word /\ or_mask \in Word
                  BY ModbusLoopAssumption
            <3>3. AsksMask(c, q)
                  BY <3>2 DEF AsksMask
            <3> HIDE DEF c, q
            <3> QED BY <1>0, <3>1, <3>3, SendKeeps DEF Asks
      <2>2. CASE heap # "ok"
            <3>1. Crash(c) /\ kept' = local /\ local' = local
                  BY <1>9, <2>2 DEF MaskHreg
            <3>2. line.at = "nobody" /\ line' = line /\ told' = "crashed"
                  BY <3>1 DEF Crash, Idle
            <3> HIDE DEF c
            <3> QED BY <3>1, <3>2 DEF LoopInv, Crash, vars, Coming, SuccessMeansDone
      <2> QED BY <2>1, <2>2
<1>10. ASSUME NEW n \in 1..MaxWords, NEW w \in Address, NEW values \in Lists,
              ReadWriteHreg(a, n, w, values, heap)
       PROVE  LoopInv'
      <2> DEFINE c == [op |-> "readwrite", kind |-> "HREG", a |-> a, n |-> n, where |-> "buffer",
                       writes |-> Listed("HREG", w, values)]
                 q == [fn |-> "FC_READWRITE_REGS", a |-> a, n |-> n, w |-> w,
                       data |-> OnLine(values)]
      <2>1. Send(c, q, 10 + 2 * Len(values), heap) /\ kept' = local /\ local' = local
            BY <1>10 DEF ReadWriteHreg
      <2>2. n \in Nat /\ n < Space /\ values \in Seq(Word)
            BY SlavePduAssumption
      <2>4. AsksReadWrite(c, q)
            BY <2>2 DEF AsksReadWrite
      <2> HIDE DEF c, q
      <2> QED BY <1>0, <2>1, <2>4, SendKeeps DEF Asks
<1>11. /\ {"COIL", "ISTS", "HREG", "IREG"} \subseteq Kinds
       /\ IsBits("ISTS") <=> IsBits("COIL")
       /\ IsBits("IREG") <=> IsBits("HREG")
       BY DEF Kinds, IsBits
<1>12. ASSUME NEW b \in Address, NEW n \in 1..MaxBits,
              \/ Push("COIL", b, "COIL", a, n, heap) \/ Push("ISTS", b, "COIL", a, n, heap)
              \/ Push("HREG", b, "HREG", a, n, heap) \/ Push("IREG", b, "HREG", a, n, heap)
       PROVE  LoopInv'
       <2>1. CASE Push("COIL", b, "COIL", a, n, heap)
             BY <2>1, <1>6
       <2>2. CASE Push("ISTS", b, "COIL", a, n, heap)
             BY <2>2, <1>6
       <2>3. CASE Push("HREG", b, "HREG", a, n, heap)
             BY <2>3, <1>6
       <2>4. CASE Push("IREG", b, "HREG", a, n, heap)
             BY <2>4, <1>6
       <2> QED BY <1>12, <2>1, <2>2, <2>3, <2>4
<1>13. ASSUME NEW b \in Address, NEW n \in 1..MaxBits,
              \/ \E kind \in Kinds : Pull(kind, a, kind, b, n, heap)
              \/ Pull("HREG", a, "IREG", b, n, heap) \/ Pull("COIL", a, "ISTS", b, n, heap)
       PROVE  LoopInv'
       <2>1. ASSUME NEW kind \in Kinds, Pull(kind, a, kind, b, n, heap) PROVE LoopInv'
             BY <2>1, <1>7
       <2>2. CASE Pull("HREG", a, "IREG", b, n, heap)
             BY <2>2, <1>7, <1>11
       <2>3. CASE Pull("COIL", a, "ISTS", b, n, heap)
             BY <2>3, <1>7, <1>11
       <2> QED BY <1>13, <2>1, <2>2, <2>3
<1>14. ASSUME NEW kind \in Kinds, NEW n \in 1..MaxBits,
              Read1(kind, a, n, "buffer", heap) \/ Read1(kind, a, n, <<kind, a>>, heap)
       PROVE  LoopInv'
       <2>1. CASE Read1(kind, a, n, "buffer", heap)
             BY <2>1, <1>8
       <2>2. CASE Read1(kind, a, n, <<kind, a>>, heap)
             BY <2>2, <1>8
       <2> QED BY <1>14, <2>1, <2>2
<1>15. CASE \/ \E value \in Words : WriteOne("FC_WRITE_REG", "HREG", a, value, heap)
            \/ \E value \in Coil : WriteOne("FC_WRITE_COIL", "COIL", a, value, heap)
       BY <1>15, <1>2, <1>3
<1>16. CASE \/ \E values \in Lists : WriteMany("HREG", a, values, heap)
            \/ \E n \in 1..MaxBits : \E values \in [1..n -> Coil] :
                   WriteMany("COIL", a, values, heap)
       BY <1>16, <1>4, <1>5
<1>17. CASE \E b \in Address, n \in 1..MaxBits :
               \/ Push("COIL", b, "COIL", a, n, heap) \/ Push("ISTS", b, "COIL", a, n, heap)
               \/ Push("HREG", b, "HREG", a, n, heap) \/ Push("IREG", b, "HREG", a, n, heap)
               \/ \E kind \in Kinds : Pull(kind, a, kind, b, n, heap)
               \/ Pull("HREG", a, "IREG", b, n, heap) \/ Pull("COIL", a, "ISTS", b, n, heap)
       BY ONLY <1>17, <1>12, <1>13
<1>18. CASE \/ \E kind \in Kinds, n \in 1..MaxBits :
                   \/ Read1(kind, a, n, "buffer", heap) \/ Read1(kind, a, n, <<kind, a>>, heap)
            \/ \E and_mask, or_mask \in Masks : MaskHreg(a, and_mask, or_mask, heap)
            \/ \E n \in 1..MaxWords, w \in Address, values \in Lists :
                   ReadWriteHreg(a, n, w, values, heap)
       BY <1>18, <1>9, <1>10, <1>14
<1> QED BY ONLY <1>1, <1>15, <1>16, <1>17, <1>18

LEMMA LoopStep == LoopInv /\ [LoopNext]_loopVars => LoopInv'
<1>1. ASSUME LoopInv, UNCHANGED loopVars PROVE LoopInv'
      BY <1>1 DEF LoopInv, loopVars, ownVars, vars, Coming, SuccessMeansDone, Brings, Written,
                  Obtained
<1> QED BY <1>1, AskKeeps, ServeKeeps, QuietKeeps, PduKeeps DEF LoopNext

\* An application that is told EX_SUCCESS has got what it asked for. Of what readWriteHreg
\* writes this says less: a register that does not exist is acknowledged when zero was meant
\* for it, and of a range over the last address the rest lies at the bottom.
THEOREM SuccessIsReal == LoopSpec => []SuccessMeansDone
<1>1. LoopInv => SuccessMeansDone
      BY DEF LoopInv
<1> QED BY <1>1, LoopStarts, LoopStep, PTL DEF LoopSpec

--------------------------------------------------------------------------------
LEMMA NatSet ==
    ASSUME NEW P \in SUBSET Nat, 0 \in P, \A n \in P : n + 1 \in P
    PROVE  \A n \in Nat : n \in P
<1> SUFFICES ASSUME NEW n \in Nat, n \notin P PROVE FALSE
      OBVIOUS
<1> DEFINE N == Nat \ P
<1>1. PICK m \in N : \A k \in N : <<k, m>> \notin OpToRel(<, Nat)
      BY WFMin, NatLessThanWellFounded, Zenon
<1>2. \A k \in N : ~ (k < m)
      BY <1>1, Zenon DEF OpToRel
<1>3. m \in Nat /\ m \notin P /\ m # 0
      BY <1>1
<1>4. m - 1 \in Nat /\ m - 1 < m
      BY <1>3
<1>5. m - 1 \in P
      BY <1>2, <1>4
<1>6. (m - 1) + 1 \in P
      BY <1>5
<1> QED BY <1>3, <1>6

--------------------------------------------------------------------------------
(* Running a loop: a function is determined by its first value and its step. *)
Runs(f, S, lo, m, start, step) ==
    f \in [lo..m -> S] /\ f[lo] = start /\ \A n \in lo..m : n # lo => f[n] = step[n][f[n - 1]]

LEMMA Recursion ==
    ASSUME NEW S, NEW lo \in Nat, NEW m \in Nat, lo <= m, NEW start \in S,
           NEW step \in [Nat -> [S -> S]]
    PROVE  \E f : Runs(f, S, lo, m, start, step)
<1> DEFINE Is(f, d) == /\ f \in [lo..lo + d -> S] /\ f[lo] = start
                       /\ \A n \in lo..lo + d : n # lo => f[n] = step[n][f[n - 1]]
           P == {d \in Nat : \E f : Is(f, d)}
<1>1. 0 \in P
      <2>1. Is([n \in lo..lo + 0 |-> start], 0)
            OBVIOUS
      <2> HIDE DEF Is
      <2> QED BY <2>1
<1>2. ASSUME NEW d \in P PROVE d + 1 \in P
      <2>1. PICK f : Is(f, d)
            BY <1>2
      <2> DEFINE next == step[lo + d + 1][f[lo + d]]
                 g == [n \in lo..lo + (d + 1) |-> IF n = lo + d + 1 THEN next ELSE f[n]]
      <2>2. next \in S
            BY <2>1
      <2>3. g \in [lo..lo + (d + 1) -> S] /\ g[lo] = start
            BY <2>1, <2>2
      <2>4. ASSUME NEW n \in lo..lo + (d + 1), n # lo PROVE g[n] = step[n][g[n - 1]]
            <3>1. CASE n = lo + d + 1
                  BY <3>1
            <3>2. CASE n # lo + d + 1
                  BY <2>1, <2>4, <3>2
            <3> QED BY <3>1, <3>2
      <2>5. Is(g, d + 1)
            BY <2>3, <2>4
      <2> HIDE DEF Is, g
      <2>6. d + 1 \in Nat
            BY <1>2
      <2> QED BY <2>5, <2>6
<1>3. P \in SUBSET Nat
      OBVIOUS
<1> HIDE DEF P
<1>4. \A d \in Nat : d \in P
      BY <1>1, <1>2, <1>3, NatSet
<1>5. m - lo \in P /\ lo + (m - lo) = m
      BY <1>4
<1> QED BY <1>5 DEF P, Runs

(* What is counted and what is strung together.                             *)
Subs == Seq([at : Nat, n : Nat])

LEMMA Elements ==
    ASSUME NEW S, NEW list \in Seq(S)
    PROVE  Len(list) \in Nat /\ \A k \in 1..Len(list) : list[k] \in S
OBVIOUS

LEMMA SubsAre ==
    ASSUME NEW subs \in Subs
    PROVE  Len(subs) \in Nat /\ \A k \in 1..Len(subs) : subs[k].at \in Nat /\ subs[k].n \in Nat
<1>1. Len(subs) \in Nat /\ \A k \in 1..Len(subs) : subs[k] \in [at : Nat, n : Nat]
      BY Elements, Zenon DEF Subs
<1>2. ASSUME NEW sub \in [at : Nat, n : Nat] PROVE sub.at \in Nat /\ sub.n \in Nat
      OBVIOUS
<1> QED BY <1>1, <1>2

LEMMA FirstRegistersCount ==
    ASSUME NEW subs \in Subs
    PROVE  /\ FirstRegisters(subs) \in [0..Len(subs) -> Nat] /\ FirstRegisters(subs)[0] = 0
           /\ \A k \in 1..Len(subs) :
                 FirstRegisters(subs)[k] = FirstRegisters(subs)[k - 1] + subs[k].n
<1> DEFINE first == FirstRegisters(subs)
           step == [k \in Nat |-> [s \in Nat |-> IF k \in 1..Len(subs) THEN s + subs[k].n ELSE s]]
           Is(f) == f = [k \in 0..Len(subs) |-> IF k = 0 THEN 0 ELSE f[k - 1] + subs[k].n]
<1>1. Len(subs) \in Nat /\ \A k \in 1..Len(subs) : subs[k].n \in Nat
      BY SubsAre
<1>2. step \in [Nat -> [Nat -> Nat]]
      BY <1>1
<1>20. \A n \in 1..Len(subs), s \in Nat : step[n][s] = s + subs[n].n
      BY <1>1
<1> HIDE DEF step
<1>21. 0 \in Nat /\ 0 <= Len(subs) /\ Len(subs) \in Nat
      BY <1>1
<1>22. PICK f : Runs(f, Nat, 0, Len(subs), 0, step)
      BY <1>2, <1>21, Recursion, Zenon
<1>3. /\ f \in [0..Len(subs) -> Nat] /\ f[0] = 0
      /\ \A n \in 0..Len(subs) : n # 0 => f[n] = step[n][f[n - 1]]
      BY <1>22, Zenon DEF Runs
<1>4. \A n \in 0..Len(subs) : n # 0 => f[n] = f[n - 1] + subs[n].n
      <2>1. ASSUME NEW n \in 0..Len(subs), n # 0 PROVE f[n] = f[n - 1] + subs[n].n
            <3>1. n \in 1..Len(subs) /\ n - 1 \in 0..Len(subs)
                  BY <1>1, <2>1
            <3>2. f[n - 1] \in Nat /\ f[n] = step[n][f[n - 1]]
                  BY <1>3, <2>1, <3>1
            <3> QED BY <1>20, <3>1, <3>2
      <2> QED BY <2>1
<1>5. Is(f)
      BY <1>3, <1>4
<1> HIDE DEF Is
<1>6. first = CHOOSE g : Is(g)
      BY Zenon DEF FirstRegisters, Is
<1>7. Is(first)
      BY <1>5, <1>6, Zenon
<1> HIDE DEF first
<1>8. first = [k \in 0..Len(subs) |-> IF k = 0 THEN 0 ELSE first[k - 1] + subs[k].n]
      BY <1>7 DEF Is
<1>9. DOMAIN first = 0..Len(subs) /\ first[0] = 0
      BY <1>1, <1>8
<1>10. \A k \in 1..Len(subs) : first[k] = first[k - 1] + subs[k].n
      BY <1>1, <1>8
<1>11. \A k \in 0..Len(subs) : first[k] = f[k]
      <2> DEFINE P == {k \in Nat : k <= Len(subs) => first[k] = f[k]}
      <2>1. 0 \in P
            BY <1>3, <1>9
      <2>2. ASSUME NEW k \in P PROVE k + 1 \in P
            BY <1>1, <1>4, <1>10
      <2>3. P \in SUBSET Nat
            OBVIOUS
      <2> HIDE DEF P
      <2>4. \A k \in Nat : k \in P
            BY <2>1, <2>2, <2>3, NatSet
      <2> QED BY <2>4, <1>1 DEF P
<1>12. first \in [0..Len(subs) -> Nat]
      BY <1>3, <1>8, <1>11
<1> QED BY <1>9, <1>10, <1>12 DEF first

LEMMA Grows ==
    ASSUME NEW L \in Nat, NEW f \in [0..L -> Nat], \A k \in 1..L : f[k - 1] <= f[k],
           NEW i \in 0..L, NEW k \in i..L
    PROVE  f[i] <= f[k]
<1> DEFINE P == {d \in Nat : i + d <= L => f[i] <= f[i + d]}
<1>1. 0 \in P
      OBVIOUS
<1>2. ASSUME NEW d \in P PROVE d + 1 \in P
      <2>1. ASSUME i + (d + 1) <= L PROVE f[i] <= f[i + (d + 1)]
            <3>1. i + d \in 0..L /\ i + (d + 1) \in 1..L /\ (i + (d + 1)) - 1 = i + d
                  BY <1>2, <2>1
            <3>2. f[i] <= f[i + d] /\ f[i + d] <= f[i + (d + 1)]
                  BY <1>2, <3>1
            <3>3. f[i] \in Nat /\ f[i + d] \in Nat /\ f[i + (d + 1)] \in Nat
                  BY <3>1
            <3> QED BY <3>2, <3>3
      <2> QED BY <1>2, <2>1
<1>3. P \in SUBSET Nat
      OBVIOUS
<1> HIDE DEF P
<1>4. \A d \in Nat : d \in P
      BY <1>1, <1>2, <1>3, NatSet
<1>5. k - i \in P /\ i + (k - i) = k
      BY <1>4
<1> QED BY <1>5 DEF P

LEMMA FirstAreFewer ==
    ASSUME NEW subs \in Subs, NEW k \in 0..Len(subs)
    PROVE  FirstRegisters(subs)[k] <= Registers(subs) /\ Registers(subs) \in Nat
<1> DEFINE first == FirstRegisters(subs)
<1>1. /\ Len(subs) \in Nat /\ \A j \in 1..Len(subs) : subs[j].n \in Nat
      /\ first \in [0..Len(subs) -> Nat]
      /\ \A j \in 1..Len(subs) : first[j] = first[j - 1] + subs[j].n
      BY FirstRegistersCount, SubsAre
<1> HIDE DEF first
<1>2. ASSUME NEW j \in 1..Len(subs) PROVE first[j - 1] <= first[j]
      <2>1. first[j - 1] \in Nat /\ subs[j].n \in Nat
            BY <1>1
      <2>2. first[j] = first[j - 1] + subs[j].n
            BY <1>1
      <2> QED BY <2>1, <2>2
<1>3. k \in 0..Len(subs) /\ Len(subs) \in k..Len(subs)
      BY <1>1
<1>4. first[k] <= first[Len(subs)]
      BY <1>1, <1>2, <1>3, Grows
<1> QED BY <1>1, <1>3, <1>4 DEF Registers, first

LEMMA Concatenation ==
    ASSUME NEW s \in Seq(Nat), NEW t \in Seq(Nat)
    PROVE  /\ s \o t \in Seq(Nat) /\ Len(s \o t) = Len(s) + Len(t)
           /\ \A p \in 1..Len(s) : (s \o t)[p] = s[p]
           /\ \A p \in 1..Len(t) : (s \o t)[Len(s) + p] = t[p]
OBVIOUS

\* The first k pieces strung together, from the k-th that is there.
Strung(f, pieces) ==
    /\ f \in [1..Len(pieces) -> Seq(Nat)] /\ f[1] = pieces[1]
    /\ \A k \in 1..Len(pieces) : k # 1 => f[k] = f[k - 1] \o pieces[k]

LEMMA FlattenStrings ==
    ASSUME NEW pieces \in Seq(Seq(Nat)), Len(pieces) # 0
    PROVE  \E f : Strung(f, pieces) /\ FlattenSeq(pieces) = f[Len(pieces)]
<1> DEFINE L == Len(pieces)
           S == Seq(Nat)
           step == [k \in Nat |-> [s \in S |-> IF k \in 1..L THEN s \o pieces[k] ELSE s]]
           Is(f) == f = [i \in 1..L |-> IF i = 1 THEN pieces[i] ELSE f[i - 1] \o pieces[i]]
<1>1. L \in Nat /\ 1 <= L /\ 1 \in Nat /\ \A k \in 1..L : pieces[k] \in Seq(Nat)
      BY Elements
<1> HIDE DEF L
<1>2. \A s, t \in Seq(Nat) : s \o t \in Seq(Nat)
      OBVIOUS
<1> HIDE DEF S
<1>3. step \in [Nat -> [S -> S]] /\ pieces[1] \in S
      BY <1>1, <1>2 DEF S
<1>4. \A k \in 1..L, s \in S : step[k][s] = s \o pieces[k]
      <2>1. ASSUME NEW k \in 1..L, NEW s \in S PROVE step[k][s] = s \o pieces[k]
            <3>1. k \in Nat
                  BY <1>1
            <3>2. step[k] = [z \in S |-> IF k \in 1..L THEN z \o pieces[k] ELSE z]
                  BY <3>1, Zenon
            <3> QED BY <3>2, Zenon
      <2> QED BY <2>1
<1> HIDE DEF step
<1>5. PICK f : Runs(f, S, 1, L, pieces[1], step)
      BY <1>1, <1>3, Recursion, Zenon
<1>6. /\ f \in [1..L -> S] /\ f[1] = pieces[1]
      /\ \A n \in 1..L : n # 1 => f[n] = step[n][f[n - 1]]
      BY <1>5, Zenon DEF Runs
<1>7. \A n \in 1..L : n # 1 => f[n] = f[n - 1] \o pieces[n]
      <2>1. ASSUME NEW n \in 1..L, n # 1 PROVE f[n] = f[n - 1] \o pieces[n]
            <3>1. n - 1 \in 1..L
                  BY <1>1, <2>1
            <3>2. f[n - 1] \in S /\ f[n] = step[n][f[n - 1]]
                  BY <1>6, <2>1, <3>1
            <3> QED BY <1>4, <3>1, <3>2
      <2> QED BY <2>1
<1>8. Is(f)
      BY <1>6, <1>7
<1> HIDE DEF Is
<1> DEFINE all == CHOOSE g : Is(g)
<1>9. Is(all)
      BY <1>8, Zenon
<1>10. FlattenSeq(pieces) = all[L]
      BY <1>1, Zenon DEF FlattenSeq, Is, L
<1> HIDE DEF all
<1>11. all = [i \in 1..L |-> IF i = 1 THEN pieces[i] ELSE all[i - 1] \o pieces[i]]
      BY <1>9 DEF Is
<1>12. /\ DOMAIN all = 1..L /\ all[1] = pieces[1]
       /\ \A k \in 1..L : k # 1 => all[k] = all[k - 1] \o pieces[k]
      <2>1. 1 \in 1..L
            BY <1>1
      <2> QED BY <1>11, <2>1, Zenon
<1>13. \A k \in 1..L : all[k] = f[k]
      <2> DEFINE P == {d \in Nat : d + 1 <= L => all[d + 1] = f[d + 1]}
      <2>1. 0 \in P
            BY <1>6, <1>12
      <2>2. ASSUME NEW d \in P PROVE d + 1 \in P
            <3>1. (d + 1) + 1 # 1 /\ ((d + 1) + 1) - 1 = d + 1
                  BY <2>2
            <3>2. ASSUME (d + 1) + 1 <= L PROVE all[(d + 1) + 1] = f[(d + 1) + 1]
                  <4>1. (d + 1) + 1 \in 1..L /\ all[d + 1] = f[d + 1]
                        BY <1>1, <2>2, <3>2
                  <4> QED BY <1>7, <1>12, <3>1, <4>1
            <3> QED BY <2>2, <3>2
      <2>3. P \in SUBSET Nat
            OBVIOUS
      <2> HIDE DEF P
      <2>4. \A d \in Nat : d \in P
            BY <2>1, <2>2, <2>3, NatSet
      <2>5. ASSUME NEW k \in 1..L PROVE all[k] = f[k]
            <3>1. k - 1 \in P /\ (k - 1) + 1 = k /\ k <= L
                  BY <1>1, <2>4
            <3> QED BY <3>1 DEF P
      <2> QED BY <2>5
<1>14. Strung(f, pieces)
      BY <1>6, <1>7 DEF Strung, L, S
<1>15. L \in 1..L
      BY <1>1
<1> QED BY <1>10, <1>13, <1>14, <1>15 DEF L

\* Where each piece begins.
Begins(from, pieces) ==
    /\ from \in [0..Len(pieces) -> Nat] /\ from[0] = 0
    /\ \A k \in 1..Len(pieces) : from[k] = from[k - 1] + Len(pieces[k])

\* Each of the first k pieces is in its place.
Placed(flat, from, pieces, k) ==
    /\ Len(flat) = from[k]
    /\ \A i \in 1..k : \A j \in 1..Len(pieces[i]) : flat[from[i - 1] + j] = pieces[i][j]

LEMMA StrungPlaces ==
    ASSUME NEW pieces \in Seq(Seq(Nat)), NEW f, Strung(f, pieces), NEW from, Begins(from, pieces),
           NEW k \in 1..Len(pieces)
    PROVE  Placed(f[k], from, pieces, k)
<1> DEFINE L == Len(pieces)
           Fills(n) == /\ Len(f[n]) = from[n]
                       /\ \A i \in 1..n : \A j \in 1..Len(pieces[i]) : f[n][from[i - 1] + j] = pieces[i][j]
           P == {d \in Nat : d + 1 <= L => Fills(d + 1)}
<1>1. L \in Nat /\ \A i \in 1..L : pieces[i] \in Seq(Nat) /\ Len(pieces[i]) \in Nat
      BY Elements
<1>2. /\ f[1] = pieces[1] /\ \A i \in 1..L : f[i] \in Seq(Nat)
      /\ \A i \in 1..L : i # 1 => f[i] = f[i - 1] \o pieces[i]
      BY DEF Strung
<1>3. /\ \A i \in 0..L : from[i] \in Nat
      /\ from[0] = 0 /\ \A i \in 1..L : from[i] = from[i - 1] + Len(pieces[i])
      BY DEF Begins
<1> HIDE DEF L
<1>4. 0 \in P
      <2>1. ASSUME 1 <= L PROVE Fills(1)
            <3>1. 1 \in 1..L /\ from[1] = from[0] + Len(pieces[1]) /\ Len(pieces[1]) \in Nat
                  BY <1>1, <1>3, <2>1
            <3>2. \A i \in 1..1 : i = 1
                  OBVIOUS
            <3>3. \A j \in 1..Len(pieces[1]) : from[1 - 1] + j = j
                  BY <1>3, <3>1
            <3> QED BY <1>2, <1>3, <3>1, <3>2, <3>3
      <2> QED BY <2>1
<1>5. ASSUME NEW d \in P PROVE d + 1 \in P
      <2> DEFINE m == d + 1
                 n == m + 1
      <2>1. d \in Nat /\ m \in Nat /\ n \in Nat /\ (m <= L => Fills(m)) /\ n # 1 /\ n - 1 = m
            BY <1>5
      <2>2. ASSUME n <= L PROVE Fills(n)
            <3>1. m \in 1..L /\ n \in 1..L /\ m <= L
                  BY <1>1, <2>1, <2>2
            <3>2. f[n] = f[m] \o pieces[n] /\ f[m] \in Seq(Nat) /\ pieces[n] \in Seq(Nat)
                  BY <1>1, <1>2, <2>1, <3>1
            <3>3. from[n] = from[m] + Len(pieces[n]) /\ from[m] \in Nat /\ Len(f[m]) = from[m]
                  BY <1>3, <2>1, <3>1
            <3> HIDE DEF m, n
            <3>4. Len(f[n]) = from[n]
                  <4>1. Len(f[n]) = Len(f[m]) + Len(pieces[n])
                        <5>1. Len(f[m] \o pieces[n]) = Len(f[m]) + Len(pieces[n])
                              BY <3>2, Concatenation, Zenon
                        <5>2. f[n] = f[m] \o pieces[n]
                              BY <3>2
                        <5> QED BY <5>1, <5>2, Zenon
                  <4> QED BY <3>3, <4>1
            <3>5. ASSUME NEW i \in 1..n, NEW j \in 1..Len(pieces[i])
                  PROVE  f[n][from[i - 1] + j] = pieces[i][j]
                  <4>1. CASE i = n
                        <5>1. from[i - 1] + j = Len(f[m]) + j /\ j \in 1..Len(pieces[n])
                              BY <2>1, <3>3, <3>5, <4>1
                        <5>2. (f[m] \o pieces[n])[Len(f[m]) + j] = pieces[n][j]
                              BY <3>2, <5>1, Concatenation, Zenon
                        <5> QED BY <3>2, <4>1, <5>1, <5>2
                  <4>2. CASE i # n
                        <5>1. i \in 1..m /\ i \in 1..L /\ i - 1 \in 0..L
                              BY <1>1, <2>1, <3>1, <3>5, <4>2
                        <5>2. f[m][from[i - 1] + j] = pieces[i][j]
                              BY <2>1, <3>1, <5>1
                        <5>3. from[i - 1] \in Nat /\ from[i] = from[i - 1] + Len(pieces[i]) /\ Len(pieces[i]) \in Nat
                              BY <1>1, <1>3, <5>1
                        <5>4. from[i] <= from[m]
                              <6>1. ASSUME NEW e \in 1..L PROVE from[e - 1] <= from[e]
                                    <7>1. from[e - 1] \in Nat /\ Len(pieces[e]) \in Nat
                                          BY <1>1, <1>3
                                    <7>2. from[e] = from[e - 1] + Len(pieces[e])
                                          BY <1>3
                                    <7> QED BY <7>1, <7>2
                              <6>2. i \in 0..L /\ m \in i..L /\ from \in [0..L -> Nat]
                                    BY <3>1, <5>1 DEF Begins, L
                              <6> QED BY <1>1, <6>1, <6>2, Grows
                        <5>5. from[i - 1] + j \in 1..Len(f[m])
                              <6>1. /\ from[i] <= from[m] /\ from[i] = from[i - 1] + Len(pieces[i])
                                    /\ from[i - 1] \in Nat /\ Len(pieces[i]) \in Nat /\ from[m] \in Nat
                                    /\ j \in 1..Len(pieces[i]) /\ Len(f[m]) = from[m]
                                    BY <3>3, <3>5, <5>3, <5>4
                              <6>2. from[i - 1] + Len(pieces[i]) <= from[m]
                                    BY <6>1
                              <6>3. ASSUME NEW x \in Nat, NEW y \in Nat, NEW z \in Nat, x + y <= z, NEW e \in 1..y
                                    PROVE  x + e \in 1..z
                                    BY <6>3
                              <6>4. from[i - 1] + j \in 1..from[m]
                                    BY <6>1, <6>2, <6>3, Zenon
                              <6> QED BY <6>1, <6>4, Zenon
                        <5>6. f[n][from[i - 1] + j] = f[m][from[i - 1] + j]
                              <6>1. (f[m] \o pieces[n])[from[i - 1] + j] = f[m][from[i - 1] + j]
                                    BY <3>2, <5>5, Concatenation, Zenon
                              <6> QED BY <3>2, <6>1, Zenon
                        <5> QED BY <5>2, <5>6
                  <4> QED BY <4>1, <4>2
            <3> QED BY <3>4, <3>5
      <2> QED BY <2>1, <2>2
<1>6. P \in SUBSET Nat
      OBVIOUS
<1> HIDE DEF P, Fills
<1>7. \A d \in Nat : d \in P
      BY <1>4, <1>5, <1>6, NatSet
<1>8. k - 1 \in P /\ (k - 1) + 1 = k /\ k <= L
      BY <1>1, <1>7 DEF L
<1> QED BY <1>8 DEF P, Fills, Placed

--------------------------------------------------------------------------------
(* The walk of masterPDU() through an answer.                               *)
Walks(M) == [memory : [1..M -> Nat], to : Nat, at : Nat \ {0}, fine : BOOLEAN]

Refused(data, w) == data[w.at] \notin 7..245 \/ data[w.at + 1] # 6
                    \/ w.at + data[w.at] > Len(data) + 1
Moved(data, w) == [memory |-> Copied(w.memory, w.to, data, w.at + 2, data[w.at]),
                   to |-> w.to + data[w.at] - 1, at |-> w.at + data[w.at] + 1, fine |-> TRUE]
Walked(data, w) == IF ~ w.fine \/ w.at > Len(data) THEN w
                   ELSE IF Refused(data, w) THEN [w EXCEPT !.fine = FALSE] ELSE Moved(data, w)

\* What lies before the copy is left alone, and the copy is what the line held.
IsCopy(C, M, bytes, to, data, from, count) ==
    /\ C \in [1..M -> Nat]
    /\ \A i \in 1..M : i < to => C[i] = bytes[i]
    /\ \A i \in 1..M : to <= i /\ i < to + count /\ from + (i - to) <= Len(data)
          => C[i] = data[from + (i - to)]

LEMMA CopiedIs ==
    ASSUME NEW M \in Nat, NEW bytes \in [1..M -> Nat], NEW to \in Nat, NEW data \in Seq(Nat),
           NEW from \in Nat \ {0}, NEW count \in Nat
    PROVE  IsCopy(Copied(bytes, to, data, from, count), M, bytes, to, data, from, count)
<1> DEFINE C == Copied(bytes, to, data, from, count)
<1>1. C = [i \in 1..M |-> IF i \in to..(to + count - 1)
                          THEN IF from + i - to <= Len(data) THEN data[from + i - to] ELSE 255
                          ELSE bytes[i]]
      BY DEF Copied, Behind
<1> HIDE DEF C
<1>2. ASSUME NEW i \in 1..M PROVE C[i] \in Nat
      <2>1. CASE i \in to..(to + count - 1) /\ from + i - to <= Len(data)
            <3>1. from + i - to \in 1..Len(data)
                  BY <2>1
            <3>2. data[from + i - to] \in Nat
                  BY <3>1
            <3> QED BY <1>1, <2>1, <3>2
      <2>2. CASE i \in to..(to + count - 1) /\ ~ (from + i - to <= Len(data))
            BY <1>1, <2>2
      <2>3. CASE i \notin to..(to + count - 1)
            BY <1>1, <2>3
      <2> QED BY <2>1, <2>2, <2>3
<1>3. C \in [1..M -> Nat]
      BY <1>1, <1>2
<1>4. ASSUME NEW i \in 1..M, i < to PROVE C[i] = bytes[i]
      BY <1>1, <1>4
<1>5. ASSUME NEW i \in 1..M, to <= i, i < to + count, from + (i - to) <= Len(data)
      PROVE  C[i] = data[from + (i - to)]
      BY <1>1, <1>5
<1> QED BY <1>3, <1>4, <1>5 DEF C, IsCopy

LEMMA WalkedIs ==
    ASSUME NEW M \in Nat, NEW data \in Seq(Nat), NEW w \in Walks(M)
    PROVE  Walked(data, w) \in Walks(M)
<1>1. w.memory \in [1..M -> Nat] /\ w.to \in Nat /\ w.at \in Nat \ {0} /\ w.fine \in BOOLEAN
      BY DEF Walks
<1>2. CASE ~ w.fine \/ w.at > Len(data)
      BY <1>2 DEF Walked
<1>3. CASE ~ (~ w.fine \/ w.at > Len(data)) /\ Refused(data, w)
      <2>1. Walked(data, w) = [w EXCEPT !.fine = FALSE]
            BY <1>3, Zenon DEF Walked
      <2>2. [w EXCEPT !.fine = FALSE] \in Walks(M)
            BY DEF Walks
      <2> QED BY <2>1, <2>2
<1>4. CASE ~ (~ w.fine \/ w.at > Len(data)) /\ ~ Refused(data, w)
      <2>1. Walked(data, w) = Moved(data, w)
            BY <1>4, Zenon DEF Walked
      <2>2. data[w.at] \in Nat /\ data[w.at] >= 7
            <3>1. data[w.at] \in 7..245
                  BY <1>4, Zenon DEF Refused
            <3>2. ASSUME NEW d \in 7..245 PROVE d \in Nat /\ d >= 7
                  OBVIOUS
            <3> QED BY <3>1, <3>2, Zenon
      <2>3. Copied(w.memory, w.to, data, w.at + 2, data[w.at]) \in [1..M -> Nat]
            <3>1. w.at + 2 \in Nat \ {0}
                  BY <1>1
            <3>2. IsCopy(Copied(w.memory, w.to, data, w.at + 2, data[w.at]), M, w.memory, w.to, data, w.at + 2, data[w.at])
                  BY <1>1, <2>2, <3>1, CopiedIs, Zenon
            <3> QED BY <3>2, Zenon DEF IsCopy
      <2>4. w.to + data[w.at] - 1 \in Nat /\ w.at + data[w.at] + 1 \in Nat \ {0}
            <3>1. ASSUME NEW d \in Nat, d >= 7, NEW t \in Nat, NEW a \in Nat
                  PROVE  t + d - 1 \in Nat /\ a + d + 1 \in Nat \ {0}
                  BY <3>1
            <3> QED BY <1>1, <2>2, <3>1
      <2> QED BY <2>1, <2>3, <2>4 DEF Moved, Walks
<1> QED BY <1>2, <1>3, <1>4

WalksThrough(walk, data, bytes) ==
    /\ \A n \in 1..Len(data) + 1 : walk[n] \in Walks(Len(bytes))
    /\ walk[1] = [memory |-> bytes, to |-> 1, at |-> 1, fine |-> TRUE]
    /\ \A n \in 1..Len(data) + 1 : n # 1 => walk[n] = Walked(data, walk[n - 1])

LEMMA WalkIs ==
    ASSUME NEW data \in Seq(Nat), NEW bytes \in Seq(Nat)
    PROVE  \E walk : WalksThrough(walk, data, bytes) /\ Walk(data, bytes) = walk[Len(data) + 1]
<1> DEFINE L == Len(data) + 1
           S == Walks(Len(bytes))
           start == [memory |-> bytes, to |-> 1, at |-> 1, fine |-> TRUE]
           step == [k \in Nat |-> [w \in S |-> Walked(data, w)]]
           Is(f) == f = [at \in 1..L |-> IF at = 1 THEN start ELSE Walked(data, f[at - 1])]
<1>1. L \in Nat /\ 1 <= L /\ 1 \in Nat /\ Len(bytes) \in Nat /\ bytes \in [1..Len(bytes) -> Nat]
      OBVIOUS
<1>2. start \in S
      BY <1>1 DEF Walks
<1>3. \A w \in S : Walked(data, w) \in S
      BY <1>1, WalkedIs
<1> HIDE DEF S, start
<1>4. step \in [Nat -> [S -> S]]
      BY <1>3
<1>5. \A k \in Nat, w \in S : step[k][w] = Walked(data, w)
      OBVIOUS
<1> HIDE DEF step, L
<1>6. PICK f : Runs(f, S, 1, L, start, step)
      BY <1>1, <1>2, <1>4, Recursion, Zenon
<1>7. /\ f \in [1..L -> S] /\ f[1] = start
      /\ \A n \in 1..L : n # 1 => f[n] = step[n][f[n - 1]]
      BY <1>6, Zenon DEF Runs
<1>8. ASSUME NEW n \in 1..L, n # 1 PROVE f[n] = Walked(data, f[n - 1])
      <2>1. n - 1 \in 1..L /\ n \in Nat
            BY <1>1, <1>8
      <2>2. f[n - 1] \in S /\ f[n] = step[n][f[n - 1]]
            BY <1>7, <1>8, <2>1
      <2> QED BY <1>5, <2>1, <2>2
<1>9. Is(f)
      BY <1>7, <1>8
<1> HIDE DEF Is
<1> DEFINE all == CHOOSE g : Is(g)
<1>10. Is(all)
      BY <1>9, Zenon
<1>11. Walk(data, bytes) = all[L]
      BY Zenon DEF Walk, Is, L, start, Walked, Refused, Moved
<1> HIDE DEF all
<1>12. all = [at \in 1..L |-> IF at = 1 THEN start ELSE Walked(data, all[at - 1])]
      BY <1>10 DEF Is
<1>13. /\ all[1] = start
       /\ \A k \in 1..L : k # 1 => all[k] = Walked(data, all[k - 1])
      <2>1. 1 \in 1..L
            BY <1>1
      <2> QED BY <1>12, <2>1, Zenon
<1>14. \A k \in 1..L : all[k] = f[k]
      <2> DEFINE P == {d \in Nat : d + 1 <= L => all[d + 1] = f[d + 1]}
      <2>1. 0 \in P
            BY <1>7, <1>13
      <2>2. ASSUME NEW d \in P PROVE d + 1 \in P
            <3>1. (d + 1) + 1 # 1 /\ ((d + 1) + 1) - 1 = d + 1
                  BY <2>2
            <3>2. ASSUME (d + 1) + 1 <= L PROVE all[(d + 1) + 1] = f[(d + 1) + 1]
                  <4>1. (d + 1) + 1 \in 1..L /\ all[d + 1] = f[d + 1]
                        BY <1>1, <2>2, <3>2
                  <4> QED BY <1>8, <1>13, <3>1, <4>1
            <3> QED BY <2>2, <3>2
      <2>3. P \in SUBSET Nat
            OBVIOUS
      <2> HIDE DEF P
      <2>4. \A d \in Nat : d \in P
            BY <2>1, <2>2, <2>3, NatSet
      <2>5. ASSUME NEW k \in 1..L PROVE all[k] = f[k]
            <3>1. k - 1 \in P /\ (k - 1) + 1 = k /\ k <= L
                  BY <1>1, <2>4
            <3> QED BY <3>1 DEF P
      <2> QED BY <2>5
<1>15. L \in 1..L
      BY <1>1
<1>16. WalksThrough(f, data, bytes)
      BY <1>7, <1>8 DEF WalksThrough, L, S, start
<1>17. Walk(data, bytes) = f[L]
      BY <1>11, <1>14, <1>15
<1> QED BY <1>16, <1>17 DEF L

FileTypes == file \in Seq(Nat) /\ Len(file) = 2 * FileLength /\ FileLength \in Nat

LEMMA PieceIs ==
    ASSUME FileLength \in Nat, NEW bytes \in Seq(Nat), Len(bytes) = 2 * FileLength, NEW sub, sub.at \in Nat, sub.n \in Nat, FileHas(sub)
    PROVE  /\ Piece(bytes, sub) \in Seq(Nat) /\ Len(Piece(bytes, sub)) = 2 * sub.n
           /\ \A j \in 1..2 * sub.n : Piece(bytes, sub)[j] = bytes[2 * sub.at + j]
<1> DEFINE a == 2 * sub.at + 1
           b == 2 * (sub.at + sub.n)
<1>1. a \in Nat /\ b \in Nat /\ 1 <= a /\ b <= Len(bytes) /\ 1 + b - a = 2 * sub.n /\ 2 * sub.n \in Nat
      BY DEF FileHas
<1>2. Piece(bytes, sub) = SubSeq(bytes, a, b)
      BY DEF Piece
<1> HIDE DEF a, b
<1>3. /\ SubSeq(bytes, a, b) = [i \in 1..(1 + b - a) |-> bytes[a + (i - 1)]]
      BY <1>1
<1>4. ASSUME NEW i \in 1..2 * sub.n PROVE a + (i - 1) \in 1..Len(bytes)
      BY <1>1, <1>4
<1>5. \A i \in 1..2 * sub.n : bytes[a + (i - 1)] \in Nat
      BY <1>4
<1>6. SubSeq(bytes, a, b) \in Seq(Nat) /\ Len(SubSeq(bytes, a, b)) = 2 * sub.n
      <2> DEFINE m == 2 * sub.n
                 S == SubSeq(bytes, a, b)
      <2>1. m \in Nat /\ S = [i \in 1..m |-> bytes[a + (i - 1)]]
            BY <1>1, <1>3
      <2>2. \A i \in 1..m : bytes[a + (i - 1)] \in Nat
            BY <1>5
      <2> HIDE DEF m, S
      <2>3. S \in Seq(Nat) /\ Len(S) = m
            BY <2>1, <2>2
      <2> QED BY <2>3 DEF m, S
<1>7. \A j \in 1..2 * sub.n : SubSeq(bytes, a, b)[j] = bytes[a + (j - 1)]
      BY <1>1, <1>3
<1>8. \A j \in 1..2 * sub.n : a + (j - 1) = 2 * sub.at + j
      BY DEF a
<1> QED BY <1>2, <1>6, <1>7, <1>8

LEMMA AnsweredIs ==
    ASSUME FileTypes, NEW sub, sub.at \in Nat, sub.n \in Nat, FileHas(sub)
    PROVE  /\ Answered(sub) \in Seq(Nat) /\ Len(Answered(sub)) = 2 * sub.n + 2
           /\ Answered(sub)[1] = 2 * sub.n + 1 /\ Answered(sub)[2] = 6
           /\ \A j \in 1..2 * sub.n : Answered(sub)[2 + j] = Piece(file, sub)[j]
<1> DEFINE head == <<2 * sub.n + 1, 6>>
           P == Piece(file, sub)
<1>1. head \in Seq(Nat) /\ Len(head) = 2 /\ head[1] = 2 * sub.n + 1 /\ head[2] = 6
      OBVIOUS
<1>2. P \in Seq(Nat) /\ Len(P) = 2 * sub.n
      BY PieceIs DEF FileTypes
<1>3. Answered(sub) = head \o P
      BY DEF Answered
<1> HIDE DEF head, P
<1>4. /\ head \o P \in Seq(Nat) /\ Len(head \o P) = Len(head) + Len(P)
      /\ \A p \in 1..Len(head) : (head \o P)[p] = head[p]
      /\ \A p \in 1..Len(P) : (head \o P)[Len(head) + p] = P[p]
      BY <1>1, <1>2, Concatenation, Zenon
<1>5. Len(head \o P) = 2 * sub.n + 2
      BY <1>1, <1>2, <1>4
<1>6. 1 \in 1..Len(head) /\ 2 \in 1..Len(head)
      BY <1>1
<1>7. \A j \in 1..2 * sub.n : (head \o P)[2 + j] = P[j]
      BY <1>1, <1>2, <1>4
<1> QED BY <1>1, <1>3, <1>4, <1>5, <1>6, <1>7 DEF P

\* An answer, and what it carries.
Answering(subs) == [i \in 1..Len(subs) |-> Answered(subs[i])]
Carried(subs) == [i \in 1..Len(subs) |-> Piece(file, subs[i])]

LEMMA AnswerPlaces ==
    ASSUME FileTypes, NEW subs \in Subs, Len(subs) # 0, \A i \in 1..Len(subs) : FileHas(subs[i])
    PROVE  /\ FlattenSeq(Answering(subs)) \in Seq(Nat)
           /\ Len(FlattenSeq(Answering(subs))) = 2 * Registers(subs) + 2 * Len(subs)
           /\ \A i \in 1..Len(subs) : \A j \in 1..2 * subs[i].n + 2 :
                 FlattenSeq(Answering(subs))[2 * FirstRegisters(subs)[i - 1] + 2 * (i - 1) + j]
                    = Answered(subs[i])[j]
           /\ FlattenSeq(Carried(subs)) \in Seq(Nat)
           /\ Len(FlattenSeq(Carried(subs))) = 2 * Registers(subs)
           /\ \A i \in 1..Len(subs) : \A j \in 1..2 * subs[i].n :
                 FlattenSeq(Carried(subs))[2 * FirstRegisters(subs)[i - 1] + j]
                    = Piece(file, subs[i])[j]
<1> DEFINE L == Len(subs)
           first == FirstRegisters(subs)
           A == Answering(subs)
           C == Carried(subs)
           fromA == [k \in 0..L |-> 2 * first[k] + 2 * k]
           fromC == [k \in 0..L |-> 2 * first[k]]
<1>1. L \in Nat /\ L # 0 /\ L \in 1..L /\ \A i \in 1..L : subs[i].at \in Nat /\ subs[i].n \in Nat
      BY SubsAre
<1>2. /\ first \in [0..L -> Nat] /\ first[0] = 0
      /\ \A k \in 1..L : first[k] = first[k - 1] + subs[k].n
      BY FirstRegistersCount
<1>3. first[L] = Registers(subs)
      BY DEF Registers
<1>4. \A i \in 1..L : /\ A[i] = Answered(subs[i]) /\ A[i] \in Seq(Nat)
                      /\ Len(A[i]) = 2 * subs[i].n + 2
      BY <1>1, AnsweredIs DEF Answering
<1>5. \A i \in 1..L : /\ C[i] = Piece(file, subs[i]) /\ C[i] \in Seq(Nat)
                      /\ Len(C[i]) = 2 * subs[i].n
      BY <1>1, PieceIs DEF Carried, FileTypes
<1>6. A \in Seq(Seq(Nat)) /\ Len(A) = L /\ C \in Seq(Seq(Nat)) /\ Len(C) = L
      <2> DEFINE S == Seq(Nat)
      <2>1. A = [i \in 1..L |-> A[i]] /\ C = [i \in 1..L |-> C[i]]
            BY DEF Answering, Carried
      <2>2. \A i \in 1..L : A[i] \in S /\ C[i] \in S
            BY <1>4, <1>5
      <2> HIDE DEF A, C, S, L
      <2>3. A \in Seq(S) /\ Len(A) = L /\ C \in Seq(S) /\ Len(C) = L
            BY <1>1, <2>1, <2>2
      <2> QED BY <2>3 DEF S
<1> HIDE DEF A, C, first, L
<1>7. Begins(fromA, A)
      <2>1. fromA \in [0..L -> Nat] /\ fromA[0] = 0
            BY <1>1, <1>2
      <2>2. ASSUME NEW k \in 1..L PROVE fromA[k] = fromA[k - 1] + Len(A[k])
            <3>1. first[k] = first[k - 1] + subs[k].n /\ k - 1 \in 0..L /\ k \in 0..L /\ Len(A[k]) = 2 * subs[k].n + 2
                  BY <1>1, <1>2, <1>4
            <3>2. first[k - 1] \in Nat /\ subs[k].n \in Nat
                  BY <1>1, <1>2, <3>1
            <3> QED BY <3>1, <3>2
      <2> QED BY <1>6, <2>1, <2>2 DEF Begins
<1>8. Begins(fromC, C)
      <2>1. fromC \in [0..L -> Nat] /\ fromC[0] = 0
            BY <1>1, <1>2
      <2>2. ASSUME NEW k \in 1..L PROVE fromC[k] = fromC[k - 1] + Len(C[k])
            <3>1. first[k] = first[k - 1] + subs[k].n /\ k - 1 \in 0..L /\ k \in 0..L /\ Len(C[k]) = 2 * subs[k].n
                  BY <1>1, <1>2, <1>5
            <3>2. first[k - 1] \in Nat /\ subs[k].n \in Nat
                  BY <1>1, <1>2, <3>1
            <3> QED BY <3>1, <3>2
      <2> QED BY <1>6, <2>1, <2>2 DEF Begins
<1>9. \A k \in 1..L : fromA[k - 1] = 2 * first[k - 1] + 2 * (k - 1) /\ fromC[k - 1] = 2 * first[k - 1]
      BY <1>1
<1>10. fromA[L] = 2 * Registers(subs) + 2 * L /\ fromC[L] = 2 * Registers(subs)
      BY <1>1, <1>3
<1> HIDE DEF fromA, fromC
<1>60. A \in Seq(Seq(Nat)) /\ C \in Seq(Seq(Nat)) /\ L \in 1..Len(A) /\ L \in 1..Len(C)
      BY <1>1, <1>6
<1>11. PICK f : Strung(f, A) /\ FlattenSeq(A) = f[L]
      BY <1>1, <1>6, FlattenStrings, Zenon
<1>12. PICK g : Strung(g, C) /\ FlattenSeq(C) = g[L]
      BY <1>1, <1>6, FlattenStrings, Zenon
<1>13. /\ Len(f[L]) = fromA[L]
       /\ \A i \in 1..L : \A j \in 1..Len(A[i]) : f[L][fromA[i - 1] + j] = A[i][j]
      <2>1. Placed(f[L], fromA, A, L)
            BY <1>60, <1>7, <1>11, StrungPlaces, Zenon
      <2> QED BY <2>1, Zenon DEF Placed
<1>14. /\ Len(g[L]) = fromC[L]
       /\ \A i \in 1..L : \A j \in 1..Len(C[i]) : g[L][fromC[i - 1] + j] = C[i][j]
      <2>1. Placed(g[L], fromC, C, L)
            BY <1>60, <1>8, <1>12, StrungPlaces, Zenon
      <2> QED BY <2>1, Zenon DEF Placed
<1>15. f[L] \in Seq(Nat) /\ g[L] \in Seq(Nat)
      BY <1>1, <1>6, <1>11, <1>12, Zenon DEF Strung
<1>16. ASSUME NEW i \in 1..L, NEW j \in 1..2 * subs[i].n + 2
       PROVE  f[L][2 * first[i - 1] + 2 * (i - 1) + j] = Answered(subs[i])[j]
      <2>1. f[L][fromA[i - 1] + j] = A[i][j]
            BY <1>4, <1>13
      <2> QED BY <1>4, <1>9, <2>1
<1>17. ASSUME NEW i \in 1..L, NEW j \in 1..2 * subs[i].n
       PROVE  g[L][2 * first[i - 1] + j] = Piece(file, subs[i])[j]
      <2>1. g[L][fromC[i - 1] + j] = C[i][j]
            BY <1>5, <1>14
      <2> QED BY <1>5, <1>9, <2>1
<1> QED BY <1>10, <1>11, <1>12, <1>13, <1>14, <1>15, <1>16, <1>17 DEF A, C, first, L

LEMMA WalkCopies ==
    ASSUME FileTypes, NEW subs \in Subs, Len(subs) # 0, \A i \in 1..Len(subs) : FileHas(subs[i]),
           NEW mem \in Seq(Nat), Len(mem) >= 2 * Registers(subs),
           Walk(FlattenSeq(Answering(subs)), mem).fine
    PROVE  SubSeq(Walk(FlattenSeq(Answering(subs)), mem).memory, 1, 2 * Registers(subs))
              = FlattenSeq(Carried(subs))
<1> DEFINE L == Len(subs)
           first == FirstRegisters(subs)
           R == Registers(subs)
           M == Len(mem)
           data == FlattenSeq(Answering(subs))
           flat == FlattenSeq(Carried(subs))
           D == Len(data)
<1>1. /\ L \in Nat /\ L # 0 /\ R \in Nat /\ M \in Nat /\ 2 * R <= M
      /\ \A i \in 1..L : subs[i].at \in Nat /\ subs[i].n \in Nat
      BY SubsAre, FirstAreFewer
<1>2. /\ first \in [0..L -> Nat] /\ first[0] = 0 /\ first[L] = R
      /\ \A k \in 1..L : first[k] = first[k - 1] + subs[k].n
      BY FirstRegistersCount DEF Registers
<1>3. \A k \in 0..L : first[k] <= R
      BY FirstAreFewer
<1>4. /\ data \in Seq(Nat) /\ D \in Nat /\ D = 2 * R + 2 * L
      /\ flat \in Seq(Nat) /\ Len(flat) = 2 * R
      BY AnswerPlaces
<1>5. \A i \in 1..L : \A j \in 1..2 * subs[i].n + 2 :
            data[2 * first[i - 1] + 2 * (i - 1) + j] = Answered(subs[i])[j]
      BY AnswerPlaces
<1>6. \A i \in 1..L : \A j \in 1..2 * subs[i].n :
            flat[2 * first[i - 1] + j] = Piece(file, subs[i])[j]
      BY AnswerPlaces
<1>7. \A i \in 1..L : /\ Answered(subs[i])[1] = 2 * subs[i].n + 1
                      /\ \A j \in 1..2 * subs[i].n : Answered(subs[i])[2 + j] = Piece(file, subs[i])[j]
      BY <1>1, AnsweredIs
<1> HIDE DEF D, data, flat, first, R, L
<1>8. PICK walk : WalksThrough(walk, data, mem) /\ Walk(data, mem) = walk[D + 1]
      <2>1. \E walk : WalksThrough(walk, data, mem) /\ Walk(data, mem) = walk[Len(data) + 1]
            BY <1>4, WalkIs, Zenon
      <2> QED BY <2>1, Zenon DEF D
<1>9. /\ \A n \in 1..D + 1 : walk[n] \in Walks(M)
      /\ walk[1] = [memory |-> mem, to |-> 1, at |-> 1, fine |-> TRUE]
      /\ \A n \in 1..D + 1 : n # 1 => walk[n] = Walked(data, walk[n - 1])
      BY <1>8, Zenon DEF WalksThrough, D
<1>10. \A w \in Walks(M) : w.memory \in [1..M -> Nat] /\ w.to \in Nat /\ w.at \in Nat \ {0} /\ w.fine \in BOOLEAN
      BY DEF Walks
<1> HIDE DEF M
<1> DEFINE Stands(k, w) == w.fine = TRUE => /\ w.to = 2 * first[k] + 1 /\ w.at = 2 * first[k] + 2 * k + 1
                                            /\ \A p \in 1..2 * first[k] : w.memory[p] = flat[p]
           P == {k \in Nat : k <= L => Stands(k, walk[k + 1])}
<1>11. 0 \in P
      <2>1. Stands(0, walk[0 + 1])
            BY <1>2, <1>9
      <2> QED BY <2>1
<1>12. ASSUME NEW k \in P, k + 1 <= L PROVE Stands(k + 1, walk[(k + 1) + 1])
      <2> DEFINE w == walk[k + 1]
                 x == walk[(k + 1) + 1]
                 n == subs[k + 1].n
                 F == first[k]
                 F1 == first[k + 1]
      <2>0. k \in Nat /\ k + 1 <= L
            BY <1>12
      <2>01. L \in Nat /\ R \in Nat /\ D = 2 * R + 2 * L
            BY <1>1, <1>4
      <2>1. /\ k \in Nat /\ k \in 0..L /\ k + 1 \in 1..L /\ (k + 1) - 1 = k
            /\ k + 1 \in 1..D + 1 /\ (k + 1) + 1 \in 1..D + 1
            /\ (k + 1) + 1 # 1 /\ ((k + 1) + 1) - 1 = k + 1 /\ k + 1 \in 0..L
            BY ONLY <2>0, <2>01
      <2>2. Stands(k, w)
            BY <1>12, <2>1
      <2>3. w \in Walks(M) /\ x = Walked(data, w)
            BY <1>9, <2>1
      <2>4. /\ w.memory \in [1..M -> Nat] /\ w.to \in Nat /\ w.at \in Nat \ {0} /\ w.fine \in BOOLEAN
            BY <1>10, <2>3
      <2>5. /\ F \in Nat /\ F1 \in Nat /\ n \in Nat /\ F1 = F + n /\ F1 <= R
            BY <1>1, <1>2, <1>3, <2>1
      <2>50. L \in Nat /\ R \in Nat /\ M \in Nat /\ 2 * R <= M /\ D = 2 * R + 2 * L
            BY <1>1, <1>4
      <2> HIDE DEF F, F1, n
      <2> HIDE DEF w, x
      <2>6. CASE w.fine = FALSE
            <3>1. x = w
                  BY <2>3, <2>6, Zenon DEF Walked
            <3> QED BY <2>6, <3>1 DEF x
      <2>7. CASE w.fine = TRUE
            <3>1. /\ w.to = 2 * F + 1 /\ w.at = 2 * F + 2 * k + 1
                  /\ \A p \in 1..2 * F : w.memory[p] = flat[p]
                  BY <2>2, <2>7 DEF F
            <3>11. w.to = 2 * F + 1 /\ w.at = 2 * F + 2 * k + 1
                  BY <3>1
            <3>20. ~ (w.at > D)
                  BY ONLY <2>0, <2>5, <2>50, <3>11
            <3>2. ~ (w.at > Len(data))
                  BY <3>20 DEF D
            <3>3. CASE Refused(data, w)
                  <4>1. x = [w EXCEPT !.fine = FALSE]
                        BY <2>3, <2>7, <3>2, <3>3, Zenon DEF Walked
                  <4>2. x.fine = FALSE
                        BY <2>3, <4>1 DEF Walks
                  <4> QED BY <4>2 DEF x
            <3>4. CASE ~ Refused(data, w)
                  <4>1. x = Moved(data, w)
                        BY <2>3, <2>7, <3>2, <3>4, Zenon DEF Walked
                  <4>2. data[w.at] = 2 * n + 1
                        <5>1. 1 \in 1..2 * n + 2
                              BY <2>5
                        <5>2. data[2 * F + 2 * k + 1] = Answered(subs[k + 1])[1]
                              BY <1>5, <2>1, <5>1 DEF F, n
                        <5> QED BY <1>7, <2>1, <3>1, <5>2 DEF n
                  <4> DEFINE c == 2 * n + 1
                  <4>3. /\ x.memory = Copied(w.memory, w.to, data, w.at + 2, c)
                        /\ x.to = w.to + c - 1 /\ x.at = w.at + c + 1
                        BY <4>1, <4>2 DEF Moved
                  <4>30. x.to = w.to + c - 1 /\ x.at = w.at + c + 1
                        BY <4>3
                  <4>4. x.to = 2 * F1 + 1 /\ x.at = 2 * F1 + 2 * (k + 1) + 1
                        BY ONLY <2>0, <2>5, <3>11, <4>30
                  <4> DEFINE a == w.at + 2
                             copy == Copied(w.memory, w.to, data, a, c)
                  <4>40. c \in Nat /\ a \in Nat \ {0} /\ a = 2 * F + 2 * k + 3
                        BY ONLY <2>0, <2>5, <3>11
                  <4> HIDE DEF c, a
                  <4>41. /\ \A i \in 1..M : i < w.to => copy[i] = w.memory[i]
                         /\ \A i \in 1..M : w.to <= i /\ i < w.to + c /\ a + (i - w.to) <= Len(data)
                                => copy[i] = data[a + (i - w.to)]
                        <5>1. M \in Nat /\ data \in Seq(Nat) /\ w.memory \in [1..M -> Nat] /\ w.to \in Nat
                              BY <1>4, <2>4, <2>50
                        <5>2. IsCopy(copy, M, w.memory, w.to, data, a, c)
                              BY <4>40, <5>1, CopiedIs, Zenon
                        <5> QED BY <5>2, Zenon DEF IsCopy
                  <4>42. x.memory = copy
                        BY <4>3 DEF a, c
                  <4> HIDE DEF copy
                  <4>5. ASSUME NEW p \in 1..2 * F1 PROVE x.memory[p] = flat[p]
                        <5>1. p \in 1..M /\ p \in Nat /\ p >= 1
                              BY ONLY <2>5, <2>50, p \in 1..2 * F1
                        <5>2. CASE p <= 2 * F
                              <6>1. p < w.to /\ p \in 1..2 * F
                                    BY ONLY <2>5, <3>11, <5>1, <5>2
                              <6>2. x.memory[p] = w.memory[p]
                                    BY <4>41, <4>42, <5>1, <6>1
                              <6> QED BY <3>1, <6>1, <6>2
                        <5>3. CASE ~ (p <= 2 * F)
                              <6> DEFINE j == p - 2 * F
                              <6>1. j \in 1..2 * n /\ p = 2 * F + j /\ 2 + j \in 1..2 * n + 2
                                    BY ONLY <2>5, <5>1, <5>3, p \in 1..2 * F1
                              <6> HIDE DEF j
                              <6>2. w.to <= p /\ p < w.to + c
                                    BY ONLY <2>5, <3>11, <6>1 DEF c
                              <6>3. /\ a + (p - w.to) = 2 * F + 2 * k + (2 + j)
                                    /\ a + (p - w.to) <= D
                                    <7>1. p - w.to = j - 1 /\ j \in Int /\ j <= 2 * n
                                          BY ONLY <2>5, <3>11, <6>1
                                    <7>2. a + (j - 1) = 2 * F + 2 * k + (2 + j)
                                          BY ONLY <2>0, <2>5, <4>40, <7>1
                                    <7>3. 2 * F + 2 * k + (2 + j) <= 2 * F1 + 2 * (k + 1)
                                          BY ONLY <2>0, <2>5, <7>1
                                    <7>4. 2 * F1 + 2 * (k + 1) <= D
                                          BY ONLY <2>0, <2>5, <2>50
                                    <7>5. 2 * F + 2 * k + (2 + j) <= D
                                          BY ONLY <2>0, <2>5, <2>50, <7>1, <7>3, <7>4
                                    <7> QED BY <7>1, <7>2, <7>5
                              <6>4. x.memory[p] = data[a + (p - w.to)]
                                    BY <4>41, <4>42, <5>1, <6>2, <6>3 DEF D
                              <6>5. data[2 * F + 2 * k + (2 + j)] = Answered(subs[k + 1])[2 + j]
                                    BY <1>5, <2>1, <6>1 DEF F, n
                              <6>6. Answered(subs[k + 1])[2 + j] = Piece(file, subs[k + 1])[j]
                                    BY <1>7, <2>1, <6>1 DEF n
                              <6>7. flat[2 * F + j] = Piece(file, subs[k + 1])[j]
                                    BY <1>6, <2>1, <6>1 DEF F, n
                              <6> QED BY <6>1, <6>3, <6>4, <6>5, <6>6, <6>7
                        <5> QED BY <5>2, <5>3
                  <4> QED BY <4>4, <4>5 DEF x, F1
            <3> QED BY <3>3, <3>4
      <2> QED BY <2>4, <2>6, <2>7
<1>13. P \in SUBSET Nat
      OBVIOUS
<1>14. \A k \in P : k + 1 \in P
      <2> SUFFICES ASSUME NEW k \in P PROVE k + 1 \in P
            OBVIOUS
      <2>1. k + 1 \in Nat
            OBVIOUS
      <2>2. k + 1 <= L => Stands(k + 1, walk[(k + 1) + 1])
            BY <1>12
      <2> HIDE DEF Stands
      <2> QED BY <2>1, <2>2
<1> HIDE DEF P
<1>15. L \in P
      BY <1>1, <1>11, <1>13, <1>14, NatSet
<1>16. Stands(L, walk[L + 1])
      BY <1>1, <1>15 DEF P
<1> DEFINE Q == {d \in Nat : L + d <= D /\ walk[L + d + 1].fine = TRUE
                             => walk[L + d + 1] = walk[L + 1]}
<1>17. 0 \in Q
      BY <1>1
<1>18. ASSUME NEW d \in Q PROVE d + 1 \in Q
      <2> DEFINE w == walk[L + d + 1]
                 x == walk[L + (d + 1) + 1]
      <2>0. d \in Nat
            BY <1>18
      <2>01. L \in Nat /\ D \in Nat
            BY <1>1, <1>4
      <2>1. ASSUME L + (d + 1) <= D, x.fine = TRUE PROVE x = walk[L + 1]
            <3>1. /\ L + d <= D /\ L + (d + 1) + 1 \in 1..D + 1 /\ L + d + 1 \in 1..D + 1
                  /\ L + (d + 1) + 1 # 1 /\ (L + (d + 1) + 1) - 1 = L + d + 1
                  BY ONLY <2>0, <2>01, <2>1
            <3>2. x = Walked(data, w) /\ w \in Walks(M)
                  BY <1>9, <3>1
            <3>3. w.fine \in BOOLEAN /\ w.at \in Nat
                  BY <1>10, <3>2
            <3>4. w.fine = TRUE
                  <4>1. SUFFICES ASSUME w.fine = FALSE PROVE FALSE
                        BY <3>3
                  <4>2. x = w
                        BY <3>2, <4>1, Zenon DEF Walked
                  <4> QED BY <2>1, <4>1, <4>2
            <3>5. w = walk[L + 1]
                  BY <1>18, <3>1, <3>4
            <3>6. w.at = 2 * first[L] + 2 * L + 1
                  BY <1>16, <3>4, <3>5
            <3>70. w.at > D
                  BY <1>1, <1>2, <1>4, <3>6
            <3>7. w.at > Len(data)
                  BY <3>70 DEF D
            <3>8. x = w
                  BY <3>2, <3>7, Zenon DEF Walked
            <3> QED BY <3>5, <3>8
      <2>2. d + 1 \in Nat
            BY <2>0
      <2> QED BY <2>1, <2>2
<1>19. Q \in SUBSET Nat
      OBVIOUS
<1> HIDE DEF Q
<1>20. 2 * R + L \in Nat /\ L + (2 * R + L) = D
      BY <1>1, <1>4
<1>21. 2 * R + L \in Q
      <2>1. \A d \in Nat : d \in Q
            BY <1>17, <1>18, <1>19, NatSet
      <2> QED BY <1>20, <2>1
<1>22. walk[D + 1].fine = TRUE
      <2>1. D + 1 \in 1..D + 1
            BY <1>4
      <2>2. walk[D + 1].fine \in BOOLEAN
            BY <1>9, <1>10, <2>1
      <2> QED BY <1>8, <2>2 DEF data
<1>23. walk[D + 1] = walk[L + 1]
      <2>1. L + (2 * R + L) + 1 = D + 1 /\ L + (2 * R + L) <= D
            BY <1>1, <1>20
      <2> DEFINE d == 2 * R + L
      <2>2. d \in Q /\ L + d <= D /\ L + d + 1 = D + 1
            BY <1>21, <2>1
      <2> HIDE DEF d
      <2> QED BY <1>22, <2>2 DEF Q
<1>24. walk[L + 1].fine = TRUE
      BY <1>22, <1>23
<1>25. \A p \in 1..2 * first[L] : walk[L + 1].memory[p] = flat[p]
      BY <1>16, <1>24
<1> DEFINE m == walk[L + 1].memory
<1>26. m \in [1..M -> Nat]
      <2>1. D + 1 \in 1..D + 1
            BY <1>4
      <2> QED BY <1>9, <1>10, <1>23, <2>1
<1> HIDE DEF m
<1>27. SubSeq(m, 1, 2 * R) = flat
      <2>1. SubSeq(m, 1, 2 * R) = [i \in 1..2 * R |-> m[i]]
            BY <1>1, <1>26
      <2>2. flat = [i \in 1..2 * R |-> flat[i]]
            BY <1>1, <1>4
      <2>3. \A i \in 1..2 * R : m[i] = flat[i]
            BY <1>2, <1>25 DEF m
      <2> QED BY <2>1, <2>2, <2>3
<1> QED BY <1>8, <1>23, <1>27 DEF m, data, flat, R

--------------------------------------------------------------------------------
(* What a write does to the file.                                           *)
Files == [1..2 * FileLength -> Nat]

LEMMA OverwrittenIs ==
    ASSUME FileLength \in Nat, NEW bytes \in Files, NEW sub, sub.at \in Nat, sub.n \in Nat, FileHas(sub),
           NEW data, \A j \in 1..2 * sub.n : data[j] \in Nat
    PROVE  /\ Overwritten(bytes, sub, data) \in Files
           /\ \A b \in 1..2 * FileLength : b \notin (2 * sub.at + 1)..(2 * (sub.at + sub.n)) =>
                 Overwritten(bytes, sub, data)[b] = bytes[b]
           /\ \A j \in 1..2 * sub.n : Overwritten(bytes, sub, data)[2 * sub.at + j] = data[j]
<1> DEFINE O == Overwritten(bytes, sub, data)
           here == (2 * sub.at + 1)..(2 * (sub.at + sub.n))
           m == 2 * FileLength
<1>1. O = [b \in 1..m |-> IF b \in here THEN data[b - 2 * sub.at] ELSE bytes[b]]
      BY DEF Overwritten, Files
<1>2. m \in Nat /\ sub.at + sub.n <= FileLength /\ bytes \in [1..m -> Nat]
      BY DEF FileHas, Files
<1>3. \A b \in here : b - 2 * sub.at \in 1..2 * sub.n
      OBVIOUS
<1>4. \A j \in 1..2 * sub.n : 2 * sub.at + j \in here /\ (2 * sub.at + j) - 2 * sub.at = j
      OBVIOUS
<1>5. here \subseteq 1..m
      BY <1>2
<1> HIDE DEF here, O, m
<1>6. ASSUME NEW b \in 1..m PROVE O[b] \in Nat
      <2>1. CASE b \in here
            BY <1>1, <1>3, <2>1
      <2>2. CASE b \notin here
            BY <1>1, <1>2, <2>2
      <2> QED BY <2>1, <2>2
<1>7. O \in [1..m -> Nat]
      BY <1>1, <1>6
<1>8. \A b \in 1..m : b \notin here => O[b] = bytes[b]
      BY <1>1
<1>9. \A j \in 1..2 * sub.n : O[2 * sub.at + j] = data[j]
      BY <1>1, <1>4, <1>5
<1> QED BY <1>7, <1>8, <1>9 DEF O, here, m, Files

Writing == /\ FileTypes /\ frame.subs \in Subs /\ frame.data \in Seq(Nat)
           /\ Len(frame.data) = 2 * Registers(frame.subs)

LEMMA DataOfIs ==
    ASSUME Writing, NEW k \in 1..Len(frame.subs)
    PROVE  /\ DataOf(k) \in Seq(Nat) /\ Len(DataOf(k)) = 2 * frame.subs[k].n
           /\ \A j \in 1..2 * frame.subs[k].n : DataOf(k)[j] \in Nat
<1> DEFINE first == FirstRegisters(frame.subs)
           a == 2 * first[k - 1] + 1
           b == 2 * first[k]
           n == frame.subs[k].n
           L == Len(frame.data)
<1>1. /\ first[k] = first[k - 1] + n /\ first[k - 1] \in Nat /\ n \in Nat
      /\ first[k] <= Registers(frame.subs) /\ Registers(frame.subs) \in Nat
      <2>1. k \in 0..Len(frame.subs) /\ k - 1 \in 0..Len(frame.subs)
            BY SubsAre DEF Writing
      <2> QED BY <2>1, FirstRegistersCount, SubsAre, FirstAreFewer DEF Writing
<1>2. L = 2 * Registers(frame.subs)
      BY DEF Writing
<1> HIDE DEF n, first
<1>3. a \in Nat /\ b \in Nat /\ 1 <= a /\ b <= L /\ 1 + b - a = 2 * n /\ 2 * n \in Nat
      BY <1>1, <1>2
<1>4. DataOf(k) = SubSeq(frame.data, a, b)
      BY DEF DataOf, first
<1> HIDE DEF a, b
<1>5. SubSeq(frame.data, a, b) = [i \in 1..(1 + b - a) |-> frame.data[a + (i - 1)]]
      BY <1>3 DEF Writing
<1>6. ASSUME NEW i \in 1..2 * n PROVE frame.data[a + (i - 1)] \in Nat
      <2>1. a + (i - 1) \in 1..L
            BY <1>3
      <2> QED BY <2>1 DEF Writing
<1> DEFINE m == 2 * n
           D == DataOf(k)
<1>7. m \in Nat /\ D = [i \in 1..m |-> frame.data[a + (i - 1)]]
      BY <1>3, <1>4, <1>5
<1>8. \A i \in 1..m : frame.data[a + (i - 1)] \in Nat
      BY <1>6
<1> HIDE DEF m, D
<1>9. D \in Seq(Nat) /\ Len(D) = m /\ \A j \in 1..m : D[j] \in Nat
      BY <1>7, <1>8
<1> QED BY <1>9 DEF m, D, n

\* The file after each of the sub-requests.
Serves(served) ==
    /\ served[0] = file /\ \A k \in 0..Len(frame.subs) : served[k] \in Files
    /\ \A k \in 1..Len(frame.subs) :
          served[k] = IF FailsWithin(k) THEN served[k - 1]
                      ELSE Overwritten(served[k - 1], frame.subs[k], DataOf(k))

LEMMA ServedIs ==
    ASSUME Writing
    PROVE  \E served : Serves(served) /\ FileAfter = served[Len(frame.subs)]
<1> DEFINE L == Len(frame.subs)
           S == Files
           After(k, s) == IF FailsWithin(k) THEN s ELSE Overwritten(s, frame.subs[k], DataOf(k))
           step == [k \in Nat |-> [s \in S |-> IF k \in 1..L THEN After(k, s) ELSE s]]
           Is(f) == f = [k \in 0..L |-> IF k = 0 THEN file ELSE After(k, f[k - 1])]
<1>1. /\ L \in Nat /\ 0 <= L /\ 0 \in Nat /\ FileLength \in Nat
      /\ \A k \in 1..L : frame.subs[k].at \in Nat /\ frame.subs[k].n \in Nat
      BY SubsAre DEF Writing, FileTypes
<1>2. file \in S
      BY DEF Writing, FileTypes, Files
<1>3. ASSUME NEW k \in 1..L, NEW s \in S PROVE After(k, s) \in S
      <2>1. CASE FailsWithin(k)
            BY <2>1
      <2>2. CASE ~ FailsWithin(k)
            <3>1. FileHas(frame.subs[k])
                  BY <1>1, <2>2 DEF FailsWithin
            <3>2. Overwritten(s, frame.subs[k], DataOf(k)) \in S
                  BY <1>1, <3>1, OverwrittenIs, DataOfIs
            <3> QED BY <2>2, <3>2
      <2> QED BY <2>1, <2>2
<1> HIDE DEF S, After
<1>4. step \in [Nat -> [S -> S]]
      BY <1>3
<1>5. \A k \in 1..L, s \in S : step[k][s] = After(k, s)
      BY <1>1
<1> HIDE DEF step, L
<1>6. PICK f : Runs(f, S, 0, L, file, step)
      BY <1>1, <1>2, <1>4, Recursion, Zenon
<1>7. /\ f \in [0..L -> S] /\ f[0] = file
      /\ \A n \in 0..L : n # 0 => f[n] = step[n][f[n - 1]]
      BY <1>6, Zenon DEF Runs
<1>8. ASSUME NEW n \in 1..L PROVE f[n] = After(n, f[n - 1])
      <2>1. n - 1 \in 0..L /\ n \in 0..L /\ n # 0
            BY <1>1, <1>8
      <2>2. f[n - 1] \in S /\ f[n] = step[n][f[n - 1]]
            BY <1>7, <2>1
      <2> QED BY <1>5, <2>2
<1>9. Is(f)
      <2>1. \A k \in 0..L : k = 0 \/ k \in 1..L
            BY <1>1
      <2> QED BY <1>7, <1>8, <2>1
<1> HIDE DEF Is
<1> DEFINE all == CHOOSE g : Is(g)
<1>10. Is(all)
      BY <1>9, Zenon
<1>11. FileAfter = all[L]
      BY Zenon DEF FileAfter, Is, L, After
<1> HIDE DEF all
<1>12. all = [k \in 0..L |-> IF k = 0 THEN file ELSE After(k, all[k - 1])]
      BY <1>10 DEF Is
<1>13. all[0] = file /\ \A k \in 1..L : all[k] = After(k, all[k - 1])
      <2>1. 0 \in 0..L /\ \A k \in 1..L : k \in 0..L /\ k # 0
            BY <1>1
      <2> QED BY <1>12, <2>1, Zenon
<1>14. \A k \in 0..L : all[k] = f[k]
      <2> DEFINE P == {d \in Nat : d <= L => all[d] = f[d]}
      <2>1. 0 \in P
            BY <1>7, <1>13
      <2>2. ASSUME NEW d \in P PROVE d + 1 \in P
            <3>1. d + 1 \in Nat /\ (d + 1) - 1 = d
                  BY <2>2
            <3>2. ASSUME d + 1 <= L PROVE all[d + 1] = f[d + 1]
                  <4>1. d + 1 \in 1..L /\ all[d] = f[d]
                        BY <1>1, <2>2, <3>2
                  <4> QED BY <1>8, <1>13, <3>1, <4>1
            <3> QED BY <3>1, <3>2
      <2>3. P \in SUBSET Nat
            OBVIOUS
      <2> HIDE DEF P
      <2>4. \A d \in Nat : d \in P
            BY <2>1, <2>2, <2>3, NatSet
      <2>5. ASSUME NEW k \in 0..L PROVE all[k] = f[k]
            <3>1. k \in P /\ k <= L
                  BY <1>1, <2>4
            <3> QED BY <3>1 DEF P
      <2> QED BY <2>5
<1>15. L \in 0..L
      BY <1>1
<1>16. Serves(f)
      BY <1>7, <1>8, Zenon DEF Serves, L, S, After
<1>17. FileAfter = f[L]
      BY <1>11, <1>14, <1>15
<1> QED BY <1>16, <1>17 DEF L

LEMMA ServedExactly ==
    ASSUME Writing
    PROVE  /\ FileAfter \in Files
           /\ \A b \in 1..2 * FileLength : b \notin NamedBytes(frame.subs) => FileAfter[b] = file[b]
           /\ Len(frame.subs) = 1 /\ FailsWithin(1) => FileAfter = file
           /\ Len(frame.subs) # 0 /\ ~ FailsWithin(Len(frame.subs)) =>
                 /\ FileHas(frame.subs[Len(frame.subs)])
                 /\ \A j \in 1..2 * frame.subs[Len(frame.subs)].n :
                       FileAfter[2 * frame.subs[Len(frame.subs)].at + j] = DataOf(Len(frame.subs))[j]
<1> DEFINE L == Len(frame.subs)
           Left(s) == \A b \in 1..2 * FileLength : b \notin NamedBytes(frame.subs) => s[b] = file[b]
<1>1. PICK served : Serves(served) /\ FileAfter = served[L]
      BY ServedIs
<1>2. /\ L \in Nat /\ FileLength \in Nat
      /\ \A k \in 1..L : frame.subs[k].at \in Nat /\ frame.subs[k].n \in Nat
      BY SubsAre DEF Writing, FileTypes
<1>3. /\ served[0] = file /\ \A k \in 0..L : served[k] \in Files
      /\ \A k \in 1..L : served[k] = IF FailsWithin(k) THEN served[k - 1]
                                     ELSE Overwritten(served[k - 1], frame.subs[k], DataOf(k))
      BY <1>1, Zenon DEF Serves
<1> HIDE DEF L
<1>4. ASSUME NEW k \in 1..L, ~ FailsWithin(k)
      PROVE  /\ FileHas(frame.subs[k])
             /\ \A b \in 1..2 * FileLength : b \notin NamedBytes(frame.subs) => served[k][b] = served[k - 1][b]
             /\ \A j \in 1..2 * frame.subs[k].n : served[k][2 * frame.subs[k].at + j] = DataOf(k)[j]
      <2> DEFINE sub == frame.subs[k]
                 s == served[k - 1]
                 data == DataOf(k)
      <2>1. k \in 1..k /\ k - 1 \in 0..L
            BY <1>2
      <2>2. FileHas(sub) /\ s \in Files
            BY <1>3, <1>4, <2>1 DEF FailsWithin
      <2>3. \A j \in 1..2 * sub.n : data[j] \in Nat
            BY DataOfIs DEF L
      <2>4. served[k] = Overwritten(s, sub, data) /\ sub.at \in Nat /\ sub.n \in Nat
            BY <1>2, <1>3, <1>4
      <2>5. (2 * sub.at + 1)..(2 * (sub.at + sub.n)) \subseteq NamedBytes(frame.subs)
            <3> DEFINE Here(i) == (2 * frame.subs[i].at + 1)..(2 * (frame.subs[i].at + frame.subs[i].n))
            <3>1. NamedBytes(frame.subs) = UNION {Here(i) : i \in 1..L}
                  BY DEF NamedBytes, L
            <3> HIDE DEF Here
            <3>2. Here(k) \subseteq UNION {Here(i) : i \in 1..L}
                  BY <1>4, Zenon
            <3> QED BY <3>1, <3>2 DEF Here
      <2> HIDE DEF sub, s, data
      <2>6. /\ \A b \in 1..2 * FileLength : b \notin (2 * sub.at + 1)..(2 * (sub.at + sub.n)) =>
                  Overwritten(s, sub, data)[b] = s[b]
            /\ \A j \in 1..2 * sub.n : Overwritten(s, sub, data)[2 * sub.at + j] = data[j]
            BY <1>2, <2>2, <2>3, <2>4, OverwrittenIs
      <2>7. ASSUME NEW b \in 1..2 * FileLength, b \notin NamedBytes(frame.subs) PROVE served[k][b] = s[b]
            <3>1. b \notin (2 * sub.at + 1)..(2 * (sub.at + sub.n))
                  BY <2>5, <2>7
            <3> QED BY <2>4, <2>6, <3>1
      <2>8. \A j \in 1..2 * sub.n : served[k][2 * sub.at + j] = data[j]
            BY <2>4, <2>6, Zenon
      <2> QED BY <2>2, <2>7, <2>8 DEF sub, s, data
<1> DEFINE P == {k \in Nat : k <= L => Left(served[k])}
<1>5. 0 \in P
      BY <1>3
<1>6. ASSUME NEW k \in P PROVE k + 1 \in P
      <2>1. k + 1 \in Nat /\ (k + 1) - 1 = k
            BY <1>6
      <2>2. ASSUME k + 1 <= L PROVE Left(served[k + 1])
            <3>1. k + 1 \in 1..L /\ k <= L
                  BY <1>2, <2>1, <2>2
            <3>2. Left(served[k])
                  BY <1>6, <3>1
            <3>3. CASE FailsWithin(k + 1)
                  <4>1. served[k + 1] = served[k]
                        BY <1>3, <2>1, <3>1, <3>3
                  <4> QED BY <3>2, <4>1
            <3>4. CASE ~ FailsWithin(k + 1)
                  <4>1. \A b \in 1..2 * FileLength : b \notin NamedBytes(frame.subs) => served[k + 1][b] = served[k][b]
                        BY <1>4, <2>1, <3>1, <3>4
                  <4> QED BY <3>2, <4>1
            <3> QED BY <3>3, <3>4
      <2> HIDE DEF Left
      <2> QED BY <2>1, <2>2
<1>7. P \in SUBSET Nat
      OBVIOUS
<1> HIDE DEF P
<1>8. L \in P
      BY <1>2, <1>5, <1>6, <1>7, NatSet
<1>9. Left(served[L])
      BY <1>2, <1>8 DEF P
<1>10. FileAfter \in Files
      BY <1>1, <1>2, <1>3
<1>11. ASSUME L = 1, FailsWithin(1) PROVE FileAfter = file
      <2>1. 1 \in 1..L /\ 1 - 1 = 0
            BY <1>11
      <2> QED BY <1>1, <1>3, <1>11, <2>1
<1>12. ASSUME L # 0, ~ FailsWithin(L)
       PROVE  /\ FileHas(frame.subs[L])
              /\ \A j \in 1..2 * frame.subs[L].n : FileAfter[2 * frame.subs[L].at + j] = DataOf(L)[j]
      <2>1. L \in 1..L
            BY <1>2, <1>12
      <2> QED BY <1>1, <1>4, <1>12, <2>1
<1> QED BY <1>1, <1>9, <1>10, <1>11, <1>12 DEF L

--------------------------------------------------------------------------------
(* Every frame on the line, and what the application is told.               *)
Fits(subs) == memory \in Seq(Nat) /\ Len(memory) >= 2 * Registers(subs)

RequestOnLine ==
    /\ frame.subs = asked.subs /\ frame.fn = asked.op /\ result = "none"
    /\ asked.op = "read" => frame.size = Len(asked.subs) * 7 /\ Fits(asked.subs)
    /\ asked.op = "write" => /\ frame.data = Data(asked.subs)
                             /\ frame.size = Len(asked.subs) * 7 + 2 * Registers(asked.subs)

AnswerOnLine ==
    /\ frame.ex \in {"none", "EX_ILLEGAL_VALUE", "EX_ILLEGAL_ADDRESS"}
    /\ asked.op = "read" =>
          /\ file = past /\ Fits(asked.subs)
          /\ frame.ex = "none" => /\ Len(asked.subs) # 0
                                  /\ \A i \in 1..Len(asked.subs) : FileHas(asked.subs[i])
                                  /\ frame.bytes = FlattenSeq(Answering(asked.subs))
    /\ asked.op = "write" => /\ frame.ex = "none" => WriteIsExact
                             /\ frame.ex # "none" /\ Len(asked.subs) = 1 => file = past

FileInv ==
    /\ FileTypes
    /\ asked.op \in {"none", "read", "write"} /\ (asked.op # "none" => asked.subs \in Subs)
    /\ asked.op = "none" => frame = Silence /\ result = "none"
    /\ result # "none" => frame = Silence
    /\ frame # Silence /\ frame.to = "slave" => RequestOnLine
    /\ frame # Silence /\ frame.to = "master" => AnswerOnLine
    /\ TransferIsExact

LEMMA DataIs ==
    ASSUME NEW subs \in Subs
    PROVE  Data(subs) \in Seq(Nat) /\ Len(Data(subs)) = 2 * Registers(subs)
<1> DEFINE m == 2 * Registers(subs)
<1>1. 0 \in 0..Len(subs)
      BY SubsAre
<1>2. m \in Nat
      BY <1>1, FirstAreFewer
<1> HIDE DEF m
<1>3. Data(subs) = [i \in 1..m |-> 100 + i]
      BY DEF Data, m
<1>4. Data(subs) \in Seq(Nat) /\ Len(Data(subs)) = m
      BY <1>2, <1>3
<1> QED BY <1>4 DEF m

LEMMA FileStarts == FileInit => FileInv
<1> SUFFICES ASSUME FileInit PROVE FileInv
      OBVIOUS
<1> DEFINE m == 2 * FileLength
<1>1. m \in Nat /\ file = [i \in 1..m |-> i]
      BY FileRecordsAssumption DEF FileInit
<1> HIDE DEF m
<1>2. file \in Seq(Nat) /\ Len(file) = m
      BY <1>1
<1>3. FileTypes
      BY <1>2, FileRecordsAssumption DEF FileTypes, m
<1> QED BY <1>3 DEF FileInit, FileInv, TransferIsExact

LEMMA SameFile ==
    ASSUME FileTypes, UNCHANGED file
    PROVE  FileTypes'
BY DEF FileTypes

LEMMA FileAskKeeps ==
    ASSUME FileInv, NEW subs \in Requests, ReadFileRec(subs) \/ WriteFileRec(subs)
    PROVE  FileInv'
<1>1. /\ FileTypes /\ file' = file /\ past' = past /\ result' = result /\ result = "none"
      /\ asked'.subs = subs /\ asked'.op \in {"read", "write"} /\ subs \in Subs
      <2>1. CASE ReadFileRec(subs)
            BY <2>1, FileRecordsAssumption DEF FileInv, ReadFileRec, FileIdle, Subs
      <2>2. CASE WriteFileRec(subs)
            BY <2>2, FileRecordsAssumption DEF FileInv, WriteFileRec, FileIdle, Subs
      <2> QED BY <2>1, <2>2
<1>2. FileTypes'
      BY <1>1, SameFile
<1>3. frame'.to = "slave" /\ RequestOnLine'
      <2>1. CASE ReadFileRec(subs)
            <3> DEFINE m == 2 * Registers(subs) + Guard
            <3>1. 0 \in 0..Len(subs)
                  BY <1>1, SubsAre
            <3>2. m \in Nat /\ m >= 2 * Registers(subs)
                  BY <1>1, <3>1, FirstAreFewer, FileRecordsAssumption
            <3>3. memory' = [i \in 1..m |-> 0]
                  BY <2>1 DEF ReadFileRec
            <3> HIDE DEF m
            <3>4. memory' \in Seq(Nat) /\ Len(memory') = m
                  BY <3>2, <3>3
            <3>5. Fits(subs)'
                  BY <3>2, <3>4 DEF Fits
            <3>6. /\ frame'.to = "slave" /\ frame'.fn = "read" /\ frame'.subs = subs
                  /\ frame'.size = Len(subs) * 7 /\ asked'.op = "read" /\ asked'.subs = subs
                  BY <2>1 DEF ReadFileRec
            <3> QED BY <1>1, <3>5, <3>6 DEF RequestOnLine, Fits
      <2>2. CASE WriteFileRec(subs)
            <3>1. /\ frame'.to = "slave" /\ frame'.fn = "write" /\ frame'.subs = subs
                  /\ frame'.data = Data(subs) /\ asked'.op = "write" /\ asked'.subs = subs
                  /\ frame'.size = Len(subs) * 7 + 2 * Registers(subs)
                  BY <2>2 DEF WriteFileRec
            <3> QED BY <1>1, <3>1 DEF RequestOnLine
      <2> QED BY <2>1, <2>2
<1>4. TransferIsExact'
      BY <1>1 DEF TransferIsExact
<1> QED BY <1>1, <1>2, <1>3, <1>4 DEF FileInv

LEMMA ReadKeeps ==
    ASSUME FileInv, ServeRead
    PROVE  FileInv'
<1>1. /\ FileTypes /\ RequestOnLine /\ asked.op = "read" /\ frame.subs = asked.subs /\ asked.subs \in Subs
      /\ UNCHANGED <<file, memory, result, asked>> /\ past' = file /\ result = "none"
      BY DEF FileInv, ServeRead, RequestOnLine
<1>2. FileTypes' /\ TransferIsExact'
      BY <1>1, SameFile DEF TransferIsExact
<1>3. Fits(asked.subs)'
      BY <1>1 DEF RequestOnLine, Fits
<1>4. \A sub : FileHas(sub)' <=> FileHas(sub)
      BY DEF FileHas
<1>5. \A list : Answering(list)' = Answering(list)
      BY <1>1 DEF Answering, Answered, Piece
<1>6. /\ frame'.to = "master" /\ frame'.ex \in {"none", "EX_ILLEGAL_VALUE", "EX_ILLEGAL_ADDRESS"}
      /\ frame'.ex = "none" => /\ Len(asked.subs) # 0
                               /\ \A i \in 1..Len(asked.subs) : FileHas(asked.subs[i])
                               /\ frame'.bytes = FlattenSeq(Answering(asked.subs))
      <2>1. CASE frame.size \notin 7..245
            BY <2>1 DEF ServeRead, FileAnswer
      <2>2. CASE frame.size \in 7..245 /\ \E i \in 1..Len(frame.subs) : frame.subs[i].at > LastRecord \/ ~ FileHas(frame.subs[i])
            BY <2>2 DEF ServeRead, FileAnswer
      <2>3. CASE frame.size \in 7..245 /\ ~ \E i \in 1..Len(frame.subs) : frame.subs[i].at > LastRecord \/ ~ FileHas(frame.subs[i])
            <3>1. frame' = [to |-> "master", ex |-> "none", size |-> BufSize(frame.subs),
                            bytes |-> FlattenSeq([i \in 1..Len(frame.subs) |-> Answered(frame.subs[i])])]
                  BY <2>3, Zenon DEF ServeRead, FileAnswer
            <3>2. frame'.bytes = FlattenSeq(Answering(frame.subs))
                  BY <3>1, Zenon DEF Answering
            <3>3. Len(asked.subs) # 0
                  <4>1. frame.size = Len(asked.subs) * 7
                        BY <1>1 DEF RequestOnLine
                  <4>2. CASE Len(asked.subs) = 0
                        <5>1. frame.size = 0
                              BY <4>1, <4>2
                        <5> QED BY <2>3, <5>1
                  <4> QED BY <4>2
            <3>4. frame'.to = "master" /\ frame'.ex = "none"
                  BY <3>1
            <3>5. \A i \in 1..Len(asked.subs) : FileHas(asked.subs[i])
                  BY <1>1, <2>3
            <3> QED BY <1>1, <3>2, <3>3, <3>4, <3>5
      <2> QED BY <2>1, <2>2, <2>3
<1>7. AnswerOnLine'
      BY <1>1, <1>3, <1>4, <1>5, <1>6 DEF AnswerOnLine
<1>8. frame'.to # "slave"
      BY <1>6
<1> QED BY <1>1, <1>2, <1>6, <1>7, <1>8 DEF FileInv

LEMMA WriteKeeps ==
    ASSUME FileInv, ServeWrite
    PROVE  FileInv'
<1> DEFINE subs == asked.subs
           L == Len(subs)
<1>1. /\ FileTypes /\ RequestOnLine /\ asked.op = "write" /\ frame.subs = subs /\ subs \in Subs
      /\ UNCHANGED <<memory, result, asked>> /\ past' = file /\ result = "none"
      /\ frame.data = Data(subs) /\ frame.size = L * 7 + 2 * Registers(subs)
      BY DEF FileInv, ServeWrite, RequestOnLine
<1>2. TransferIsExact'
      BY <1>1 DEF TransferIsExact
<1>3. CASE frame.size \notin 9..251
      <2>1. /\ file' = file /\ frame'.to = "master" /\ frame'.ex = "EX_ILLEGAL_VALUE"
            BY <1>3 DEF ServeWrite, FileAnswer
      <2>2. FileTypes'
            BY <1>1, <2>1, SameFile
      <2>3. AnswerOnLine'
            BY <1>1, <2>1 DEF AnswerOnLine
      <2> QED BY <1>1, <1>2, <2>1, <2>2, <2>3 DEF FileInv
<1>4. CASE frame.size \in 9..251
      <2>1. /\ file' = FileAfter /\ frame'.to = "master"
            /\ frame'.ex = IF FailsWithin(Len(frame.subs)) THEN "EX_ILLEGAL_ADDRESS" ELSE "none"
            BY <1>4 DEF ServeWrite, FileAnswer
      <2>2. Writing
            BY <1>1, DataIs DEF Writing
      <2>3. /\ FileAfter \in Files
            /\ \A b \in 1..2 * FileLength : b \notin NamedBytes(subs) => FileAfter[b] = file[b]
            /\ L = 1 /\ FailsWithin(1) => FileAfter = file
            /\ L # 0 /\ ~ FailsWithin(L) =>
                  /\ FileHas(subs[L])
                  /\ \A j \in 1..2 * subs[L].n : FileAfter[2 * subs[L].at + j] = DataOf(L)[j]
            BY <1>1, <2>2, ServedExactly
      <2>4. FileTypes'
            <3> DEFINE m == 2 * FileLength
            <3>1. m \in Nat /\ file' \in [1..m -> Nat]
                  BY <1>1, <2>1, <2>3 DEF FileTypes, Files
            <3> HIDE DEF m
            <3>2. file' \in Seq(Nat) /\ Len(file') = m
                  BY <3>1
            <3> QED BY <1>1, <3>2 DEF FileTypes, m
      <2>5. L \in Nat /\ L # 0
            <3>1. L \in Nat /\ 0 \in 0..L
                  BY <1>1, SubsAre
            <3>2. CASE L = 0
                  <4>1. Registers(subs) = 0
                        BY <1>1, <3>2, FirstRegistersCount DEF Registers
                  <4>2. frame.size = 0
                        BY <1>1, <3>2, <4>1
                  <4> QED BY <1>4, <4>2
            <3> QED BY <3>1, <3>2
      <2>6. ASSUME ~ FailsWithin(L) PROVE WriteIsExact'
            <3> DEFINE sub == subs[L]
                       n == sub.n
            <3>1. sub.at \in Nat /\ n \in Nat /\ L \in 1..L /\ L \in 0..L
                  BY <1>1, <2>5, SubsAre
            <3>2. Last(subs) = sub
                  BY DEF Last
            <3>4. /\ Piece(file', sub) \in Seq(Nat) /\ Len(Piece(file', sub)) = 2 * n
                  /\ \A j \in 1..2 * n : Piece(file', sub)[j] = file'[2 * sub.at + j]
                  <4> DEFINE bytes == file'
                  <4>1. /\ FileLength \in Nat /\ bytes \in Seq(Nat) /\ Len(bytes) = 2 * FileLength
                        /\ sub.at \in Nat /\ sub.n \in Nat /\ FileHas(sub)
                        BY <2>3, <2>4, <2>5, <2>6, <3>1 DEF FileTypes
                  <4> HIDE DEF bytes, sub
                  <4>2. /\ Piece(bytes, sub) \in Seq(Nat) /\ Len(Piece(bytes, sub)) = 2 * sub.n
                        /\ \A j \in 1..2 * sub.n : Piece(bytes, sub)[j] = bytes[2 * sub.at + j]
                        BY <4>1, PieceIs
                  <4> QED BY <4>2 DEF bytes
            <3>5. DataOf(L) \in Seq(Nat) /\ Len(DataOf(L)) = 2 * n
                  BY <1>1, <2>2, <3>1, DataOfIs
            <3>6. Piece(file', sub) = DataOf(L)
                  <4> DEFINE A == Piece(file', sub)
                             B == DataOf(L)
                             m == 2 * n
                  <4>1. \A j \in 1..m : A[j] = B[j]
                        BY <2>1, <2>3, <2>5, <2>6, <3>4
                  <4>2. A \in Seq(Nat) /\ B \in Seq(Nat) /\ Len(A) = m /\ Len(B) = m
                        BY <3>4, <3>5
                  <4> HIDE DEF A, B, m
                  <4>3. A = [i \in 1..m |-> A[i]] /\ B = [i \in 1..m |-> B[i]]
                        BY <4>2
                  <4>4. A = B
                        BY <4>1, <4>3
                  <4> QED BY <4>4 DEF A, B
            <3>7. DataOf(L) = SubSeq(Data(subs), 2 * (Registers(subs) - n) + 1, 2 * Registers(subs))
                  <4> DEFINE first == FirstRegisters(subs)
                  <4>1. /\ first[L] = first[L - 1] + n /\ first[L - 1] \in Nat /\ first[L] = Registers(subs)
                        <5>1. /\ \A k \in 1..L : first[k] = first[k - 1] + subs[k].n
                              /\ first \in [0..L -> Nat] /\ first[L] = Registers(subs)
                              BY <1>1, FirstRegistersCount DEF Registers
                        <5>2. L - 1 \in 0..L
                              BY <2>5
                        <5> QED BY <3>1, <5>1, <5>2
                  <4>2. first[L - 1] = Registers(subs) - n
                        BY <3>1, <4>1
                  <4>3. DataOf(L) = SubSeq(frame.data, 2 * first[L - 1] + 1, 2 * first[L])
                        BY <1>1 DEF DataOf
                  <4> QED BY <1>1, <4>1, <4>2, <4>3
            <3>8. \A b \in DOMAIN file' : b \notin NamedBytes(subs) => file'[b] = past'[b]
                  BY <1>1, <2>1, <2>3 DEF Files
            <3> QED BY <1>1, <3>2, <3>6, <3>7, <3>8 DEF WriteIsExact
      <2>7. AnswerOnLine'
            BY <1>1, <2>1, <2>3, <2>6 DEF AnswerOnLine
      <2> QED BY <1>1, <1>2, <2>1, <2>4, <2>7 DEF FileInv
<1> QED BY <1>3, <1>4

LEMMA AnswerKeeps ==
    ASSUME FileInv, FileMasterPDU
    PROVE  FileInv'
<1>1. /\ FileTypes /\ AnswerOnLine /\ frame' = Silence /\ UNCHANGED <<file, asked, past>>
      /\ asked.op \in {"read", "write"} /\ asked.subs \in Subs
      BY DEF FileInv, FileMasterPDU
<1>2. FileTypes'
      BY <1>1, SameFile
<1>3. \A list : Carried(list)' = Carried(list)
      BY <1>1 DEF Carried, Piece
<1>4. CASE frame.ex # "none" \/ asked.op = "write"
      <2>1. /\ result' = IF frame.ex # "none" THEN frame.ex ELSE "EX_SUCCESS"
            BY <1>4 DEF FileMasterPDU
      <2>2. result' = "EX_SUCCESS" /\ asked'.op = "read" => FALSE
            BY <1>1, <1>4, <2>1 DEF AnswerOnLine
      <2>3. WriteIsExact' = WriteIsExact
            BY <1>1 DEF WriteIsExact
      <2>4. result' = "EX_SUCCESS" /\ asked'.op = "write" => WriteIsExact'
            BY <1>1, <2>1, <2>3 DEF AnswerOnLine
      <2>5. result' \notin {"none", "EX_SUCCESS", "EX_TIMEOUT"} /\ Len(asked'.subs) = 1 => file' = past'
            BY <1>1, <1>4, <2>1 DEF AnswerOnLine
      <2>6. TransferIsExact'
            BY <2>2, <2>4, <2>5 DEF TransferIsExact
      <2> QED BY <1>1, <1>2, <2>6 DEF FileInv
<1>5. CASE frame.ex = "none" /\ asked.op = "read" /\ frame.size \notin 7..245
      <2>1. result' = "EX_ILLEGAL_VALUE"
            BY <1>5 DEF FileMasterPDU
      <2>2. TransferIsExact'
            BY <1>1, <1>5, <2>1 DEF TransferIsExact, AnswerOnLine
      <2> QED BY <1>1, <1>2, <2>2 DEF FileInv
<1>6. CASE frame.ex = "none" /\ asked.op = "read" /\ frame.size \in 7..245
      <2> DEFINE subs == asked.subs
                 w == Walk(frame.bytes, memory)
      <2>1. memory' = w.memory /\ result' = IF w.fine THEN "EX_SUCCESS" ELSE "EX_ILLEGAL_VALUE"
            BY <1>6 DEF FileMasterPDU
      <2>2. /\ Len(subs) # 0 /\ \A i \in 1..Len(subs) : FileHas(subs[i])
            /\ frame.bytes = FlattenSeq(Answering(subs)) /\ file = past
            /\ memory \in Seq(Nat) /\ Len(memory) >= 2 * Registers(subs)
            BY <1>1, <1>6 DEF AnswerOnLine, Fits
      <2>3. ASSUME w.fine PROVE SubSeq(memory', 1, 2 * Registers(subs)) = FlattenSeq(Carried(subs))
            BY <1>1, <2>1, <2>2, <2>3, WalkCopies
      <2>4. ASSUME w.fine PROVE ReadIsExact'
            BY <1>1, <1>3, <2>3, <2>4 DEF ReadIsExact, Carried
      <2>5. CASE w.fine
            <3>1. result' = "EX_SUCCESS"
                  BY <2>1, <2>5
            <3> QED BY <1>1, <1>2, <1>6, <2>4, <2>5, <3>1 DEF FileInv, TransferIsExact
      <2>6. CASE ~ w.fine
            <3>1. result' = "EX_ILLEGAL_VALUE"
                  BY <2>1, <2>6
            <3>2. TransferIsExact'
                  BY <1>1, <2>2, <3>1 DEF TransferIsExact
            <3> QED BY <1>1, <1>2, <3>1, <3>2 DEF FileInv
      <2> QED BY <2>5, <2>6
<1> QED BY <1>1, <1>4, <1>5, <1>6

LEMMA FileStep == FileInv /\ [FileNext]_fileVars => FileInv'
<1> SUFFICES ASSUME FileInv, [FileNext]_fileVars PROVE FileInv'
      OBVIOUS
<1>1. CASE \E subs \in Requests : ReadFileRec(subs) \/ WriteFileRec(subs)
      BY <1>1, FileAskKeeps
<1>2. CASE ServeRead
      BY <1>2, ReadKeeps
<1>3. CASE ServeWrite
      BY <1>3, WriteKeeps
<1>4. CASE FileMasterPDU
      BY <1>4, AnswerKeeps
<1>5. CASE FileLost
      <2>1. FileTypes'
            BY <1>5, SameFile DEF FileInv, FileLost
      <2> QED BY <1>5, <2>1 DEF FileInv, FileLost, TransferIsExact
<1>6. CASE Forget
      <2>1. FileTypes'
            BY <1>6, SameFile DEF FileInv, Forget
      <2> QED BY <1>6, <2>1 DEF FileInv, Forget, TransferIsExact
<1>7. CASE UNCHANGED fileVars
      <2>1. /\ file' = file /\ frame' = frame /\ memory' = memory /\ result' = result
            /\ asked' = asked /\ past' = past
            BY <1>7 DEF fileVars
      <2>2. /\ RequestOnLine' = RequestOnLine /\ AnswerOnLine' = AnswerOnLine
            /\ TransferIsExact' = TransferIsExact
            BY <2>1 DEF RequestOnLine, AnswerOnLine, TransferIsExact, Fits, FileHas, Answering, Answered,
                        Piece, WriteIsExact, ReadIsExact
      <2>3. FileTypes'
            BY <2>1, SameFile DEF FileInv
      <2> QED BY <2>1, <2>2, <2>3 DEF FileInv
<1> QED BY <1>1, <1>2, <1>3, <1>4, <1>5, <1>6, <1>7 DEF FileNext

\* An application that is told EX_SUCCESS has read what the file held, or has written what it
\* gave and nothing else; one sub-request that is refused has changed nothing.
THEOREM FilesComeThrough == FileSpec => []TransferIsExact
<1>1. FileInv => TransferIsExact
      BY DEF FileInv
<1> QED BY <1>1, FileStarts, FileStep, PTL DEF FileSpec
================================================================================
