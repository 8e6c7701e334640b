---------------------- MODULE MasterMessagesProofs ----------------------
(***************************************************************************)
(* The walks of MasterMessages stay within their fields and put each byte  *)
(* into the field it belongs to, whatever byte counts the frames name.     *)
(***************************************************************************)
EXTENDS MasterMessages, TLAPS

\* A field holds at least one step of the walk, and in the message that is
\* walked by twos exactly one.
LEMMA FieldFacts ==
    ASSUME NEW m \in Messages
    PROVE  /\ Len(Widths[m]) \in Nat \ {0}
           /\ Stride(m) \in {1, 2}
           /\ \A f \in 1..Len(Widths[m]) :
                 /\ Widths[m][f] \in Nat
                 /\ Stride(m) <= Widths[m][f] /\ Widths[m][f] <= 60
                 /\ Stride(m) = 2 => Widths[m][f] = 2
           /\ ~Resets(m) => Widths[m] = <<4>> /\ Stride(m) = 1
<1>1. CASE m = "led_blink"
  <2>1. Widths[m] = <<2, 2, 2>> /\ Stride(m) = 2 /\ Resets(m)
    BY <1>1 DEF Widths, Stride, Resets
  <2>2. QED
    BY <2>1
<1>2. CASE m = "ping_response"
  <2>1. Widths[m] = <<10, 60>> /\ Stride(m) = 1 /\ Resets(m)
    BY <1>2 DEF Widths, Stride, Resets
  <2>2. QED
    BY <2>1
<1>3. CASE m = "frequency"
  <2>1. Widths[m] = <<4>> /\ Stride(m) = 1
    BY <1>3 DEF Widths, Stride
  <2>2. QED
    BY <2>1
<1>4. CASE m = "status"
  <2>1. /\ Widths[m] = <<10, 6, 20, 4, 2, 4, 2, 4, 4, 2>>
        /\ Stride(m) = 1 /\ Resets(m)
    BY <1>4 DEF Widths, Stride, Resets
  <2>2. QED
    BY <2>1
<1>5. CASE m = "location"
  <2>1. Widths[m] = <<4, 4>> /\ Stride(m) = 1 /\ Resets(m)
    BY <1>5 DEF Widths, Stride, Resets
  <2>2. QED
    BY <2>1
<1>6. CASE m = "mqtt"
  <2>1. Widths[m] = <<20, 2, 20, 20, 20, 20>> /\ Stride(m) = 1 /\ Resets(m)
    BY <1>6 DEF Widths, Stride, Resets
  <2>2. QED
    BY <2>1
<1>7. QED
  BY <1>1, <1>2, <1>3, <1>4, <1>5, <1>6 DEF Messages

\* While a message is walked there is room for the next step in the field; the
\* walk without a reset is in its only field, as far as it is in the message.
RoomForNext ==
    message # "none" =>
        /\ Resets(message) => pos + Stride(message) <= Widths[message][field]
        /\ ~Resets(message) => pos = at /\ field = 1

IInv == TypeOK /\ RoomForNext

LEMMA InitInv == Init => IInv
BY DEF Init, IInv, TypeOK, RoomForNext

LEMMA FilterInv ==
    ASSUME IInv, NEW m \in Messages, NEW n \in Counts, Filter(m, n)
    PROVE  IInv'
<1>1. n \in 0..255
  BY MasterMessagesAssumption
<1>2. m # "none"
  BY DEF Messages
<1>3. TypeOK'
  BY <1>1, FieldFacts DEF Filter, TypeOK
<1>4. RoomForNext'
  <2>1. Resets(m) => 0 + Stride(m) <= Widths[m][1]
    BY FieldFacts
  <2>2. QED
    BY <2>1 DEF Filter, RoomForNext, Resets, Stride
<1>5. QED
  BY <1>3, <1>4 DEF IInv

\* What the two steps of a walk share.
LEMMA WalkingFacts ==
    ASSUME IInv, Walking
    PROVE  /\ message \in Messages /\ message # "none"
           /\ count \in Counts /\ count \in 0..255
           /\ at \in Nat /\ at < count
           /\ pos \in 0..255
           /\ field \in 1..Len(Widths[message])
<1>1. count \in 0..255
  BY MasterMessagesAssumption DEF IInv, TypeOK
<1>2. count \in Counts
  BY <1>1 DEF IInv, TypeOK, Walking
<1>3. QED
  BY <1>1, <1>2 DEF IInv, TypeOK, Walking

LEMMA ByteInv == ASSUME IInv, Byte PROVE IInv'
<1>1. Walking /\ ~FieldIsFull
  BY DEF Byte
<1>2. /\ message \in Messages /\ message # "none"
      /\ count \in Counts /\ count \in 0..255
      /\ at \in Nat /\ at < count
      /\ pos \in 0..255
      /\ field \in 1..Len(Widths[message])
  BY <1>1, WalkingFacts
<1> DEFINE stride == Stride(message)
           width == Widths[message][field]
<1>3. /\ stride \in {1, 2} /\ width \in Nat /\ width <= 60
      /\ stride = 2 => width = 2
      /\ ~Resets(message) => stride = 1
  BY <1>2, FieldFacts
<1>4. /\ at' = at + stride /\ pos' = pos + stride
      /\ message' = message /\ count' = count /\ field' = field /\ reply' = reply
  BY DEF Byte
<1> HIDE DEF stride, width
<1>5. CASE Resets(message)
  <2>1. pos + stride <= width /\ pos + stride # width
    BY <1>1, <1>2, <1>5 DEF IInv, RoomForNext, FieldIsFull, stride, width
  <2>2. pos' + stride <= width /\ pos' \in 0..255
    BY <1>2, <1>3, <1>4, <2>1
  <2>3. RoomForNext'
    BY <1>4, <1>5, <2>2 DEF RoomForNext, Resets, Stride, stride, width
  <2>4. TypeOK'
    BY <1>2, <1>3, <1>4, <2>2 DEF TypeOK, IInv
  <2>5. QED
    BY <2>3, <2>4 DEF IInv
<1>6. CASE ~Resets(message)
  <2>1. pos = at /\ field = 1
    BY <1>2, <1>6 DEF IInv, RoomForNext
  <2>2. pos' = at' /\ field' = 1 /\ pos' \in 0..255
    BY <1>2, <1>3, <1>4, <1>6, <2>1
  <2>3. RoomForNext'
    BY <1>4, <1>6, <2>2 DEF RoomForNext, Resets
  <2>4. TypeOK'
    BY <1>2, <1>3, <1>4, <2>2 DEF TypeOK, IInv
  <2>5. QED
    BY <2>3, <2>4 DEF IInv
<1>7. QED
  BY <1>5, <1>6

LEMMA LastByteInv == ASSUME IInv, LastByte PROVE IInv'
<1>1. Walking /\ Resets(message)
  BY DEF LastByte, FieldIsFull
<1>2. /\ message \in Messages /\ message # "none"
      /\ count \in Counts /\ count \in 0..255
      /\ at \in Nat /\ at < count
      /\ pos \in 0..255
      /\ field \in 1..Len(Widths[message])
  BY <1>1, WalkingFacts
<1>3. /\ at' = at + Stride(message) /\ pos' = 0
      /\ field' = NextField(message, field)
      /\ message' = message /\ count' = count /\ reply' = reply
  BY DEF LastByte
<1>4. Len(Widths[message]) \in Nat \ {0} /\ Stride(message) \in {1, 2}
  BY <1>2, FieldFacts
<1>5. field' \in 1..Len(Widths[message])
  BY <1>2, <1>3, <1>4 DEF NextField
<1>6. Stride(message) <= Widths[message][field']
  BY <1>2, <1>5, FieldFacts
<1>7. RoomForNext'
  BY <1>1, <1>3, <1>4, <1>6 DEF RoomForNext, Resets, Stride
<1>8. TypeOK'
  BY <1>2, <1>3, <1>4, <1>5 DEF TypeOK, IInv
<1>9. QED
  BY <1>7, <1>8 DEF IInv

LEMMA DoneInv == ASSUME IInv, Done PROVE IInv'
<1>1. /\ message' = "none" /\ UNCHANGED <<count, at, field, pos>>
      /\ reply' \in {"EX_ILLEGAL_VALUE", "EX_ILLEGAL_ADDRESS", "REPLY_NORMAL"}
  BY DEF Done
<1>2. QED
  BY <1>1 DEF IInv, TypeOK, RoomForNext

LEMMA NextInv == IInv /\ [Next]_vars => IInv'
<1> SUFFICES ASSUME IInv, [Next]_vars PROVE IInv'
  OBVIOUS
<1>1. ASSUME NEW m \in Messages, NEW n \in Counts, Filter(m, n) PROVE IInv'
  BY <1>1, FilterInv
<1>2. CASE Byte
  BY <1>2, ByteInv
<1>3. CASE LastByte
  BY <1>3, LastByteInv
<1>4. CASE Done
  BY <1>4, DoneInv
<1>5. CASE UNCHANGED vars
  BY <1>5 DEF vars, IInv, TypeOK, RoomForNext, Resets, Stride
<1>6. QED
  BY <1>1, <1>2, <1>3, <1>4, <1>5 DEF Next

THEOREM Invariance == Spec => []IInv
BY InitInv, NextInv, PTL DEF Spec

\* The parsers of my_modbus.cpp keep their positions and states in range.
THEOREM TypeCorrect == Spec => []TypeOK
<1>1. IInv => TypeOK
  BY DEF IInv
<1>2. QED
  BY <1>1, Invariance, PTL

\* No parser of my_modbus.cpp writes behind the end of a field, for every byte
\* count that a frame can name (the update of the frequency: that names no more
\* than its four bytes).
THEOREM WalksStayInBounds == Spec => []InBounds
<1>1. IInv => InBounds
  <2> SUFFICES ASSUME IInv, Walking PROVE InBounds
    BY DEF InBounds
  <2>1. /\ message \in Messages /\ message # "none"
        /\ count \in 0..255 /\ at \in Nat /\ at < count /\ pos \in 0..255
    BY WalkingFacts
  <2>2. Stride(message) \in {1, 2} /\ (~Resets(message) => Widths[message] = <<4>>
                                        /\ Stride(message) = 1)
    BY <2>1, FieldFacts
  <2>3. CASE Resets(message)
    BY <2>1, <2>3 DEF IInv, RoomForNext, InBounds
  <2>4. CASE ~Resets(message)
    <3>1. message = "frequency" /\ pos = at /\ field = 1
      BY <2>1, <2>4 DEF IInv, RoomForNext, Resets
    <3>2. Widths[message][field] = 4 /\ Stride(message) = 1
      BY <2>2, <2>4, <3>1
    <3>3. count <= 4 => pos + Stride(message) <= Widths[message][field]
      BY <2>1, <3>1, <3>2
    <3>4. QED
      BY <3>1, <3>3 DEF InBounds
  <2>5. QED
    BY <2>3, <2>4
<1>2. QED
  BY <1>1, Invariance, PTL

--------------------------------------------------------------------------
(* Every byte lands in the field that the layout has it in.                *)

\* The fields of a message follow each other from its first byte to its last.
LEMMA LayoutFacts ==
    ASSUME NEW m \in Messages
    PROVE  /\ Before(m, 1) = 0 /\ Total(m) \in {4, 6, 8, 58, 70, 102}
           /\ Resets(m) => Total(m) # 4
           /\ \A f \in 1..Len(Widths[m]) :
                 /\ Before(m, f) \in Nat /\ Before(m, f + 1) \in Nat
                 /\ Before(m, f + 1) = Before(m, f) + Widths[m][f]
                 /\ Before(m, f + 1) <= Total(m)
                 /\ Before(m, f + 1) = Total(m) <=> f = Len(Widths[m])
<1>1. CASE m = "led_blink"
  <2>1. Widths[m] = <<2, 2, 2>> /\ Begins[m] = <<0, 2, 4, 6>>
    BY <1>1 DEF Widths, Begins
  <2>2. QED
    BY <2>1 DEF Before, Total, Resets
<1>2. CASE m = "ping_response"
  <2>1. Widths[m] = <<10, 60>> /\ Begins[m] = <<0, 10, 70>>
    BY <1>2 DEF Widths, Begins
  <2>2. QED
    BY <2>1 DEF Before, Total, Resets
<1>3. CASE m = "frequency"
  <2>1. Widths[m] = <<4>> /\ Begins[m] = <<0, 4>>
    BY <1>3 DEF Widths, Begins
  <2>2. QED
    BY <1>3, <2>1 DEF Before, Total, Resets
<1>4. CASE m = "status"
  <2>1. /\ Widths[m] = <<10, 6, 20, 4, 2, 4, 2, 4, 4, 2>>
        /\ Begins[m] = <<0, 10, 16, 36, 40, 42, 46, 48, 52, 56, 58>>
    BY <1>4 DEF Widths, Begins
  <2>2. QED
    BY <2>1 DEF Before, Total, Resets
<1>5. CASE m = "location"
  <2>1. Widths[m] = <<4, 4>> /\ Begins[m] = <<0, 4, 8>>
    BY <1>5 DEF Widths, Begins
  <2>2. QED
    BY <2>1 DEF Before, Total, Resets
<1>6. CASE m = "mqtt"
  <2>1. /\ Widths[m] = <<20, 2, 20, 20, 20, 20>>
        /\ Begins[m] = <<0, 20, 22, 42, 62, 82, 102>>
    BY <1>6 DEF Widths, Begins
  <2>2. QED
    BY <2>1 DEF Before, Total, Resets
<1>7. QED
  BY <1>1, <1>2, <1>3, <1>4, <1>5, <1>6 DEF Messages

\* A step of s within a message of t bytes, and the one that ends it.
LEMMA WithinMessage ==
    ASSUME NEW t \in {6, 8, 58, 70, 102}, NEW a \in Nat, NEW s \in {1, 2}, (a % t) + s <= t
    PROVE  (a + s) % t = IF (a % t) + s = t THEN 0 ELSE (a % t) + s
<1>1. CASE t = 6
  BY <1>1
<1>2. CASE t = 8
  BY <1>2
<1>3. CASE t = 58
  BY <1>3
<1>4. CASE t = 70
  BY <1>4
<1>5. CASE t = 102
  BY <1>5
<1>6. QED
  BY <1>1, <1>2, <1>3, <1>4, <1>5

\* The walk is where its field and position say, also behind the last byte.
InPlace ==
    (message # "none" /\ Resets(message))
        => at % Total(message) = Before(message, field) + pos

LEMMA FilterInPlace ==
    ASSUME NEW m \in Messages, NEW n \in Counts, Filter(m, n)
    PROVE  InPlace'
<1>1. /\ message' = m /\ at' = 0 /\ field' = 1 /\ pos' = 0
  BY DEF Filter
<1>2. Before(m, 1) = 0 /\ Total(m) \in {4, 6, 8, 58, 70, 102}
  BY LayoutFacts
<1>3. 0 % Total(m) = 0
  BY <1>2
<1>4. QED
  BY <1>1, <1>2, <1>3 DEF InPlace, Before, Total

\* Where the next step of a walk leads.
LEMMA NextPlace ==
    ASSUME IInv, InPlace, Walking, Resets(message)
    PROVE  LET s == Stride(message)
               t == Total(message)
           IN  /\ pos + s <= Widths[message][field]
               /\ pos + s = Widths[message][field] =>
                     (at + s) % t = IF field = Len(Widths[message]) THEN 0
                                    ELSE Before(message, field + 1)
               /\ pos + s # Widths[message][field] =>
                     (at + s) % t = Before(message, field) + pos + s
<1> DEFINE s == Stride(message)
           t == Total(message)
           w == Widths[message][field]
           b == Before(message, field)
           e == Before(message, field + 1)
           last == field = Len(Widths[message])
<1>0. /\ message \in Messages /\ message # "none" /\ at \in Nat /\ pos \in 0..255
      /\ field \in 1..Len(Widths[message])
  BY WalkingFacts, Zenon
<1>1. /\ message \in Messages /\ message # "none" /\ at \in Nat /\ pos \in Nat
      /\ field \in 1..Len(Widths[message])
  BY <1>0
<1>2. /\ s \in {1, 2} /\ t \in {6, 8, 58, 70, 102} /\ w \in Nat
      /\ b \in Nat /\ e \in Nat /\ e = b + w /\ e <= t /\ (e = t <=> last)
  BY <1>1, FieldFacts, LayoutFacts
<1>3. pos + s <= w
  BY <1>1 DEF IInv, RoomForNext
<1>4. at % t = b + pos
  BY <1>1 DEF InPlace
<1> HIDE DEF s, t, w, b, e, last
<1>5. t \in {6, 8, 58, 70, 102} /\ at \in Nat /\ s \in {1, 2} /\ (at % t) + s <= t
  BY <1>1, <1>2, <1>3, <1>4
<1>6. (at + s) % t = IF (at % t) + s = t THEN 0 ELSE (at % t) + s
  BY <1>5, WithinMessage, Zenon
<1>7. pos + s = w => (at + s) % t = IF last THEN 0 ELSE e
  BY <1>1, <1>2, <1>4, <1>6
<1>8. pos + s # w => (at + s) % t = b + pos + s
  BY <1>1, <1>2, <1>3, <1>4, <1>6
<1>9. QED
  BY <1>3, <1>7, <1>8 DEF s, t, w, b, e, last

LEMMA ByteInPlace == ASSUME IInv, InPlace, Byte PROVE InPlace'
<1>1. /\ Walking /\ ~FieldIsFull /\ UNCHANGED <<message, field>>
      /\ at' = at + Stride(message) /\ pos' = pos + Stride(message)
  BY DEF Byte
<1>2. SUFFICES ASSUME Resets(message) PROVE at' % Total(message) = Before(message, field) + pos'
  BY <1>1 DEF InPlace, Resets, Total, Before
<1>3. pos + Stride(message) # Widths[message][field]
  BY <1>1, <1>2 DEF FieldIsFull
<1>4. (at + Stride(message)) % Total(message)
        = Before(message, field) + pos + Stride(message)
  BY <1>1, <1>2, <1>3, NextPlace
<1>5. /\ pos \in Nat /\ Stride(message) \in Nat /\ Before(message, field) \in Nat
  <2>1. message \in Messages /\ pos \in 0..255 /\ field \in 1..Len(Widths[message])
    BY <1>1, WalkingFacts, Zenon
  <2>2. QED
    BY <2>1, FieldFacts, LayoutFacts
<1>6. QED
  BY <1>1, <1>4, <1>5

LEMMA LastByteInPlace == ASSUME IInv, InPlace, LastByte PROVE InPlace'
<1>1. /\ Walking /\ FieldIsFull /\ message' = message
      /\ at' = at + Stride(message) /\ pos' = 0 /\ field' = NextField(message, field)
  BY DEF LastByte
<1>2. Resets(message) /\ pos + Stride(message) = Widths[message][field]
  BY <1>1 DEF FieldIsFull
<1>3. at' % Total(message) = IF field = Len(Widths[message]) THEN 0
                             ELSE Before(message, field + 1)
  BY <1>1, <1>2, NextPlace
<1>4. /\ Before(message, 1) = 0
      /\ field # Len(Widths[message]) => Before(message, field + 1) \in Nat
  BY <1>1, WalkingFacts, LayoutFacts
<1>5. at' % Total(message) = Before(message, field') + pos'
  BY <1>1, <1>3, <1>4 DEF NextField
<1>6. QED
  BY <1>1, <1>5 DEF InPlace, Resets, Total, Before

LEMMA StepInPlace == ASSUME IInv, InPlace, [Next]_vars PROVE InPlace'
<1>1. ASSUME NEW m \in Messages, NEW n \in Counts, Filter(m, n) PROVE InPlace'
  BY <1>1, FilterInPlace
<1>2. CASE Byte
  BY <1>2, ByteInPlace
<1>3. CASE LastByte
  BY <1>3, LastByteInPlace
<1>4. CASE Done
  BY <1>4 DEF Done, InPlace
<1>5. CASE UNCHANGED vars
  BY <1>5 DEF vars, InPlace, Resets, Total, Before
<1>6. QED
  BY <1>1, <1>2, <1>3, <1>4, <1>5 DEF Next

\* The parsers of my_modbus.cpp put every byte of a message into the field its
\* layout has it in, for every byte count that a frame can name: however often
\* a frame repeats a message, and wherever it breaks off.
THEOREM BytesLandInTheirFields == Spec => []LandsInItsField
<1>1. Init => InPlace
  BY DEF Init, InPlace
<1>2. IInv /\ InPlace /\ [Next]_vars => InPlace'
  BY StepInPlace
<1>3. InPlace => LandsInItsField
  BY DEF InPlace, LandsInItsField, Walking
<1>4. QED
  BY <1>1, <1>2, <1>3, Invariance, PTL DEF Spec
==========================================================================
